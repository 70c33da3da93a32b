CONSTANTS
    o1 = o1
    o2 = o2
    None = None
    Outputs <- MCOutputs
    ByteBits = 2
    MaxLeaves = 3
    MaxChain = 3
    MaxFlush = 2
    MaxActions = 2
    UndoFirst = FALSE
SPECIFICATION Spec
SYMMETRY MCSymmetry
INVARIANT FilesHoldChain
