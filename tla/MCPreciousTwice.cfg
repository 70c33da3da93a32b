CONSTANTS
    G = G
    A1 = A1
    A2 = A2
    B1 = B1
    B2 = B2
    None = None
    Blocks = {G, A1, A2, B1, B2}
    Genesis = G
    Order <- MCOrder
    Parent <- MCParent
    Proof <- MCProof
    BadBody = {}
    BadConnect = {}
    Mutated = {}
    MinBlocksToKeep = 2
    MinimumChainWork = 0
    RevSeqs = 2
    MaxCalls = 3
SPECIFICATION Spec
INVARIANT CandidatesNeverMissing
CHECK_DEADLOCK FALSE
