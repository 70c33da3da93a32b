CONSTANTS
    G = G
    A1 = A1
    A2 = A2
    B1 = B1
    None = None
    Blocks = {G, A1, A2, B1}
    Genesis = G
    Parent <- MCParent
    MaxMoves = 3
    MaxCrashes = 1
    MaxPos = 7
SPECIFICATION Spec
INVARIANT FiltersAlwaysFound
CHECK_DEADLOCK FALSE
