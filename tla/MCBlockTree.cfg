CONSTANTS
    G = G
    A1 = A1
    A2 = A2
    B1 = B1
    B2 = B2
    None = None
    Blocks = {G, A1, A2, B1, B2}
    Genesis = G
    Order <- MCOrder
    Parent <- MCLongParent
    Proof <- MCLongProof
    BadBody = {B2}
    BadConnect = {A2}
    Mutated = {}
    MinBlocksToKeep = 2
    MinimumChainWork = 0
    RevSeqs = 2
    MaxCalls = 2
SPECIFICATION Spec
INVARIANTS CandidatesComplete FailedHasCause ActiveChainNotFailed BestChainIsActive NobodyLeftBehind
PROPERTY ActivationTerminates
CHECK_DEADLOCK FALSE
