CONSTANTS
    G = G
    P = P
    A1 = A1
    A2 = A2
    B1 = B1
    B2 = B2
    p = p
    t = t
    u = u
    c = c
    None = None
    Spent = Spent
    Genesis = G
    Floor = P
    Blocks <- MCBlocks
    Coins <- MCBlocks
    OutPoints <- MCOutPoints
    Unspendable <- MCNone
    HasMweb <- MCHasMweb
    Parent <- MCParent
    Txs <- MCTxs
    MaxBatches = 1
SPECIFICATION Spec
INVARIANT MwebAtTip

