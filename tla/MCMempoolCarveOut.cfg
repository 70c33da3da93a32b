SPECIFICATION Spec
CONSTANTS
  tA = tA
  tB = tB
  tC = tC
  tD = tD
  tE = tE
  tK = tK
  tP = tP
  tQ = tQ
  tR = tR
  tU = tU
  NoTx = NoTx
  Tx <- MCTx
  Coins <- MCCoins
  Genesis <- MCGenesis
  Bodies <- MCBodies
  Replacement = TRUE
  LimitAncestors = 3
  LimitDescendants = 1
  Maturity = 2
  MaxReplaced = 3
  IncrementalFee = 1
  MinRelayFee = 1
  MaxUsage = 5
  MaxQueue = 3
  CacheSize = 1
  Prioritised = {tB}
  Deltas = {0, 1}
  MaxExpired = 1
  MaxHeight = 2
INVARIANTS
  CarveOutIsLast
