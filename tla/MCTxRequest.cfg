SPECIFICATION FairSpec
CONSTANTS
  P1 = P1
  P2 = P2
  P3 = P3
  H1 = H1
  H2 = H2
  Peer <- MCPeer
  TxHash <- MCTxHash
  Txs <- MCTxs
  Missing <- MCMissing
  Announcers <- MCAnnouncers
  Senders = {P1}
  Preferred = {P1}
  WtxidRelay = {P1}
  Relay = {P3}
  LowBits <- MCLowBits
  TopBit = 2
  MaxLag = 1
  NONPREF_PEER_TX_DELAY = 1
  TXID_RELAY_DELAY = 1
  OVERLOADED_PEER_TX_DELAY = 1
  GETDATA_TX_INTERVAL = 2
  MAX_PEER_TX_ANNOUNCEMENTS = 2
  MAX_PEER_TX_REQUEST_IN_FLIGHT = 1
INVARIANTS
  SanityCheck
CHECK_DEADLOCK FALSE
PROPERTIES
  KeepsTheRules
  CandidatesSettle
