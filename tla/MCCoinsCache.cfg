CONSTANTS
    o1 = o1
    o2 = o2
    c1 = c1
    c2 = c2
    burn = burn
    Spent = Spent
    OutPoints <- MCOutPoints
    Coins <- MCCoins
    Unspendable <- MCUnspendable
SPECIFICATION CoinsSpec
INVARIANTS FlagsSound NoLogicError
PROPERTY RefinesUtxoView
CHECK_DEADLOCK TRUE
