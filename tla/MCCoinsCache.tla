---------------------------- MODULE MCCoinsCache ----------------------------
EXTENDS CoinsCache
CONSTANTS o1, o2, c1, c2, burn
MCOutPoints == {o1, o2}
MCCoins == {c1, c2, burn}
MCUnspendable == {burn}
=============================================================================
