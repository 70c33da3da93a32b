------------------------------- MODULE Coins -------------------------------
(***************************************************************************)
(* The CCoinsViewCache of coins.cpp as operators on values.                *)
(*                                                                         *)
(* A cache is a function from outpoints to entries: an entry is in the     *)
(* map or not (in), holds a coin or Spent (Coin::IsSpent), and carries the *)
(* DIRTY and FRESH flags.  What a layer answers to GetCoin is a function   *)
(* from outpoints to coins, Spent where the answer is FALSE; a base is     *)
(* always given to an operator as such a function, which is all that a     *)
(* CCoinsViewCache knows of the view behind it.                            *)
(***************************************************************************)
CONSTANTS OutPoints,    \* COutPoint values
          Coins,        \* unspent Coin values
          Unspendable,  \* the coins whose scriptPubKey.IsUnspendable()
          Spent         \* the cleared coin

ASSUME SpentAssumption == Spent \notin Coins

ASSUME UnspendableAssumption == Unspendable \subseteq Coins

\* No unspendable coin is ever stored.
Spendable == Coins \ Unspendable

MaybeCoin == Spendable \cup {Spent}

Entry == [in : BOOLEAN, coin : MaybeCoin, dirty : BOOLEAN, fresh : BOOLEAN]

NoEntry == [in |-> FALSE, coin |-> Spent, dirty |-> FALSE, fresh |-> FALSE]

Caches == [OutPoints -> Entry]

UtxoMaps == [OutPoints -> MaybeCoin]

SpentEntry == [in |-> TRUE, coin |-> Spent, dirty |-> TRUE, fresh |-> FALSE]

EmptyCache == [o \in OutPoints |-> NoEntry]

\* What GetCoin answers through cache c over base.
Look(c, base) == [o \in OutPoints |-> IF c[o].in THEN c[o].coin ELSE base[o]]

\* FetchCoin: a hit changes nothing, a miss asks the base and keeps what it
\* finds as a clean entry.  base->GetCoin answers FALSE for a spent coin, so
\* the branch that marks a fetched spent coin FRESH is never entered.
FetchCoin(c, base, o) ==
    IF c[o].in \/ base[o] = Spent
    THEN c
    ELSE [c EXCEPT ![o] = [in |-> TRUE, coin |-> base[o],
                           dirty |-> FALSE, fresh |-> FALSE]]

HaveCoin(c, base, o) == Look(c, base)[o] # Spent

\* AddCoin with possible_overwrite = FALSE throws over an unspent entry.
AddCoinThrows(c, o, coin, overwrite) ==
    coin \notin Unspendable /\ ~overwrite /\ c[o].in /\ c[o].coin # Spent

\* Mutant: the comment of AddCoin about re-adding a spent DIRTY coin, ignored.
AddCoinFreshOverDirty(c, o, coin, overwrite) ==
    IF coin \in Unspendable
    THEN c
    ELSE [c EXCEPT ![o] = [in |-> TRUE, coin |-> coin, dirty |-> TRUE,
                           fresh |-> c[o].fresh \/ ~overwrite]]

\* AddCoin never asks the base: FRESH rests on the caller's overwrite flag.
AddCoin(c, o, coin, overwrite) ==
    IF coin \in Unspendable
    THEN c
    ELSE [c EXCEPT ![o] = [in |-> TRUE, coin |-> coin, dirty |-> TRUE,
                           fresh |-> c[o].fresh \/ (~overwrite /\ ~c[o].dirty)]]

\* SpendCoin: a FRESH entry is forgotten, any other is kept as a spent one.
SpendCoin(c, base, o) ==
    LET f == FetchCoin(c, base, o) IN
    IF ~f[o].in THEN c
    ELSE IF f[o].fresh THEN [f EXCEPT ![o] = NoEntry]
    ELSE [f EXCEPT ![o] = SpentEntry]

\* One iteration of BatchWrite: the child's entry e meets the parent's us.
MergeThrows(us, e) ==
    e.in /\ e.dirty /\ us.in /\ e.fresh /\ us.coin # Spent

MergeEntry(us, e) ==
    IF ~e.in \/ ~e.dirty THEN us
    ELSE IF ~us.in
         THEN IF e.fresh /\ e.coin = Spent THEN us
              ELSE [in |-> TRUE, coin |-> e.coin, dirty |-> TRUE, fresh |-> e.fresh]
         ELSE IF us.fresh /\ e.coin = Spent THEN NoEntry
              ELSE [us EXCEPT !.coin = e.coin, !.dirty = TRUE]

BatchWriteThrows(parent, child) ==
    \E o \in OutPoints : MergeThrows(parent[o], child[o])

\* CCoinsViewCache::BatchWrite: the entries are independent of each other, so
\* the order in which the unordered map yields them does not matter.
BatchWrite(parent, child) ==
    [o \in OutPoints |-> MergeEntry(parent[o], child[o])]

\* CCoinsViewDB::BatchWrite, all its batches together: a DIRTY entry is
\* written, or erased when it is spent.
DBWrite(db, child) ==
    [o \in OutPoints |-> IF child[o].in /\ child[o].dirty THEN child[o].coin ELSE db[o]]

\* Uncache: only an entry without flags is dropped.
Uncache(c, o) ==
    IF c[o].in /\ ~c[o].dirty /\ ~c[o].fresh THEN [c EXCEPT ![o] = NoEntry] ELSE c
=============================================================================
