----------------------------- MODULE CoinsCache -----------------------------
(***************************************************************************)
(* The stack of views a running node keeps: the database (CCoinsViewDB),   *)
(* the cache of the tip (CoinsTip) and the cache that ConnectTip,          *)
(* DisconnectTip and the verification code put over it, apply a block to,  *)
(* and flush or drop.  One action per call that changes a cache; every     *)
(* read is an action too, since reading fills caches.                      *)
(***************************************************************************)
EXTENDS Coins

VARIABLES db,      \* the coins on disk
          tip,     \* CoinsTip().cacheCoins
          view,    \* cacheCoins of the view over CoinsTip
          open,    \* whether such a view exists
          thrown   \* whether a std::logic_error was raised

coinsVars == <<db, tip, view, open, thrown>>

CoinsTypeOK ==
    /\ db \in UtxoMaps
    /\ tip \in Caches
    /\ view \in Caches
    /\ open \in BOOLEAN
    /\ thrown \in BOOLEAN

TipCoins == Look(tip, db)

ViewCoins == Look(view, TipCoins)

InitCoinsCache ==
    /\ db \in UtxoMaps
    /\ tip = EmptyCache
    /\ view = EmptyCache
    /\ open = FALSE
    /\ thrown = FALSE

\* CCoinsViewCache view(&CoinsTip()).
OpenView ==
    /\ ~open
    /\ open' = TRUE
    /\ view' = EmptyCache
    /\ UNCHANGED <<db, tip, thrown>>

\* The view goes out of scope.
CloseView ==
    /\ open
    /\ open' = FALSE
    /\ view' = EmptyCache
    /\ UNCHANGED <<db, tip, thrown>>

\* GetCoin, HaveCoin or AccessCoin on CoinsTip.
ReadTip(o) ==
    /\ ~open
    /\ tip' = FetchCoin(tip, db, o)
    /\ UNCHANGED <<db, view, open, thrown>>

\* A miss in the view is a GetCoin on CoinsTip, which fetches in its turn.
TipAfterFetch(o) == IF view[o].in THEN tip ELSE FetchCoin(tip, db, o)

\* GetCoin, HaveCoin or AccessCoin on the view.
ReadView(o) ==
    /\ open
    /\ tip' = TipAfterFetch(o)
    /\ view' = FetchCoin(view, TipCoins, o)
    /\ UNCHANGED <<db, open, thrown>>

\* AddCoin for a transaction other than a coinbase.  ConnectBlock has asked
\* HaveCoin first (BIP30) and rejects the block if the answer is TRUE.
AddNewCoin(o, coin) ==
    LET f == FetchCoin(view, TipCoins, o) IN
    /\ open
    /\ ~HaveCoin(view, TipCoins, o)
    /\ tip' = TipAfterFetch(o)
    /\ IF AddCoinThrows(f, o, coin, FALSE)
       THEN thrown' = TRUE /\ view' = f
       ELSE view' = AddCoin(f, o, coin, FALSE) /\ UNCHANGED thrown
    /\ UNCHANGED <<db, open>>

\* AddCoins of a coinbase: the overwrite flag is TRUE and nothing is asked.
AddCoinbase(o, coin) ==
    /\ open
    /\ view' = AddCoin(view, o, coin, TRUE)
    /\ UNCHANGED <<db, tip, open, thrown>>

\* AddCoins with check_for_overwrite (RollforwardBlock) and ApplyTxInUndo:
\* HaveCoin decides the overwrite flag.
AddCheckedCoin(o, coin) ==
    LET f == FetchCoin(view, TipCoins, o)
        overwrite == HaveCoin(view, TipCoins, o) IN
    /\ open
    /\ tip' = TipAfterFetch(o)
    /\ IF AddCoinThrows(f, o, coin, overwrite)
       THEN thrown' = TRUE /\ view' = f
       ELSE view' = AddCoin(f, o, coin, overwrite) /\ UNCHANGED thrown
    /\ UNCHANGED <<db, open>>

\* SpendCoin on the view, of a coin that is there or not.
Spend(o) ==
    /\ open
    /\ tip' = TipAfterFetch(o)
    /\ view' = SpendCoin(view, TipCoins, o)
    /\ UNCHANGED <<db, open, thrown>>

\* view.Flush(): BatchWrite into CoinsTip, then the view's map is cleared.
FlushView ==
    /\ open
    /\ IF BatchWriteThrows(tip, view)
       THEN thrown' = TRUE /\ UNCHANGED <<tip, view>>
       ELSE /\ tip' = BatchWrite(tip, view)
            /\ view' = EmptyCache
            /\ UNCHANGED thrown
    /\ UNCHANGED <<db, open>>

\* CoinsTip().Flush() of FlushStateToDisk, which runs between blocks.
FlushTip ==
    /\ ~open
    /\ db' = DBWrite(db, tip)
    /\ tip' = EmptyCache
    /\ UNCHANGED <<view, open, thrown>>

\* Uncache on CoinsTip, after a rejected or evicted mempool transaction.
UncacheTip(o) ==
    /\ tip' = Uncache(tip, o)
    /\ UNCHANGED <<db, view, open, thrown>>

CoinsNext ==
    \/ OpenView \/ CloseView \/ FlushView \/ FlushTip
    \/ \E o \in OutPoints :
          \/ ReadTip(o) \/ ReadView(o) \/ Spend(o) \/ UncacheTip(o)
          \/ \E coin \in Coins :
                AddNewCoin(o, coin) \/ AddCoinbase(o, coin) \/ AddCheckedCoin(o, coin)

CoinsSpec == InitCoinsCache /\ [][CoinsNext]_coinsVars

-----------------------------------------------------------------------------
\* The FRESH flag of coins.h: an entry of cache c marked FRESH is one that the
\* view behind it does not have unspent.
FreshOver(c, base) == \A o \in OutPoints : c[o].in /\ c[o].fresh => base[o] = Spent

\* The DIRTY flag of coins.h: an entry that is not DIRTY equals what the view
\* behind it holds.
CleanOver(c, base) == \A o \in OutPoints : c[o].in /\ ~c[o].dirty => c[o].coin = base[o]

\* FRESH and DIRTY mean what coins.h:144-161 says of them, in both caches and
\* however reads, adds, spends and flushes interleave: SpendCoin and BatchWrite
\* forget FRESH coins and Flush skips clean ones on the strength of it.
FlagsSound ==
    /\ FreshOver(tip, db) /\ CleanOver(tip, db)
    /\ FreshOver(view, TipCoins) /\ CleanOver(view, TipCoins)

\* Neither AddCoin's "Attempted to overwrite an unspent coin" nor BatchWrite's
\* "FRESH flag misapplied" is ever thrown by the callers in validation.cpp.
NoLogicError == ~thrown

\* No entry of cache c is both FRESH and spent, or FRESH and not DIRTY.
FreshIsUnspent(c) ==
    \A o \in OutPoints : c[o].in /\ c[o].fresh => c[o].dirty /\ c[o].coin # Spent

\* Of the flag combinations coins.h:129-137 calls valid, "spent, FRESH, not
\* DIRTY" never arises: a FRESH entry is unspent and DIRTY, so a flush never
\* meets an entry that it would drop without telling the layer below.
NoSpentFresh == FreshIsUnspent(tip) /\ FreshIsUnspent(view)

\* The abstract maps this stack of caches stands for.
U == INSTANCE UtxoView WITH Coins <- Spendable, disk <- db, utxo <- TipCoins, work <- ViewCoins

\* Every call is a step of the abstract UTXO maps or no step at all: reads,
\* Uncache and cache fills change no map, an add or a spend changes one coin of
\* the working map, and a flush copies the whole map to the layer below.
RefinesUtxoView == U!Spec
=============================================================================
