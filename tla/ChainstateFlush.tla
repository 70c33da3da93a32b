-------------------------- MODULE ChainstateFlush --------------------------
(***************************************************************************)
(* The chainstate database across flushes, crashes and restarts: blocks    *)
(* are connected and disconnected in memory, FlushStateToDisk writes the   *)
(* block index and then the coins in any number of batches, the process    *)
(* may stop between any two of them, and ReplayBlocks repairs at startup   *)
(* what an interrupted flush left.                                         *)
(*                                                                         *)
(* The extension block's state on disk is written with the last batch; it  *)
(* is represented by the block after which it holds.                       *)
(***************************************************************************)
EXTENDS Coins, BlockPaths

CONSTANTS Txs,         \* block.vtx: sequences of [ins, outs], the coinbase first
          HasMweb,     \* the blocks with an extension block
          Floor,       \* a block that is never disconnected
          MaxBatches   \* bound on the partial batches of one flush

\* A coin knows its height and whether it is a coinbase: here the block that
\* made it.  No output of the modelled blocks is unspendable.
ASSUME CoinsAssumption == Coins = Blocks /\ Unspendable = {}

ASSUME TxsAssumption ==
    /\ Txs \in [Blocks -> Seq([ins : SUBSET OutPoints, outs : SUBSET OutPoints])]
    /\ MaxBatches \in Nat

\* The UTXO sets along block b, by the meaning of its transactions, when u is
\* the one before it.
Applied(u, b) ==
    LET after[i \in 0..Len(Txs[b])] ==
          IF i = 0 THEN u
          ELSE [o \in OutPoints |-> IF o \in Txs[b][i].ins THEN Spent
                                    ELSE IF o \in Txs[b][i].outs THEN b ELSE after[i - 1][o]]
    IN  after

\* The UTXO set of the chain that ends in b.  The outputs of Genesis are never
\* added.
UtxoAt[b \in Blocks \cup {None}] ==
    IF b \in {None, Genesis} THEN [o \in OutPoints |-> Spent]
    ELSE Applied(UtxoAt[Parent[b]], b)[Len(Txs[b])]

\* The blocks are valid: a transaction spends what is there (CheckTxInputs) and
\* makes what is not (BIP30).
ASSUME ValidAssumption ==
    \A b \in Blocks \ {Genesis} : \A i \in DOMAIN Txs[b] :
       LET before == Applied(UtxoAt[Parent[b]], b)[i - 1] IN
       /\ \A o \in Txs[b][i].ins : before[o] # Spent
       /\ \A o \in Txs[b][i].outs : before[o] = Spent

VARIABLES db,       \* DB_COIN
          best,     \* DB_BEST_BLOCK
          heads,    \* DB_HEAD_BLOCKS
          mwebDb,   \* the extension block state on disk
          index,    \* the block index database
          undo,     \* the undo files: for each block, for each transaction, the coins it spent
          phase,    \* of the process
          tip,      \* the best block of CoinsTip, or of the cache ReplayBlocks flushes
          cache,    \* its cacheCoins
          mweb,     \* its extension block view: the state, and the best header
          mem,      \* the block index in memory
          batches   \* partial batches written in this flush

disk == <<db, best, heads, mwebDb, index, undo>>
memory == <<phase, tip, cache, mweb, mem, batches>>
vars == <<disk, memory>>

Maybe(S) == S \cup {None}

TypeOK ==
    /\ db \in UtxoMaps /\ cache \in Caches
    /\ best \in Maybe(Blocks) /\ tip \in Maybe(Blocks)
    /\ heads \in {<<>>} \cup (Blocks \X Maybe(Blocks))
    /\ mwebDb \in Maybe(HasMweb)
    /\ mweb \in [at : Maybe(HasMweb), header : Maybe(HasMweb)]
    /\ index \subseteq Blocks /\ mem \subseteq Blocks
    /\ phase \in {"off", "run", "flush"}
    /\ batches \in 0..MaxBatches

\* The last block with an extension block up to b.
MwebTip[b \in Blocks \cup {None}] ==
    IF b = None \/ b \in HasMweb THEN b ELSE MwebTip[Parent[b]]

\* CoinsViewDB::Open is given the header of the block at DB_BEST_BLOCK.
HeaderOf(b) == IF b \in HasMweb THEN b ELSE None

-----------------------------------------------------------------------------
AllIns(b) == UNION {Txs[b][i].ins : i \in DOMAIN Txs[b]}
AllOuts(b) == UNION {Txs[b][i].outs : i \in DOMAIN Txs[b]}

\* The cache c after calls that look the outpoints S up in it.
Fetched(c, base, S) == [o \in OutPoints |-> IF o \in S THEN FetchCoin(c, base, o)[o] ELSE c[o]]

SpendAll(c, base, S) == [o \in OutPoints |-> IF o \in S THEN SpendCoin(c, base, o)[o] ELSE c[o]]

\* AddCoins, and AddCoin for each coin of undo data: the coins that may be
\* overwritten are given.
AddAll(c, S, coin, may) ==
    [o \in OutPoints |-> IF o \in S THEN AddCoin(c, o, coin[o], o \in may)[o] ELSE c[o]]

\* Those that a caller who asks the view finds there.
Present(c, base) == {o \in OutPoints : HaveCoin(c, base, o)}

From(b) == [o \in OutPoints |-> b]

\* UpdateCoins on transaction i of block b.
UpdateCoins(c, base, b, i) ==
    AddAll(SpendAll(c, base, Txs[b][i].ins), Txs[b][i].outs, From(b), IF i = 1 THEN OutPoints ELSE {})

\* The view after the first i transactions of b.
Connecting(c, base, b) ==
    LET view[i \in 0..Len(Txs[b])] == IF i = 0 THEN c ELSE UpdateCoins(view[i - 1], base, b, i)
    IN  view

ConnectBlock(c, base, b) == Connecting(c, base, b)[Len(Txs[b])]

\* Mutant: the undo data is taken after the coins are spent.
BlockUndoLate(c, base, b) ==
    LET view == Connecting(c, base, b) IN
    [i \in DOMAIN Txs[b] |-> [o \in Txs[b][i].ins |-> Look(view[i], base)[o]]]

\* The undo data of b: the coins that each transaction's SpendCoin moved out.
BlockUndo(c, base, b) ==
    LET view == Connecting(c, base, b) IN
    [i \in DOMAIN Txs[b] |-> [o \in Txs[b][i].ins |-> Look(view[i - 1], base)[o]]]

\* DisconnectBlock on one transaction: its outputs go, its inputs come back.
DisconnectTx(c, base, b, i) ==
    LET spent == SpendAll(c, base, Txs[b][i].outs) IN
    AddAll(spent, Txs[b][i].ins, undo[b][i], Present(spent, base))

\* Mutant: the transactions are undone in the block's order.
DisconnectingForward(c, base, b) ==
    LET view[k \in 0..Len(Txs[b])] == IF k = 0 THEN c ELSE DisconnectTx(view[k - 1], base, b, k)
    IN  view

\* The view after the last k transactions of b are undone, the last one first.
Disconnecting(c, base, b) ==
    LET view[k \in 0..Len(Txs[b])] ==
          IF k = 0 THEN c ELSE DisconnectTx(view[k - 1], base, b, Len(Txs[b]) + 1 - k)
    IN  view

DisconnectBlock(c, base, b) == Disconnecting(c, base, b)[Len(Txs[b])]

\* Whether DisconnectBlock returns DISCONNECT_OK: what the transaction made is
\* there, and what it spent is not.
DisconnectsClean(c, base, b) ==
    LET view == Disconnecting(c, base, b) IN
    \A i \in DOMAIN Txs[b] :
       /\ \A o \in Txs[b][i].outs : Look(view[Len(Txs[b]) - i], base)[o] = b
       /\ \A o \in Txs[b][i].ins :
             ~HaveCoin(SpendAll(view[Len(Txs[b]) - i], base, Txs[b][i].outs), base, o)

RollforwardTx(c, base, b, i) ==
    LET spent == SpendAll(c, base, Txs[b][i].ins) IN
    AddAll(spent, Txs[b][i].outs, From(b), Present(spent, base))

Rollforward(c, base, b) ==
    LET view[i \in 0..Len(Txs[b])] == IF i = 0 THEN c ELSE RollforwardTx(view[i - 1], base, b, i)
    IN  view

RollforwardBlock(c, base, b) == Rollforward(c, base, b)[Len(Txs[b])]

\* mw::CoinsViewCache::ApplyBlock and UndoBlock on [at, header].
MwebApply(m, b) == IF b \in HasMweb THEN [at |-> b, header |-> b] ELSE m

MwebUndo(m, b) ==
    IF b \in HasMweb THEN [at |-> MwebTip[Parent[b]], header |-> MwebTip[Parent[b]]] ELSE m

\* CoinsViewCache::Flush returns at once when there is no best header.
MwebFlush(base, m) == IF m.header = None THEN base ELSE m.at

-----------------------------------------------------------------------------
\* ReplayBlocks: LastCommonAncestor of the two heads.  With no old tip, the new
\* branch is rolled forward from height 1.
Fork == IF heads[2] = None THEN Genesis ELSE LastCommonAncestor(heads[2], heads[1])

\* How many blocks are rolled back.
OldDepth == IF heads[2] = None THEN 0 ELSE Height[heads[2]] - Height[Fork]

\* pindexOld after k steps of the rollback.
OldBranch ==
    LET at[k \in 0..OldDepth] == IF k = 0 THEN heads[2] ELSE Parent[at[k - 1]]
    IN  at

\* Mutant: the old branch is rolled back from the fork up.
RolledBackUpwards ==
    LET view[k \in 0..OldDepth] ==
          IF k = 0 THEN EmptyCache ELSE DisconnectBlock(view[k - 1], db, OldBranch[OldDepth - k])
    IN  view[OldDepth]

\* The cache over db after the old branch is rolled back.
RolledBack ==
    LET view[k \in 0..OldDepth] ==
          IF k = 0 THEN EmptyCache ELSE DisconnectBlock(view[k - 1], db, OldBranch[k - 1])
    IN  view[OldDepth]

\* After the new branch, up to block b, is rolled forward.
RolledForward ==
    LET view[b \in Blocks] ==
          IF b \in Path[Fork] THEN RolledBack ELSE RollforwardBlock(view[Parent[b]], db, b)
    IN  view

ReplayedCache == RolledForward[heads[1]]

ReplayedMweb ==
    LET view[k \in 0..OldDepth] ==
          IF k = 0 THEN [at |-> mwebDb, header |-> None] ELSE MwebUndo(view[k - 1], OldBranch[k - 1])
    IN  view[OldDepth]

\* The conditions under which startup gets past ReplayBlocks and LoadChainTip:
\* the blocks are in the index, and DisconnectBlock can read the undo data of
\* those it is to roll back.
CanStart ==
    /\ best # None => Path[best] \subseteq index
    /\ heads # <<>> =>
          /\ Path[heads[1]] \subseteq index
          /\ heads[2] # None =>
                /\ Path[heads[2]] \subseteq index
                /\ \A b \in Path[heads[2]] \ Path[Fork] : DOMAIN undo[b] = DOMAIN Txs[b]

NoMweb == [at |-> None, header |-> None]

NotRunning ==
    /\ phase' = "off" /\ tip' = None /\ cache' = EmptyCache
    /\ mweb' = NoMweb /\ mem' = {} /\ batches' = 0

Init ==
    /\ db = [o \in OutPoints |-> Spent] /\ best = None /\ heads = <<>>
    /\ mwebDb = None /\ index = {}
    /\ undo = [b \in Blocks |-> <<>>]
    /\ phase = "off" /\ tip = None /\ cache = EmptyCache
    /\ mweb = NoMweb /\ mem = {} /\ batches = 0

\* Startup on a consistent or an empty database; an empty one connects the
\* genesis block, whose outputs are never added.
StartConsistent ==
    /\ phase = "off" /\ heads = <<>> /\ CanStart
    /\ phase' = "run"
    /\ tip' = IF best = None THEN Genesis ELSE best
    /\ mem' = index \cup {Genesis}
    /\ mweb' = [at |-> mwebDb, header |-> HeaderOf(best)]
    /\ UNCHANGED <<disk, cache, batches>>

\* Startup after an interrupted flush, up to cache.Flush() in ReplayBlocks.
\* There is no best block, so the extension block view opens without a header.
StartReplay ==
    /\ phase = "off" /\ heads # <<>> /\ CanStart
    /\ phase' = "flush"
    /\ tip' = heads[1]
    /\ cache' = ReplayedCache
    /\ mweb' = ReplayedMweb
    /\ mem' = index
    /\ UNCHANGED <<disk, batches>>

\* ConnectTip: a view over CoinsTip, flushed into it.  Undo data is written
\* the first time.
ConnectTip(b) ==
    LET coins == Look(cache, db) IN
    /\ phase = "run"
    /\ b # Genesis /\ Parent[b] = tip
    /\ mweb.at = MwebTip[tip] /\ mweb.header = MwebTip[tip]
    /\ cache' = BatchWrite(Fetched(cache, db, AllIns(b) \cup AllOuts(b)),
                           ConnectBlock(EmptyCache, coins, b))
    /\ mweb' = MwebApply(mweb, b)
    /\ undo' = IF b \in mem THEN undo ELSE [undo EXCEPT ![b] = BlockUndo(EmptyCache, coins, b)]
    /\ mem' = mem \cup {b}
    /\ tip' = b
    /\ UNCHANGED <<db, best, heads, mwebDb, index, phase, batches>>

\* DisconnectTip: anything but DISCONNECT_OK is an error.
DisconnectTip ==
    LET coins == Look(cache, db) IN
    /\ phase = "run" /\ tip \notin {Genesis, Floor}
    /\ DisconnectsClean(EmptyCache, coins, tip)
    /\ mweb.at = MwebTip[tip]
    /\ cache' = BatchWrite(Fetched(cache, db, AllIns(tip) \cup AllOuts(tip)),
                           DisconnectBlock(EmptyCache, coins, tip))
    /\ mweb' = LET m == MwebUndo(mweb, tip) IN IF m.header = None THEN mweb ELSE m
    /\ tip' = Parent[tip]
    /\ UNCHANGED <<disk, phase, mem, batches>>

\* FlushStateToDisk with fPeriodicWrite only.
WriteIndex ==
    /\ phase = "run"
    /\ index' = mem
    /\ UNCHANGED <<db, best, heads, mwebDb, undo, memory>>

\* Mutant: the coins are flushed without the block index.
BeginFlushCoinsOnly ==
    /\ phase = "run"
    /\ phase' = "flush"
    /\ UNCHANGED <<disk, tip, cache, mweb, mem, batches>>

\* FlushStateToDisk with fDoFullFlush, up to CoinsTip().Flush(): block and undo
\* files and the block index first.
BeginFlush ==
    /\ phase = "run"
    /\ index' = mem
    /\ phase' = "flush"
    /\ UNCHANGED <<db, best, heads, mwebDb, undo, tip, cache, mweb, mem, batches>>

Dirty(c) == {o \in OutPoints : c[o].in /\ c[o].dirty}

Only(c, S) == [o \in OutPoints |-> IF o \in S THEN c[o] ELSE NoEntry]

\* Mutant: an interrupted replay starts its transition from nowhere.
OldTipForgotten == best

\* The old tip that CCoinsViewDB::BatchWrite records.
OldTip == IF best = None /\ heads # <<>> THEN heads[2] ELSE best

HeadBlocks == <<tip, OldTip>>

\* CCoinsViewDB::BatchWrite: a batch of entries that reached -dbbatchsize.
PartialBatch(S) ==
    /\ phase = "flush" /\ batches < MaxBatches
    /\ S # {} /\ S \subseteq Dirty(cache)
    /\ db' = DBWrite(db, Only(cache, S))
    /\ cache' = Only(cache, OutPoints \ S)
    /\ best' = None
    /\ heads' = HeadBlocks
    /\ batches' = batches + 1
    /\ UNCHANGED <<mwebDb, index, undo, phase, tip, mweb, mem>>

\* The last batch, with the extension block's changes.
FinalBatch ==
    /\ phase = "flush"
    /\ db' = DBWrite(db, cache)
    /\ cache' = EmptyCache
    /\ best' = tip /\ heads' = <<>>
    /\ mwebDb' = MwebFlush(mwebDb, mweb)
    /\ mweb' = [at |-> mwebDb', header |-> mweb.header]
    /\ phase' = "run" /\ batches' = 0
    /\ UNCHANGED <<index, undo, tip, mem>>

Crash ==
    /\ phase # "off"
    /\ NotRunning
    /\ UNCHANGED disk

Next ==
    \/ StartConsistent \/ StartReplay \/ Crash
    \/ \E b \in Blocks : ConnectTip(b)
    \/ DisconnectTip
    \/ WriteIndex \/ BeginFlush \/ FinalBatch
    \/ \E S \in SUBSET OutPoints : PartialBatch(S)

Spec == Init /\ [][Next]_vars

-----------------------------------------------------------------------------
\* A running node's coins are the UTXO set of its tip, with the heights of the
\* tip's own branch, after any reorganisations, interrupted flushes and
\* replays, interrupted replays included.
CoinsAtTip == phase = "run" => Look(cache, db) = UtxoAt[tip]

\* At every moment, the coins on disk are a UTXO set or can be replayed to one:
\* what ReplayBlocks would compute from the database as it is now is the UTXO
\* set of the block it was being moved to.
DiskIsRecoverable ==
    IF heads = <<>> THEN best # None => db = UtxoAt[best]
    ELSE CanStart => Look(ReplayedCache, db) = UtxoAt[heads[1]]

\* Startup never fails with "reorganization to/from unknown block", with
\* missing undo data, or at LoadChainTip: the block index is on disk before the
\* coins that refer to it.
StartNeverFails == CanStart

\* The node never aborts in DisconnectTip: its own tip always disconnects with
\* DISCONNECT_OK, however the coins got there.
TipDisconnects ==
    phase = "run" /\ tip # Genesis => DisconnectsClean(EmptyCache, Look(cache, db), tip)

\* A transition that was interrupted is finished as it was begun: until it is
\* complete, replays and interrupted replays keep both its ends, which the
\* assertion in BatchWrite (txdb.cpp:110) and the rollback rely on.
TransitionIsKept == [][heads # <<>> /\ heads' # <<>> => heads' = heads]_vars

\* init.cpp:1699: after ReplayBlocks "The on-disk coinsdb is now in a good
\* state".  The extension block's state and header are those of the tip.
MwebAtTip == phase = "run" => mweb = [at |-> MwebTip[tip], header |-> MwebTip[tip]]
=============================================================================
