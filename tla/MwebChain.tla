----------------------------- MODULE MwebChain -----------------------------
(***************************************************************************)
(* A node's extension-block state as blocks are connected and              *)
(* disconnected at the tip, flushed to the database and the MMR files, and *)
(* the process stops at any point in between.                              *)
(*                                                                         *)
(* ConnectTip and DisconnectTip work on a temporary view and flush it into *)
(* the view of the tip while cs_main is held, so each is one action.  A    *)
(* flush to disk writes two files and then one database batch; each write  *)
(* is an action, and the process may stop between any two.                 *)
(***************************************************************************)
EXTENDS MwebView

CONSTANTS MaxChain,         \* bound on the extension blocks in the chain
          MaxFlush,         \* bound on the MMR file index
          MaxActions,       \* bound on the unflushed actions on an output
          UndoFirst         \* whether the first extension block is ever undone

VARIABLES chain,    \* the extension blocks of the active chain, with undo data
          tip,      \* the CoinsViewCache of CoinsTip
          coins,    \* database: CoinDB
          index,    \* database: MMRInfo::index
          stored,   \* database: the chain DB_BEST_BLOCK stands for
          lsFiles,  \* the leaf set files, by file index
          mmrFiles, \* the output PMMR's hash files, by file index
          step,     \* progress of a flush to disk
          deep      \* history: a block was undone that had been flushed

vars == <<chain, tip, coins, index, stored, lsFiles, mmrFiles, step, deep>>
disk == <<coins, index, stored, lsFiles, mmrFiles>>

Steps == {"run", "leafset", "pmmr", "committed", "cleaned"}

TypeOK ==
    /\ Len(chain) <= MaxChain /\ Len(stored) <= MaxChain
    /\ \A o \in Outputs : coins[o] \in 0..MaxLeaves \cup {None}
    /\ index \in 0..MaxFlush
    /\ tip.ls.next \in 0..MaxLeaves /\ NumLeaves(tip.mmr) \in 0..MaxLeaves
    /\ step \in Steps /\ deep \in BOOLEAN

HeaderOf(c) == IF c = <<>> THEN None ELSE Last(c).hdr

NoLeafSet == [next |-> 0, bytes |-> NoBytes]

\* What the database view answers while no flush is in progress.
Base == [coins |-> coins, bytes |-> lsFiles[index].bytes, nodes |-> mmrFiles[index]]

Init ==
    /\ chain = <<>> /\ stored = <<>>
    /\ tip = NewCache(None, 0, 0)
    /\ coins = [o \in Outputs |-> None]
    /\ index = 0
    /\ lsFiles = [i \in 0..MaxFlush |-> IF i = 0 THEN NoLeafSet ELSE None]
    /\ mmrFiles = [i \in 0..MaxFlush |-> IF i = 0 THEN <<>> ELSE None]
    /\ step = "run" /\ deep = FALSE

TempView == NewCache(tip.hdr, tip.ls.next, NumLeaves(tip.mmr))

TipAnswers == Resolve(tip, Base)

-----------------------------------------------------------------------------
\* What the chain says the state is: its outputs in order, and which of their
\* leaves are unspent.
IdealLeaves(c) == FoldLeft(LAMBDA s, b : s \o b.outs, <<>>, c)

\* The unspent outputs of a chain and their leaves.
IdealCoins(c) ==
    LET Apply(u, b) ==
            [o \in Outputs |-> IF o \in Range(b.ins) THEN None
                               ELSE IF o \in Range(b.outs)
                               THEN b.first + (CHOOSE i \in DOMAIN b.outs : b.outs[i] = o) - 1
                               ELSE u[o]]
    IN  FoldLeft(Apply, [o \in Outputs |-> None], c)

IdealBytes(c) ==
    LET unspent == Range(IdealCoins(c)) \ {None} IN
    [b \in Bytes |-> {i \in 0..ByteBits - 1 : b * ByteBits + i \in unspent}]

IdealNodes(c) ==
    LET leaves == IdealLeaves(c) IN
    FoldLeft(LAMBDA nodes, i : AddLeaf(nodes, i - 1, leaves[i]), <<>>, [i \in DOMAIN leaves |-> i])

IdealRoots(c) ==
    [num |-> Len(IdealLeaves(c)),
     outputs |-> Root(IdealNodes(c), Len(IdealLeaves(c))),
     leafset |-> LeafSetRoot(IdealBytes(c), Len(IdealLeaves(c)))]

\* The bodies a block may have: distinct outputs, and inputs.
Bodies == {b \in [ins : {<<>>} \cup {<<o>> : o \in Outputs},
                  outs : {<<>>} \cup {<<o>> : o \in Outputs}
                         \cup {<<r[1], r[2]>> : r \in {q \in Outputs \X Outputs : q[1] # q[2]}}] :
             Len(b.ins) + Len(b.outs) > 0}

\* The consensus rules on a body: outputs are new, inputs are unspent or made
\* by the block itself.
ValidBody(c, b) ==
    /\ \A i \in DOMAIN b.outs : IdealCoins(c)[b.outs[i]] = None
    /\ \A i \in DOMAIN b.ins : IdealCoins(c)[b.ins[i]] # None \/ b.ins[i] \in Range(b.outs)

\* The block another node builds with this body on top of chain c.  Headers
\* with equal roots on different parents differ in their kernel offsets.
BlockOn(c, b) ==
    LET link == [ins |-> b.ins, outs |-> b.outs, first |-> Len(IdealLeaves(c))]
        roots == IdealRoots(Append(c, link)) IN
    [ins |-> b.ins, outs |-> b.outs, prev |-> HeaderOf(c),
     hdr |-> [height |-> Len(c) + 1, roots |-> roots]]

Link(c, blk, undo) ==
    [ins |-> blk.ins, outs |-> blk.outs, first |-> Len(IdealLeaves(c)), hdr |-> blk.hdr, undo |-> undo]

-----------------------------------------------------------------------------
\* ConnectTip: a block that ApplyBlock rejects leaves no trace.
Connect(b) ==
    LET blk == BlockOn(chain, b)
        res == ApplyBlock(TempView, TipAnswers, blk) IN
    /\ step = "run" /\ Len(chain) < MaxChain
    /\ Len(IdealLeaves(chain)) + Len(b.outs) <= MaxLeaves
    /\ \A o \in Outputs : Len(tip.upd[o]) < MaxActions
    /\ res.ok
    /\ tip' = FlushToCache(tip, Base, res.v)
    /\ chain' = Append(chain, Link(chain, blk, res.undo))
    /\ UNCHANGED <<disk, step, deep>>

\* DisconnectTip: when UndoBlock's sanity check throws, the node aborts and
\* nothing is flushed.
Disconnect ==
    LET res == UndoBlock(TempView, TipAnswers, Last(chain).undo) IN
    /\ step = "run"
    /\ Len(chain) > (IF UndoFirst THEN 0 ELSE 1)
    /\ res.ok
    /\ tip' = FlushToCache(tip, Base, res.v)
    /\ chain' = Front(chain)
    /\ deep' = (deep \/ IsPrefix(chain, stored))
    /\ UNCHANGED <<disk, step>>

\* LeafSetCache::Flush of CoinsViewCache::Flush(pBatch), under CCoinsViewDB::
\* BatchWrite: the file with the next index.
WriteLeafSet ==
    /\ step = "run" /\ tip.hdr # None /\ index < MaxFlush
    /\ lsFiles' = [lsFiles EXCEPT ![index + 1] = LeafSetFile(lsFiles[index], tip.ls)]
    /\ step' = "leafset"
    /\ UNCHANGED <<chain, tip, coins, index, stored, mmrFiles, deep>>

\* Mutant: the hash file of the current index is written in place.
WritePMMRInPlace ==
    /\ step = "leafset"
    /\ mmrFiles' = [mmrFiles EXCEPT ![index] = MmrFile(mmrFiles[index], tip.mmr),
                                    ![index + 1] = MmrFile(mmrFiles[index], tip.mmr)]
    /\ step' = "pmmr"
    /\ UNCHANGED <<chain, tip, coins, index, stored, lsFiles, deep>>

WritePMMR ==
    /\ step = "leafset"
    /\ mmrFiles' = [mmrFiles EXCEPT ![index + 1] = MmrFile(mmrFiles[index], tip.mmr)]
    /\ step' = "pmmr"
    /\ UNCHANGED <<chain, tip, coins, index, stored, lsFiles, deep>>

\* The last batch: coins, MMRInfo and DB_BEST_BLOCK together.  The cache of
\* the tip keeps its header and its leaf counts and forgets its changes.
CommitBatch ==
    /\ step = "pmmr"
    /\ coins' = WriteCoins(coins, tip.upd)
    /\ index' = index + 1
    /\ stored' = chain
    /\ tip' = NewCache(tip.hdr, tip.ls.next, NumLeaves(tip.mmr))
    /\ step' = "committed"
    /\ UNCHANGED <<chain, lsFiles, mmrFiles, deep>>

\* The files below an index, down to the first one that is missing.
Older(files, i) == {j \in 0..i - 1 : \A k \in j..i - 1 : files[k] # None}

\* Compact(): LeafSet::Cleanup, then PMMR::Cleanup.
CleanupLeafSet ==
    /\ step = "committed"
    /\ lsFiles' = [i \in 0..MaxFlush |-> IF i \in Older(lsFiles, index) THEN None ELSE lsFiles[i]]
    /\ step' = "cleaned"
    /\ UNCHANGED <<chain, tip, coins, index, stored, mmrFiles, deep>>

CleanupPMMR ==
    /\ step = "cleaned"
    /\ mmrFiles' = [i \in 0..MaxFlush |-> IF i \in Older(mmrFiles, index) THEN None ELSE mmrFiles[i]]
    /\ step' = "run"
    /\ UNCHANGED <<chain, tip, coins, index, stored, lsFiles, deep>>

\* The process stops and is started again: CoinsViewDB::Open takes the file
\* index from MMRInfo and the header from the block at DB_BEST_BLOCK.
Restart ==
    /\ chain' = stored
    /\ tip' = NewCache(HeaderOf(stored), lsFiles[index].next, CalculateLeafIndex(Len(mmrFiles[index])))
    /\ step' = "run"
    /\ UNCHANGED <<disk, deep>>

Next ==
    \/ \E b \in Bodies : Connect(b)
    \/ Disconnect
    \/ WriteLeafSet \/ WritePMMR \/ CommitBatch
    \/ CleanupLeafSet \/ CleanupPMMR
    \/ Restart

Spec == Init /\ [][Next]_vars

-----------------------------------------------------------------------------
Idle == step = "run"

\* No block below the last flush has been undone, so the hash file is the one
\* of the chain (FilesHoldChain below is about the other case).
FilesGood == Idle /\ ~deep

\* What the node sees is the state of its chain, through any connects,
\* disconnects, flushes and restarts, deep reorganisations included: the coins
\* are its unspent outputs, each at the leaf its block gave it, and the leaf set
\* marks exactly their leaves, so that a coin GetUTXO finds is one SpendUTXO's
\* Contains accepts and no bit of an undone block survives in a shared byte.
ViewMatchesChain ==
    Idle => /\ TipAnswers.coins = IdealCoins(chain)
            /\ TipAnswers.bytes = IdealBytes(chain)
            /\ tip.ls.next = Len(IdealLeaves(chain))

\* The assertions of GetUTXO (CoinsViewCache.cpp:26 and 29) hold, and so
\* CoinsViewDB::SpendUTXO never throws in a flush: the actions on one output
\* alternate between add and spend, starting from what the database has.
ActionsAlternate == step # "cleaned" => \A o \in Outputs : Alternate(coins[o], tip.upd[o])

Fits(b) == Len(IdealLeaves(chain)) + Len(b.outs) <= MaxLeaves

\* Nodes agree on blocks: of the blocks that other nodes may build on its chain,
\* the node accepts exactly those whose body obeys the rules on duplicate
\* outputs and missing inputs, after whatever reorganisations since the last
\* flush, flushes and restarts, and a block it builds itself with such a body
\* (BuildNextBlock) carries the roots the others compute.  And the block at its
\* tip can be undone: the sanity check of UndoBlock (CoinsViewCache.cpp:121-126)
\* passes, so that a reorganisation never aborts the node.
BlocksApplyAndUndo ==
    FilesGood =>
       /\ \A b \in Bodies : Fits(b) =>
             IF ValidBody(chain, b)
             THEN LET blk == BlockOn(chain, b) IN
                  /\ ApplyBlock(TempView, TipAnswers, blk).ok
                  /\ BuildNextBlock(TempView, TipAnswers, b.ins, b.outs) = blk.hdr.roots
             ELSE ~ApplyBody(TempView, TipAnswers, b.ins, b.outs).ok
       /\ chain # <<>> => UndoBlock(TempView, TipAnswers, Last(chain).undo).ok

\* At every point of a flush, and so after a stop at any point, the files that
\* MMRInfo names exist and hold the state of the chain that DB_BEST_BLOCK
\* names, and so do the coins.
DiskIsConsistent ==
    /\ coins = IdealCoins(stored)
    /\ lsFiles[index] = [next |-> Len(IdealLeaves(stored)), bytes |-> IdealBytes(stored)]
    /\ deep \/ mmrFiles[index] = IdealNodes(stored)

\* CoinsView.h:116: Flush "Commits the changes from the cached CoinsView to the
\* base CoinsView."  After a block is connected or disconnected, the view of
\* the tip has the header of the new tip.
FlushCommits == Idle => tip.hdr = HeaderOf(chain)

\* MMR.h:90-91: BatchWrite "Adds the given leaves to the MMR. This also updates
\* the database and MMR files".  After a flush the hash file has the nodes of
\* the chain.
FilesHoldChain == step = "committed" => mmrFiles[index] = IdealNodes(stored)
=============================================================================
