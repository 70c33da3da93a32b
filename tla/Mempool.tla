------------------------------ MODULE Mempool ------------------------------
(***************************************************************************)
(* The memory pool of unconfirmed transactions (txmempool.cpp) and its     *)
(* callers in validation.cpp: acceptance with package limits and           *)
(* replacement, prioritisation, removal for a connected block, and the     *)
(* reorganisation that disconnects blocks, connects others and puts the    *)
(* disconnected transactions back.                                         *)
(*                                                                         *)
(* The pool is one record, and CTxMemPool's methods are functions on it.   *)
(* cs_main and the pool's lock are held from the first DisconnectTip of a  *)
(* reorganisation to the end of UpdateMempoolForReorg: "phase" says how    *)
(* far it is, and nothing else runs while it is not "idle".                *)
(*                                                                         *)
(* Every transaction has size 1 and one kernel at most.  Size, signature   *)
(* operations and extension block weight are totals like the two kept      *)
(* here, the number of transactions and their modified fees, and are       *)
(* changed by the same calls with the same arguments.                      *)
(***************************************************************************)
EXTENDS Integers, Sequences, FiniteSets, FiniteSetsExt, SequencesExt

CONSTANTS
  Tx,               \* the transactions there are, by name: see TxRecords
  Coins,            \* the outputs there are
  Genesis,          \* the outputs unspent when the behaviours start
  Bodies,           \* the blocks: their transparent part "vtx" and the
                    \* transactions whose kernels they hold, "kernels"
  NoTx,             \* no transaction
  Replacement,      \* the -mempoolreplacement argument
  LimitAncestors,   \* -limitancestorcount
  LimitDescendants, \* -limitdescendantcount
  Maturity,         \* COINBASE_MATURITY and PEGOUT_MATURITY
  MaxReplaced,      \* maxDescendantsToVisit of a replacement
  IncrementalFee,   \* incrementalRelayFee for one transaction
  MinRelayFee,      \* minRelayTxFee for one transaction
  MaxUsage,         \* -maxmempool, in transactions
  MaxQueue,         \* MAX_DISCONNECTED_TX_POOL_SIZE, in transactions
  CacheSize,        \* DEFAULT_MEMPOOL_MWEB_CACHE_SIZE
  Prioritised,      \* bound: the transactions PrioritiseTransaction is called for
  Deltas,           \* bound: the fee deltas a transaction can have
  MaxExpired,       \* bound on the transactions that expire at once
  MaxHeight         \* bound on the length of the chain

Txs == DOMAIN Tx

\* What matters of a transaction: its transparent inputs and outputs, those
\* in the extension block, whether it has a kernel, whether it is generated
\* by the miner (coinbase, HogEx), standard, replaceable (BIP 125), its fee
\* and the height from which it is final.
TxRecords ==
  [vin : SUBSET Coins, vout : SUBSET Coins, mwin : SUBSET Coins, mwout : SUBSET Coins,
   kernel : BOOLEAN, generated : BOOLEAN, standard : BOOLEAN, signals : BOOLEAN,
   fee : Nat, lock : Nat]

\* The inputs and outputs of a transaction as it is relayed ("full") and as
\* it stands in a block, without its extension block part.
GetInputs(t, full) == Tx[t].vin \cup IF full THEN Tx[t].mwin ELSE {}

GetOutputs(t, full) == Tx[t].vout \cup IF full THEN Tx[t].mwout ELSE {}

In(t) == GetInputs(t, TRUE)
Out(t) == GetOutputs(t, TRUE)

Creator == [c \in Coins |-> IF \E t \in Txs : c \in Out(t) THEN CHOOSE t \in Txs : c \in Out(t) ELSE NoTx]

\* Outputs have one creator, only transactions with a kernel touch the
\* extension block, a block has the kernel of each of its peg-ins.
ASSUME TxAssumption ==
  /\ Tx \in [Txs -> TxRecords]
  /\ NoTx \notin Txs
  /\ \A t, u \in Txs : t # u => Out(t) \cap Out(u) = {}
  /\ \A t \in Txs : Genesis \cap Out(t) = {} /\ (Tx[t].mwin \cup Tx[t].mwout # {} => Tx[t].kernel)
  /\ \A b \in Bodies : /\ ToSet(b.vtx) \cup b.kernels \subseteq Txs
                       /\ \A t \in b.kernels : Tx[t].kernel
                       /\ \A t \in Txs : Tx[t].kernel /\ Tx[t].vin # {} =>
                            (t \in b.kernels <=> t \in ToSet(b.vtx))

VARIABLES
  mp,      \* the pool: see PoolRecord
  chain,   \* the blocks of the active chain above the first
  queue,   \* disconnectpool.queuedTx in insertion order: [tx, full]
  phase,   \* "idle", or how far the reorganisation is
  add,     \* fAddToMempool of the UpdateMempoolForReorg that runs
  update,  \* its vHashUpdate
  seen,    \* history: the pool and the queue when it began
  reorged, \* history: a block was disconnected
  stranded \* history: the pool's transactions that once lost an extension
           \* block input (see InputsAvailable)

vars == <<mp, chain, queue, phase, add, update, seen, reorged, stranded>>

Phases == {"idle", "disconnecting", "connecting", "adding", "limiting"}

\* mapTx with the links, totals and modified fee of its entries, mapNextTx,
\* mapDeltas, recentTxsByKernel (oldest first), rollingMinimumFeeRate, as
\* the fees of a number of transactions, whether it has begun to fade (there
\* was a block since it was raised: its value is then not kept), and whether
\* one of the asserts of UpdateAncestorState and UpdateDescendantState failed.
NoTotals == [count |-> 0, fees |-> 0]

NoRate == [count |-> 1, fees |-> 0]

EmptyPool ==
  [tx |-> {}, parents |-> [t \in Txs |-> {}], children |-> [t \in Txs |-> {}],
   anc |-> [t \in Txs |-> NoTotals], desc |-> [t \in Txs |-> NoTotals],
   fee |-> [t \in Txs |-> 0], next |-> [c \in Coins |-> NoTx],
   deltas |-> [t \in Txs |-> 0], recent |-> <<>>, rolling |-> NoRate, fades |-> FALSE,
   failed |-> FALSE]

Init ==
  /\ mp = EmptyPool
  /\ chain = <<>>
  /\ queue = <<>>
  /\ phase = "idle"
  /\ add = FALSE
  /\ update = <<>>
  /\ seen = {}
  /\ reorged = FALSE
  /\ stranded = {}

-----------------------------------------------------------------------------
(* The chain's coins.                                                       *)

BlockTxs(b) == ToSet(b.vtx) \cup b.kernels

Confirmed(ch) == UNION {BlockTxs(ch[i]) : i \in DOMAIN ch}

Unspent(ch) ==
  LET confirmed == Confirmed(ch)
  IN (Genesis \cup UNION {Out(t) : t \in confirmed}) \ UNION {In(t) : t \in confirmed}

IsFinal(t, ch) == Tx[t].lock <= Len(ch) + 1

\* A generated output can be spent in the block after the tip.
IsMature(c, ch) ==
  \A i \in DOMAIN ch : Creator[c] \in BlockTxs(ch[i]) /\ Tx[Creator[c]].generated => Len(ch) + 1 - i >= Maturity

CheckTxInputs(t, ch) == \A c \in Tx[t].vin : IsMature(c, ch)

\* What ConnectBlock asks of a block: its transactions are new and final, and
\* spend, once each, mature unspent outputs of the chain or outputs of the block.
ConnectBlock(b, ch) ==
  /\ BlockTxs(b) \cap Confirmed(ch) = {}
  /\ \A t \in BlockTxs(b) :
       /\ IsFinal(t, ch) /\ CheckTxInputs(t, ch)
       /\ \A c \in Tx[t].vin : Creator[c] \in BlockTxs(b) => ~Tx[Creator[c]].generated
       /\ In(t) \subseteq Unspent(ch) \cup UNION {Out(u) : u \in BlockTxs(b)}
       /\ \A u \in BlockTxs(b) \ {t} : In(t) \cap In(u) = {}

-----------------------------------------------------------------------------
(* Walks over the links.                                                    *)

RECURSIVE Reach(_, _)
Reach(links, S) ==
  LET T == S \cup UNION {links[t] : t \in S} IN IF T = S THEN S ELSE Reach(links, T)

CalculateDescendants(m, S) == Reach(m.children, S)

\* CalculateMemPoolAncestors without limits, by the cached links and by search.
CachedAncestors(m, t) == Reach(m.parents, m.parents[t])

ParentsInPool(m, t) == {Creator[c] : c \in In(t)} \cap m.tx

SearchedAncestors(m, t) == Reach(m.parents, ParentsInPool(m, t))

\* Mutant: the new transaction is not counted as a descendant.
WithinLimitsWithout(m, ancestors, limitAncestors, limitDescendants) ==
  ancestors # {} => /\ Cardinality(ancestors) + 1 <= limitAncestors
                    /\ \A a \in ancestors : m.desc[a].count <= limitDescendants

WithinLimits(m, ancestors, limitAncestors, limitDescendants) ==
  ancestors # {} => /\ Cardinality(ancestors) + 1 <= limitAncestors
                    /\ \A a \in ancestors : m.desc[a].count + 1 <= limitDescendants

SumFees(m, S) == MapThenSumSet(LAMBDA t : m.fee[t], S)

Plus(m, totals, S) == [count |-> totals.count + Cardinality(S), fees |-> totals.fees + SumFees(m, S)]

Minus(m, totals, S) == [count |-> totals.count - Cardinality(S), fees |-> totals.fees - SumFees(m, S)]

-----------------------------------------------------------------------------
(* Removal.                                                                 *)

\* The totals without the removed entries r that counted in those of reached[r].
LoseTotals(m, totals, reached) ==
  [t \in UNION Range(reached) |-> Minus(m, totals[t], {r \in DOMAIN reached : t \in reached[r]})] @@ totals

Sever(links, inverse, stage) ==
  [t \in UNION {inverse[r] : r \in stage} |-> links[t] \ {r \in stage : t \in inverse[r]}] @@ links

\* The removed entries leave the totals of their ancestors and descendants, and
\* the links from and to them are severed.
RemoveFromPackages(m, stage, ancestors, descendants) ==
  LET desc == LoseTotals(m, m.desc, ancestors)
      anc == LoseTotals(m, m.anc, descendants)
  IN [m EXCEPT !.desc = desc, !.anc = anc,
               !.failed = @ \/ \E t \in m.tx : desc[t].count <= 0 \/ anc[t].count <= 0,
               !.children = Sever(@, m.parents, stage),
               !.parents = Sever(@, m.children, stage)]

DescendantsGone(m, stage, updateDescendants) ==
  [r \in stage |-> IF updateDescendants THEN CalculateDescendants(m, {r}) \ {r} ELSE {}]

\* Mutant: the ancestors are searched by the inputs, which finds entries that
\* were put back in a reorganisation and are not linked to their children yet.
UpdateForRemoveBySearch(m, stage, updateDescendants) ==
  RemoveFromPackages(m, stage, [r \in stage |-> SearchedAncestors(m, r)],
                     DescendantsGone(m, stage, updateDescendants))

UpdateForRemoveFromMempool(m, stage, updateDescendants) ==
  RemoveFromPackages(m, stage, [r \in stage |-> CachedAncestors(m, r)],
                     DescendantsGone(m, stage, updateDescendants))

\* recentTxsByKernel.Put: a first-in first-out cache.
Put(recent, t) ==
  IF Contains(recent, t) THEN recent
  ELSE Append(IF Len(recent) + 1 > CacheSize THEN Tail(recent) ELSE recent, t)

\* Mutant: mapNextTx keeps the extension block inputs.
removeUncheckedTransparent(m, t, reason) ==
  [m EXCEPT !.tx = @ \ {t},
            !.parents[t] = {}, !.children[t] = {}, !.anc[t] = NoTotals, !.desc[t] = NoTotals, !.fee[t] = 0,
            !.next = [c \in Tx[t].vin |-> NoTx] @@ @,
            !.recent = IF Tx[t].kernel /\ reason \in {"BLOCK", "REORG"} THEN Put(@, t) ELSE @]

\* A confirmed or reorganised transaction with a kernel is kept for a replay.
removeUnchecked(m, t, reason) ==
  [m EXCEPT !.tx = @ \ {t},
            !.parents[t] = {}, !.children[t] = {}, !.anc[t] = NoTotals, !.desc[t] = NoTotals, !.fee[t] = 0,
            !.next = [c \in In(t) |-> NoTx] @@ @,
            !.recent = IF Tx[t].kernel /\ reason \in {"BLOCK", "REORG"} THEN Put(@, t) ELSE @]

RemoveStaged(m, stage, updateDescendants, reason) ==
  FoldSet(LAMBDA t, acc : removeUnchecked(acc, t, reason),
          UpdateForRemoveFromMempool(m, stage, updateDescendants), stage)

\* Mutant: only the transaction itself starts the removal.
removeRecursiveInPool(m, t, full, reason) ==
  RemoveStaged(m, CalculateDescendants(m, {t} \cap m.tx), FALSE, reason)

\* A transaction that is not in the pool takes its children along.
removeRecursive(m, t, full, reason) ==
  LET roots == IF t \in m.tx THEN {t} ELSE {m.next[c] : c \in GetOutputs(t, full)} \ {NoTx}
  IN RemoveStaged(m, CalculateDescendants(m, roots), FALSE, reason)

ClearPrioritisation(m, t) == [m EXCEPT !.deltas[t] = 0]

removeConflicts(m, t, full) ==
  FoldSet(LAMBDA c, acc :
            LET conflict == acc.next[c]
            IN IF conflict \in {NoTx, t} THEN acc
               ELSE removeRecursive(ClearPrioritisation(acc, conflict), conflict, TRUE, "CONFLICT"),
          m, GetInputs(t, full))

removeConfirmed(m, t, full) ==
  LET removed == IF t \in m.tx THEN RemoveStaged(m, {t}, TRUE, "BLOCK") ELSE m
  IN ClearPrioritisation(removeConflicts(removed, t, full), t)

\* The block's transparent transactions first, then, in the order of mapTx,
\* the pool's transactions whose kernel the block has.
PoolKernels(m, b) == {t \in m.tx : Tx[t].kernel /\ t \in b.kernels}

removeForBlock(m, b, kernels) ==
  LET removed == FoldLeft(LAMBDA acc, t : removeConfirmed(acc, t, TRUE),
                          FoldLeft(LAMBDA acc, t : removeConfirmed(acc, t, FALSE), m, b.vtx), kernels)
  IN [removed EXCEPT !.fades = @ \/ m.rolling # NoRate, !.rolling = NoRate]

-----------------------------------------------------------------------------
(* Addition.                                                                *)

\* A new entry is taken to have no children in the pool.
addUnchecked(m, t, ancestors) ==
  LET parents == ParentsInPool(m, t)
      fee == Tx[t].fee + m.deltas[t]
      with == [m EXCEPT !.tx = @ \cup {t}, !.fee[t] = fee]
  IN [with EXCEPT
       !.next = [c \in {i \in In(t) : m.next[i] = NoTx} |-> t] @@ @,
       !.parents[t] = parents,
       !.children = [p \in parents |-> m.children[p] \cup {t}] @@ @,
       !.desc = [a \in ancestors \cup {t} |-> Plus(with, m.desc[a], {t})] @@ @,
       !.anc[t] = Plus(with, NoTotals, ancestors \cup {t})]

\* The descendants UpdateForDescendants finds: it does not walk on from an
\* entry whose descendants are cached, and takes those instead.
RECURSIVE WalkDescendants(_, _, _, _)
WalkDescendants(m, cached, staged, found) ==
  LET children == UNION {m.children[t] : t \in staged}
      known == children \cap DOMAIN cached
      with == found \cup staged \cup UNION {cached[t] : t \in known}
  IN IF staged = {} THEN found ELSE WalkDescendants(m, cached, children \ (known \cup with), with)

\* Entries that were put back together already count each other.
UpdateForDescendants(m, cached, t, exclude) ==
  LET new == WalkDescendants(m, cached, m.children[t], {}) \ exclude
  IN <<[m EXCEPT !.desc[t] = Plus(m, @, new),
                 !.anc = [d \in new |-> Plus(m, m.anc[d], {t})] @@ @],
       IF new = {} THEN cached ELSE (t :> new) @@ cached>>

\* The children of t that were in the pool before it was put back.
LinkChildren(m, t, exclude) ==
  LET children == ({m.next[c] : c \in Out(t)} \ {NoTx}) \ exclude
  IN [m EXCEPT !.children[t] = @ \cup children,
               !.parents = [d \in children |-> m.parents[d] \cup {t}] @@ @]

UpdateTransactionsFromBlock(m, hashes) ==
  LET included == ToSet(hashes)
      Step(acc, t) == IF t \notin acc[1].tx THEN acc
                      ELSE UpdateForDescendants(LinkChildren(acc[1], t, included), acc[2], t, included)
  IN FoldLeft(Step, <<m, <<>> >>, Reverse(hashes))[1]

-----------------------------------------------------------------------------
(* Acceptance (MemPoolAccept).                                              *)

Conflicts(m, t) == {m.next[c] : c \in In(t)} \ {NoTx}

\* CCoinsViewMemPool: an extension block output that a pool transaction
\* spends is not there; a transparent one is, and makes a conflict.
HaveInputs(m, ch, t) ==
  /\ {c \in In(t) : Creator[c] \notin m.tx} \subseteq Unspent(ch)
  /\ \A c \in Tx[t].mwin : m.next[c] = NoTx

ModifiedFee(m, t) == Tx[t].fee + m.deltas[t]

ConflictsParents(m, conflicts) ==
  UNION {{Creator[c] : c \in Tx[u].vin} \cup ({Creator[c] : c \in Tx[u].mwin} \cap m.tx) : u \in conflicts}

\* A rolling minimum that fades may be gone by now, and a transaction that it
\* still refuses changes nothing.
CheckFeeRate(m, t) ==
  /\ ModifiedFee(m, t) * m.rolling.count >= m.rolling.fees
  /\ ModifiedFee(m, t) >= MinRelayFee

\* A replacement pays a higher rate than each transaction it conflicts with
\* and its relay on top of what all that it evicts pay, evicts few, and has
\* no unconfirmed parents that the conflicts do not have.
MayReplace(m, t, conflicts) ==
  /\ \A u \in conflicts : ModifiedFee(m, t) > m.fee[u]
  /\ MapThenSumSet(LAMBDA u : m.desc[u].count, conflicts) <= MaxReplaced
  /\ \A c \in Tx[t].vin : Creator[c] \in m.tx => Creator[c] \in ConflictsParents(m, conflicts)
  /\ ModifiedFee(m, t) >= SumFees(m, CalculateDescendants(m, conflicts)) + IncrementalFee

\* A block's copy of a transaction with a kernel fails MWEB::Node's check of
\* its peg-ins.  One more descendant is allowed to a transaction with a single
\* conflict, and, as a carve-out, to one with a single ancestor.
PreChecks(m, ch, t, full, bypass_limits) ==
  LET conflicts == Conflicts(m, t)
      ancestors == SearchedAncestors(m, t)
      limit == IF Cardinality(conflicts) = 1 THEN LimitDescendants + 1 ELSE LimitDescendants
  IN /\ Tx[t].kernel => full
     /\ ~Tx[t].generated
     /\ Tx[t].standard
     /\ IsFinal(t, ch)
     /\ t \notin m.tx
     /\ \A u \in conflicts : Replacement /\ Tx[u].signals
     /\ HaveInputs(m, ch, t) /\ CheckTxInputs(t, ch)
     /\ ~bypass_limits => CheckFeeRate(m, t)
     /\ \/ WithinLimits(m, ancestors, LimitAncestors, limit)
        \/ WithinLimits(m, ancestors, 2, limit + 1)
     /\ conflicts \cap ancestors = {}
     /\ conflicts # {} => MayReplace(m, t, conflicts)

Finalize(m, t) ==
  addUnchecked(RemoveStaged(m, CalculateDescendants(m, Conflicts(m, t)), FALSE, "REPLACED"),
               t, SearchedAncestors(m, t))

\* The entry's rate: its own or that of its package, whichever is better.
ModFeeAndSize(m, t) ==
  IF m.desc[t].fees > m.fee[t] * m.desc[t].count THEN m.desc[t] ELSE [count |-> 1, fees |-> m.fee[t]]

LowestScores(m) ==
  {t \in m.tx : \A u \in m.tx : LET a == ModFeeAndSize(m, t)
                                    b == ModFeeAndSize(m, u)
                                IN a.fees * b.count <= b.fees * a.count}

\* The rate of a package that is trimmed, with the relay fee on top, raises
\* the rolling minimum.  One that fades may be above the rate or below it.
trackPackageRemoved(m, package) ==
  LET rate == [package EXCEPT !.fees = @ + IncrementalFee * package.count]
      bumped == [m EXCEPT !.rolling = rate, !.fades = FALSE]
  IN IF m.fades THEN {m, bumped}
     ELSE IF rate.fees * m.rolling.count > m.rolling.fees * rate.count THEN {bumped} ELSE {m}

\* Entries with the same score go by their times, which are not modelled.
RECURSIVE TrimToSize(_)
TrimToSize(m) ==
  LET Without(t) == {RemoveStaged(tracked, CalculateDescendants(m, {t}), FALSE, "SIZELIMIT")
                       : tracked \in trackPackageRemoved(m, m.desc[t])}
  IN IF Cardinality(m.tx) <= MaxUsage THEN {m}
     ELSE UNION {TrimToSize(rest) : rest \in UNION {Without(t) : t \in LowestScores(m)}}

Expire(m, old) == RemoveStaged(m, CalculateDescendants(m, old), FALSE, "EXPIRY")

\* The pools that expiry, by times that are not modelled, and trimming leave.
LimitMempoolSize(m) ==
  UNION {TrimToSize(Expire(m, old)) : old \in {S \in SUBSET m.tx : Cardinality(S) <= MaxExpired}}

\* The inputs, of the kind that "ins" gives, that a pool transaction spends and
\* that no pool transaction creates and the chain does not have.
Missing(m, ch, ins) == {c \in UNION {ins[t] : t \in m.tx} : Creator[c] \notin m.tx} \ Unspent(ch)

\* The history of lost inputs, a conjunct of every action.
NoteStranded ==
  stranded' = {t \in mp'.tx :
                 \/ t \in stranded
                 \/ /\ phase' = "idle"
                    /\ \E c \in Tx[t].mwin : Creator[c] \notin mp'.tx /\ c \notin Unspent(chain')}

AcceptToMemoryPool(t) ==
  /\ phase = "idle"
  /\ PreChecks(mp, chain, t, TRUE, FALSE)
  /\ mp' \in LimitMempoolSize(Finalize(mp, t))
  /\ UNCHANGED <<chain, queue, phase, add, update, seen, reorged>>
  /\ NoteStranded

\* The delta is kept for a transaction that is not in the pool.
PrioritiseTransaction(t, delta) ==
  /\ phase = "idle"
  /\ mp.deltas[t] + delta \in Deltas
  /\ LET Add(totals, S) == [u \in S \cap mp.tx |-> [totals[u] EXCEPT !.fees = @ + delta]] @@ totals
     IN mp' = [mp EXCEPT
                 !.deltas[t] = @ + delta,
                 !.fee[t] = IF t \in mp.tx THEN @ + delta ELSE @,
                 !.desc = Add(@, CachedAncestors(mp, t) \cup {t}),
                 !.anc = Add(@, CalculateDescendants(mp, {t}))]
  /\ UNCHANGED <<chain, queue, phase, add, update, seen, reorged>>
  /\ NoteStranded

-----------------------------------------------------------------------------
(* Blocks and reorganisations.                                              *)

QueuedTxs(q) == {q[i].tx : i \in DOMAIN q}

addTransaction(q, t, full) == IF t \in QueuedTxs(q) THEN q ELSE Append(q, [tx |-> t, full |-> full])

\* disconnectpool.removeForBlock gets the block's transparent transactions and
\* those the pool had for its kernels; a queued one is found by its name only.
ConnectTip(b) ==
  /\ phase \in {"idle", "disconnecting", "connecting"}
  /\ Len(chain) < MaxHeight
  /\ ConnectBlock(b, chain)
  /\ \E kernels \in SetToSeqs(PoolKernels(mp, b)) :
       /\ mp' = removeForBlock(mp, b, kernels)
       /\ queue' = SelectSeq(queue, LAMBDA e : e.tx \notin ToSet(b.vtx) \cup ToSet(kernels))
  /\ chain' = Append(chain, b)
  /\ phase' = IF phase = "idle" THEN "idle" ELSE "connecting"
  /\ UNCHANGED <<add, update, seen, reorged>>
  /\ NoteStranded

\* The earliest entries of a queue that is too long go, with their children.
RECURSIVE DropEarliest(_, _)
DropEarliest(m, q) ==
  IF Len(q) <= MaxQueue THEN <<m, q>>
  ELSE DropEarliest(removeRecursive(m, q[1].tx, q[1].full, "REORG"), Tail(q))

\* The cached transactions of the block's kernels, in the order of the kernels'
\* hashes, then the transparent ones from the last to the first.
DisconnectTip ==
  /\ phase \in {"idle", "disconnecting"}
  /\ chain # <<>>
  /\ LET b == Last(chain)
         cached == {t \in b.kernels : Contains(mp.recent, t)}
     IN \E kernels \in SetToSeqs(cached) :
          LET q1 == FoldLeft(LAMBDA q, t : addTransaction(q, t, TRUE), queue, kernels)
              q2 == FoldLeft(LAMBDA q, t : addTransaction(q, t, ~Tx[t].kernel), q1, Reverse(b.vtx))
              dropped == DropEarliest(mp, q2)
          IN mp' = dropped[1] /\ queue' = dropped[2]
  /\ chain' = Front(chain)
  /\ phase' = "disconnecting"
  /\ reorged' = TRUE
  /\ UNCHANGED <<add, update, seen>>
  /\ NoteStranded

\* The transactions are not put back after a failure to disconnect or connect
\* a block, or when InvalidateBlock has gone deep.
UpdateMempoolForReorg(fAddToMempool) ==
  /\ phase \in {"disconnecting", "connecting"}
  /\ phase' = "adding"
  /\ add' = fAddToMempool
  /\ seen' = QueuedTxs(queue) \cup mp.tx
  /\ UNCHANGED <<mp, chain, queue, update, reorged>>
  /\ NoteStranded

\* One queued transaction, e.
ReAdd(e) ==
  IF add /\ PreChecks(mp, chain, e.tx, e.full, TRUE)
  THEN mp' = Finalize(mp, e.tx) /\ update' = Append(update, e.tx)
  ELSE mp' = removeRecursive(mp, e.tx, e.full, "REORG") /\ UNCHANGED update

\* Mutant: the queue is taken from its oldest entry.
AddNextOldestFirst ==
  /\ phase = "adding"
  /\ queue # <<>>
  /\ ReAdd(Head(queue))
  /\ queue' = Tail(queue)
  /\ UNCHANGED <<chain, phase, add, seen, reorged>>
  /\ NoteStranded

AddNext ==
  /\ phase = "adding"
  /\ queue # <<>>
  /\ ReAdd(Last(queue))
  /\ queue' = Front(queue)
  /\ UNCHANGED <<chain, phase, add, seen, reorged>>
  /\ NoteStranded

\* What the new chain makes invalid: a lock time, or, of a transaction that
\* spends generated outputs, an input that is spent or immature.
InvalidatedByReorg(m, t) ==
  \/ ~IsFinal(t, chain)
  \/ /\ \E c \in Tx[t].vin : Creator[c] # NoTx /\ Tx[Creator[c]].generated
     /\ \E c \in Tx[t].vin : /\ Creator[c] \notin m.tx
                             /\ c \notin Unspent(chain) \/ ~IsMature(c, chain)

removeForReorg(m) ==
  RemoveStaged(m, CalculateDescendants(m, {t \in m.tx : InvalidatedByReorg(m, t)}), FALSE, "REORG")

AllAdded ==
  /\ phase = "adding"
  /\ queue = <<>>
  /\ mp' = removeForReorg(UpdateTransactionsFromBlock(mp, update))
  /\ update' = <<>>
  /\ phase' = "limiting"
  /\ UNCHANGED <<chain, queue, add, seen, reorged>>
  /\ NoteStranded

LimitAfterReorg ==
  /\ phase = "limiting"
  /\ mp' \in LimitMempoolSize(mp)
  /\ phase' = "idle"
  /\ add' = FALSE
  /\ seen' = {}
  /\ UNCHANGED <<chain, queue, update, reorged>>
  /\ NoteStranded

Next ==
  \/ \E t \in Txs : AcceptToMemoryPool(t)
  \/ \E t \in Prioritised, delta \in {-1, 1} : PrioritiseTransaction(t, delta)
  \/ \E b \in Bodies : ConnectTip(b)
  \/ DisconnectTip
  \/ \E fAddToMempool \in BOOLEAN : UpdateMempoolForReorg(fAddToMempool)
  \/ AddNext
  \/ AllAdded
  \/ LimitAfterReorg

Spec == Init /\ [][Next]_vars

-----------------------------------------------------------------------------
(* Properties.                                                              *)

\* The totals of an entry are those of the entries its links reach, its
\* modified fee is its fee with its delta, and no assert on the totals has
\* failed: UpdateForRemoveFromMempool counts on it in the middle of a
\* reorganisation, when the links are not those of the inputs.
PackagesFollowLinks ==
  /\ ~mp.failed
  /\ \A t \in mp.tx :
       /\ mp.fee[t] = ModifiedFee(mp, t)
       /\ mp.anc[t] = Plus(mp, NoTotals, CachedAncestors(mp, t) \cup {t})
       /\ mp.desc[t] = Plus(mp, NoTotals, CalculateDescendants(mp, {t}))

\* CTxMemPool::check: outside of a reorganisation the links are exactly the
\* inputs that pool transactions spend of each other, mapNextTx has exactly
\* the inputs of the pool, and so no output is spent twice.  A transaction that
\* had lost an input is not linked to the creator that comes back.
LinksFollowInputs ==
  phase \in {"idle", "limiting"} =>
    /\ \A t \in mp.tx, u \in mp.tx \ stranded :
         /\ t \in mp.parents[u] <=> t \in ParentsInPool(mp, u)
         /\ u \in mp.children[t] <=> t \in ParentsInPool(mp, u)
    /\ \A c \in Coins : {u \in mp.tx : c \in In(u)} = {mp.next[c]} \ {NoTx}

\* Outside of a reorganisation the pool's transactions can be mined on top of
\* the chain, as far as transparent inputs go: each is an output of a pool
\* transaction or unspent in the chain, generated ones are mature, and lock
\* times have passed, whatever blocks were connected, disconnected and not put
\* back.
PoolFitsChain ==
  phase = "idle" => /\ Missing(mp, chain, [t \in Txs |-> Tx[t].vin]) = {}
                    /\ \A t \in mp.tx : IsFinal(t, chain) /\ CheckTxInputs(t, chain)

\* CTxMemPool::check's assertion for all inputs, "every mempool transaction's
\* inputs refer to available coins, or other mempool tx's".
InputsAvailable ==
  phase = "idle" => Missing(mp, chain, [t \in Txs |-> In(t)]) = {}

\* A transaction with transparent inputs and extension block ones.
Mixed(t) == Tx[t].vin # {} /\ Tx[t].mwin # {}

\* Until a block is disconnected no package outgrows the limits, with the one
\* descendant that the carve-out adds, however transactions enter, are
\* replaced, trimmed, expire and are confirmed: what a transaction is measured
\* by are totals that the removals before it have left.  And only a transaction
\* with a single ancestor in the pool enters beyond the limit.  A package that
\* a mixed transaction joined may have one more: see CarveOutIsLast.
LimitsAreKept ==
  [][~reorged' => \A t \in mp'.tx :
       /\ mp'.anc[t].count <= LimitAncestors
       /\ mp'.desc[t].count > LimitDescendants =>
            LET package == CalculateDescendants(mp', {t})
            IN /\ mp'.desc[t].count = LimitDescendants + 1 \/ \E d \in package : Mixed(d)
               /\ mp'.desc[t].count <= LimitDescendants + 2
               /\ \A d \in package \ mp.tx : mp'.anc[d].count <= 2 \/ Mixed(d)]_vars

\* validation.cpp:769-778: a transaction with one conflict, for which the limit is
\* one higher, is "not adding any new mempool dependencies", so that it does not
\* "effectively use the (below) carve-out spot when it shouldn't be allowed to":
\* no package has more than the limit and that one.
CarveOutIsLast == ~reorged => \A t \in mp.tx : mp.desc[t].count <= LimitDescendants + 1

\* The unconfirmed transactions t depends on, with t.
Unconfirmed(t) ==
  Reach([u \in Txs |-> ({Creator[c] : c \in In(u)} \ {NoTx}) \ Confirmed(chain)], {t})

\* t can be in the pool: it and what it depends on are transparent, known,
\* valid in the new chain and within the limits.
MayStay(t) ==
  /\ t \notin Confirmed(chain)
  /\ \A u \in Unconfirmed(t) :
       /\ u \in seen
       /\ ~Tx[u].kernel /\ ~Tx[u].generated /\ Tx[u].standard
       /\ IsFinal(u, chain) /\ CheckTxInputs(u, chain)
       /\ \A c \in Tx[u].vin : Creator[c] \in Unconfirmed(t) \/ c \in Unspent(chain)
       /\ Cardinality(Unconfirmed(u)) <= LimitAncestors
       /\ Cardinality({d \in seen : u \in Unconfirmed(d)}) <= LimitDescendants

\* A reorganisation loses no transparent transaction that it could keep: one
\* that was in the pool or in the queue is in the pool before its size is
\* limited.
ReorgKeepsTransactions ==
  phase = "limiting" /\ add => \A t \in seen : MayStay(t) => t \in mp.tx

=============================================================================
