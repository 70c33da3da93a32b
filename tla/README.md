# A TLA+ verification of Aegisum Core

This directory specifies the parts of Aegisum Core that keep the chain state
and what follows it: the block index and the choice of the active chain, the
UTXO caches and their database, the extension block (MWEB) state with its Merkle
Mountain Ranges, the script check threads, the validation interface with its
queue, the block filter index, the memory pool and the requests for
transactions. TLC checks the specifications on small instances. TLAPS proves
every safety property of the coins caches, the flush and its replay, the block
tree, the check queue, the validation interface and the transaction requests,
for every size.

Source paths below are relative to `src/aegisum-core-main/src/`.

## The system and its parts

A node learns headers and blocks from its peers (`net_processing.cpp`) and from
its operator (`rpc/`). `validation.cpp` enters them in the block index, finds
the chain with the most work and connects or disconnects blocks at the tip.
Connecting a block evaluates its scripts on a pool of threads (`checkqueue.h`),
spends and adds coins in a stack of caches (`coins.cpp`) and applies its
extension block to a second stack of views (`libmw/src/node`, `libmw/src/mmr`).
From time to time everything is flushed to LevelDB and to files (`txdb.cpp`,
`libmw/src/file`). What happened to the chain is told to the rest of the node
through one ordered queue (`validationinterface.cpp`, `scheduler.cpp`), from
which the indexes (`index/`) and the wallet follow the chain. Transactions that
peers announce are asked for through `txrequest.cpp`, accepted by
`validation.cpp` into the memory pool (`txmempool.cpp`), and leave it when a
block confirms them; a reorganisation brings them back.

`PROJECT.json` lists every part, with what is modelled of it or why it is not.

| Part | Source | Modules |
|---|---|---|
| Coins caches | `coins.cpp`, `coins.h` | `Coins`, `CoinsCache`, `UtxoView`, `ConnectBlockProofs` |
| Coins database, flush, replay | `txdb.cpp`, `validation.cpp` | `ChainstateFlush` (on `Coins` and `BlockPaths`), `ChainstateFlushProofs` |
| Block index, chain selection | `validation.cpp`, `chain.cpp` | `BlockTree` (on `BlockPaths`), `BlockIndexProofs`, `BlockTreeProofs` |
| The tree of blocks | `chain.h` | `BlockPaths`, `BlockPathProofs` |
| Extension block views, leaf set, MMR files | `libmw/src/node`, `libmw/src/mmr`, `libmw/src/file` | `MwebView`, `MwebChain` (on `MMR`) |
| MMR arithmetic, segments | `libmw/src/mmr` | `MMR`, `MMRForest`, `MMRSegment` |
| Script check threads | `checkqueue.h` | `CheckQueue`, `CheckRounds`, `ConnectBlockProofs` |
| Validation interface, scheduler | `validationinterface.cpp`, `scheduler.cpp`, `init.cpp` | `ValidationSignals`, `ValidationSignalsProofs` |
| Block filter index | `index/base.cpp`, `index/blockfilterindex.cpp` | `FilterIndex` (on `BlockPaths`), `FilterIndexProofs` |
| Memory pool, acceptance, reorganisation | `txmempool.cpp`, `validation.cpp` | `Mempool` |
| Transaction requests | `txrequest.cpp`, `net_processing.cpp` | `TxRequestRules`, `TxRequest`, `TxRequestProofs` |

`MC*.tla` instantiate a module for TLC and `MC*.cfg` give its constants values.

## The modules

### Coins, CoinsCache, UtxoView

`Coins` has the operations of `CCoinsViewCache` as operators on a value: a
function from outpoints to entries with a coin and the DIRTY and FRESH flags.
`CoinsCache` stacks them the way a running node does: `db` is the database,
`tip` is `CoinsTip()`, `view` is the temporary cache of `ConnectTip`,
`DisconnectTip` and the verification code. Each call is an action; reading is
one too, because `FetchCoin` fills every layer it goes through. The three ways
to add a coin are the three the callers use: after asking (BIP30), a coinbase
with overwrite allowed, and with the answer of `HaveCoin` as the flag. The
specification is `CoinsSpec`, so that one module can extend it and `CheckQueue`.

`UtxoView` is the promise: three plain maps, one coin changed at a time, and a
flush that copies one map to the next. `RefinesUtxoView` says that the caches
implement it with `utxo <- Look(tip, db)` and `work <- Look(view, ...)`.

### ChainstateFlush

Blocks with transactions are connected and disconnected with the operators of
`Coins` on the cache of the tip. `FlushStateToDisk` writes the block index, then
`CCoinsViewDB::BatchWrite` writes the dirty coins in any number of batches
(`PartialBatch` takes any non-empty set of them) with DB_HEAD_BLOCKS in the
first and DB_BEST_BLOCK in the last. `Crash` may come between any two writes,
also during the flush of a replay. A block's transactions are applied one by one:
`Connecting`, `Disconnecting` and `Rollforward` are the views along the loops of
`ConnectBlock`, `DisconnectBlock` and `RollforwardBlock`. `StartReplay` is
`ReplayBlocks`: `RolledBack` and `RolledForward` are its two walks, down from the
old head to the fork and up to the new one. The meaning of a chain, to which all
this is compared, is `UtxoAt`. The extension block's state is the block after
which it holds.

### BlockTree

`level`, `have`, `failedValid`, `failedChild`, `linked` are the fields of the
block index; `cands` is `setBlockIndexCandidates`, `unlinked` is
`m_blocks_unlinked`, `failedBlocks` is `m_failed_blocks`. `run` is the thread
that holds `m_cs_chainstate`: in `ActivateBestChain` or in `InvalidateBlock`.
It takes and releases `cs_main`, and whenever it has released it (`MainFree`)
headers, blocks and the operator's calls may come. Within a section of
`cs_main`, one action is one candidate looked at, one block disconnected or one
block connected. `Restart` is a clean shutdown followed by `LoadBlockIndex` and
`LoadChainTip`. A block is good, has a bad body, or does not connect.
`BlockPaths` has what the block tree, the flush and the filter index use of
`pprev`: the path from a block to the genesis block, and its length.

### MwebView, MwebChain

`MwebView` has the `mw::CoinsViewCache` as operators: the list of actions kept
for every output, the leaf set as modified bytes of bits, the output PMMR as new
leaves after a first one, and how each is flushed into a cache or into a file.
`MwebChain` connects, undoes, flushes and restarts. The leaf set file, the hash
file and the database batch are separate writes; a restart takes the files that
MMRInfo names. `File::Write` is modelled by what it leaves in the file: the
stream is opened for appending, so the bytes go to its end before it is cut.

### MMR, MMRForest, MMRSegment

`MMR` is the position arithmetic as written, with folds over the sizes of
peaks. `MMRForest` grows and rewinds an MMR beside a forest built by definition
(two trees of equal height at the right end become one). `MMRSegment` adds a
leaf set, and the hashes that `SegmentFactory` picks. A hash is the tuple of
what is hashed, so equal hashes mean equal preimages.

### CheckQueue, CheckRounds

A step of `CheckQueue` is one section under the queue's mutex. Condition
variables are explicit: a thread waits, is notified, then takes the mutex again;
it may wake spuriously. `CheckRounds` is the promise to the owner of a
`CCheckQueueControl`: one owner at a time, and a verdict for exactly its own
checks, in the end.

### FilterIndex

The sync thread (`sync`), the scheduler thread (`cb`) with the validation
interface's queue, the height and hash indexes, the filter file, the committed
position and locator. The chain moves, is flushed, and the process is
interrupted or dies between any two writes. A filter header is the set of blocks
it commits to.

### ValidationSignals

Three mutexes and the threads between them. The list of `MainSignalsInstance`
has numbered entries with their counts; `at` is the entry a thread stands on in
`Iterate`. `Register`, `Unregister` and `Clear` run between any two callbacks.
`pending` is the queue of `SingleThreadedSchedulerClient`, `tasks` the
`ProcessQueue` calls in the scheduler, and each section under a mutex is an
action. The threads that activate chains hold `csChainstate` (m_cs_chainstate)
while they wait for a long queue, and never `csMain`. `Shutdown` follows
`init.cpp` step by step: it stops the scheduler, joins its threads and the
import thread, empties the queue itself and flushes.

### Mempool

`mp` is `CTxMemPool` as one record: the transactions, the links to parents and
children, `mapNextTx` (`next`), and for every entry its totals with ancestors
and with descendants. The methods are functions on it, applied in the order the
code calls them. `AcceptToMemoryPool` is one action with its minimum fees, package
limits, the carve-out, BIP 125 replacement, expiry and the limit on the size. What
is trimmed raises the rolling minimum fee (`rolling`); after the next block it
`fades`, and its value is any from then on. A
reorganisation is a sequence of actions: `DisconnectTip` and `ConnectTip`, then
`UpdateMempoolForReorg`, which tries the queue one transaction at a time
(`AddNext`), updates the links of their children (`AllAdded`) and limits the size
(`LimitAfterReorg`). A transaction has transparent inputs and outputs and ones
in the extension block; a block has transparent transactions and kernels.

### TxRequestRules, TxRequest

`TxRequest` keeps one row of announcements per txhash, with the states of
`txrequest.cpp` (DELAYED, READY, BEST, REQUESTED, COMPLETED), and the handlers of
`net_processing.cpp` that call the tracker: `inv`, `tx`, `notfound`, orphans'
parents, `SendMessages` and disconnection. `GetRequestable` moves one expired or
due announcement per step. Times are relative to the latest clock reading, and
the clock may be set back. `TxRequestRules` is the comment of `txrequest.h`: it
has candidates, requests and failures, and no READY or BEST: the choice is made
when the peer is asked.

## The runs

Every passing run explores its whole state space.

| Run | Checks | Instance |
|---|---|---|
| `coins_cache` | `FlagsSound`, `NoLogicError`, `RefinesUtxoView` | 2 outpoints, 2 spendable coins and one unspendable |
| `mmr` | `PeaksAreTrees`, `NavigationFollowsHashes`, `SegmentIsExact`, `PrunedParentsRebuild` | up to 110 leaves; every pattern of spent leaves up to 8 |
| `mweb_chain` | `ViewMatchesChain`, `ActionsAlternate`, `BlocksApplyAndUndo`, `DiskIsConsistent` | 2 outputs, 3 blocks, 3 leaves, bytes of 2 bits, 2 flushes |
| `chainstate_flush` | `CoinsAtTip`, `DiskIsRecoverable`, `StartNeverFails`, `TipDisconnects`, `TransitionIsKept` | 2 branches of 2 blocks over a common one, 4 outpoints, 2 partial batches per flush |
| `block_tree` | `CandidatesComplete`, `FailedHasCause`, `ActiveChainNotFailed`, `BestChainIsActive`, `NobodyLeftBehind`, `ActivationTerminates` | 5 blocks on a long and a short branch, one bad body, one that does not connect, 2 calls of the operator |
| `check_queue` | `NoCheckOutlivesControl`, `RefinesRounds` | 2 workers, 2 masters, batches of 2, 4 checks per round |
| `filter_index` | `IndexServesChain`, `SyncedWhenDrained`, `CommitsAreSound` | 4 blocks on 2 branches, 3 moves of the chain, 1 crash |
| `validation_signals` | `CountsAreExact`, `QueueIsServed`, `NobodyMissesEvents`, `EventsInOrder`, `EverybodyGetsOn` | 2 scheduler threads, the import thread, the main thread, 1 subscriber with 2 registrations, 2 events, a queue that is long when it is not empty |
| `mempool` | `PackagesFollowLinks`, `LinksFollowInputs`, `PoolFitsChain`, `LimitsAreKept`, `ReorgKeepsTransactions` | 10 transactions, 6 block bodies, chains of 2 blocks, 3 ancestors and 3 descendants, a pool of 5 |
| `tx_request` | `SanityCheck`, `KeepsTheRules`, `CandidatesSettle` | 3 peers, 2 txhashes, the clock back by 1, 1 request in flight before a peer is overloaded |
| `mweb_replay` | `MwebAtTip` (violated) | as `chainstate_flush`, with extension blocks |
| `activation_mutated` | `ActivationTerminates` (violated) | 2 branches of 2 blocks, one mutated |

Each module also has a type invariant, `TypeOK`. It is proved where there is a
proof module, and serves as documentation of the state elsewhere.

### Why the bounds are enough

- `coins_cache`: entries of different outpoints do not interact, so two
  outpoints cover what one flush can mix. Two coins tell an old value from a new
  one. There is no bound on the number of steps.
- `mmr`: 110 leaves pass six powers of two on both sides. 8 leaves give one
  perfect tree of height 3 and every combination of smaller peaks.
- `mweb_chain`: bytes of two bits and three leaves put two leaves in one byte
  and one in the next, so that a rewind ends inside a byte. Two flushes give an
  old, a current and a next file.
- `chainstate_flush`: one transaction is in both branches at different heights,
  and is spent in its own block on one of them. Crashes are not bounded.
- `block_tree`: the short branch has as much work as the first two blocks of the
  long one, so ties, reorganisations back and forth and blocks that wait for a
  missing ancestor all occur. Two calls allow an `invalidateblock` with a
  `reconsiderblock`, a `preciousblock` or a shutdown in the middle.
- `check_queue`: two workers can both be waiting, one or none; four checks with
  batches of two make several batches per round; two masters follow each other.
- `filter_index`: a fork, a return to the first branch, and a flush or one more
  block. One crash, followed by a restart and further moves.
- `validation_signals`: two scheduler threads and a validation thread can stand
  on the same entry while it is unregistered and registered again. With
  `MaxPending` 0 the validation thread waits after every block, so each wait
  meets each moment of the shutdown.
- `mempool`: a chain, a diamond, a conflict, an immature coinbase, a lock time,
  a peg-in with three transparent and two extension block children. The limit
  of 3 descendants and the carve-out's fourth are reached under the peg-in before
  any block is disconnected, and 3 ancestors are more than the carve-out allows,
  so the two ways of acceptance can be told apart. The pool of 5 is trimmed, which
  raises the minimum fee; two disconnected blocks bring back up to four
  transactions, one more than the queue takes.
- `tx_request`: a preferred, an ordinary and a privileged peer compete for one
  txhash. Delays of 1 and an interval of 2 let every order of delay, request,
  expiry and a clock set back occur. Steps are not bounded.

Deadlock is checked in `coins_cache`, `mweb_chain`, `chainstate_flush`,
`check_queue` and `mempool`. In the other passing runs a bound may stop the
model (the moves, the operator's calls, the leaves), a node that is shut down
stops (`validation_signals`), and a tracker whose peers have all left has
nothing more to do (`tx_request`).

### Fairness

- `BlockTree`: weak fairness of the steps of activation and of invalidation. A
  thread that holds or waits for `cs_main` gets on. Nothing is assumed of peers
  and operators.
- `CheckQueue`: weak fairness of every thread's next section, of `Wait` (which
  the destructor calls if `ConnectBlock` does not) and of the end of the control.
  Nothing is assumed of spurious wakeups, so a lost notification would show.
- `ValidationSignals`: weak fairness of every thread's next step, and strong
  fairness of a callback's return: it needs `cs_main`, which other threads take
  and release again and again, and the mutex lets everybody in eventually. Strong
  fairness of a validation thread's end: `ThreadImport` makes finitely many calls,
  and the other threads are interrupted by the shutdown.
- `TxRequest`: strong fairness of each peer's `SendMessages` (the message thread
  visits the peers in turn; it competes with other handlers for `cs_main`), weak
  fairness of the steps inside it, and strong fairness of the clock. Nothing is
  assumed of what peers answer. `CandidatesSettle` asks that the clock is not set
  back for ever.

The other specifications are safety only.

## Where the code departs from its comments

Two runs state what a comment of the repository says and are violated;
`findings` in `PROJECT.json` quotes the lines.

- `mweb_replay`: `ReplayBlocks` repairs the coins and not the extension block's
  state (`validation.cpp:4516`).
- `activation_mutated`: a block that fails to connect as BLOCK_MUTATED stays a
  candidate, and activation tries it for ever (`mweb/mweb_node.cpp:203`).

Seven more properties are violated and have a configuration of their own
instead of an entry in the list of runs. TLC finds a counterexample to each
within a minute or so, with `tlc -config <file> <module>`:

| Property | Configuration | What happens |
|---|---|---|
| `FilesHoldChain` | `MCMwebReorg.cfg`, `MCMwebChain` | After a reorganisation below the last flush the hash file does not hold the chain's nodes: the stream is opened for appending, so the new bytes go to its end (`libmw/src/file/File.cpp:116`). |
| `FlushCommits` | `MCMwebUndoFirst.cfg`, `MCMwebChain` | Undoing the first extension block does not reach the view of the tip: the flush returns early for a view without a header (`libmw/src/node/CoinsViewCache.cpp:250`). |
| `FiltersAlwaysFound` | `MCFilterLocator.cfg`, `MCFilterIndex` | The sync thread commits the locator of a block that it has not written yet; after a crash the index starts behind it (`index/base.cpp:131`). |
| `RewindsFromBest` | `MCFilterRewind.cfg`, `MCFilterIndex` | A reorganisation while the sync thread catches up: it rewinds from the block it has reached, while `m_best_block_index` is the one of the last periodic commit, and "assert(current_tip == m_best_block_index)" fails (`index/base.cpp:176`). |
| `InputsAvailable` | `MCMempoolInputs.cfg`, `MCMempool` | A pool transaction can keep an extension block input that a connected block has spent. `removeForBlock` looks for conflicts of the block's transparent transactions only (`txmempool.cpp:631`), while `CTxMemPool::check` says that inputs "refer to available coins, or other mempool tx's" (`txmempool.cpp:726`). |
| `CarveOutIsLast` | `MCMempoolCarveOut.cfg`, `MCMempool` | A package can have two transactions beyond the limit on descendants. A transaction with one conflict gets a limit that is one higher because it is "not adding any new mempool dependencies" (`validation.cpp:771`), and the check for it (`validation.cpp:906`) looks at the transparent inputs only: an extension block input can add one. |
| `CandidatesNeverMissing` | `MCPreciousTwice.cfg`, `MCBlockTree` | Two blocks of equal work, `preciousblock` on each, and again on the second after it has become the tip: the chain has been extended since the first call, so the counter starts again at -1 and the tip gets the number that the first block has. That one is no longer worse than the tip, and was pruned from the candidates (`validation.cpp:3110`). `CheckBlockIndex` asserts that it "must be in setBlockIndexCandidates" (`validation.cpp:5027`). |

The passing runs stay clear of these by a named condition, never by dropping an
operation:

- `deep` (no flushed block was undone) guards only the hash file's properties in
  `MwebChain`; `UndoFirst` is FALSE in `mweb_chain`.
- `HasMweb` is empty in `chainstate_flush`; `Mutated` is empty in `block_tree`.
- `overtaken` (`preciousblock` gave the tip a number with which a pruned block is
  not worse) in `BlockTree`, until the next restart. The need for it came up in
  the proof of `CandidatesComplete`, which two calls of the operator do not
  violate.
- `gap` (the process was started from a locator ahead of the index) in
  `FilterIndex`. `CommitsAreSound` speaks of the commits of the scheduler thread;
  the periodic one of the sync thread is what opens a gap.
- `stranded` (pool transactions that once lost an extension block input) in the
  links of `Mempool`; `PoolFitsChain` speaks of transparent inputs.
- `Mixed` (a transaction with transparent and extension block inputs) in
  `LimitsAreKept`: a package that one has joined may have one more.

Other behaviours the models follow, and the properties name:

- The import thread may wait in `LimitValidationInterfaceQueue` when `Shutdown`
  has already stopped the scheduler, which it does before it joins that thread
  (`init.cpp:229`). Nobody serves the queue any more and the shutdown does not
  end. `Stuck` in `EverybodyGetsOn` is this state and no other.
- `DisconnectTip` queues the transactions of a block's kernels before those of
  its `vtx`, so that a peg-in is tried again after its transparent children,
  which are dropped. The comment at `validation.cpp:382` describes the order the
  other way. `ReorgKeepsTransactions` therefore speaks of transactions without a
  kernel.
- A transaction without transparent part that a sibling block confirms through
  its kernel stays in the queue of disconnected transactions, and its
  descendants leave the pool with it (`validation.cpp:366`).
- Package limits hold until a reorganisation puts transactions back above
  others, which `UpdateTransactionsFromBlock` allows (`reorged` in
  `LimitsAreKept`).
- `-mempoolreplacement` is off by default (`validation.h:81`); the instance turns
  it on.

`BlockTree` also remembers whether `reconsiderblock` was called, because
`CheckBlockIndex` does not promise its usual relations after some uses of it:

- It clears marked ancestors without making candidates of them, and leaves their
  other descendants marked (`Deep`, when an ancestor of the reconsidered
  block is marked).
- A block whose parent is marked when it arrives is not entered in
  `m_blocks_unlinked` (`validation.cpp:3389`), and reconsidering the parent does
  not bring it back (`reconsidered` in `NobodyLeftBehind`).
- `InvalidateBlock` leaves every block it disconnects BLOCK_FAILED_VALID where
  the comment at `validation.cpp:3208` speaks of turning the descendants into
  children; the model follows the code.

In `FilterIndex`, the assertion of `BaseIndex::Rewind` (`index/base.cpp:176`) may
fail in the sync thread, whose position is not in `m_best_block_index`
(`RewindsFromBest` above). The process then dies and starts again, which
`SyncRewind` models: `IndexServesChain` holds across that death and does not say
that there is none.

## What is proved

Eight modules hold lemmas and theorems. Each is proved for every value of the
constants that satisfies the named assumptions.

| Theorem | Statement | Assumption |
|---|---|---|
| `ChainstateFlushProofs!InvariantHolds` | `Spec => []IInv` | `SpentAssumption`, `CoinsAssumption`, `TxsAssumption`, `ValidAssumption`, `TreeAssumption` |
| `ChainstateFlushProofs!CoinsAreAtTip` | `Spec => []CoinsAtTip` | the same |
| `ChainstateFlushProofs!DiskRecovers` | `Spec => []DiskIsRecoverable` | the same |
| `ChainstateFlushProofs!StartSucceeds` | `Spec => []StartNeverFails` | the same |
| `ChainstateFlushProofs!TipAlwaysDisconnects` | `Spec => []TipDisconnects` | the same |
| `ChainstateFlushProofs!TransitionKept` | `Spec => TransitionIsKept` | none |
| `ChainstateFlushProofs!NeverRunsInTransition` | `Spec => [](heads # <<>> => best = None /\ phase # "run")` | none |
| `FilterIndexProofs!FilterIndexServesChain` | `Spec => []IndexServesChain` | `TreeAssumption`, `FilterIndexAssumption` |
| `FilterIndexProofs!FilterIndexSyncedWhenDrained` | `Spec => []SyncedWhenDrained` | the same |
| `FilterIndexProofs!FilterIndexCommitsAreSound` | `Spec => CommitsAreSound` | the same |
| `BlockTreeProofs!TypeCorrect` | `Spec => []TypeOK` | `TreeAssumption`, `BlockTreeAssumption` |
| `BlockTreeProofs!CandidatesAreComplete` | `Spec => []CandidatesComplete` | the same |
| `BlockTreeProofs!MarksHaveCauses` | `Spec => []FailedHasCause` | the same |
| `BlockTreeProofs!ActiveChainUnmarked` | `Spec => []ActiveChainNotFailed` | the same |
| `BlockTreeProofs!BestChainActive` | `Spec => []BestChainIsActive` | the same |
| `BlockTreeProofs!NobodyIsLeftBehind` | `Spec => []NobodyLeftBehind` | the same |
| `ConnectBlockProofs!NothingOutlives` | `Spec => []NoCheckOutlivesControl` | `CheckQueueAssumption` |
| `ConnectBlockProofs!RoundsAreSafe` | `Spec => Rounds!Init /\ [][Rounds!Next]_(Rounds!vars)` | the same |
| `ConnectBlockProofs!StackTypeCorrect` | `CoinsSpec => []CoinsTypeOK` | `SpentAssumption`, `UnspendableAssumption` |
| `ConnectBlockProofs!StackFlagsAreSound` | `CoinsSpec => []FlagsSound` | the same |
| `ConnectBlockProofs!StackFreshIsNeverSpent` | `CoinsSpec => []NoSpentFresh` | the same |
| `ConnectBlockProofs!StackNeverThrows` | `CoinsSpec => []NoLogicError` | the same |
| `ConnectBlockProofs!StackRefinement` | `CoinsSpec => RefinesUtxoView` | the same |
| `ValidationSignalsProofs!TypeCorrect` | `Spec => []TypeOK` | `SignalsAssumption` |
| `ValidationSignalsProofs!CountsExact` | `Spec => []CountsAreExact` | the same |
| `ValidationSignalsProofs!QueueServed` | `Spec => []QueueIsServed` | the same |
| `ValidationSignalsProofs!EventsComeInOrder` | `Spec => EventsInOrder` | the same |
| `ValidationSignalsProofs!NobodyMisses` | `Spec => []NobodyMissesEvents` | the same |
| `TxRequestProofs!TypeCorrect` | `Spec => []TypeOK` | `TxRequestAssumptions` |
| `TxRequestProofs!TrackerIsSane` | `Spec => []SanityCheck` | the same |
| `TxRequestProofs!RulesAreKept` | `Spec => KeepsTheRules` | the same |

`TreeAssumption` is that `pprev` leads from every block to the genesis block; a
tree may be infinite. `ValidAssumption` is that a transaction of a block spends
coins that are there and makes coins that are not: the blocks `ChainstateFlush`
connects have passed the checks. `BlockTreeAssumption` gives each block an
address, by which `CBlockIndexWorkComparator` breaks ties, and some work.
`FilterIndexAssumption` is that the bounds are numbers and that "no entry" is not
an entry.

**ConnectBlockProofs.** The two things `ConnectBlock` works with. For the script
checks, a round may end when `nTodo` is zero, so the properties rest on the
counters. `IInv` has four parts: the types; the counters are exact
(`nIdle` and `nTotal` are the numbers of threads that wait and that have joined,
`nTodo` is the number of checks queued and held); where a thread may be; and
what is known of the verdict (between rounds the queue is as new; in a round a
failed check has been accounted for, or is queued, or is held). A section of the
loop first books a finished batch and then takes the next one or waits, so
`Mid` states what holds between the two halves, and each half is a lemma. The
number of workers, of checks and the size of a batch are arbitrary.

Outpoints and coins are arbitrary. None of the properties of the coins caches is
inductive alone. `StackIInv` is that both are `StackSound` over the layer behind them
(FRESH entries are spent there, clean entries equal it, FRESH entries are dirty
and unspent, and an entry not in the map carries nothing), with types, an empty
view when none is open, and nothing thrown. The lemmas say of each operation of
`Coins` that it keeps a cache sound and what it does to the map the cache stands
for: `FetchCoin` and `Uncache` change no map, `AddCoin` and `SpendCoin` change one
coin of it, and `BatchWrite` of a sound child makes the parent stand for the
child's map. The refinement follows from the same lemmas.

**ValidationSignalsProofs.** `CInv` strengthens `CountsAreExact`: no two
subscribers have the same entry, without which a count could not be taken down by
one. The cardinalities of the sets of threads that stand on an entry move by one
with each step of `Iterate`. `QueueIsServed` is inductive with the types.
`EventInv` is about the events: for some k, those after the k-th wait in the
queue, in order (`QueuedAfter`); every entry of the list has heard the k-th or,
while it is being delivered, the entries behind the one that is executing have
heard the one before (`HeardUpTo`). It rests on the two
before it: one thread at a time runs callbacks, and an entry leaves the list only
when nobody executes it.

**TxRequestProofs.** `IInv == TypeOK /\ SanityCheck`. Each operation of the
tracker is a lemma about one row: it keeps the row sane, and on the abstract row,
without READY and BEST, it is an operation of `TxRequestRules` or no change. The
cached choice is sound because a sane row has a BEST or a REQUESTED announcement
whenever it has a READY one, and BEST has the highest priority.

**BlockPathProofs.** Facts about trees that the modules below share. Induction along
`pprev` and along a sequence is a theorem about sets (`TreeInduction`,
`NatSetInduction`): a set that holds the root, and a block whenever it holds the
block's parent, holds every block. That recursive functions satisfy their
equations is proved from the same (`TreeRecursion`, `NatRecursion`).

**ChainstateFlushProofs.** `Transition` says that while DB_HEAD_BLOCKS is there
DB_BEST_BLOCK is not, the node does not run, and whoever flushes is flushing to
the first head. A crash keeps it because it changes nothing on disk; a replay
keeps it because it starts its flush at the first head. `IInv` adds that every
coin on disk is the one of the best block or, in a transition, of one of the two
heads (`DiskInv`); that a process sees the coins of its tip through a cache with
sound flags (`CacheInv`); and that the block index on disk knows every block
which the coins refer to, and the undo data of each block it knows (`IndexInv`).
A batch of dirty coins keeps `DiskInv` because each dirty coin is one of the new
head. The proof that `ReplayBlocks` works does not follow the batches. Rolling a
transaction back decides every coin it touches, whatever that was, and so does
rolling one forward. `Near(u, v, w, D)` says that `u` agrees with `v` but for
coins of `D`, which may be `w`'s; each walk keeps it with the UTXO set of the block
it has reached as `v`, and at the end nothing is left of `D`.

**FilterIndexProofs.** The index lags behind the chain, and what keeps it right is
the queue. `Move(p, e)` is the best block after event `e` for an index at `p`: a
block that does not connect is skipped. A run follows the queue from some event
on, from any block. `Keeps(q, t)` says that no run loses a block of the chain of
the tip `t` that it has, and `Leads(q, p, t)` that the run from `p` ends at the tip
or above it. A reorganisation keeps both because its events start on the fork and
each is the child of the one before it (`Climb`). `Leads` begins to hold when the
sync thread hands over, which it does under `cs_main` at the tip, and `Keeps` is
why it then holds whatever is still queued.
`SyncedWhenDrained` is `Leads` of the empty queue. The rest of `Body` is:

- `Control`: where the two threads are; only one of them writes, and the filter at
  the next place of the file is that of the block it is about to enter.
- `First`: the notification of the genesis block is at the head of the queue of an
  index that has nothing, and nowhere else. Without it the first event could be
  another block, and `BlockConnected` would give up.
- `Indexes`: the chain of the last block taken in is in the height index, and
  every other block taken in is in the hash index, with the right header and a
  filter in front of the next place. `Rewind` copies before anything is
  overwritten, so a block whose height entry is replaced is there already.

`IInv` is `~gap => Body`: a start from an unsound database is a known departure
(see above), and nothing is claimed of the process from then on.

**BlockIndexProofs, BlockTreeProofs.** The first has the facts about the tree, the
comparator (a linear order that follows `pprev`) and the queue of
`ReceivedBlockTransactions`, states the invariant `Inv` and proves that the types,
the index and the marks are kept; the second proves the rest and the theorems. A
property speaks of the moments when `cs_main` is free, or of those when no
activation is outstanding, so `Inv` says what holds within each section:

- `ChainInv`: no candidate is worse than the tip; the chain aimed at is a
  candidate, and the tip is on it or on its way down to the fork. Within a section,
  the tip may be worse than the one it started from, which can be connected again.
- `CandsInv`: no block is missing from the candidates that is as good as the tip
  and as the tip that the section started from (`Whole`), although the candidates
  are pruned against every tip that the section passes.
- `BestInv`: no unmarked candidate is better than the chain aimed at, or than the
  tip when nothing is outstanding. `BestChainIsActive` follows from it and
  `CandsInv`.
- `MarkInv`, `LinkInv`, `IndexInv`: the marks have causes and are not on the chain
  aimed at; a block that waits in `m_blocks_unlinked` is there once, with a parent
  that is not linked.

## What is only model-checked

- Liveness: `ActivationTerminates`, `EverybodyGetsOn`, `CandidatesSettle` and the
  fairness of `RefinesRounds` (its safety part is `RoundsAreSafe`). TLAPS does not
  prove properties under fairness here.
- `mmr`: what the position arithmetic computes. It rests on folds and on powers of
  two, whose arithmetic the provers do not do.
- `mempool`: the totals over ancestors and descendants are sums over sets that
  recursive operators walk, and TLAPS cannot reason in a module that declares one.
- `mweb_chain`: no proof has been written. Both sides of its properties, the state
  of a chain and what applying a body to a view does, are folds over sequences of
  blocks, outputs and leaves, and the hash files rest on the arithmetic of `mmr`.
- `IInv`, `Inv` and the other inductive invariants were checked by TLC on the
  instances of their runs before they were proved.

## What is not modelled

- The contents of consensus checks, scripts, proofs and signatures: a block,
  body, transaction or check is its outcome.
- Pruning of block files and of the PMMR; `RewindBlockIndex`; `VerifyDB`.
- Loss of power. A write that returned survives the death of the process.
- Failing reads and writes (`AbortNode`).
- Interruption of the script check threads at shutdown.
- `FilterIndex`: the two batches of a `Rewind` are one step; the cache of
  checkpoint headers and the range lookups are left out.
- `Mempool`: sizes, signature operations and weights (a transaction counts one),
  entry times (any transaction may expire), the value of the rolling minimum fee
  while it fades, saving and loading the pool.
- `ValidationSignals`: tasks scheduled for a later time and `MockForward`.
- Of the peers' protocol only transaction requests and the arrival of headers
  and blocks are there: not the download of headers and blocks, compact blocks,
  addresses or connections, which are mostly I/O and timing.
- Version bits: a pure function of the block index, whose cache cannot go stale.
- Mining and the building of extension blocks: a search over the pool under one
  lock that changes no state of it.
- Fee estimation: statistics in floating point, out of TLC's reach.
- The wallet (`wallet/`), a client of the validation interface as large as all
  that is modelled here, and the front ends.

`components` in `PROJECT.json` gives the same part by part.
