----------------------------- MODULE FilterIndex -----------------------------
(***************************************************************************)
(* BlockFilterIndex over BaseIndex (index/blockfilterindex.cpp,            *)
(* index/base.cpp): the sync thread that catches up with the chain, the    *)
(* scheduler thread that follows it through the validation interface's     *)
(* queue, the height and hash indexes, the filter file, and crashes        *)
(* between any two writes.  Every filter takes one place of the file.      *)
(***************************************************************************)
EXTENDS BlockPaths

CONSTANTS MaxMoves,     \* bound: changes of the chain and chainstate flushes
          MaxCrashes,   \* bound: times the process dies or is interrupted
          MaxPos        \* bound: filters the file has room for

Positions == 0..MaxPos

\* DBVal: the block, its filter's header, by the blocks that header commits to,
\* and where the filter is.
Entry == [block : Blocks, header : SUBSET Blocks, pos : Positions]

\* What the database answers when it has no entry is not an entry.
ASSUME FilterIndexAssumption ==
    /\ MaxMoves \in Nat /\ MaxCrashes \in Nat /\ MaxPos \in Nat
    /\ None \notin Entry

VARIABLES
    tip,          \* ChainActive().Tip(), None before the genesis block is connected
    flushed,      \* the tip the chainstate on disk is at
    queue,        \* the validation interface's queue
    best, synced, \* m_best_block_index, m_synced
    sync,         \* the sync thread: where it is, pindex, the position it is committing
    cb,           \* the scheduler thread: where it is in BlockConnected, and for which block
    heightIndex, hashIndex, file,
    nextPos,      \* m_next_filter_pos
    diskPos,      \* DB_FILTER_POS
    locator,      \* the first block of DB_BEST_BLOCK's locator
    interrupt,    \* m_interrupt
    up,           \* the process runs
    moves, crashes,
    fatal,        \* history: FatalError was called or a null pointer followed
    gap,          \* history: the process was started from a locator ahead of the index
    indexed       \* history: the blocks WriteBlock succeeded for since the last crash

chain == <<tip, flushed, queue>>
memory == <<best, synced, nextPos, interrupt>>
disk == <<heightIndex, hashIndex, file, diskPos, locator>>
bounds == <<moves, crashes>>
history == <<fatal, gap, indexed>>
vars == <<chain, memory, disk, sync, cb, up, bounds, history>>

Heights == {Height[b] : b \in Blocks}

\* CBlockIndex::GetAncestor, None when there is none at this height.
GetAncestor(b, h) ==
    IF \E a \in Path[b] : Height[a] = h THEN CHOOSE a \in Path[b] : Height[a] = h ELSE None

\* CChain::FindFork and, for the ancestors that a locator lists,
\* FindForkInGlobalIndex: the last block of b's chain in the chain of t.
FindFork(b, t) == IF Path[b] \cap Path[t] = {} THEN None ELSE LastCommonAncestor(b, t)

\* NextSyncBlock: the block of the active chain after the fork.
NextSyncBlock(b) ==
    LET next == {a \in Path[tip] : Parent[a] = FindFork(b, tip)} IN
    IF next = {} THEN None ELSE CHOOSE a \in next : TRUE

------------------------------------------------------------------------------
\* Start on a chain that may have been there before the index was enabled, or
\* with no block connected yet.
Init ==
    /\ tip \in Blocks \cup {None} /\ flushed = tip /\ queue = <<>>
    /\ best = None /\ synced = (tip = None) /\ nextPos = 0 /\ interrupt = FALSE
    /\ heightIndex = [h \in Heights |-> None]
    /\ hashIndex = [b \in Blocks |-> None]
    /\ file = [p \in Positions |-> None]
    /\ diskPos = 0 /\ locator = None
    /\ sync = [pc |-> IF tip = None THEN "done" ELSE "loop", pindex |-> None, pos |-> 0]
    /\ cb = [pc |-> "idle", block |-> None]
    /\ up = TRUE /\ moves = 0 /\ crashes = 0
    /\ fatal = FALSE /\ gap = FALSE /\ indexed = {}

------------------------------------------------------------------------------
\* The chain moves under cs_main and tells the queue.
MainFree == up /\ sync.pc \notin {"final", "locator"}

\* The blocks from the fork with the chain of a up to b.
Between(a, b) ==
    LET fork == FindFork(b, a)
        below == IF fork = None THEN -1 ELSE Height[fork]
    IN  [i \in 1..Height[b] - below |-> GetAncestor(b, below + i)]

Connected(b) == [kind |-> "connected", block |-> b]

\* ActivateBestChain reaches a block with as much work, disconnecting first.
ActivateBestChain(b) ==
    /\ MainFree /\ moves < MaxMoves /\ moves' = moves + 1
    /\ b # tip /\ Height[b] >= IF tip = None THEN 0 ELSE Height[tip]
    /\ tip' = b
    /\ queue' = queue \o [i \in DOMAIN Between(tip, b) |-> Connected(Between(tip, b)[i])]
    /\ UNCHANGED <<flushed, memory, disk, sync, cb, up, crashes, history>>

\* InvalidateBlock disconnects the tip.
DisconnectTip ==
    /\ MainFree /\ moves < MaxMoves /\ moves' = moves + 1
    /\ tip \notin {None, Genesis}
    /\ tip' = Parent[tip]
    /\ UNCHANGED <<flushed, queue, memory, disk, sync, cb, up, crashes, history>>

\* FlushStateToDisk; nothing is flushed before the first block.
FlushStateToDisk ==
    /\ MainFree /\ moves < MaxMoves /\ moves' = moves + 1
    /\ tip # None /\ flushed # tip
    /\ flushed' = tip
    /\ queue' = Append(queue, [kind |-> "flushed", block |-> tip])
    /\ UNCHANGED <<tip, memory, disk, sync, cb, up, crashes, history>>

------------------------------------------------------------------------------
\* LookupOne: by height, or by hash if the height has another block.
LookupOne(b) ==
    LET entry == heightIndex[Height[b]] IN
    IF entry = None \/ entry.block = b THEN entry ELSE hashIndex[b]

\* What the node answers about a block is that block's filter and header.
Served(b) ==
    LET entry == LookupOne(b) IN
    /\ entry # None
    /\ file[entry.pos] = b /\ entry.header = Path[b]

\* The height index on disk has every block the locator on disk covers, and the
\* next filter goes behind theirs.
DiskSound == \A b \in Path[locator] : /\ Served(b) /\ heightIndex[Height[b]].block = b
                                      /\ heightIndex[Height[b]].pos < diskPos

\* CChain::GetLocator: of the tip when there is no best block.
GetLocator(b) == IF b = None THEN tip ELSE b

\* Mutant: the file position is not written.
CommitLocatorOnly(b) ==
    /\ locator' = GetLocator(b)
    /\ UNCHANGED diskPos

\* Commit, with everything it reads taken at once.
Commit(b) ==
    /\ locator' = GetLocator(b)
    /\ diskPos' = nextPos

\* FatalError: the thread gives up and the node shuts down.
FatalError == fatal' = TRUE /\ up' = FALSE

\* BlockFilterIndex::WriteBlock finds the previous block's entry where it has
\* to be.
CanWrite(b) ==
    Height[b] > 0 => LET prev == heightIndex[Height[b] - 1] IN
                     prev # None /\ prev.block = Parent[b]

\* WriteFilterToDisk.
WriteFilter(b) == file' = [file EXCEPT ![nextPos] = b]

\* The entry by height, with the header that commits to all the ones before.
WriteEntry(b) ==
    LET prev == IF Height[b] = 0 THEN {} ELSE heightIndex[Height[b] - 1].header IN
    /\ heightIndex' = [heightIndex EXCEPT ![Height[b]] =
                          [block |-> b, header |-> prev \cup {b}, pos |-> nextPos]]
    /\ nextPos' = nextPos + 1
    /\ indexed' = indexed \cup {b}

\* Mutant: the old tip's entry is left out.
CopiedBelow(old, new) == Height[new]..(Height[old] - 1)

\* CopyHeightIndexToHashIndex, from the new tip's height to the old one's.
Copied(old, new) == Height[new]..Height[old]
CopySucceeds(old, new) == \A h \in Copied(old, new) : heightIndex[h] # None
Copy(old, new) ==
    hashIndex' = [b \in Blocks |->
        IF \E h \in Copied(old, new) : heightIndex[h].block = b
        THEN heightIndex[CHOOSE h \in Copied(old, new) : heightIndex[h].block = b]
        ELSE hashIndex[b]]

------------------------------------------------------------------------------
\* ThreadSync, interrupted.
SyncInterrupted ==
    /\ up /\ sync.pc = "loop" /\ interrupt
    /\ best' = sync.pindex
    /\ Commit(sync.pindex)
    /\ sync' = [sync EXCEPT !.pc = "done"]
    /\ UNCHANGED <<chain, synced, nextPos, interrupt, heightIndex, hashIndex, file, cb, up, bounds,
                   history>>

\* The section under cs_main finds nothing to do: from here on the scheduler
\* thread follows the chain.
SyncCaughtUp ==
    /\ up /\ sync.pc = "loop" /\ NextSyncBlock(sync.pindex) = None
    /\ best' = sync.pindex /\ synced' = TRUE
    /\ sync' = [sync EXCEPT !.pc = "final"]
    /\ UNCHANGED <<chain, nextPos, interrupt, disk, cb, up, bounds, history>>

\* Its Commit, still under cs_main, reads the file position first and the best
\* block afterwards, with the scheduler thread running.
SyncReadPosition ==
    /\ up /\ sync.pc = "final"
    /\ sync' = [sync EXCEPT !.pc = "locator", !.pos = nextPos]
    /\ UNCHANGED <<chain, memory, disk, cb, up, bounds, history>>

SyncCommitLocator ==
    /\ up /\ sync.pc = "locator"
    /\ locator' = GetLocator(best) /\ diskPos' = sync.pos
    /\ sync' = [sync EXCEPT !.pc = "done"]
    /\ UNCHANGED <<chain, memory, heightIndex, hashIndex, file, cb, up, bounds, history>>

\* The section finds the next block on top of the last one.
SyncNext ==
    /\ up /\ sync.pc = "loop"
    /\ LET next == NextSyncBlock(sync.pindex) IN
       /\ next # None /\ Parent[next] = sync.pindex
       /\ sync' = [sync EXCEPT !.pc = "commit", !.pindex = next]
    /\ UNCHANGED <<chain, memory, disk, cb, up, bounds, history>>

\* The section finds that the chain has left pindex: Rewind copies the entries,
\* asserts that pindex is m_best_block_index (the process dies if not), and
\* commits.
SyncRewind ==
    /\ up /\ sync.pc = "loop"
    /\ LET next == NextSyncBlock(sync.pindex) IN
       /\ next # None /\ Parent[next] # sync.pindex
       /\ IF ~CopySucceeds(sync.pindex, Parent[next])
          THEN FatalError /\ UNCHANGED <<best, disk, sync, indexed>>
          ELSE /\ Copy(sync.pindex, Parent[next])
               /\ IF sync.pindex = best
                  THEN /\ best' = Parent[next] /\ Commit(Parent[next])
                       /\ sync' = [sync EXCEPT !.pc = "commit", !.pindex = next]
                       /\ UNCHANGED up
                  ELSE /\ up' = FALSE /\ diskPos' = nextPos
                       /\ UNCHANGED <<best, locator, sync>>
               /\ UNCHANGED <<heightIndex, file, fatal, indexed>>
    /\ UNCHANGED <<chain, synced, nextPos, interrupt, cb, bounds, gap>>

\* Every SYNC_LOCATOR_WRITE_INTERVAL the block about to be written is committed.
SyncLocator ==
    /\ up /\ sync.pc = "commit"
    /\ best' = sync.pindex
    /\ Commit(sync.pindex)
    /\ sync' = [sync EXCEPT !.pc = "write"]
    /\ UNCHANGED <<chain, synced, nextPos, interrupt, heightIndex, hashIndex, file, cb, up, bounds,
                   history>>

\* The block is read and its filter written to the file.
SyncWriteFilter ==
    /\ up /\ sync.pc \in {"commit", "write"} /\ nextPos < MaxPos
    /\ IF CanWrite(sync.pindex)
       THEN /\ WriteFilter(sync.pindex)
            /\ sync' = [sync EXCEPT !.pc = "entry"]
            /\ UNCHANGED <<up, fatal>>
       ELSE FatalError /\ UNCHANGED <<file, sync>>
    /\ UNCHANGED <<chain, memory, heightIndex, hashIndex, diskPos, locator, cb, bounds, gap, indexed>>

SyncWriteEntry ==
    /\ up /\ sync.pc = "entry"
    /\ WriteEntry(sync.pindex)
    /\ sync' = [sync EXCEPT !.pc = "loop"]
    /\ UNCHANGED <<chain, best, synced, interrupt, hashIndex, file, diskPos, locator, cb, up, bounds,
                   fatal, gap>>

------------------------------------------------------------------------------
\* The scheduler thread takes the next event off the queue.
Event(kind) == up /\ cb.pc = "idle" /\ queue # <<>> /\ Head(queue).kind = kind
Pop == queue' = Tail(queue) /\ UNCHANGED <<tip, flushed>>

\* Mutant: the block has to be on top of the best block.
ConnectsTipOnly(b) == best = Parent[b]

\* The block is on top of an ancestor of the best block.
Connects(b) == GetAncestor(best, Height[b] - 1) = Parent[b]

\* BlockConnected leaves the index alone.
SkipBlock ==
    /\ Event("connected") /\ Pop
    /\ ~synced \/ (best # None /\ ~Connects(Head(queue).block))
    /\ UNCHANGED <<memory, disk, sync, cb, up, bounds, history>>

\* BlockConnected, with the Rewind that comes first when the block is not on
\* top of the best block.  It gives up when the first block is not the genesis
\* block, and follows a null pointer when the genesis block is not the first.
BlockConnected ==
    /\ Event("connected") /\ Pop /\ synced
    /\ LET b == Head(queue).block IN
       /\ best # None => Connects(b)
       /\ IF (best = None) # (b = Genesis)
          THEN FatalError /\ UNCHANGED <<best, disk, cb, indexed>>
          ELSE IF best = Parent[b]
          THEN /\ cb' = [pc |-> "write", block |-> b]
               /\ UNCHANGED <<best, disk, up, fatal, indexed>>
          ELSE IF ~CopySucceeds(best, Parent[b])
          THEN FatalError /\ UNCHANGED <<best, disk, cb, indexed>>
          ELSE /\ Copy(best, Parent[b])
               /\ best' = Parent[b] /\ Commit(Parent[b])
               /\ cb' = [pc |-> "write", block |-> b]
               /\ UNCHANGED <<heightIndex, file, up, fatal, indexed>>
    /\ UNCHANGED <<synced, nextPos, interrupt, sync, bounds, gap>>

WriteBlockFilter ==
    /\ up /\ cb.pc = "write" /\ nextPos < MaxPos
    /\ IF CanWrite(cb.block)
       THEN /\ WriteFilter(cb.block) /\ cb' = [cb EXCEPT !.pc = "entry"]
            /\ UNCHANGED <<up, fatal>>
       ELSE FatalError /\ UNCHANGED <<file, cb>>
    /\ UNCHANGED <<chain, memory, heightIndex, hashIndex, diskPos, locator, sync, bounds, gap, indexed>>

WriteBlockEntry ==
    /\ up /\ cb.pc = "entry"
    /\ WriteEntry(cb.block)
    /\ best' = cb.block
    /\ cb' = [cb EXCEPT !.pc = "idle"]
    /\ UNCHANGED <<chain, synced, interrupt, hashIndex, file, diskPos, locator, sync, up, bounds,
                   fatal, gap>>

\* ChainStateFlushed commits when the flushed block is one the index has.
ChainStateFlushed ==
    /\ Event("flushed") /\ Pop
    /\ IF synced /\ best # None /\ Head(queue).block \in Path[best]
       THEN Commit(best) ELSE UNCHANGED <<locator, diskPos>>
    /\ fatal' = (fatal \/ (synced /\ best = None))
    /\ UNCHANGED <<memory, heightIndex, hashIndex, file, sync, cb, up, bounds, gap, indexed>>

------------------------------------------------------------------------------
\* Interrupt, when the node begins to shut down.
Interrupt ==
    /\ up /\ ~interrupt /\ crashes < MaxCrashes /\ crashes' = crashes + 1
    /\ interrupt' = TRUE
    /\ UNCHANGED <<chain, best, synced, nextPos, disk, sync, cb, up, moves, history>>

\* The process dies, or comes to its end.  What it wrote is there.
Crash ==
    /\ up /\ (crashes < MaxCrashes \/ interrupt)
    /\ crashes' = IF interrupt THEN crashes ELSE crashes + 1
    /\ up' = FALSE
    /\ UNCHANGED <<chain, memory, disk, sync, cb, moves, history>>

\* BlockFilterIndex::Init on the chainstate of the last flush.
Restart ==
    /\ ~up /\ ~fatal
    /\ up' = TRUE /\ interrupt' = FALSE
    /\ tip' = flushed /\ queue' = <<>> /\ UNCHANGED flushed
    /\ nextPos' = diskPos
    /\ LET fork == FindFork(locator, flushed) IN
       /\ best' = fork
       /\ synced' = (fork = flushed)
       /\ sync' = [pc |-> IF fork = flushed THEN "done" ELSE "loop", pindex |-> fork, pos |-> 0]
    /\ cb' = [pc |-> "idle", block |-> None]
    /\ gap' = (gap \/ ~DiskSound)
    /\ indexed' = {}
    /\ UNCHANGED <<disk, bounds, fatal>>

Next ==
    \/ \E b \in Blocks : ActivateBestChain(b)
    \/ DisconnectTip \/ FlushStateToDisk
    \/ SyncInterrupted \/ SyncCaughtUp \/ SyncReadPosition \/ SyncCommitLocator
    \/ SyncNext \/ SyncRewind \/ SyncLocator \/ SyncWriteFilter \/ SyncWriteEntry
    \/ SkipBlock \/ BlockConnected \/ WriteBlockFilter \/ WriteBlockEntry
    \/ ChainStateFlushed
    \/ Interrupt \/ Crash \/ Restart

Spec == Init /\ [][Next]_vars

------------------------------------------------------------------------------
Entries == Entry \cup {None}

\* The state is well typed.
TypeOK ==
    /\ tip \in Blocks \cup {None} /\ best \in Blocks \cup {None} /\ flushed \in Blocks \cup {None}
    /\ \A h \in Heights : heightIndex[h] \in Entries
    /\ \A b \in Blocks : hashIndex[b] \in Entries
    /\ file \in [Positions -> Blocks \cup {None}]
    /\ {nextPos, diskPos} \subseteq Positions /\ locator \in Blocks \cup {None}
    /\ cb.pc \in {"idle", "write", "entry"}
    /\ sync.pc \in {"loop", "commit", "write", "entry", "final", "locator", "done"}

\* The last block the index has taken in.
LastIndexed ==
    IF synced \/ sync.pc = "done" THEN best
    ELSE IF sync.pc = "loop" THEN sync.pindex ELSE Parent[sync.pindex]

\* blockfilterindex.cpp:15: started from a sound database, the index never gives
\* up, and the filter and the header of every block it has taken in, in the
\* chain or reorganised out of it since, can be retrieved, through reorganisations
\* while it catches up, the hand-over to the scheduler thread and the events
\* still in the queue then.
IndexServesChain ==
    ~gap => /\ ~fatal
            /\ up => \A b \in Path[LastIndexed] \cup indexed : Served(b)

\* base.h:109: once the index has been in sync, a thread that waits for the
\* queue to drain finds every block of the chain indexed.
SyncedWhenDrained ==
    up /\ synced /\ ~gap /\ queue = <<>> /\ cb.pc = "idle" => Path[tip] \subseteq Path[best]

\* base.cpp:179: what the scheduler thread commits is sound, whatever crash
\* comes next: it covers only blocks the index on disk can serve.
SchedulerCommits == sync' = sync /\ up /\ up' /\ <<locator, diskPos>>' # <<locator, diskPos>>
CommitsAreSound == [][SchedulerCommits /\ ~gap => DiskSound']_vars

\* base.cpp:176, "assert(current_tip == m_best_block_index)", when the sync thread
\* finds that the chain has left the block it has reached and rewinds.
RewindsFromBest ==
    up /\ sync.pc = "loop" =>
        LET next == NextSyncBlock(sync.pindex) IN
        next # None /\ Parent[next] # sync.pindex => sync.pindex = best

\* blockfilterindex.cpp:15: the same without the assumption on the database.
FiltersAlwaysFound == up => \A b \in Path[LastIndexed] : Served(b)
==============================================================================
