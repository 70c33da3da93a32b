----------------------------- MODULE BlockTree -----------------------------
(***************************************************************************)
(* The block index and the choice of the active chain (validation.cpp):    *)
(* headers and blocks arrive, ActivateBestChain moves the tip, and the     *)
(* operator calls preciousblock, invalidateblock and reconsiderblock.      *)
(*                                                                         *)
(* A thread in ActivateBestChain or InvalidateBlock holds m_cs_chainstate  *)
(* all along and takes cs_main again and again; run is its state.  Between *)
(* two of its cs_main sections every other handler may run.  Inside a      *)
(* section no other handler runs, and the section is split into one action *)
(* for each candidate looked at, block disconnected or block connected.    *)
(*                                                                         *)
(* Blocks are never pruned, so BLOCK_HAVE_DATA and nTx > 0 coincide.       *)
(***************************************************************************)
EXTENDS BlockPaths, Functions

CONSTANTS Order,         \* the blocks, by the address of their index entries
          Proof,         \* GetBlockProof
          BadBody,       \* blocks that fail ContextualCheckBlock
          BadConnect,    \* blocks that fail ConnectBlock (BLOCK_CONSENSUS)
          Mutated,       \* blocks that fail ConnectBlock (BLOCK_MUTATED)
          MinBlocksToKeep, MinimumChainWork,
          RevSeqs,       \* number of values nBlockReverseSequenceId can take
          MaxCalls       \* bound on the operator's calls and shutdowns

ASSUME BlockTreeAssumption ==
    /\ Order \in Seq(Blocks) /\ Range(Order) = Blocks /\ IsInjective(Order)
    /\ Proof \in [Blocks -> Nat \ {0}]
    /\ Genesis \notin BadBody \cup BadConnect \cup Mutated
    /\ RevSeqs \in Nat \ {0} /\ MaxCalls \in Nat

\* nChainWork.
Work[b \in Blocks \cup {None}] == IF b = None THEN 0 ELSE Proof[b] + Work[Parent[b]]

Address(b) == CHOOSE i \in DOMAIN Order : Order[i] = b

\* BlockStatus: BLOCK_VALID_TREE, _TRANSACTIONS and _SCRIPTS; 0 is no entry.
TREE == 2
TRANSACTIONS == 3
SCRIPTS == 5

VARIABLES
    level,        \* nStatus & BLOCK_VALID_MASK of every block in the index
    have,         \* blocks with BLOCK_HAVE_DATA
    failedValid,  \* blocks with BLOCK_FAILED_VALID
    failedChild,  \* blocks with BLOCK_FAILED_CHILD
    linked,       \* HaveTxsDownloaded(): blocks with nChainTx # 0
    seq,          \* nSequenceId
    nextSeq,      \* nBlockSequenceId
    revSeq,       \* nBlockReverseSequenceId
    lastPrecious, \* nLastPreciousChainwork
    failedBlocks, \* m_failed_blocks
    unlinked,     \* m_blocks_unlinked: the second components, as inserted
    cands,        \* setBlockIndexCandidates
    tip,          \* m_chain.Tip()
    run,          \* the thread that holds m_cs_chainstate
    call,         \* a handler has still to call ActivateBestChain
    stop,         \* ShutdownRequested()
    calls,        \* operator calls and shutdowns so far
    reconsidered, \* history: whether reconsiderblock was called, and whether
                  \* below a marked block
    overtaken     \* history: preciousblock put the tip behind a pruned block

index == <<level, have, failedValid, failedChild, linked, failedBlocks, unlinked>>
order == <<seq, nextSeq, revSeq, lastPrecious>>
history == <<reconsidered, overtaken>>
control == <<call, stop, calls, history>>
vars == <<index, order, cands, tip, run, control>>

Deep == reconsidered = "deep"
Known == {b \in Blocks : level[b] > 0}
failed == failedValid \cup failedChild
Active == Path[tip]

\* CBlockIndex::IsValid and RaiseValidity.
IsValid(b, upTo) == b \notin failed /\ level[b] >= upTo
Raised(b, upTo) == IF b \notin failed /\ level[b] < upTo THEN [level EXCEPT ![b] = upTo] ELSE level

\* CBlockIndexWorkComparator, for given sequence numbers.
Worse(s, a, b) ==
    \/ Work[a] < Work[b]
    \/ Work[a] = Work[b] /\ s[a] > s[b]
    \/ Work[a] = Work[b] /\ s[a] = s[b] /\ Address(a) > Address(b)

\* cs_main is free, and so is m_cs_chainstate when run is Idle.
Idle == [pc |-> "idle"]
MainFree == run.pc \in {"idle", "released", "invalidate", "mark"}

Init ==
    /\ level = [b \in Blocks |-> IF b = Genesis THEN TRANSACTIONS ELSE 0]
    /\ have = {Genesis} /\ linked = {Genesis}
    /\ failedValid = {} /\ failedChild = {} /\ failedBlocks = {} /\ unlinked = <<>>
    /\ seq = [b \in Blocks |-> IF b = Genesis THEN 1 ELSE 0]
    /\ nextSeq = 2 /\ revSeq = -1 /\ lastPrecious = 0
    /\ cands = {Genesis} /\ tip = Genesis
    /\ run = Idle /\ call = FALSE /\ stop = FALSE /\ calls = 0
    /\ reconsidered = "no" /\ overtaken = FALSE

-----------------------------------------------------------------------------
\* AcceptBlockHeader: the failed blocks that pindexPrev descends from, if it has
\* not been validated, and the first of them in m_failed_blocks.
FailedAbove(p) == IF IsValid(p, SCRIPTS) THEN {} ELSE failedBlocks \cap Path[p]
FirstFailed(p) == CHOOSE f \in FailedAbove(p) : \A g \in FailedAbove(p) : Address(f) <= Address(g)

\* The header of b is in the index, or its parent is there and not marked.
HeaderAccepted(b) ==
    IF level[b] > 0 THEN b \notin failed
    ELSE level[Parent[b]] > 0 /\ Parent[b] \notin failed /\ FailedAbove(Parent[b]) = {}

\* Mutant: the failed block's ancestors are marked too.
MarkedByHeaderAll(b) ==
    IF level[b] = 0 /\ level[Parent[b]] > 0 /\ Parent[b] \notin failed /\ FailedAbove(Parent[b]) # {}
    THEN Path[Parent[b]] ELSE {}

\* The blocks between a failed block and the new header's parent, which are
\* marked when the header is rejected because of them.
MarkedByHeader(b) ==
    IF level[b] = 0 /\ level[Parent[b]] > 0 /\ Parent[b] \notin failed /\ FailedAbove(Parent[b]) # {}
    THEN Path[Parent[b]] \ Path[FirstFailed(Parent[b])] ELSE {}

\* nStatus & BLOCK_VALID_MASK once the header is accepted (AddToBlockIndex).
WithHeader(b) == IF level[b] = 0 THEN [level EXCEPT ![b] = TREE] ELSE level

\* ProcessNewBlockHeaders with one header.
AcceptBlockHeader(b) ==
    /\ MainFree /\ b # Genesis /\ level[b] = 0
    /\ \/ HeaderAccepted(b) /\ level' = WithHeader(b) /\ UNCHANGED failedChild
       \/ ~HeaderAccepted(b) /\ failedChild' = failedChild \cup MarkedByHeader(b) /\ UNCHANGED level
    /\ UNCHANGED <<have, failedValid, linked, failedBlocks, unlinked, order, cands, tip, run, control>>

\* Mutant: the blocks that waited for b stay where they are.
NowLinkedAlone(b) == <<b>>

\* The queue of ReceivedBlockTransactions: b, then what waited for b in
\* m_blocks_unlinked, then what waited for those.
NowLinked(b) ==
    LET queue[i \in 0..Len(unlinked)] ==
          IF i = 0 THEN <<b>>
          ELSE LET q == queue[i - 1] IN
               IF i > Len(q) THEN q ELSE q \o Kept(unlinked, {c \in Blocks : Parent[c] = q[i]})
    IN  queue[Len(unlinked)]

ReceivedBlockTransactions(b) ==
    /\ have' = have \cup {b}
    /\ IF Parent[b] \in linked
       THEN LET queue == NowLinked(b)
                s == [c \in Blocks |-> IF \E i \in DOMAIN queue : queue[i] = c
                                       THEN nextSeq + (CHOOSE i \in DOMAIN queue : queue[i] = c) - 1
                                       ELSE seq[c]]
            IN  /\ linked' = linked \cup Range(queue)
                /\ seq' = s /\ nextSeq' = nextSeq + Len(queue)
                /\ cands' = cands \cup {c \in Range(queue) : ~Worse(s, c, tip)}
                /\ unlinked' = Kept(unlinked, Blocks \ Range(queue))
       ELSE /\ unlinked' = IF Parent[b] \in failed THEN unlinked ELSE Append(unlinked, b)
            /\ UNCHANGED <<linked, seq, nextSeq, cands>>

\* A block that AcceptBlock does not store: it has it already, or did not ask
\* for it and has no use for it.
Ignored(b, fRequested) ==
    \/ b \in have
    \/ /\ ~fRequested
       /\ \/ Work[b] < Work[tip]
          \/ Height[b] > Height[tip] + MinBlocksToKeep
          \/ Work[b] < MinimumChainWork

\* AcceptBlock, called by ProcessNewBlock, which goes on to ActivateBestChain
\* unless the block is found invalid.
AcceptBlock(b, fRequested) ==
    /\ MainFree /\ b # Genesis /\ HeaderAccepted(b)
    /\ call' = (call \/ Ignored(b, fRequested) \/ b \notin BadBody)
    /\ IF Ignored(b, fRequested)
       THEN /\ level' = WithHeader(b)
            /\ UNCHANGED <<have, failedValid, linked, unlinked, seq, nextSeq, cands>>
       ELSE IF b \in BadBody
       THEN /\ level' = WithHeader(b) /\ failedValid' = failedValid \cup {b}
            /\ UNCHANGED <<have, linked, unlinked, seq, nextSeq, cands>>
       ELSE /\ level' = [level EXCEPT ![b] = TRANSACTIONS]
            /\ ReceivedBlockTransactions(b)
            /\ UNCHANGED failedValid
    /\ UNCHANGED <<failedChild, failedBlocks, revSeq, lastPrecious, tip, run, stop, calls, history>>

-----------------------------------------------------------------------------
\* PruneBlockIndexCandidates.
Pruned(c, t) == {b \in c : ~Worse(seq, b, t)}

\* ActivateBestChain is called and takes m_cs_chainstate.
ActivateBestChain ==
    /\ run = Idle /\ call
    /\ run' = [pc |-> "released", most |-> None]
    /\ call' = FALSE
    /\ UNCHANGED <<index, order, cands, tip, stop, calls, history>>

\* The outer loop takes cs_main.
LockMain ==
    /\ run.pc = "released"
    /\ run' = [pc |-> "find", most |-> run.most, start |-> tip, connected |-> FALSE]
    /\ UNCHANGED <<index, order, cands, tip, control>>

\* One round of FindMostWorkChain: the best candidate, and the nearest of its
\* ancestors off the active chain that is marked, if there is one.
BestCandidate == CHOOSE c \in cands : \A d \in cands : ~Worse(seq, c, d)
FailedOnPath(c) == {t \in Path[c] \ Active : t \in failed}
NearestFailed(c) == CHOOSE t \in FailedOnPath(c) : FailedOnPath(c) \subseteq Path[t]

\* Mutant: the marked ancestor itself stays a candidate.
DropCandidateKeepsFailed ==
    /\ run.pc = "find" /\ run.most = None /\ cands # {}
    /\ FailedOnPath(BestCandidate) # {}
    /\ LET above == Path[BestCandidate] \ Path[NearestFailed(BestCandidate)] IN
       /\ failedChild' = failedChild \cup above
       /\ cands' = cands \ above
    /\ UNCHANGED <<level, have, failedValid, linked, failedBlocks, unlinked, order, tip, run, control>>

\* The candidate is unusable: it and everything down to the marked ancestor are
\* no candidates any more.
DropCandidate ==
    /\ run.pc = "find" /\ run.most = None /\ cands # {}
    /\ FailedOnPath(BestCandidate) # {}
    /\ LET bad == NearestFailed(BestCandidate)
           above == Path[BestCandidate] \ Path[bad] IN
       /\ failedChild' = failedChild \cup above
       /\ cands' = cands \ (above \cup {bad})
    /\ UNCHANGED <<level, have, failedValid, linked, failedBlocks, unlinked, order, tip, run, control>>

\* The chain with the most work: known already, or the best candidate.
MostWork ==
    IF run.most # None THEN run.most ELSE IF cands = {} THEN None ELSE BestCandidate

Found == run.pc = "find" /\ (run.most = None /\ cands # {} => FailedOnPath(BestCandidate) = {})

\* Leaves cs_main: the outer loop ends when the new tip is the one aimed at, or
\* on shutdown.
LeaveMain(most, t) == IF t = most \/ stop THEN Idle ELSE [pc |-> "released", most |-> most]

\* Nothing to do: pindexMostWork is null or the tip.
NothingToDo ==
    /\ Found /\ MostWork \in {None, tip}
    /\ run' = IF run.connected THEN LeaveMain(MostWork, tip) ELSE Idle
    /\ UNCHANGED <<index, order, cands, tip, control>>

BeginStep ==
    /\ Found /\ MostWork \notin {None, tip}
    /\ run' = [pc |-> "step", most |-> MostWork, start |-> run.start, oldTip |-> tip]
    /\ UNCHANGED <<index, order, cands, tip, control>>

\* DisconnectTip, while the tip is not an ancestor of pindexMostWork.
DisconnectTip ==
    /\ run.pc = "step" /\ tip \notin Path[run.most]
    /\ tip' = Parent[tip]
    /\ UNCHANGED <<index, order, cands, run, control>>

Toward == CHOOSE b \in Path[run.most] : Parent[b] = tip
AtConnect == run.pc = "step" /\ tip \in Path[run.most] /\ tip # run.most

\* ActivateBestChainStep is over, and the inner loop goes on while the tip is
\* worse than the one it began with.
EndStep(most, t) ==
    IF Worse(seq, t, run.start)
    THEN [pc |-> "find", most |-> most, start |-> run.start, connected |-> TRUE]
    ELSE LeaveMain(most, t)

\* ConnectTip succeeds; the candidates are pruned and the step ends as soon as
\* there is more work than before.
ConnectTip ==
    /\ AtConnect /\ Toward \notin BadConnect \cup Mutated
    /\ tip' = Toward
    /\ level' = Raised(Toward, SCRIPTS)
    /\ cands' = Pruned(cands, Toward)
    /\ run' = IF Work[Toward] > Work[run.oldTip] \/ Toward = run.most
              THEN EndStep(run.most, Toward) ELSE run
    /\ UNCHANGED <<have, failedValid, failedChild, linked, failedBlocks, unlinked, order, control>>

\* InvalidBlockFound, for a block whose data is not mutated.
InvalidBlockFound(b) ==
    /\ failedValid' = failedValid \cup {b}
    /\ failedBlocks' = failedBlocks \cup {b}
    /\ cands' = cands \ {b}

\* ConnectTip fails, and InvalidBlockFound marks the block unless its data may
\* be mutated.
ConnectFails ==
    /\ AtConnect /\ Toward \in BadConnect \cup Mutated
    /\ IF Toward \in Mutated THEN UNCHANGED <<failedValid, failedBlocks, cands>>
       ELSE InvalidBlockFound(Toward)
    /\ run' = EndStep(None, tip)
    /\ UNCHANGED <<level, have, failedChild, linked, unlinked, order, tip, control>>

-----------------------------------------------------------------------------
\* The blocks that are no candidates for having been worse than the tip, and are
\* not worse any more with the sequence numbers s.
Overtakes(s) == {c \in linked \ (cands \cup failed) : Worse(seq, c, tip) /\ ~Worse(s, c, tip)}

\* PreciousBlock, up to its call of ActivateBestChain.
PreciousBlock(b) ==
    /\ MainFree /\ calls < MaxCalls /\ calls' = calls + 1
    /\ b \in Known /\ Work[b] >= Work[tip]
    /\ LET from == IF Work[tip] > lastPrecious THEN -1 ELSE revSeq
           s == [seq EXCEPT ![b] = from]
           c == cands \ {b} IN
       /\ seq' = s
       /\ revSeq' = IF from > -RevSeqs THEN from - 1 ELSE from
       /\ overtaken' = (overtaken \/ (b = tip /\ Overtakes(s) # {}))
       /\ cands' = IF IsValid(b, TRANSACTIONS) /\ b \in linked
                   THEN {d \in c \cup {b} : ~Worse(s, d, tip)} ELSE c
    /\ lastPrecious' = Work[tip]
    /\ call' = TRUE
    /\ UNCHANGED <<index, nextSeq, tip, run, stop, reconsidered>>

\* InvalidateBlock begins: candidate_blocks_by_work.
InvalidateBlock(b) ==
    /\ run = Idle /\ calls < MaxCalls /\ calls' = calls + 1
    /\ b \in Known \ {Genesis}
    /\ run' = [pc |-> "invalidate", pindex |-> b, toMark |-> b,
               byWork |-> {c \in Known \ Active : /\ ~Worse(seq, c, Parent[b])
                                                 /\ IsValid(c, TRANSACTIONS) /\ c \in linked}]
    /\ UNCHANGED <<index, order, cands, tip, call, stop, history>>

\* One round of its loop, while pindex is in the active chain.
InvalidateTip ==
    /\ run.pc = "invalidate" /\ run.pindex \in Active /\ ~stop
    /\ LET t == Parent[tip]
           better == {c \in run.byWork : ~Worse(seq, c, t)}
           remark == t = run.toMark /\ t \in failedValid IN
       /\ tip' = t
       /\ cands' = (cands \ {tip}) \cup {t} \cup better
       /\ failedValid' = (failedValid \cup {tip}) \ (IF remark THEN {t} ELSE {})
       /\ failedChild' = failedChild \cup (IF remark THEN {t} ELSE {})
       /\ run' = [run EXCEPT !.toMark = tip, !.byWork = @ \ better]
    /\ UNCHANGED <<level, have, linked, failedBlocks, unlinked, order, control>>

InvalidateLoopEnds ==
    /\ run.pc = "invalidate" /\ (run.pindex \notin Active \/ stop)
    /\ run' = [run EXCEPT !.pc = "mark"]
    /\ UNCHANGED <<index, order, cands, tip, control>>

\* Mutant: the last section does not look whether the block is in the chain.
MarkInvalidUnchecked ==
    /\ run.pc = "mark"
    /\ failedValid' = failedValid \cup {run.toMark}
    /\ failedBlocks' = failedBlocks \cup {run.toMark}
    /\ cands' = (cands \ {run.toMark})
                   \cup {c \in linked \ failed : level[c] >= TRANSACTIONS /\ ~Worse(seq, c, tip)}
    /\ run' = Idle /\ call' = TRUE
    /\ UNCHANGED <<level, have, failedChild, linked, unlinked, order, tip, stop, calls, history>>

\* The last section of InvalidateBlock; invalidateblock then calls
\* ActivateBestChain, whether the block could be marked or not.
MarkInvalid ==
    /\ run.pc = "mark"
    /\ IF run.toMark \in Active THEN UNCHANGED <<failedValid, failedBlocks, cands>>
       ELSE LET f == failed \cup {run.toMark} IN
            /\ failedValid' = failedValid \cup {run.toMark}
            /\ failedBlocks' = failedBlocks \cup {run.toMark}
            /\ cands' = (cands \ {run.toMark})
                           \cup {c \in linked \ f : level[c] >= TRANSACTIONS /\ ~Worse(seq, c, tip)}
    /\ run' = Idle /\ call' = TRUE
    /\ UNCHANGED <<level, have, failedChild, linked, unlinked, order, tip, stop, calls, history>>

\* Mutant: only the block itself becomes a candidate again.
ResetCandidatesSelf(b, cleared) == {c \in {b} \cap linked : Worse(seq, tip, c)}

\* The descendants that ResetBlockFailureFlags makes candidates again.
ResetCandidates(b, cleared) ==
    {c \in Descendants(b) \cap cleared : level[c] >= TRANSACTIONS /\ c \in linked /\ Worse(seq, tip, c)}

\* The blocks that lose their failure flags.
Cleared(b) == failed \cap (Descendants(b) \cup Path[b])

\* reconsiderblock: ResetBlockFailureFlags, then ActivateBestChain.
ResetBlockFailureFlags(b) ==
    /\ MainFree /\ calls < MaxCalls /\ calls' = calls + 1
    /\ b \in Known \ {Genesis}
    /\ LET cleared == Cleared(b) IN
       /\ failedValid' = failedValid \ cleared
       /\ failedChild' = failedChild \ cleared
       /\ failedBlocks' = failedBlocks \ cleared
       /\ cands' = cands \cup ResetCandidates(b, cleared)
    /\ call' = TRUE
    /\ reconsidered' = IF Deep \/ Path[Parent[b]] \cap failed # {} THEN "deep" ELSE "plain"
    /\ UNCHANGED <<level, have, linked, unlinked, order, tip, run, stop, overtaken>>

StartShutdown ==
    /\ ~stop /\ calls < MaxCalls /\ calls' = calls + 1
    /\ stop' = TRUE
    /\ UNCHANGED <<index, order, cands, tip, run, call, history>>

\* The rest of a shutdown that writes everything, then LoadBlockIndex with
\* LoadChainTip and the first ActivateBestChain.
Restart ==
    /\ stop /\ run = Idle
    /\ LET inChild == {b \in Known : Path[b] \cap failed # {}} \ failed
           f == failed \cup inChild
           complete == {b \in have : Path[b] \subseteq have}
           zero == [b \in Blocks |-> 0] IN
       /\ failedChild' = failedChild \cup inChild
       /\ linked' = complete
       /\ unlinked' = Kept(Order, have \ complete)
       /\ cands' = {b \in complete \ f : level[b] >= TRANSACTIONS /\ ~Worse(zero, b, tip)}
       /\ seq' = zero
    /\ nextSeq' = 1 /\ revSeq' = -1 /\ lastPrecious' = 0 /\ failedBlocks' = {}
    /\ call' = TRUE /\ stop' = FALSE /\ overtaken' = FALSE
    /\ UNCHANGED <<level, have, failedValid, tip, run, calls, reconsidered>>

Activation ==
    \/ ActivateBestChain \/ LockMain \/ DropCandidate \/ NothingToDo \/ BeginStep
    \/ DisconnectTip \/ ConnectTip \/ ConnectFails

Invalidation == InvalidateTip \/ InvalidateLoopEnds \/ MarkInvalid

Next ==
    \/ \E b \in Blocks : AcceptBlockHeader(b)
    \/ \E b \in Blocks, fRequested \in BOOLEAN : AcceptBlock(b, fRequested)
    \/ \E b \in Blocks : PreciousBlock(b)
    \/ \E b \in Blocks : InvalidateBlock(b)
    \/ \E b \in Blocks : ResetBlockFailureFlags(b)
    \/ Activation
    \/ Invalidation
    \/ StartShutdown
    \/ Restart

\* A thread in validation is never starved for good: the locks are fair enough
\* that a step which stays possible is taken.
Spec == Init /\ [][Next]_vars /\ WF_vars(Activation) /\ WF_vars(Invalidation)

-----------------------------------------------------------------------------
\* The states of the thread in ActivateBestChain or InvalidateBlock.
Runs ==
    {Idle}
    \cup [pc : {"released"}, most : Blocks \cup {None}]
    \cup [pc : {"find"}, most : Blocks \cup {None}, start : Blocks, connected : BOOLEAN]
    \cup [pc : {"step"}, most : Blocks, start : Blocks, oldTip : Blocks]
    \cup [pc : {"invalidate", "mark"}, pindex : Blocks \ {Genesis}, toMark : Blocks \ {Genesis},
          byWork : SUBSET Blocks]

TypeOK ==
    /\ level \in [Blocks -> {0, TREE, TRANSACTIONS, SCRIPTS}]
    /\ have \cup failedValid \cup failedChild \cup failedBlocks \subseteq Known
    /\ cands \subseteq linked /\ linked \subseteq have /\ tip \in linked
    /\ unlinked \in Seq(have)
    /\ seq \in [Blocks -> Int] /\ nextSeq \in Nat /\ revSeq \in (-RevSeqs)..-1
    /\ lastPrecious \in Nat
    /\ run \in Runs
    /\ {call, stop, overtaken} \subseteq BOOLEAN /\ calls \in 0..MaxCalls
    /\ reconsidered \in {"no", "plain", "deep"}

CauseAbove(b) == Path[b] \cap failedValid # {}

\* CheckBlockIndex (validation.cpp:5023-5041): whenever cs_main is free the tip
\* is a candidate, and the candidates are exactly the blocks as good as the tip
\* whose transactions and ancestors' transactions have been received, but for
\* those that descend from an invalid block, which may be there or not.  While
\* InvalidateBlock runs some may be missing, which its last section repairs.
\* ResetBlockFailureFlags makes no candidate of an ancestor it clears, and
\* PreciousBlock may give the tip the number of a block that was pruned.
CandidatesComplete ==
    MainFree =>
       /\ Deep \/ overtaken \/ tip \in cands
       /\ \A b \in Known :
             IF b \in linked /\ ~Worse(seq, b, tip)
             THEN \/ CauseAbove(b) \/ b \in cands
                  \/ Deep \/ overtaken \/ run.pc \in {"invalidate", "mark"}
             ELSE b \notin cands

\* CheckBlockIndex (validation.cpp:5019-5022): a block is marked failed only if
\* it or an ancestor was found invalid or was invalidated by the operator.
\* ResetBlockFailureFlags clears an ancestor and leaves its other descendants.
\* The members of m_failed_blocks, from which AcceptBlockHeader marks new
\* descendants, are such causes themselves, as it asserts (validation.cpp:3839).
FailedHasCause ==
    /\ ~Deep => \A b \in failed : CauseAbove(b)
    /\ failedBlocks \subseteq failedValid

\* No block of the active chain is marked failed when cs_main is free: marking
\* and disconnecting agree however reconsiderblock, preciousblock, new headers
\* and a shutdown fall between the steps of InvalidateBlock and activation.
ActiveChainNotFailed == MainFree => Active \cap failed = {}

\* validation.h:180: ActivateBestChain finds the best known block and makes it
\* the tip.  When no call of it is outstanding or cut short by a shutdown, no
\* chain that is completely received and not marked failed is better than the
\* active one.
BestChainIsActive ==
    run = Idle /\ ~call /\ ~stop /\ ~Deep /\ ~overtaken =>
       \A b \in linked : Path[b] \cap failed = {} => ~Worse(seq, tip, b)

\* Of the blocks that descend from no invalid one, those whose ancestors have
\* all been received are linked, in whatever order they came, and those that
\* wait for an ancestor are in m_blocks_unlinked (validation.cpp:5050-5055).
\* Reconsidering an invalid block does not bring back what it kept out.
NobodyLeftBehind ==
    \A b \in have : ~CauseAbove(b) /\ reconsidered = "no" =>
       /\ b \in linked <=> Path[b] \subseteq have
       /\ b \in Range(unlinked) <=> b \notin linked

\* A call of ActivateBestChain returns (validation.h:663): whatever arrives
\* between its steps, it does not look for a better chain for ever.
ActivationTerminates == (run.pc = "released") ~> (run = Idle)

\* CheckBlockIndex (validation.cpp:5024) without the exception for a repeated
\* preciousblock: no block as good as the tip is missing.
CandidatesNeverMissing ==
    MainFree /\ ~Deep /\ run.pc \notin {"invalidate", "mark"} =>
       \A b \in linked : Worse(seq, b, tip) \/ CauseAbove(b) \/ b \in cands
=============================================================================
