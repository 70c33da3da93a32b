--------------------------- MODULE BlockTreeProofs ---------------------------
(***************************************************************************)
(* Proofs about BlockTree, the second half: every step keeps the blocks    *)
(* that wait for an ancestor, the place of the tip, the candidates and the *)
(* choice of the active chain.  With the first half, the theorems hold for *)
(* every tree of blocks, every set of bad blocks and any number of calls.  *)
(***************************************************************************)
EXTENDS BlockIndexProofs

\* Leaves that name no prover: SMT, then Zenon, with time to spare.
USE SMTT(20), ZenonT(30)

\* Every step keeps the blocks that wait in m_blocks_unlinked.
LEMMA LinksKept == Inv /\ Next => LinkInv'
<1> SUFFICES ASSUME Inv, Next PROVE LinkInv'
  OBVIOUS
<1> USE DEF Inv
<1>0. /\ IsInjective(unlinked) /\ Range(unlinked) \cap linked = {}
      /\ \A x \in Range(unlinked) : Parent[x] \notin linked
      /\ reconsidered = "no" => \A x \in have \ linked : CauseAbove(x) \/ x \in Range(unlinked)
  BY DEF LinkInv
<1>t. have \subseteq Blocks /\ linked \subseteq have /\ linked \subseteq Blocks
  BY BlocksTypes DEF TypeOK
<1>f. ASSUME UNCHANGED <<have, linked, unlinked>>,
             reconsidered' = "no" => reconsidered = "no" /\ failedValid \subseteq failedValid'
      PROVE  LinkInv'
  BY <1>0, <1>f DEF LinkInv, CauseAbove
<1>1. ASSUME NEW b \in Blocks, AcceptBlockHeader(b) PROVE LinkInv'
  BY <1>1, <1>f DEF AcceptBlockHeader, control, history
<1>2. ASSUME NEW b \in Blocks, NEW fRequested \in BOOLEAN, AcceptBlock(b, fRequested) PROVE LinkInv'
  <2>1. /\ reconsidered' = reconsidered /\ b # Genesis /\ failedValid \subseteq failedValid'
        /\ \/ UNCHANGED <<have, linked, unlinked>>
           \/ /\ b \notin have /\ have' = have \cup {b}
              /\ \E J \in SUBSET Blocks : Receives(b, J)
    BY <1>2, Accepts DEF history
  <2>2. CASE UNCHANGED <<have, linked, unlinked>>
    BY <1>f, <2>1, <2>2
  <2>3. CASE b \notin have /\ have' = have \cup {b} /\ \E J \in SUBSET Blocks : Receives(b, J)
    <3>1. PICK J \in SUBSET Blocks : Receives(b, J)
      BY <2>3
    <3>2. /\ J \subseteq have \cup {b} /\ J \cap linked = {} /\ linked' = linked \cup J
          /\ IsInjective(unlinked')
          /\ \/ /\ b \in J /\ Range(unlinked') = Range(unlinked) \ J
                /\ \A c \in Range(unlinked') : Parent[c] \notin linked \cup J
             \/ /\ J = {} /\ Parent[b] \notin linked
                /\ Range(unlinked') = Range(unlinked) \cup (IF Parent[b] \in failed THEN {} ELSE {b})
      BY <3>1 DEF Receives
    <3>3. \A x \in have : CauseAbove(x) => CauseAbove(x)'
      BY <2>1 DEF CauseAbove
    <3>4. CASE b \in J
      <4>1. /\ Range(unlinked') = Range(unlinked) \ J
            /\ \A c \in Range(unlinked') : Parent[c] \notin linked \cup J
        <5>1. J # {}
          BY <3>4
        <5> QED BY <3>2, <5>1
      <4>2. Range(unlinked') \cap linked' = {} /\ \A c \in Range(unlinked') : Parent[c] \notin linked'
        BY <1>0, <3>2, <4>1
      <4>3. reconsidered' = "no" => \A x \in have' \ linked' : CauseAbove(x)' \/ x \in Range(unlinked')
        BY <1>0, <2>1, <2>3, <3>2, <3>3, <3>4, <4>1, ZenonT(30)
      <4> QED BY <3>2, <4>2, <4>3 DEF LinkInv
    <3>5. CASE b \notin J
      <4>1. /\ J = {} /\ Parent[b] \notin linked
            /\ Range(unlinked') = Range(unlinked) \cup (IF Parent[b] \in failed THEN {} ELSE {b})
        BY <3>2, <3>5
      <4>2. Range(unlinked') \cap linked' = {} /\ \A c \in Range(unlinked') : Parent[c] \notin linked'
        BY <1>0, <1>t, <2>3, <3>2, <4>1
      <4>3. reconsidered = "no" /\ Parent[b] \in failed => CauseAbove(b)'
        <5>1. reconsidered = "no" /\ Parent[b] \in failed => CauseAbove(Parent[b])
          BY DEF Deep, MarkInv, FailedHasCause
        <5> QED BY <2>1, <5>1, PathStep DEF CauseAbove
      <4>4. reconsidered' = "no" => \A x \in have' \ linked' : CauseAbove(x)' \/ x \in Range(unlinked')
        BY <1>0, <2>1, <2>3, <3>2, <3>3, <4>1, <4>3, ZenonT(30)
      <4> QED BY <3>2, <4>2, <4>4 DEF LinkInv
    <3> QED BY <3>4, <3>5
  <2> QED BY <2>1, <2>2, <2>3
<1>3. ASSUME NEW b \in Blocks, PreciousBlock(b) PROVE LinkInv'
  BY <1>3, <1>f DEF PreciousBlock, index
<1>4. ASSUME NEW b \in Blocks, InvalidateBlock(b) PROVE LinkInv'
  BY <1>4, <1>f DEF InvalidateBlock, index, history
<1>5. ASSUME NEW b \in Blocks, ResetBlockFailureFlags(b) PROVE LinkInv'
  <2>1. reconsidered' # "no"
    BY <1>5 DEF ResetBlockFailureFlags
  <2> QED BY <1>5, <1>f, <2>1 DEF ResetBlockFailureFlags
<1>6. CASE ActivateBestChain
  BY <1>6, <1>f DEF ActivateBestChain, index, history
<1>7. CASE LockMain
  BY <1>7, <1>f DEF LockMain, index, control, history
<1>8. CASE DropCandidate
  BY <1>8, <1>f DEF DropCandidate, control, history
<1>9. CASE NothingToDo
  BY <1>9, <1>f DEF NothingToDo, index, control, history
<1>10. CASE BeginStep
  BY <1>10, <1>f DEF BeginStep, index, control, history
<1>11. CASE DisconnectTip
  BY <1>11, <1>f DEF DisconnectTip, index, control, history
<1>12. CASE ConnectTip
  BY <1>12, <1>f DEF ConnectTip, control, history
<1>13. CASE ConnectFails
  BY <1>13, <1>f DEF ConnectFails, InvalidBlockFound, control, history
<1>14. CASE InvalidateTip
  BY <1>14, <1>f, InvalidatesTip DEF control, history
<1>15. CASE InvalidateLoopEnds
  BY <1>15, <1>f DEF InvalidateLoopEnds, index, control, history
<1>16. CASE MarkInvalid
  BY <1>16, <1>f DEF MarkInvalid, history
<1>17. CASE StartShutdown
  BY <1>17, <1>f DEF StartShutdown, index, history
<1>18. CASE Restart
  <2> DEFINE complete == {b \in have : Path[b] \subseteq have}
             rest == have \ complete
  <2>1. linked' = complete /\ unlinked' = Kept(Order, rest) /\ have' = have
    BY <1>18 DEF Restart
  <2>2. Range(unlinked') = rest /\ IsInjective(unlinked')
    <3>1. Order \in Seq(Blocks) /\ Range(Order) = Blocks /\ IsInjective(Order)
      BY BlockTreeAssumption
    <3> HIDE DEF rest
    <3>2. /\ Range(Kept(Order, rest)) = Range(Order) \cap rest
          /\ IsInjective(Order) => IsInjective(Kept(Order, rest))
      BY <3>1, KeptRange, ZenonT(30)
    <3>3. Range(Order) \cap rest = rest
      BY <1>t, <3>1 DEF rest
    <3> QED BY <2>1, <3>1, <3>2, <3>3
  <2>3. \A x \in rest : Parent[x] \notin complete
    BY <1>t, PathStep
  <2> QED BY <2>1, <2>2, <2>3, ZenonT(30) DEF LinkInv
<1> QED BY <1>1, <1>2, <1>3, <1>4, <1>5, <1>6, <1>7, <1>8, <1>9, <1>10, <1>11, <1>12, <1>13, <1>14, <1>15,
           <1>16, <1>17, <1>18, ZenonT(30) DEF Next, Activation, Invalidation

\* From the lowest block that is not linked upwards, nobody is left behind.
LEMMA NobodyLeft == Inv => NobodyLeftBehind
<1> SUFFICES ASSUME Inv, NEW b \in have, ~CauseAbove(b), reconsidered = "no"
             PROVE  /\ b \in linked <=> Path[b] \subseteq have
                    /\ b \in Range(unlinked) <=> b \notin linked
  BY DEF NobodyLeftBehind
<1> USE DEF Inv
<1>t. have \subseteq Blocks /\ linked \subseteq have /\ Genesis \in linked
  BY BlocksTypes, PathHasSelf DEF TypeOK, IndexInv
<1> DEFINE T == {x \in Blocks : Path[x] \subseteq have /\ ~CauseAbove(x) => x \in linked}
<1>1. ASSUME NEW x \in Blocks, x = Genesis \/ Parent[x] \in T PROVE x \in T
  <2> SUFFICES ASSUME x # Genesis, Path[x] \subseteq have, ~CauseAbove(x) PROVE x \in linked
    BY <1>t
  <2>1. Parent[x] \in linked
    BY <1>1, PathStep DEF CauseAbove
  <2> QED BY <2>1, PathHasSelf DEF LinkInv
<1>2. Blocks \subseteq T
  <2> HIDE DEF T
  <2> QED BY <1>1, TreeInduction
<1>3. Path[b] \subseteq have => b \in linked
  BY <1>2, <1>t
<1> QED BY <1>3, <1>t DEF IndexInv, LinkInv

\* What preciousblock does to the candidates: it keeps the rest of them, and adds
\* the block if it may be connected.
LEMMA Precious ==
  ASSUME Inv, NEW b \in Blocks, PreciousBlock(b)
  PROVE  /\ MainFree /\ b \in Known
         /\ seq' \in [Blocks -> Int] /\ \A x \in Blocks \ {b} : seq'[x] = seq[x]
         /\ call' = TRUE /\ UNCHANGED <<index, nextSeq, tip, run, stop, reconsidered>>
         /\ overtaken' = (overtaken \/ (b = tip /\ Overtakes(seq') # {}))
         /\ \/ /\ b \in linked /\ b \notin failed
               /\ cands' = {d \in (cands \ {b}) \cup {b} : ~Worse(seq', d, tip)}
            \/ /\ ~(b \in linked /\ b \notin failed) /\ cands' = cands \ {b}
<1> USE DEF Inv
<1> DEFINE from == IF Work[tip] > lastPrecious THEN -1 ELSE revSeq
<1>1. /\ MainFree /\ b \in Known /\ seq' = [seq EXCEPT ![b] = from] 
      /\ call' = TRUE /\ UNCHANGED <<index, nextSeq, tip, run, stop, reconsidered>>
  BY DEF PreciousBlock
<1>2. seq \in [Blocks -> Int] /\ from \in Int
  BY DEF TypeOK
<1>3. seq' \in [Blocks -> Int] /\ \A x \in Blocks \ {b} : seq'[x] = seq[x]
  <2> HIDE DEF from
  <2> QED BY <1>1, <1>2
<1>4. /\ overtaken' = (overtaken \/ (b = tip /\ Overtakes(seq') # {}))
      /\ cands' = IF IsValid(b, TRANSACTIONS) /\ b \in linked
                  THEN {d \in (cands \ {b}) \cup {b} : ~Worse(seq', d, tip)} ELSE cands \ {b}
  BY DEF PreciousBlock
<1>5. IsValid(b, TRANSACTIONS) /\ b \in linked <=> b \in linked /\ b \notin failed
  BY DEF IsValid, TypeOK, IndexInv
<1> QED BY <1>1, <1>3, <1>4, <1>5, ZenonT(30)

\* Every step keeps the place of the tip on the way to the chain aimed at.
LEMMA ChainKept == Inv /\ Next => ChainInv'
<1> SUFFICES ASSUME Inv, Next PROVE ChainInv'
  OBVIOUS
<1> USE DEF Inv
<1>0. /\ \A x \in cands : ~Worse(seq, x, tip)
      /\ Connectable(tip)
      /\ Aiming => run.most \in cands
      /\ Aiming /\ run.pc # "step" => tip \in Path[run.most]
      /\ run.pc = "released" => run.most # tip
      /\ run.pc = "find" \/ (run.pc = "step" /\ tip \notin Path[run.most]) => ~Worse(seq, run.start, tip)
      /\ Activating => run.start \in linked /\ Connectable(run.start) /\ Path[run.start] \cap failed = {}
      /\ Invalidating => run.byWork \subseteq linked /\ run.toMark \in Known
  BY DEF ChainInv
<1>t. /\ tip \in Blocks /\ tip # None /\ tip \in linked /\ run \in Runs /\ linked \subseteq Blocks
      /\ cands \subseteq Blocks /\ cands \subseteq linked /\ seq \in [Blocks -> Int]
  BY BlocksTypes DEF TypeOK
<1>m. /\ Active \cap failed = {} /\ (Aiming => Path[run.most] \cap failed = {})
  BY ZenonT(30) DEF MarkInv
<1>k. ASSUME MainFree, run' = run, tip' = tip, linked \subseteq linked', Known \subseteq Known',
             \A x \in cands' : ~Worse(seq', x, tip), Aiming => run.most \in cands'
      PROVE  ChainInv'
  <2>1. Aiming' = Aiming /\ ~Activating' /\ ~Activating /\ Invalidating' = Invalidating
    BY <1>k, ZenonT(30) DEF MainFree, Aiming, Activating, Invalidating
  <2> QED BY <1>0, <1>k, <2>1 DEF ChainInv, Connectable, Activating
<1>i. ASSUME run'.pc = "idle" \/ (run'.pc = "released" /\ run'.most = None), tip' # None,
             Connectable(tip'), \A x \in cands' : ~Worse(seq', x, tip')
      PROVE  ChainInv'
  <2>1. ~Aiming' /\ ~Activating' /\ ~Invalidating' /\ run'.pc # "find" /\ run'.pc # "step"
    BY <1>i, ZenonT(30) DEF Aiming, Activating, Invalidating
  <2> QED BY <1>i, <2>1 DEF ChainInv, Connectable
<1>p. Parent[tip] \in Blocks => 
         /\ Worse(seq, Parent[tip], tip) /\ Connectable(Parent[tip])
         /\ \A x \in Blocks : ~Worse(seq, x, tip) => ~Worse(seq, x, Parent[tip])
  <2> SUFFICES ASSUME Parent[tip] \in Blocks
               PROVE  /\ Worse(seq, Parent[tip], tip) /\ Connectable(Parent[tip])
                      /\ \A x \in Blocks : ~Worse(seq, x, tip) => ~Worse(seq, x, Parent[tip])
    OBVIOUS
  <2>1. Parent[tip] \in Path[tip] /\ Parent[tip] # tip /\ Path[Parent[tip]] \subseteq Path[tip]
    BY <1>t, PathStep, PathHasSelf, PathAcyclic
  <2>2. Worse(seq, Parent[tip], tip)
    BY <1>t, <2>1, WorseAncestor, ZenonT(30)
  <2> QED BY <1>0, <1>t, <2>1, <2>2, WorseOrder, ZenonT(30) DEF Connectable
<1>1. ASSUME NEW b \in Blocks, AcceptBlockHeader(b) PROVE ChainInv'
  <2>1. /\ MainFree /\ UNCHANGED <<linked, seq, cands, tip, run>>
        /\ level' = level \/ level' = WithHeader(b)
    BY <1>1 DEF AcceptBlockHeader, order
  <2>2. Known \subseteq Known'
    BY <2>1, HeaderLevels DEF Known
  <2> QED BY <1>0, <1>k, <2>1, <2>2, ZenonT(30)
<1>2. ASSUME NEW b \in Blocks, NEW fRequested \in BOOLEAN, AcceptBlock(b, fRequested) PROVE ChainInv'
  <2>1. /\ MainFree /\ UNCHANGED <<tip, run>>
        /\ level' = WithHeader(b) \/ level' = [level EXCEPT ![b] = TRANSACTIONS]
        /\ \/ UNCHANGED <<linked, seq, cands>>
           \/ \E J \in SUBSET Blocks : Receives(b, J)
    BY <1>2, Accepts
  <2>2. Known \subseteq Known'
    BY <2>1, HeaderLevels, ZenonT(30)
  <2>3. CASE UNCHANGED <<linked, seq, cands>>
    BY <1>0, <1>k, <2>1, <2>2, <2>3, ZenonT(30)
  <2>4. ASSUME NEW J \in SUBSET Blocks, Receives(b, J) PROVE ChainInv'
    <3>1. /\ J \cap linked = {} /\ linked' = linked \cup J
          /\ \A c \in Blocks \ J : seq'[c] = seq[c]
          /\ cands' = cands \cup {c \in J : ~Worse(seq', c, tip)}
      BY <2>4, ZenonT(30) DEF Receives
    <3>2. \A x \in cands : ~Worse(seq', x, tip)
      <4> SUFFICES ASSUME NEW x \in cands PROVE ~Worse(seq', x, tip)
        OBVIOUS
      <4>1. seq'[x] = seq[x] /\ seq'[tip] = seq[tip]
        BY <1>t, <3>1
      <4> QED BY <1>0, <4>1, WorseFrame, ZenonT(30)
    <3> QED BY <1>0, <1>k, <2>1, <2>2, <3>1, <3>2, ZenonT(30)
  <2> QED BY <2>1, <2>3, <2>4, ZenonT(30)
<1>3. ASSUME NEW b \in Blocks, PreciousBlock(b) PROVE ChainInv'
  <2>1. /\ MainFree /\ UNCHANGED <<level, linked, tip, run>> /\ \A x \in Blocks \ {b} : seq'[x] = seq[x]
        /\ \/ /\ b \in linked /\ b \notin failed
              /\ cands' = {d \in (cands \ {b}) \cup {b} : ~Worse(seq', d, tip)}
           \/ /\ ~(b \in linked /\ b \notin failed) /\ cands' = cands \ {b}
    BY <1>3, Precious, ZenonT(30) DEF index
  <2>2. Known' = Known
    BY <2>1 DEF Known
  <2>3. ASSUME NEW x \in cands' PROVE ~Worse(seq', x, tip)
    <3>1. CASE b \in linked /\ b \notin failed
      BY <2>1, <2>3, <3>1, ZenonT(30)
    <3>2. CASE ~(b \in linked /\ b \notin failed)
      <4>1. b # tip
        BY <1>m, <1>t, <3>2, PathHasSelf, ZenonT(30) DEF Active
      <4>2. x \in cands /\ x # b
        BY <2>1, <2>3, <3>2, ZenonT(30)
      <4>3. seq'[x] = seq[x] /\ seq'[tip] = seq[tip]
        BY <1>t, <2>1, <4>1, <4>2, ZenonT(30)
      <4> QED BY <1>0, <4>2, <4>3, WorseFrame, ZenonT(30)
    <3> QED BY <3>1, <3>2
  <2>4. ASSUME Aiming PROVE run.most \in cands'
    <3>1. run.pc = "released" /\ run.most \in cands /\ tip \in Path[run.most] /\ run.most # tip /\ run.most \in Blocks
      BY <1>0, <1>t, <2>1, <2>4, ZenonT(30) DEF MainFree, Aiming
    <3>2. Worse(seq', tip, run.most)
      BY <3>1, WorseAncestor
    <3>3. ~Worse(seq', run.most, tip)
      BY <1>3, <1>t, <3>1, <3>2, WorseOrder, Precious, ZenonT(30)
    <3>4. run.most \in linked /\ run.most \notin failed
      BY <1>m, <1>t, <2>4, <3>1, PathHasSelf, ZenonT(30)
    <3> QED BY <2>1, <3>1, <3>3, <3>4, ZenonT(30)
  <2> QED BY <1>k, <2>1, <2>2, <2>3, <2>4, ZenonT(30)
<1>4. ASSUME NEW b \in Blocks, InvalidateBlock(b) PROVE ChainInv'
  <2>1. /\ UNCHANGED <<level, linked, seq, cands, tip>> /\ b \in Known
        /\ run'.pc = "invalidate" /\ run'.toMark = b /\ run'.byWork \subseteq linked
    BY <1>4 DEF InvalidateBlock, index, order
  <2>2. ~Aiming' /\ ~Activating' /\ Known' = Known
    BY <2>1 DEF Aiming, Activating, Known
  <2> QED BY <1>0, <2>1, <2>2, ZenonT(30) DEF ChainInv, Connectable
<1>5. ASSUME NEW b \in Blocks, ResetBlockFailureFlags(b) PROVE ChainInv'
  <2>1. /\ MainFree /\ UNCHANGED <<level, linked, seq, tip, run>>
        /\ cands' = cands \cup ResetCandidates(b, Cleared(b))
    BY <1>5 DEF ResetBlockFailureFlags, order
  <2>2. Known' = Known
    BY <2>1 DEF Known
  <2>3. \A x \in ResetCandidates(b, Cleared(b)) : x \in Blocks /\ Worse(seq, tip, x)
    BY DEF ResetCandidates, Descendants
  <2>4. \A x \in ResetCandidates(b, Cleared(b)) : ~Worse(seq, x, tip)
    BY <1>t, <2>3, WorseOrder, ZenonT(30)
  <2> QED BY <1>0, <1>k, <2>1, <2>2, <2>4, ZenonT(30)
<1>6. CASE ActivateBestChain
  <2>1. UNCHANGED <<seq, cands, tip>> /\ run'.pc = "released" /\ run'.most = None
    BY <1>6, ZenonT(30) DEF ActivateBestChain, order
  <2> QED BY <1>0, <1>i, <1>t, <2>1
<1>7. CASE LockMain
  <2>1. /\ run.pc = "released" /\ run'.pc = "find" /\ run'.most = run.most /\ run'.start = tip
        /\ UNCHANGED <<failedValid, failedChild, linked, seq, cands, tip>>
    BY <1>7 DEF LockMain, index, order
  <2>2. ~Invalidating' /\ Aiming' = Aiming /\ failed' = failed
    BY <2>1 DEF Aiming, Invalidating, failed
  <2>3. ~Worse(seq, tip, tip)
    BY <1>t, WorseOrder, ZenonT(30)
  <2> QED BY <1>0, <1>m, <1>t, <2>1, <2>2, <2>3, ZenonT(30) DEF ChainInv, Connectable, Active
<1>8. CASE DropCandidate
  <2> DEFINE best == BestCandidate
             bad == NearestFailed(best)
  <2>1. best \in Blocks /\ FailedOnPath(best) # {} /\ run.most = None /\ run.pc = "find"
    BY <1>8, <1>t, BestFacts, ZenonT(30) DEF DropCandidate, TypeOK
  <2>2. /\ bad \in failed /\ bad \in Path[best] /\ bad \in Blocks
        /\ \A x \in Path[best] \ Path[bad] : bad \in Path[x]
    BY <2>1, DropFacts, ZenonT(30)
  <2>3. /\ failedChild' = failedChild \cup (Path[best] \ Path[bad]) /\ cands' \subseteq cands
        /\ UNCHANGED <<failedValid, linked, seq, tip, run>>
    BY <1>8 DEF DropCandidate, order
  <2> HIDE DEF best, bad
  <2>4. ~Aiming' /\ ~Invalidating' /\ Activating
    BY <2>1, <2>3, ZenonT(30) DEF Aiming, Activating, Invalidating
  <2>5. run.start \in Blocks /\ Path[run.start] \cap failed = {}
    BY <1>0, <1>t, <2>4
  <2>6. ASSUME NEW x \in Path[run.start], x \in failed' PROVE FALSE
    <3>1. x \in Path[best] \ Path[bad]
      BY <2>3, <2>5, <2>6, ZenonT(30) DEF failed
    <3>2. bad \in Path[run.start]
      BY <2>2, <2>5, <3>1, PathTransitive, ZenonT(30)
    <3> QED BY <2>2, <2>5, <3>2
  <2> QED BY <1>0, <2>1, <2>3, <2>4, <2>6, ZenonT(30) DEF ChainInv, Connectable
<1>9. CASE NothingToDo
  <2>1. UNCHANGED <<seq, cands, tip>>
    BY <1>9 DEF NothingToDo, order
  <2>2. run' = Idle \/ run' = [pc |-> "released", most |-> None]
    BY <1>9, <1>t, ZenonT(30) DEF NothingToDo, LeaveMain
  <2>3. run'.pc = "idle" \/ (run'.pc = "released" /\ run'.most = None)
    BY <2>2, RunTypes
  <2> QED BY <1>0, <1>i, <1>t, <2>1, <2>3, ZenonT(30)
<1>10. CASE BeginStep
  <2>1. /\ run.pc = "find" /\ run'.pc = "step" /\ run'.most = MostWork /\ run'.start = run.start /\ MostWork # None
        /\ UNCHANGED <<failedValid, failedChild, linked, seq, cands, tip>>
    BY <1>10 DEF BeginStep, Found, index, order
  <2>2. MostWork \in cands
    <3>1. CASE run.most # None
      BY <1>0, <2>1, <3>1, ZenonT(30) DEF MostWork, Aiming
    <3>2. CASE run.most = None
      BY <2>1, <3>2, BestFacts DEF MostWork
    <3> QED BY <3>1, <3>2, ZenonT(30)
  <2>3. ~Invalidating' /\ Activating /\ failed' = failed
    BY <2>1, ZenonT(30) DEF Activating, Invalidating, failed
  <2> QED BY <1>0, <2>1, <2>2, <2>3, ZenonT(30) DEF ChainInv, Connectable
<1>11. CASE DisconnectTip
  <2>1. /\ run.pc = "step" /\ tip \notin Path[run.most] /\ tip' = Parent[tip]
        /\ UNCHANGED <<failedValid, failedChild, linked, seq, cands, run>>
    BY <1>11, ZenonT(30) DEF DisconnectTip, index, order
  <2>2. Parent[tip] \in Blocks
    BY <1>t, <2>1, RunFields, PathHasSelf, TreeAssumption
  <2>3. run.start \in Blocks
    BY <1>t, <2>1, RunFields, ZenonT(30) DEF Activating
  <2>4. ~Worse(seq, run.start, Parent[tip]) /\ \A x \in cands : ~Worse(seq, x, Parent[tip])
    BY <1>0, <1>p, <1>t, <2>1, <2>2, <2>3, ZenonT(30)
  <2>5. ~Invalidating' /\ Aiming' = Aiming /\ Activating' = Activating /\ failed' = failed
    BY <2>1, ZenonT(30) DEF Aiming, Activating, Invalidating, failed
  <2> QED BY <1>0, <1>p, <2>1, <2>2, <2>4, <2>5, ZenonT(30) DEF ChainInv, Connectable
<1>12. CASE ConnectTip
  <2>1. /\ AtConnect /\ tip' = Toward /\ cands' = Pruned(cands, Toward) /\ Toward \notin BadConnect \cup Mutated
        /\ UNCHANGED <<failedValid, failedChild, linked, seq>>
        /\ run' \in {run, EndStep(run.most, Toward)}
    BY <1>12, ZenonT(30) DEF ConnectTip, order
  <2>2. /\ Toward \in Path[run.most] /\ Toward \in Blocks /\ Path[Toward] = {Toward} \cup Active
        /\ Toward # run.most => Worse(seq, Toward, run.most)
    BY <2>1, TowardFacts
  <2>3. /\ run.pc = "step" /\ run.most \in Blocks /\ run.most # None /\ run.start \in Blocks /\ Activating /\ Aiming
    BY <1>t, <2>1, RunFields, TreeAssumption, ZenonT(30) DEF AtConnect, Activating, Aiming
  <2>4. Connectable(Toward) /\ \A x \in cands' : ~Worse(seq, x, Toward)
    BY <1>0, <2>1, <2>2, ZenonT(30) DEF Connectable, Active, Pruned
  <2>5. run.most \in cands'
    <3>1. ~Worse(seq, run.most, Toward)
      BY <1>t, <2>2, <2>3, WorseOrder
    <3> QED BY <1>0, <2>1, <2>3, <3>1, ZenonT(30) DEF Pruned
  <2>6. failed' = failed
    BY <2>1 DEF failed
  <2>7. CASE run' = run
    <3>1. ~Invalidating' /\ Aiming' /\ Activating'
      BY <2>3, <2>7 DEF Aiming, Activating, Invalidating
    <3> QED BY <1>0, <2>1, <2>2, <2>3, <2>4, <2>5, <2>6, <2>7, <3>1, ZenonT(30) DEF ChainInv, Connectable
  <2>8. CASE /\ Worse(seq, Toward, run.start)
             /\ run' = [pc |-> "find", most |-> run.most, start |-> run.start, connected |-> TRUE]
    <3>1. run'.pc = "find" /\ run'.most = run.most /\ run'.start = run.start /\ ~Invalidating'
      BY <2>8 DEF Invalidating
    <3>2. ~Worse(seq, run.start, Toward)
      BY <1>t, <2>2, <2>3, <2>8, WorseOrder, ZenonT(30)
    <3> QED BY <1>0, <2>1, <2>2, <2>3, <2>4, <2>5, <2>6, <3>1, <3>2, ZenonT(30) DEF ChainInv, Connectable
  <2>9. CASE run' = Idle
    BY <1>i, <2>1, <2>2, <2>4, <2>9, RunTypes, TreeAssumption, ZenonT(30)
  <2>10. CASE Toward # run.most /\ run' = [pc |-> "released", most |-> run.most]
    <3>1. run'.pc = "released" /\ run'.most = run.most /\ ~Invalidating' /\ ~Activating'
      BY <2>10 DEF Invalidating, Activating
    <3> QED BY <2>1, <2>2, <2>4, <2>5, <2>10, <3>1, ZenonT(30) DEF ChainInv, Connectable
  <2> QED BY <2>1, <2>7, <2>8, <2>9, <2>10, ZenonT(30) DEF EndStep, LeaveMain
<1>13. CASE ConnectFails
  <2>1. /\ AtConnect /\ Toward \in BadConnect \cup Mutated /\ cands' \subseteq cands
        /\ failedValid' \subseteq failedValid \cup {Toward} /\ run' = EndStep(None, tip)
        /\ UNCHANGED <<failedChild, linked, seq, tip>>
    BY <1>13 DEF ConnectFails, InvalidBlockFound, order
  <2>2. Activating /\ run.start \in Blocks
    BY <1>t, <2>1, RunFields, ZenonT(30) DEF AtConnect, Activating
  <2>3. CASE /\ Worse(seq, tip, run.start)
             /\ run' = [pc |-> "find", most |-> None, start |-> run.start, connected |-> TRUE]
    <3>1. run'.pc = "find" /\ run'.most = None /\ run'.start = run.start /\ ~Invalidating' /\ ~Aiming'
      BY <2>3 DEF Invalidating, Aiming
    <3>2. ~Worse(seq, run.start, tip)
      BY <1>t, <2>2, <2>3, WorseOrder, ZenonT(30)
    <3>3. Path[run.start] \cap failed' = {}
      BY <1>0, <2>1, <2>2, ZenonT(30) DEF failed, Connectable
    <3> QED BY <1>0, <2>1, <2>2, <3>1, <3>2, <3>3, ZenonT(30) DEF ChainInv, Connectable
  <2>4. CASE run' = Idle \/ run' = [pc |-> "released", most |-> None]
    <3>1. run'.pc = "idle" \/ (run'.pc = "released" /\ run'.most = None)
      BY <2>4, RunTypes
    <3> QED BY <1>0, <1>i, <1>t, <2>1, <3>1, ZenonT(30)
  <2> QED BY <2>1, <2>3, <2>4, ZenonT(30) DEF EndStep, LeaveMain
<1>14. CASE InvalidateTip
  <2>1. /\ run.pc = "invalidate" /\ Parent[tip] \in Blocks
        /\ tip' = Parent[tip] /\ run'.pc = "invalidate" /\ run'.toMark = tip
        /\ run'.byWork \subseteq run.byWork
        /\ cands' = (cands \ {tip}) \cup {Parent[tip]} \cup {c \in run.byWork : ~Worse(seq, c, Parent[tip])}
        /\ UNCHANGED <<level, linked, seq>>
    <3>1. /\ run.pc = "invalidate" /\ Parent[tip] \in Blocks /\ tip' = Parent[tip]
          /\ run' = [pc |-> "invalidate", pindex |-> run.pindex, toMark |-> tip,
                     byWork |-> {c \in run.byWork : Worse(seq, c, Parent[tip])}]
          /\ cands' = (cands \ {tip}) \cup {Parent[tip]} \cup {c \in run.byWork : ~Worse(seq, c, Parent[tip])}
          /\ UNCHANGED <<level, linked, seq>>
      BY <1>14, InvalidatesTip, ZenonT(30) DEF order
    <3>2. run'.byWork \subseteq run.byWork
      BY <3>1, ZenonT(30)
    <3> QED BY <3>1, <3>2, ZenonT(30)
  <2>2. ~Aiming' /\ ~Activating' /\ Known' = Known /\ Invalidating
    BY <2>1, ZenonT(30) DEF Aiming, Activating, Invalidating, Known
  <2>3. \A x \in cands' : ~Worse(seq, x, Parent[tip])
    <3>1. ~Worse(seq, Parent[tip], Parent[tip])
      BY <1>t, <2>1, WorseOrder, ZenonT(30)
    <3>2. \A x \in cands : ~Worse(seq, x, Parent[tip])
      BY <1>0, <1>p, <1>t, <2>1, ZenonT(30)
    <3> QED BY <2>1, <3>1, <3>2
  <2>4. tip \in Known
    BY DEF TypeOK
  <2> QED BY <1>0, <1>p, <2>1, <2>2, <2>3, <2>4, ZenonT(30) DEF ChainInv, Connectable
<1>15. CASE InvalidateLoopEnds
  <2>1. /\ UNCHANGED <<level, linked, seq, cands, tip>> /\ run.pc = "invalidate"
        /\ run'.pc = "mark" /\ run'.toMark = run.toMark /\ run'.byWork = run.byWork
    BY <1>15, <1>t DEF InvalidateLoopEnds, index, order, Runs, Idle
  <2>2. ~Aiming' /\ ~Activating' /\ Known' = Known /\ Invalidating
    BY <2>1 DEF Aiming, Activating, Invalidating, Known
  <2> QED BY <1>0, <2>1, <2>2, ZenonT(30) DEF ChainInv, Connectable
<1>16. CASE MarkInvalid
  <2>1. /\ run' = Idle /\ UNCHANGED <<seq, tip>>
        /\ \A x \in cands' : x \in cands \/ ~Worse(seq, x, tip)
    BY <1>16 DEF MarkInvalid, order
  <2> QED BY <1>0, <1>i, <1>t, <2>1, RunTypes, ZenonT(30)
<1>17. CASE StartShutdown
  <2>1. UNCHANGED <<level, failedValid, failedChild, linked, seq, cands, tip, run>>
    BY <1>17, ZenonT(30) DEF StartShutdown, index, order
  <2>2. Aiming' = Aiming /\ Activating' = Activating /\ Invalidating' = Invalidating /\ Known' = Known /\ failed' = failed
    BY <2>1 DEF Aiming, Activating, Invalidating, Known, failed
  <2> QED BY <1>0, <2>1, <2>2, ZenonT(30) DEF ChainInv, Connectable
<1>18. CASE Restart
  <2>1. run' = Idle /\ tip' = tip /\ \A x \in cands' : ~Worse(seq', x, tip)
    BY <1>18 DEF Restart
  <2> QED BY <1>0, <1>i, <1>t, <2>1, RunTypes, ZenonT(30)
<1> QED BY <1>1, <1>2, <1>3, <1>4, <1>5, <1>6, <1>7, <1>8, <1>9, <1>10, <1>11, <1>12, <1>13, <1>14, <1>15,
           <1>16, <1>17, <1>18, ZenonT(30) DEF Next, Activation, Invalidation

\* Every step keeps the candidates complete; the work that a step takes away from
\* the tip is no more than what its start had.
LEMMA CandidatesKept == Inv /\ Next => CandsInv'
<1> SUFFICES ASSUME Inv, Next, ~Deep', ~overtaken' PROVE CandsInv'
  BY ZenonT(30) DEF CandsInv
<1> USE DEF Inv
<1>c. ~Deep /\ ~overtaken =>
       /\ MainFree => tip \in cands
       /\ run.pc \in {"idle", "released"} \/ (Invalidating /\ run.toMark \in Active) => Whole(tip)
       /\ Activating => /\ Whole(run.start)
                        /\ run.start \in cands \/ Worse(seq, run.start, tip)
                        /\ run.most # None => ~Worse(seq, run.most, run.start)
  BY ZenonT(30) DEF CandsInv
<1>0. /\ \A x \in cands : ~Worse(seq, x, tip)
      /\ run.pc = "find" \/ (run.pc = "step" /\ tip \notin Path[run.most]) => ~Worse(seq, run.start, tip)
      /\ Aiming => run.most \in cands
  BY ZenonT(30) DEF ChainInv
<1>t. /\ tip \in Blocks /\ tip # None /\ tip \in linked /\ run \in Runs /\ linked \subseteq Blocks
      /\ cands \subseteq Blocks /\ cands \subseteq linked /\ seq \in [Blocks -> Int]
  BY BlocksTypes DEF TypeOK
<1>m. tip \notin failed /\ tip \in Active
  BY <1>t, PathHasSelf, ZenonT(30) DEF MarkInv, Active
<1>w. /\ \A x \in Blocks : ~Worse(seq, x, x)
      /\ \A x, y \in Blocks : Worse(seq, x, y) => ~Worse(seq, y, x)
      /\ \A x, y \in Blocks : x = y \/ Worse(seq, x, y) \/ Worse(seq, y, x)
      /\ \A x, y, z \in Blocks : Worse(seq, x, y) /\ Worse(seq, y, z) => Worse(seq, x, z)
  BY <1>t, WorseOrder
<1>k. ASSUME MainFree, run' = run, tip' = tip, tip \in cands',
             run.pc \in {"idle", "released"} \/ (Invalidating /\ run.toMark \in Active) =>
                \A x \in linked' \ failed' : ~Worse(seq', x, tip) => x \in cands'
      PROVE  CandsInv'
  <2>1. ~Activating' /\ Invalidating' = Invalidating /\ Active' = Active
    BY <1>k DEF MainFree, Activating, Invalidating, Active
  <2> QED BY <1>k, <2>1, ZenonT(30) DEF CandsInv, Whole
<1>i. ASSUME run'.pc \in {"idle", "released"}, tip' \in cands',
             \A x \in linked' \ failed' : ~Worse(seq', x, tip') => x \in cands'
      PROVE  CandsInv'
  <2>1. ~Activating' /\ ~Invalidating'
    BY <1>i DEF Activating, Invalidating
  <2> QED BY <1>i, <2>1, ZenonT(30) DEF CandsInv, Whole
<1>r. ASSUME run'.pc \in {"find", "step"},
             \A x \in linked' \ failed' : ~Worse(seq', x, tip') /\ ~Worse(seq', x, run'.start) => x \in cands',
             run'.start \in cands' \/ Worse(seq', run'.start, tip'),
             run'.most # None => ~Worse(seq', run'.most, run'.start)
      PROVE  CandsInv'
  <2>1. ~MainFree' /\ ~Invalidating' /\ run'.pc # "idle" /\ run'.pc # "released"
    BY <1>r, ZenonT(30) DEF MainFree, Invalidating
  <2> QED BY <1>r, <2>1, ZenonT(30) DEF CandsInv, Whole
<1>1. ASSUME NEW b \in Blocks, AcceptBlockHeader(b) PROVE CandsInv'
  <2>1. /\ MainFree /\ UNCHANGED <<linked, seq, cands, tip, run, reconsidered, overtaken>>
        /\ failedValid' = failedValid /\ failedChild \subseteq failedChild'
    BY <1>1 DEF AcceptBlockHeader, order, control, history
  <2>2. ~Deep /\ ~overtaken /\ failed \subseteq failed'
    BY <2>1 DEF Deep, failed
  <2> QED BY <1>c, <1>k, <2>1, <2>2, ZenonT(30) DEF Whole
<1>2. ASSUME NEW b \in Blocks, NEW fRequested \in BOOLEAN, AcceptBlock(b, fRequested) PROVE CandsInv'
  <2>1. /\ MainFree /\ UNCHANGED <<failedChild, tip, run, reconsidered, overtaken>>
        /\ failedValid \subseteq failedValid'
        /\ \/ UNCHANGED <<linked, seq, cands>>
           \/ \E J \in SUBSET Blocks : Receives(b, J)
    BY <1>2, Accepts DEF history
  <2>2. ~Deep /\ ~overtaken /\ failed \subseteq failed'
    BY <2>1 DEF Deep, failed
  <2>3. CASE UNCHANGED <<linked, seq, cands>>
    BY <1>c, <1>k, <2>1, <2>2, <2>3, ZenonT(30) DEF Whole
  <2>4. ASSUME NEW J \in SUBSET Blocks, Receives(b, J) PROVE CandsInv'
    <3>1. /\ J \cap linked = {} /\ linked' = linked \cup J
          /\ \A c \in Blocks \ J : seq'[c] = seq[c]
          /\ cands' = cands \cup {c \in J : ~Worse(seq', c, tip)}
      BY <2>4, ZenonT(30) DEF Receives
    <3>2. ASSUME NEW x \in linked PROVE Worse(seq', x, tip) <=> Worse(seq, x, tip)
      <4>1. seq'[x] = seq[x] /\ seq'[tip] = seq[tip]
        BY <1>t, <3>1, ZenonT(30)
      <4> QED BY <4>1, WorseFrame
    <3> QED BY <1>c, <1>k, <2>1, <2>2, <3>1, <3>2, ZenonT(30) DEF Whole
  <2> QED BY <2>1, <2>3, <2>4, ZenonT(30)
<1>3. ASSUME NEW b \in Blocks, PreciousBlock(b) PROVE CandsInv'
  <2>1. /\ MainFree /\ UNCHANGED <<failedValid, failedChild, linked, tip, run, reconsidered>>
        /\ seq' \in [Blocks -> Int] /\ \A x \in Blocks \ {b} : seq'[x] = seq[x]
        /\ overtaken' = (overtaken \/ (b = tip /\ Overtakes(seq') # {}))
        /\ \/ /\ b \in linked /\ b \notin failed
              /\ cands' = {d \in (cands \ {b}) \cup {b} : ~Worse(seq', d, tip)}
           \/ /\ ~(b \in linked /\ b \notin failed) /\ cands' = cands \ {b}
    BY <1>3, Precious, ZenonT(30) DEF index
  <2>2. ~Deep /\ ~overtaken /\ failed' = failed /\ (b = tip => Overtakes(seq') = {})
    BY <2>1, ZenonT(30) DEF Deep, failed
  <2>3. ~Worse(seq', tip, tip) /\ tip \in cands
    BY <1>c, <1>t, <2>1, <2>2, WorseOrder, ZenonT(30)
  <2>4. tip \in cands'
    BY <1>m, <1>t, <2>1, <2>3
  <2>5. ASSUME Whole(tip), NEW x \in linked \ failed, ~Worse(seq', x, tip) PROVE x \in cands'
    <3>1. CASE x = b
      BY <2>1, <2>5, <3>1, ZenonT(30)
    <3>2. CASE x # b /\ b # tip
      <4>1. seq'[x] = seq[x] /\ seq'[tip] = seq[tip]
        BY <1>t, <2>1, <3>2
      <4>2. x \in cands
        BY <2>5, <4>1, WorseFrame, ZenonT(30) DEF Whole
      <4> QED BY <2>1, <2>5, <3>2, <4>2, ZenonT(30)
    <3>3. CASE x # b /\ b = tip
      <4>1. x \in cands
        BY <2>2, <2>5, <3>3, ZenonT(30) DEF Whole, Overtakes
      <4> QED BY <2>1, <2>5, <3>3, <4>1, ZenonT(30)
    <3> QED BY <3>1, <3>2, <3>3, ZenonT(30)
  <2> QED BY <1>c, <1>k, <2>1, <2>2, <2>4, <2>5, ZenonT(30)
<1>4. ASSUME NEW b \in Blocks, InvalidateBlock(b) PROVE CandsInv'
  <2>1. /\ UNCHANGED <<failedValid, failedChild, linked, seq, cands, tip, reconsidered, overtaken>>
        /\ run'.pc = "invalidate" /\ run.pc = "idle"
    BY <1>4, RunTypes, ZenonT(30) DEF InvalidateBlock, index, order, history
  <2>2. ~Deep /\ ~overtaken /\ failed' = failed /\ MainFree /\ ~Activating'
    BY <2>1, ZenonT(30) DEF Deep, failed, MainFree, Activating
  <2> QED BY <1>c, <2>1, <2>2, ZenonT(30) DEF CandsInv, Whole
<1>5. ASSUME NEW b \in Blocks, ResetBlockFailureFlags(b) PROVE CandsInv'
  <2>1. /\ failedValid' = failedValid \ Cleared(b) /\ failedChild' = failedChild \ Cleared(b)
        /\ MainFree /\ UNCHANGED <<linked, seq, tip, run, overtaken>>
        /\ cands' = cands \cup ResetCandidates(b, Cleared(b))
        /\ reconsidered' = IF Deep \/ Path[Parent[b]] \cap failed # {} THEN "deep" ELSE "plain"
    BY <1>5, ZenonT(30) DEF ResetBlockFailureFlags, order
  <2>2. /\ failed' = failed \ Cleared(b) /\ ~Deep /\ ~overtaken /\ Path[Parent[b]] \cap failed = {}
    BY <2>1 DEF Deep, failed
  <2>3. ASSUME Whole(tip), NEW x \in linked \ failed', ~Worse(seq, x, tip) PROVE x \in cands'
    <3>1. CASE x \notin failed
      BY <2>1, <2>3, <3>1, ZenonT(30) DEF Whole
    <3>2. CASE x \in failed
      <4>1. x \in Cleared(b) /\ x \in Blocks
        BY <1>t, <2>2, <2>3, <3>2, ZenonT(30)
      <4>2. x \in Descendants(b)
        BY <2>2, <4>1, PathStep, ZenonT(30) DEF Cleared, Descendants
      <4>3. level[x] >= TRANSACTIONS
        BY <2>3 DEF IndexInv, TypeOK
      <4>4. Worse(seq, tip, x)
        BY <1>m, <1>t, <1>w, <2>3, <3>2, <4>1, ZenonT(30)
      <4> QED BY <2>1, <2>3, <4>1, <4>2, <4>3, <4>4, ZenonT(30) DEF ResetCandidates
    <3> QED BY <3>1, <3>2, ZenonT(30)
  <2> QED BY <1>c, <1>k, <2>1, <2>2, <2>3, ZenonT(30)
<1>6. CASE ActivateBestChain
  <2>1. /\ UNCHANGED <<failedValid, failedChild, linked, seq, cands, tip, reconsidered, overtaken>>
        /\ run'.pc = "released" /\ run.pc = "idle"
    BY <1>6, RunTypes, ZenonT(30) DEF ActivateBestChain, index, order, history
  <2>2. ~Deep /\ ~overtaken /\ failed' = failed /\ MainFree
    BY <2>1 DEF Deep, failed, MainFree
  <2> QED BY <1>c, <1>i, <2>1, <2>2, ZenonT(30) DEF Whole
<1>7. CASE LockMain
  <2>1. /\ UNCHANGED <<failedValid, failedChild, linked, seq, cands, tip, reconsidered, overtaken>>
        /\ run.pc = "released" /\ run'.pc = "find" /\ run'.start = tip /\ run'.most = run.most
    BY <1>7, ZenonT(30) DEF LockMain, index, order, control, history
  <2>2. ~Deep /\ ~overtaken /\ failed' = failed /\ MainFree /\ (run.most # None => Aiming)
    BY <2>1, ZenonT(30) DEF Deep, failed, MainFree, Aiming
  <2> QED BY <1>0, <1>c, <1>r, <2>1, <2>2, ZenonT(30) DEF Whole
<1>8. CASE DropCandidate
  <2> DEFINE best == BestCandidate
             bad == NearestFailed(best)
  <2>1. best \in Blocks /\ FailedOnPath(best) # {} /\ run.pc = "find"
    BY <1>8, <1>t, BestFacts, ZenonT(30) DEF DropCandidate, TypeOK
  <2>2. bad \in failed
    BY <2>1, DropFacts, ZenonT(30)
  <2>3. /\ failedChild' = failedChild \cup (Path[best] \ Path[bad])
        /\ cands' = cands \ ((Path[best] \ Path[bad]) \cup {bad})
        /\ UNCHANGED <<failedValid, linked, seq, tip, run, reconsidered, overtaken>>
    BY <1>8, ZenonT(30) DEF DropCandidate, order, control, history
  <2> HIDE DEF best, bad
  <2>4. ~Deep /\ ~overtaken /\ Activating /\ cands \ failed' \subseteq cands' /\ failed \subseteq failed'
    BY <2>1, <2>2, <2>3 DEF Deep, failed, Activating
  <2>5. run.start \notin failed'
    <3>1. Activating' /\ run.start \in Blocks
      BY <1>t, <2>1, <2>3, RunFields, ZenonT(30) DEF Activating
    <3> QED BY <2>3, <3>1, ChainKept, PathHasSelf, ZenonT(30) DEF ChainInv
  <2> QED BY <1>c, <1>r, <2>1, <2>3, <2>4, <2>5, ZenonT(30) DEF Whole
<1>9. CASE NothingToDo
  <2>1. /\ run.pc = "find" /\ MostWork \in {None, tip}
        /\ UNCHANGED <<failedValid, failedChild, linked, seq, cands, tip, reconsidered, overtaken>>
    BY <1>9, ZenonT(30) DEF NothingToDo, Found, index, order, control, history
  <2>2. ~Deep /\ ~overtaken /\ failed' = failed /\ Activating /\ run.start \in Blocks
    BY <1>t, <2>1, RunFields, ZenonT(30) DEF Deep, failed, Activating
  <2>3. run.start \in cands /\ Whole(run.start)
    BY <1>0, <1>c, <2>1, <2>2, ZenonT(30)
  <2>4. tip \in cands /\ ~Worse(seq, tip, run.start)
    <3>1. CASE run.most # None
      BY <1>0, <1>c, <2>1, <2>2, <3>1, ZenonT(30) DEF MostWork, Aiming
    <3>2. CASE run.most = None
      <4>1. MostWork = BestCandidate /\ BestCandidate \in cands /\ ~Worse(seq, BestCandidate, run.start)
        BY <2>3, <3>2, BestFacts, ZenonT(30) DEF MostWork
      <4> QED BY <1>t, <2>1, <4>1, TreeAssumption, ZenonT(30)
    <3> QED BY <3>1, <3>2, ZenonT(30)
  <2>5. \A x \in linked \ failed : ~Worse(seq, x, tip) => x \in cands
    BY <1>t, <1>w, <2>2, <2>3, <2>4, ZenonT(30) DEF Whole
  <2>6. run'.pc \in {"idle", "released"}
    BY <1>9, RunTypes, ZenonT(30) DEF NothingToDo, LeaveMain
  <2> QED BY <1>i, <2>1, <2>2, <2>4, <2>5, <2>6, ZenonT(30)
<1>10. CASE BeginStep
  <2>1. /\ run.pc = "find" /\ MostWork # None
        /\ run'.pc = "step" /\ run'.most = MostWork /\ run'.start = run.start
        /\ UNCHANGED <<failedValid, failedChild, linked, seq, cands, tip, reconsidered, overtaken>>
    BY <1>10 DEF BeginStep, Found, index, order, control, history
  <2>2. ~Deep /\ ~overtaken /\ failed' = failed /\ Activating
    BY <2>1, ZenonT(30) DEF Deep, failed, Activating
  <2>3. run.start \in cands /\ Whole(run.start)
    BY <1>0, <1>c, <2>1, <2>2, ZenonT(30)
  <2>4. ~Worse(seq, MostWork, run.start)
    <3>1. CASE run.most # None
      BY <1>c, <2>2, <3>1, ZenonT(30) DEF MostWork
    <3>2. CASE run.most = None
      BY <2>1, <2>3, <3>2, BestFacts, ZenonT(30) DEF MostWork
    <3> QED BY <3>1, <3>2, ZenonT(30)
  <2> QED BY <1>r, <2>1, <2>2, <2>3, <2>4, ZenonT(30) DEF Whole
<1>11. CASE DisconnectTip
  <2>1. /\ run.pc = "step" /\ tip \notin Path[run.most] /\ tip' = Parent[tip]
        /\ UNCHANGED <<failedValid, failedChild, linked, seq, cands, run, reconsidered, overtaken>>
    BY <1>11, ZenonT(30) DEF DisconnectTip, index, order, control, history
  <2>2. ~Deep /\ ~overtaken /\ failed' = failed /\ Activating /\ run.start \in Blocks
    BY <1>t, <2>1, RunFields, ZenonT(30) DEF Deep, failed, Activating
  <2>3. run.start \in cands /\ Whole(run.start) /\ ~Worse(seq, run.start, tip)
    BY <1>0, <1>c, <2>1, <2>2, ZenonT(30)
  <2>4. \A x \in linked \ failed : ~Worse(seq, x, run.start) => x \in cands
    BY <1>t, <1>w, <2>2, <2>3, ZenonT(30) DEF Whole
  <2> QED BY <1>c, <1>r, <2>1, <2>2, <2>3, <2>4, ZenonT(30)
<1>12. CASE ConnectTip
  <2>1. /\ AtConnect /\ tip' = Toward /\ cands' = Pruned(cands, Toward) 
        /\ UNCHANGED <<failedValid, failedChild, linked, seq, reconsidered, overtaken>>
        /\ run' \in {run, EndStep(run.most, Toward)}
    BY <1>12, ZenonT(30) DEF ConnectTip, order, control, history
  <2>2. Toward \in Blocks /\ Toward \in linked /\ Toward \notin failed /\ Worse(seq, tip, Toward)
    BY <2>1, TowardFacts, ZenonT(30)
  <2>3. /\ run.pc = "step" /\ run.start \in Blocks /\ Activating /\ ~Deep /\ ~overtaken /\ failed' = failed
    BY <1>t, <2>1, RunFields, ZenonT(30) DEF AtConnect, Activating, Deep, failed
  <2>4. /\ Whole(run.start) /\ (run.start \in cands \/ Worse(seq, run.start, tip))
        /\ run.most # None => ~Worse(seq, run.most, run.start)
    BY <1>c, <2>3, ZenonT(30)
  <2>5. \A x \in linked \ failed : ~Worse(seq, x, Toward) /\ ~Worse(seq, x, run.start) => x \in cands'
    <3> SUFFICES ASSUME NEW x \in linked \ failed, ~Worse(seq, x, Toward), ~Worse(seq, x, run.start)
                 PROVE  x \in cands'
      OBVIOUS
    <3>1. ~Worse(seq, x, tip)
      BY <1>t, <1>w, <2>2, ZenonT(30)
    <3> QED BY <2>1, <2>4, <3>1, ZenonT(30) DEF Whole, Pruned
  <2>6. run.start \in cands' \/ Worse(seq, run.start, Toward)
    BY <1>t, <1>w, <2>1, <2>2, <2>3, <2>4, ZenonT(30) DEF Pruned
  <2>7. CASE run' = run
    BY <1>r, <2>1, <2>3, <2>4, <2>5, <2>6, <2>7, ZenonT(30)
  <2>8. CASE run' = [pc |-> "find", most |-> run.most, start |-> run.start, connected |-> TRUE]
    <3>1. run'.pc = "find" /\ run'.most = run.most /\ run'.start = run.start
      BY <2>8, ZenonT(30)
    <3> QED BY <1>r, <2>1, <2>3, <2>4, <2>5, <2>6, <3>1, ZenonT(30)
  <2>9. CASE ~Worse(seq, Toward, run.start) /\ run' = LeaveMain(run.most, Toward)
    <3>1. run'.pc \in {"idle", "released"}
      BY <2>9, RunTypes, ZenonT(30) DEF LeaveMain
    <3>2. \A x \in linked \ failed : ~Worse(seq, x, Toward) => x \in cands'
      BY <1>t, <1>w, <2>2, <2>3, <2>5, <2>9, ZenonT(30)
    <3>3. Toward \in cands'
      BY <1>w, <2>2, <3>2, ZenonT(30)
    <3> QED BY <1>i, <2>1, <2>3, <3>1, <3>2, <3>3, ZenonT(30)
  <2> QED BY <2>1, <2>7, <2>8, <2>9, ZenonT(30) DEF EndStep
<1>13. CASE ConnectFails
  <2>1. /\ AtConnect /\ Toward \in BadConnect \cup Mutated /\ run' = EndStep(None, tip)
        /\ \/ failedValid' = failedValid /\ cands' = cands
           \/ failedValid' = failedValid \cup {Toward} /\ cands' = cands \ {Toward}
        /\ UNCHANGED <<failedChild, linked, seq, tip, reconsidered, overtaken>>
    BY <1>13, ZenonT(30) DEF ConnectFails, InvalidBlockFound, order, control, history
  <2>2. /\ run.pc = "step" /\ run.start \in Blocks /\ Activating /\ ~Deep /\ ~overtaken
    BY <1>t, <2>1, RunFields DEF AtConnect, Activating, Deep
  <2>3. Toward # run.start /\ Toward # tip /\ failed \subseteq failed' /\ cands \ failed' \subseteq cands'
        /\ cands \ {Toward} \subseteq cands'
    BY <1>m, <2>1, <2>2, TowardFacts, PathHasSelf, ZenonT(30) DEF failed, ChainInv, Connectable
  <2>4. Whole(run.start) /\ (run.start \in cands \/ Worse(seq, run.start, tip))
    BY <1>c, <2>2, ZenonT(30)
  <2>5. CASE run' = [pc |-> "find", most |-> None, start |-> run.start, connected |-> TRUE]
    <3>1. run'.pc = "find" /\ run'.most = None /\ run'.start = run.start
      BY <2>5
    <3> QED BY <1>r, <2>1, <2>3, <2>4, <3>1, ZenonT(30) DEF Whole
  <2>6. CASE ~Worse(seq, tip, run.start) /\ run' = LeaveMain(None, tip)
    <3>1. run'.pc \in {"idle", "released"}
      BY <2>6, RunTypes, ZenonT(30) DEF LeaveMain
    <3>2. \A x \in linked \ failed : ~Worse(seq, x, tip) => x \in cands
      BY <1>t, <1>w, <2>2, <2>4, <2>6, ZenonT(30) DEF Whole
    <3>3. tip \in cands
      BY <1>m, <1>t, <1>w, <3>2, ZenonT(30)
    <3> QED BY <1>i, <2>1, <2>3, <3>1, <3>2, <3>3, ZenonT(30)
  <2> QED BY <2>1, <2>5, <2>6, ZenonT(30) DEF EndStep
<1>14. CASE InvalidateTip
  <2>1. /\ tip' = Parent[tip] /\ run'.pc = "invalidate" /\ run'.toMark = tip /\ Parent[tip] \in cands'
    <3>1. /\ tip' = Parent[tip]
          /\ run' = [pc |-> "invalidate", pindex |-> run.pindex, toMark |-> tip,
                     byWork |-> {c \in run.byWork : Worse(seq, c, Parent[tip])}]
          /\ cands' = (cands \ {tip}) \cup {Parent[tip]} \cup {c \in run.byWork : ~Worse(seq, c, Parent[tip])}
      BY <1>14, InvalidatesTip, ZenonT(30)
    <3>2. Parent[tip] \in cands'
      BY <3>1, ZenonT(30)
    <3> QED BY <3>1, <3>2, ZenonT(30)
  <2>2. tip \notin Active' /\ ~Activating'
    <3>1. tip \notin Active'
      BY <1>t, <2>1, PathAcyclic, ZenonT(30) DEF Active
    <3>2. ~Activating'
      BY <2>1 DEF Activating
    <3> QED BY <3>1, <3>2
  <2> QED BY <2>1, <2>2, ZenonT(30) DEF CandsInv
<1>15. CASE InvalidateLoopEnds
  <2>1. /\ UNCHANGED <<failedValid, failedChild, linked, seq, cands, tip, reconsidered, overtaken>>
        /\ run.pc = "invalidate" /\ run'.pc = "mark" /\ run'.toMark = run.toMark
    <3>1. /\ UNCHANGED <<failedValid, failedChild, linked, seq, cands, tip, reconsidered, overtaken>>
          /\ run.pc = "invalidate" /\ run' = [run EXCEPT !.pc = "mark"]
      BY <1>15, ZenonT(30) DEF InvalidateLoopEnds, index, order, control, history
    <3>2. run'.pc = "mark" /\ run'.toMark = run.toMark
      BY <1>t, <3>1 DEF Runs, Idle
    <3> QED BY <3>1, <3>2
  <2>2. /\ ~Deep /\ ~overtaken /\ failed' = failed /\ MainFree /\ ~Activating' /\ Invalidating /\ Active' = Active
    BY <2>1, ZenonT(30) DEF Deep, failed, MainFree, Activating, Invalidating, Active
  <2> QED BY <1>c, <2>1, <2>2, ZenonT(30) DEF CandsInv, Whole
<1>16. CASE MarkInvalid
  <2>1. run.pc = "mark" /\ run' = Idle /\ UNCHANGED <<level, failedChild, linked, seq, tip, reconsidered, overtaken>>
    BY <1>16, ZenonT(30) DEF MarkInvalid, order, history
  <2>2. ~Deep /\ ~overtaken /\ MainFree /\ Invalidating /\ run'.pc = "idle"
    BY <2>1, RunTypes, ZenonT(30) DEF Deep, MainFree, Invalidating
  <2>3. tip \in cands
    BY <1>c, <2>2, ZenonT(30)
  <2>4. CASE run.toMark \in Active
    <3>1. failedValid' = failedValid /\ cands' = cands
      BY <1>16, <2>4, ZenonT(30) DEF MarkInvalid
    <3>2. failed' = failed
      BY <2>1, <3>1, ZenonT(30) DEF failed
    <3> QED BY <1>c, <1>i, <2>1, <2>2, <2>3, <2>4, <3>1, <3>2, ZenonT(30) DEF Whole
  <2>5. CASE run.toMark \notin Active
    <3>1. /\ failedValid' = failedValid \cup {run.toMark}
          /\ cands' = (cands \ {run.toMark})
                 \cup {c \in linked \ (failed \cup {run.toMark}) : level[c] >= TRANSACTIONS /\ ~Worse(seq, c, tip)}
      BY <1>16, <2>5, ZenonT(30) DEF MarkInvalid
    <3>2. failed' = failed \cup {run.toMark}
      BY <2>1, <3>1, ZenonT(30) DEF failed
    <3>3. \A x \in linked : level[x] >= TRANSACTIONS
      BY ZenonT(30) DEF IndexInv, TypeOK
    <3> QED BY <1>i, <1>m, <2>1, <2>2, <2>3, <2>5, <3>1, <3>2, <3>3, ZenonT(30)
  <2> QED BY <2>4, <2>5
<1>17. CASE StartShutdown
  <2>1. UNCHANGED <<failedValid, failedChild, linked, seq, cands, tip, run, reconsidered, overtaken>>
    BY <1>17 DEF StartShutdown, index, order, history
  <2>2. /\ Deep' = Deep /\ failed' = failed /\ MainFree' = MainFree /\ Activating' = Activating
        /\ Invalidating' = Invalidating /\ Active' = Active
    BY <2>1 DEF Deep, failed, MainFree, Activating, Invalidating, Active
  <2> QED BY <2>1, <2>2, ZenonT(30) DEF CandsInv, Whole
<1>18. CASE Restart
  <2> DEFINE inChild == {b \in Known : Path[b] \cap failed # {}} \ failed
             complete == {b \in have : Path[b] \subseteq have}
  <2>1. /\ run' = Idle /\ tip' = tip /\ linked' = complete /\ seq' = [b \in Blocks |-> 0]
        /\ failedValid' = failedValid /\ failedChild' = failedChild \cup inChild
        /\ cands' = {b \in complete \ (failed \cup inChild) : level[b] >= TRANSACTIONS /\ ~Worse(seq', b, tip)}
    BY <1>18, ZenonT(30) DEF Restart
  <2>2. failed' = failed \cup inChild
    BY <2>1, ZenonT(30) DEF failed
  <2>3. tip \in complete /\ tip \notin failed \cup inChild
    BY <1>m, <1>t, ZenonT(30) DEF IndexInv, TypeOK, MarkInv, Active
  <2>4. \A x \in complete : level[x] >= TRANSACTIONS
    BY DEF IndexInv
  <2> HIDE DEF inChild, complete
  <2>5. seq' \in [Blocks -> Int]
    BY <2>1
  <2>6. ~Worse(seq', tip, tip)
    BY <1>t, <2>5, WorseOrder, ZenonT(30)
  <2> QED BY <1>i, <2>1, <2>2, <2>3, <2>4, <2>6, RunTypes, ZenonT(30)
<1> QED BY <1>1, <1>2, <1>3, <1>4, <1>5, <1>6, <1>7, <1>8, <1>9, <1>10, <1>11, <1>12, <1>13, <1>14, <1>15,
           <1>16, <1>17, <1>18, ZenonT(30) DEF Next, Activation, Invalidation

\* Every step keeps the choice: no candidate that is as yet unmarked is better
\* than the chain aimed at.
LEMMA BestKept == Inv /\ Next => BestInv'
<1> SUFFICES ASSUME Inv, Next PROVE BestInv'
  OBVIOUS
<1> USE DEF Inv
<1>0. /\ run.pc = "idle" /\ ~call /\ ~stop => Best(tip)
      /\ Aiming /\ ~call => Best(run.most)
  BY ZenonT(30) DEF BestInv
<1>t. tip \in Blocks /\ tip # None /\ run \in Runs
  BY BlocksTypes DEF TypeOK
<1>f. ASSUME UNCHANGED <<seq, tip, run, call>>, stop => stop', cands' \subseteq cands, failed \subseteq failed'
      PROVE  BestInv'
  <2>1. Aiming' = Aiming
    BY <1>f, ZenonT(30) DEF Aiming
  <2>2. \A t : Best(t) => \A c \in cands' : Path[c] \cap failed' = {} => ~Worse(seq, t, c)
    BY <1>f DEF Best
  <2> QED BY <1>0, <1>f, <2>1, <2>2, ZenonT(30) DEF BestInv, Best
<1>n. ASSUME call' \/ (~Aiming' /\ (run'.pc # "idle" \/ stop')) PROVE BestInv'
  BY <1>n DEF BestInv
<1>1. ASSUME NEW b \in Blocks, AcceptBlockHeader(b) PROVE BestInv'
  <2>1. /\ UNCHANGED <<seq, cands, tip, run, call, stop, failedValid>> /\ failedChild \subseteq failedChild'
    BY <1>1 DEF AcceptBlockHeader, order, control
  <2> QED BY <1>f, <2>1, ZenonT(30) DEF failed
<1>2. ASSUME NEW b \in Blocks, NEW fRequested \in BOOLEAN, AcceptBlock(b, fRequested) PROVE BestInv'
  <2>1. /\ UNCHANGED <<tip, run, stop, failedChild>> /\ (call => call') /\ call' \in BOOLEAN
        /\ call' \/ (failedValid \subseteq failedValid' /\ UNCHANGED <<seq, cands>>)
    BY <1>2, Accepts, ZenonT(30)
  <2>2. CASE call'
    BY <1>n, <2>2
  <2>3. CASE ~call'
    <3>1. call' = call
      BY <2>1, <2>3, ZenonT(30) DEF TypeOK
    <3> QED BY <1>f, <2>1, <2>3, <3>1, ZenonT(30) DEF failed
  <2> QED BY <2>2, <2>3
<1>3. ASSUME NEW b \in Blocks, PreciousBlock(b) PROVE BestInv'
  BY <1>3, <1>n, ZenonT(30) DEF PreciousBlock
<1>4. ASSUME NEW b \in Blocks, InvalidateBlock(b) PROVE BestInv'
  BY <1>4, <1>n, ZenonT(30) DEF InvalidateBlock, Aiming
<1>5. ASSUME NEW b \in Blocks, ResetBlockFailureFlags(b) PROVE BestInv'
  BY <1>5, <1>n, ZenonT(30) DEF ResetBlockFailureFlags
<1>6. CASE ActivateBestChain
  BY <1>6, <1>n, ZenonT(30) DEF ActivateBestChain, Aiming
<1>7. CASE LockMain
  <2>1. /\ run.pc = "released" /\ run'.pc = "find" /\ run'.most = run.most
        /\ UNCHANGED <<seq, cands, call, failedValid, failedChild>>
    BY <1>7 DEF LockMain, index, order, control
  <2>2. (Aiming' => Aiming) /\ failed' = failed
    BY <2>1 DEF Aiming, failed
  <2> QED BY <1>0, <2>1, <2>2, ZenonT(30) DEF BestInv, Best
<1>8. CASE DropCandidate
  <2>1. run.pc = "find" /\ run.most = None /\ run' = run
    BY <1>8, ZenonT(30) DEF DropCandidate
  <2> QED BY <1>n, <2>1 DEF Aiming
<1>9. CASE NothingToDo
  <2>1. /\ run.pc = "find" /\ MostWork \in {None, tip}
        /\ UNCHANGED <<seq, cands, tip, call, failedValid, failedChild>>
    BY <1>9 DEF NothingToDo, Found, index, order, control
  <2>2. ~call => Best(tip)
    <3>1. CASE run.most # None
      BY <1>0, <2>1, <3>1, ZenonT(30) DEF MostWork, Aiming
    <3>2. CASE run.most = None /\ cands = {}
      BY <3>2 DEF Best
    <3>3. CASE run.most = None /\ cands # {}
      <4>1. MostWork = BestCandidate /\ BestCandidate \in cands /\ \A d \in cands : ~Worse(seq, BestCandidate, d)
        BY <3>3, BestFacts DEF MostWork
      <4>2. BestCandidate = tip
        BY <2>1, <4>1, BlocksTypes, TreeAssumption, ZenonT(30)
      <4> QED BY <4>1, <4>2 DEF Best
    <3> QED BY <3>1, <3>2, <3>3
  <2>3. run' = Idle \/ run' = [pc |-> "released", most |-> None]
    <3>1. MostWork \in {None, tip} /\ run' = IF run.connected THEN LeaveMain(MostWork, tip) ELSE Idle
      BY <1>9, ZenonT(30) DEF NothingToDo
    <3>2. LeaveMain(tip, tip) = Idle /\ LeaveMain(None, tip) \in {Idle, [pc |-> "released", most |-> None]}
      BY ZenonT(30) DEF LeaveMain
    <3> QED BY <3>1, <3>2
  <2>4. ~Aiming' /\ failed' = failed
    <3>1. failed' = failed
      BY <2>1, ZenonT(30) DEF failed
    <3>2. run'.pc = "idle" \/ run'.most = None
      <4>1. Idle.pc = "idle" /\ [pc |-> "released", most |-> None].most = None
        BY RunTypes, ZenonT(30)
      <4> QED BY <2>3, <4>1, ZenonT(30)
    <3> QED BY <3>1, <3>2, ZenonT(30) DEF Aiming
  <2> QED BY <2>1, <2>2, <2>4, ZenonT(30) DEF BestInv, Best
<1>10. CASE BeginStep
  <2>1. /\ run.pc = "find" /\ MostWork # None /\ run'.pc = "step" /\ run'.most = MostWork
        /\ UNCHANGED <<seq, cands, call, failedValid, failedChild>>
    BY <1>10 DEF BeginStep, Found, index, order, control
  <2>2. ~call => Best(MostWork)
    <3>1. CASE run.most # None
      BY <1>0, <2>1, <3>1, ZenonT(30) DEF MostWork, Aiming
    <3>2. CASE run.most = None
      <4>1. MostWork = BestCandidate /\ cands # {}
        BY <2>1, <3>2 DEF MostWork
      <4> QED BY <4>1, BestFacts, ZenonT(30) DEF Best
    <3> QED BY <3>1, <3>2, ZenonT(30)
  <2>3. failed' = failed
    BY <2>1 DEF failed
  <2> QED BY <2>1, <2>2, <2>3, ZenonT(30) DEF BestInv, Best
<1>11. CASE DisconnectTip
  <2>1. run.pc = "step" /\ UNCHANGED <<seq, cands, run, call, failedValid, failedChild>>
    BY <1>11, ZenonT(30) DEF DisconnectTip, index, order, control
  <2>2. Aiming' = Aiming /\ failed' = failed
    BY <2>1, ZenonT(30) DEF Aiming, failed
  <2> QED BY <1>0, <2>1, <2>2, ZenonT(30) DEF BestInv, Best
<1>12. CASE ConnectTip
  <2>1. /\ AtConnect /\ tip' = Toward /\ cands' \subseteq cands
        /\ UNCHANGED <<failedValid, failedChild, seq, call, stop>>
        /\ run' \in {run, EndStep(run.most, Toward)}
    BY <1>12, ZenonT(30) DEF ConnectTip, Pruned, order, control
  <2>2. run.pc = "step" /\ Aiming /\ failed' = failed
    BY <1>t, <2>1, RunFields, TreeAssumption, ZenonT(30) DEF AtConnect, Aiming, failed
  <2>3. ~call => \A c \in cands' : Path[c] \cap failed' = {} => ~Worse(seq', run.most, c)
    BY <1>0, <2>1, <2>2, ZenonT(30) DEF Best
  <2>4. (run'.most = run.most /\ run'.pc # "idle") \/ (run' = Idle /\ (Toward = run.most \/ stop))
    BY <2>1, <2>2 DEF EndStep, LeaveMain
  <2>5. CASE run'.most = run.most /\ run'.pc # "idle"
    BY <2>1, <2>3, <2>5, ZenonT(30) DEF BestInv, Best
  <2>6. CASE run' = Idle /\ (Toward = run.most \/ stop)
    <3>1. ~Aiming'
      BY <2>6, RunTypes, ZenonT(30) DEF Aiming
    <3> QED BY <2>1, <2>3, <2>6, <3>1, ZenonT(30) DEF BestInv, Best
  <2> QED BY <2>4, <2>5, <2>6
<1>13. CASE ConnectFails
  <2>1. run' = EndStep(None, tip) /\ stop' = stop
    BY <1>13 DEF ConnectFails, control
  <2>2. ~Aiming'
    BY <2>1, RunTypes, ZenonT(30) DEF EndStep, LeaveMain, Aiming
  <2>3. run'.pc # "idle" \/ stop'
    BY <1>t, <2>1 DEF EndStep, LeaveMain
  <2> QED BY <1>n, <2>2, <2>3, ZenonT(30)
<1>14. CASE InvalidateTip
  <2>1. run'.pc = "invalidate"
    <3>1. run' = [pc |-> "invalidate", pindex |-> run.pindex, toMark |-> tip,
                  byWork |-> {c \in run.byWork : Worse(seq, c, Parent[tip])}]
      BY <1>14, InvalidatesTip, ZenonT(30)
    <3> QED BY <3>1
  <2> QED BY <1>n, <2>1, ZenonT(30) DEF Aiming
<1>15. CASE InvalidateLoopEnds
  <2>1. run'.pc = "mark"
    BY <1>15, <1>t, ZenonT(30) DEF InvalidateLoopEnds, Runs, Idle
  <2> QED BY <1>n, <2>1 DEF Aiming
<1>16. CASE MarkInvalid
  BY <1>16, <1>n, ZenonT(30) DEF MarkInvalid
<1>17. CASE StartShutdown
  <2>1. UNCHANGED <<seq, cands, tip, run, call, failedValid, failedChild>> /\ stop' = TRUE
    BY <1>17 DEF StartShutdown, index, order
  <2> QED BY <1>f, <2>1 DEF failed
<1>18. CASE Restart
  BY <1>18, <1>n, ZenonT(30) DEF Restart
<1> QED BY <1>1, <1>2, <1>3, <1>4, <1>5, <1>6, <1>7, <1>8, <1>9, <1>10, <1>11, <1>12, <1>13, <1>14, <1>15,
           <1>16, <1>17, <1>18, ZenonT(30) DEF Next, Activation, Invalidation

-----------------------------------------------------------------------------
\* The inductive invariant holds in every reachable state.
THEOREM Invariance == Spec => []Inv
<1>1. Inv /\ [Next]_vars => Inv'
  <2> SUFFICES ASSUME Inv, [Next]_vars PROVE Inv'
    OBVIOUS
  <2>1. CASE UNCHANGED vars
    BY <2>1, StutterInv
  <2>2. CASE Next
    BY <2>2, TypesKept, MarksKept, LinksKept, ChainKept, CandidatesKept, BestKept, ZenonT(30) DEF Inv
  <2> QED BY <2>1, <2>2
<1> QED BY <1>1, InitInv, PTL DEF Spec

\* Type correctness.
THEOREM TypeCorrect == Spec => []TypeOK
<1>1. Inv => TypeOK
  BY ZenonT(30) DEF Inv
<1> QED BY <1>1, Invariance, PTL

\* CheckBlockIndex's condition on setBlockIndexCandidates (CandidatesComplete):
\* whenever cs_main is free they are exactly the blocks as good as the tip that
\* could be connected, but for the exceptions named there.
THEOREM CandidatesAreComplete == Spec => []CandidatesComplete
<1>1. Inv => CandidatesComplete
  <2> SUFFICES ASSUME Inv, MainFree
               PROVE  /\ Deep \/ overtaken \/ tip \in cands
                      /\ \A b \in Known :
                           IF b \in linked /\ ~Worse(seq, b, tip)
                           THEN \/ CauseAbove(b) \/ b \in cands
                                \/ Deep \/ overtaken \/ run.pc \in {"invalidate", "mark"}
                           ELSE b \notin cands
    BY DEF CandidatesComplete
  <2> USE DEF Inv
  <2>1. Deep \/ overtaken \/ (/\ tip \in cands
                              /\ run.pc \in {"idle", "released"} => Whole(tip))
    BY ZenonT(30) DEF CandsInv
  <2>2. ~Deep => \A b \in failed : CauseAbove(b)
    BY DEF MarkInv, FailedHasCause
  <2>3. \A b \in cands : b \in linked /\ ~Worse(seq, b, tip)
    BY ZenonT(30) DEF ChainInv, TypeOK
  <2>4. run.pc \in {"idle", "released"} \/ run.pc \in {"invalidate", "mark"}
    BY DEF MainFree
  <2> QED BY <2>1, <2>2, <2>3, <2>4, ZenonT(30) DEF Whole
<1> QED BY <1>1, Invariance, PTL

\* A block is marked failed only below one that was found invalid or invalidated
\* (FailedHasCause).
THEOREM MarksHaveCauses == Spec => []FailedHasCause
<1>1. Inv => FailedHasCause
  BY DEF Inv, MarkInv
<1> QED BY <1>1, Invariance, PTL

\* No block of the active chain is marked when cs_main is free
\* (ActiveChainNotFailed).
THEOREM ActiveChainUnmarked == Spec => []ActiveChainNotFailed
<1>1. Inv => ActiveChainNotFailed
  BY ZenonT(30) DEF Inv, MarkInv, ActiveChainNotFailed
<1> QED BY <1>1, Invariance, PTL

\* When ActivateBestChain has nothing left to do, no chain that could be connected
\* is better than the active one (BestChainIsActive).
THEOREM BestChainActive == Spec => []BestChainIsActive
<1>1. Inv => BestChainIsActive
  <2> SUFFICES ASSUME Inv, run = Idle, ~call, ~stop, ~Deep, ~overtaken,
                      NEW b \in linked, Path[b] \cap failed = {}, Worse(seq, tip, b)
               PROVE  FALSE
    BY ZenonT(30) DEF BestChainIsActive
  <2> USE DEF Inv
  <2>1. run.pc = "idle" /\ b \in Blocks /\ tip \in Blocks /\ seq \in [Blocks -> Int]
    BY RunTypes, BlocksTypes, ZenonT(30) DEF TypeOK
  <2>2. Whole(tip) /\ Best(tip)
    BY <2>1, ZenonT(30) DEF CandsInv, BestInv
  <2>3. ~Worse(seq, b, tip) /\ b \notin failed
    BY <2>1, WorseOrder, PathHasSelf
  <2> QED BY <2>2, <2>3 DEF Whole, Best
<1> QED BY <1>1, Invariance, PTL

\* Blocks are linked as soon as their ancestors have been received, in whatever
\* order they came (NobodyLeftBehind).
THEOREM NobodyIsLeftBehind == Spec => []NobodyLeftBehind
BY NobodyLeft, Invariance, PTL

=============================================================================
