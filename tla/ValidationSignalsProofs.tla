---------------------- MODULE ValidationSignalsProofs ----------------------
(***************************************************************************)
(* The reference counts of MainSignalsInstance, the queue that is never    *)
(* forgotten and the events that reach every callback in order, for any    *)
(* number of threads, subscribers, events and entries.                     *)
(***************************************************************************)
EXTENDS ValidationSignals, FiniteSetTheorems, TLAPS

\* Leaves that name no prover: SMT, then Zenon, with time to spare.
USE SMTT(20), ZenonT(30)

\* What every proof below is about: the entries being executed and registered.
Executing(e) == {t \in Thread : at[t] = e}
Registered(e) == {s \in Subscriber : reg[s] = e}

\* Threads and subscribers are finite in number.
LEMMA FiniteThreads ==
  IsFiniteSet(Thread) /\ IsFiniteSet(Subscriber)
<1>1. IsFiniteSet(Worker \cup Validator)
  BY SignalsAssumption, FS_Union, ZenonT(30)
<1>2. IsFiniteSet({main})
  BY FS_Singleton, ZenonT(30)
<1> QED BY <1>1, <1>2, FS_Union, SignalsAssumption, ZenonT(30) DEF Thread

\* A non-empty set of entries has a first one: one before which there are the
\* fewest.
LEMMA FirstExists ==
  ASSUME NEW S \in SUBSET Entry, S # {}
  PROVE  \E e \in S : \A f \in S : e <= f
<1> DEFINE Before(e) == {f \in S : f < e}
           T == {Before(e) : e \in S}
<1>0. S \subseteq Int
  BY DEF Entry
<1>1. IsFiniteSet(S)
  <2>1. MaxRegs \in Int /\ 1 \in Int
    BY SignalsAssumption
  <2>2. IsFiniteSet(Entry)
    BY <2>1, FS_Interval DEF Entry
  <2> QED BY <2>2, FS_Subset
<1>2. T \subseteq FiniteSubsetsOf(S) /\ T # {}
  <2>1. \A e \in S : Before(e) \in SUBSET S
    OBVIOUS
  <2>2. \A e \in S : IsFiniteSet(Before(e))
    BY <1>1, <2>1, FS_Subset
  <2> QED BY <2>1, <2>2, ZenonT(30) DEF FiniteSubsetsOf
<1>3. PICK m \in T : \A t \in T : ~(<<t, m>> \in StrictSubsetOrdering(S))
  BY <1>2, FS_StrictSubsetOrderingWellFounded, WFMin, ZenonT(30)
<1>4. PICK e \in S : m = Before(e)
  OBVIOUS
<1>5. ASSUME NEW f \in S, f < e PROVE FALSE
  <2>1. Before(f) \in T
    OBVIOUS
  <2>3. \A g \in S : g < f => g < e
    BY <1>5, <1>0
  <2>2. f \in Before(e) /\ f \notin Before(f)
    BY <1>5, <1>0
  <2>4. Before(f) \subseteq Before(e)
    BY <2>3
  <2> QED BY <1>3, <1>4, <2>1, <2>2, <2>4, ZenonT(30) DEF StrictSubsetOrdering
<1> QED BY <1>5, <1>0

\* Every number in use is that of an entry.
LEMMA ListedEntries ==
  ASSUME TypeOK
  PROVE  list \subseteq Entry /\ regs \in Nat /\ MaxRegs \in Nat
<1>1. MaxRegs \in Nat
  BY SignalsAssumption
<1> QED BY <1>1 DEF TypeOK, Entry

\* The iteration goes on with the next entry of the list, or has passed them all.
LEMMA NextEntryLeast ==
  ASSUME TypeOK, NEW t \in Thread
  PROVE  \/ NextEntry(t) = 0 /\ \A e \in list : e <= at[t]
         \/ /\ NextEntry(t) \in list /\ NextEntry(t) > at[t]
            /\ \A f \in list : f > at[t] => NextEntry(t) <= f
<1>0. at[t] \in Int /\ list \subseteq Int
  BY DEF TypeOK
<1> DEFINE rest == {e \in list : e > at[t]}
<1>1. CASE rest = {}
  <2>1. NextEntry(t) = 0
    BY <1>1 DEF NextEntry
  <2> QED BY <1>0, <1>1, <2>1
<1>2. CASE rest # {}
  <2>1. rest \in SUBSET Entry
    BY ListedEntries
  <2>2. \E e \in rest : \A f \in rest : e <= f
    BY <1>2, <2>1, FirstExists, ZenonT(30)
  <2> HIDE DEF rest
  <2>3. PICK n : n = CHOOSE e \in rest : \A f \in rest : e <= f
    OBVIOUS
  <2>4. n \in rest /\ \A f \in rest : n <= f
    BY <2>2, <2>3
  <2>5. NextEntry(t) = n
    BY <1>2, <2>3 DEF NextEntry, rest
  <2> QED BY <1>0, <2>4, <2>5 DEF rest
<1> QED BY <1>1, <1>2

\* Which is an entry of the list, and not its own.
LEMMA NextEntryFacts ==
  ASSUME TypeOK, NEW t \in Thread
  PROVE  \/ NextEntry(t) = 0
         \/ NextEntry(t) \in list /\ NextEntry(t) # at[t]
<1>1. at[t] \in Int
  BY DEF TypeOK
<1> QED BY <1>1, NextEntryLeast

\* An iteration changes one executed entry for another, and drops the one it
\* leaves when nobody else has it.
LEMMA IterateFacts ==
  ASSUME TypeOK, NEW t \in Thread, NEW event \in Nat, Iterate(t, event)
  PROVE  /\ list' \subseteq list
         /\ count' \in [Entry -> Int] /\ got' \in [Entry -> Int]
         /\ reg' = reg /\ regs' = regs
         /\ at' \in [Thread -> 0 .. regs]
         /\ at'[t] = NextEntry(t)
         /\ \A u \in Thread \ {t} : at'[u] = at[u]
<1>1. NextEntry(t) \in 0 .. regs
  <2>1. list \subseteq 1 .. regs
    BY DEF TypeOK
  <2>2. NextEntry(t) = 0 \/ NextEntry(t) \in list
    BY NextEntryFacts
  <2>3. 0 \in 0 .. regs /\ \A e \in 1 .. regs : e \in 0 .. regs
    BY ListedEntries
  <2>4. CASE NextEntry(t) = 0
    BY <2>3, <2>4
  <2>5. CASE NextEntry(t) \in list
    <3>1. NextEntry(t) \in 1 .. regs
      BY <2>1, <2>5, ZenonT(30)
    <3> QED BY <2>3, <3>1
  <2> QED BY <2>2, <2>4, <2>5
<1>2. at[t] \in 0 .. regs /\ at \in [Thread -> 0 .. regs]
  BY DEF TypeOK
<1>3. count \in [Entry -> Int] /\ got \in [Entry -> Int]
  BY DEF TypeOK
<1>4. at' \in [Thread -> 0 .. regs] /\ at'[t] = NextEntry(t)
      /\ \A u \in Thread \ {t} : at'[u] = at[u]
  BY <1>1, <1>2 DEF Iterate
<1>5. count' \in [Entry -> Int] /\ got' \in [Entry -> Int]
  BY <1>3 DEF Iterate
<1> QED BY <1>4, <1>5 DEF Iterate

\* How many events were taken is a number.
LEMMA TakenType ==
  ASSUME TypeOK
  PROVE  Taken \in Int
<1> DEFINE waiting == {i \in 1 .. Len(pending) : pending[i].event # 0}
           taken == {t \in Thread : item[t].event # 0 /\ pc[t] # "finish"}
<1>1. Len(pending) \in Nat /\ events \in Nat
  BY DEF TypeOK
<1>2. IsFiniteSet(1 .. Len(pending))
  BY <1>1, FS_Interval
<1>3. waiting \subseteq 1 .. Len(pending) /\ taken \subseteq Thread
  OBVIOUS
<1>4. IsFiniteSet(waiting) /\ IsFiniteSet(taken)
  BY <1>2, <1>3, FS_Subset, FiniteThreads
<1>5. Cardinality(waiting) \in Nat /\ Cardinality(taken) \in Nat
  BY <1>4, FS_CardinalityType
<1> HIDE DEF waiting, taken
<1>6. Taken = events - Cardinality(waiting) - Cardinality(taken)
  BY DEF Taken, waiting, taken
<1> QED BY <1>1, <1>5, <1>6

\* What a step does to the list.
LEMMA ListSteps ==
  ASSUME TypeOK, Next
  PROVE  \/ \E s \in Subscriber : Register(s) \/ Unregister(s)
         \/ Clear
         \/ \E t \in Thread, event \in Nat : Iterate(t, event)
         \/ UNCHANGED listVars
<1> DEFINE Iterates == \E t \in Thread, event \in Nat : Iterate(t, event)
<1>1. ASSUME NEW t \in Thread, QueueStep(t) PROVE Iterates \/ UNCHANGED listVars
  <2>1. item[t].event \in Nat
    BY DEF TypeOK, Item
  <2>2. UNCHANGED listVars \/ Iterate(t, item[t].event)
    BY <1>1 DEF QueueStep, MaybeScheduleProcessQueue, Schedule, ProcessQueue, SetPromise,
                FinishCallbacks, BeginEvent, CallbackReturns
  <2> QED BY <2>1, <2>2
<1>2. ASSUME NEW v \in Validator, ChainStep(v) PROVE Iterates \/ UNCHANGED listVars
  <2>1. UNCHANGED listVars \/ Iterate(v, 0)
    BY <1>2 DEF ChainStep, LimitValidationInterfaceQueue, LockMain, NothingToDo, BlockChecked,
                BlockConnected, UnlockMain
  <2>2. v \in Thread
    BY DEF Thread
  <2> QED BY <2>1, <2>2
<1>3. ASSUME StartShutdown \/ ShutdownStep PROVE Clear \/ UNCHANGED listVars
  BY <1>3 DEF StartShutdown, ShutdownStep, StopScheduler, JoinLoadBlock, ForceFlushStateToDisk, EmptyQueue
<1>4. ASSUME NEW w \in Worker, ServiceQueue(w) \/ SpuriousWakeup(w) PROVE UNCHANGED listVars
  BY <1>4 DEF ServiceQueue, SpuriousWakeup
<1>5. ASSUME NEW v \in Validator, Start(v) \/ ThreadEnds(v) PROVE UNCHANGED listVars
  BY <1>5 DEF Start, ThreadEnds
<1> HIDE DEF Iterates
<1>6. CASE \E s \in Subscriber : Register(s) \/ Unregister(s)
  BY <1>6
<1>7. CASE \E t \in Thread : QueueStep(t)
  BY <1>7, <1>1 DEF Iterates
<1>8. CASE \E w \in Worker : ServiceQueue(w) \/ SpuriousWakeup(w)
  BY <1>8, <1>4
<1>9. CASE \E v \in Validator : Start(v) \/ ChainStep(v) \/ ThreadEnds(v)
  BY <1>9, <1>2, <1>5 DEF Iterates
<1>10. CASE StartShutdown \/ ShutdownStep
  BY <1>10, <1>3
<1> QED BY <1>6, <1>7, <1>8, <1>9, <1>10 DEF Next

\* The part of TypeOK about the list.
ListTypeOK ==
  /\ regs \in 0 .. MaxRegs /\ list \subseteq 1 .. regs
  /\ count \in [Entry -> Int] /\ got \in [Entry -> Int]
  /\ reg \in [Subscriber -> 0 .. regs] /\ at \in [Thread -> 0 .. regs]

\* The list keeps its types.
LEMMA ListTypes ==
  ASSUME TypeOK, Next
  PROVE  ListTypeOK'
<1>1. /\ regs \in 0 .. MaxRegs /\ list \subseteq 1 .. regs
      /\ count \in [Entry -> Int] /\ got \in [Entry -> Int]
      /\ reg \in [Subscriber -> 0 .. regs] /\ at \in [Thread -> 0 .. regs]
  BY DEF TypeOK
<1>0. MaxRegs \in Nat /\ regs \in Nat
  BY ListedEntries
<1>2. ASSUME NEW s \in Subscriber, Register(s) PROVE ListTypeOK'
  <2>1. regs' = regs + 1 /\ regs' \in 0 .. MaxRegs
    BY <1>0, <1>2 DEF Register
  <2>2. reg' \in [Subscriber -> 0 .. regs'] /\ at' \in [Thread -> 0 .. regs']
    BY <1>0, <1>1, <1>2, <2>1 DEF Register
  <2>3. list' \subseteq 1 .. regs'
    BY <1>0, <1>1, <1>2, <2>1 DEF Register
  <2>4. PICK k \in Int : got' = [got EXCEPT ![regs + 1] = k]
    BY <1>2, TakenType, ZenonT(30) DEF Register
  <2>5. PICK n \in Int : n = 1
    OBVIOUS
  <2>8. count' = [count EXCEPT ![regs + 1] = n]
    BY <1>2, <2>5 DEF Register
  <2>6. count' \in [Entry -> Int]
    BY <1>1, <2>8, ZenonT(30)
  <2>7. got' \in [Entry -> Int]
    BY <1>1, <2>4, ZenonT(30)
  <2> QED BY <2>1, <2>2, <2>3, <2>6, <2>7 DEF ListTypeOK
<1>3. ASSUME \E es : Dropped(es)
      PROVE  list' \subseteq list /\ count' \in [Entry -> Int]
  BY <1>1, <1>3 DEF Dropped
<1>4. ASSUME NEW s \in Subscriber, Unregister(s) PROVE ListTypeOK'
  <2>1. list' \subseteq list /\ count' \in [Entry -> Int]
    BY <1>3, <1>4 DEF Unregister
  <2>2. reg' \in [Subscriber -> 0 .. regs'] /\ UNCHANGED <<regs, at, got>>
    BY <1>0, <1>1, <1>4 DEF Unregister
  <2> QED BY <1>1, <2>1, <2>2 DEF ListTypeOK
<1>5. CASE Clear
  <2>1. list' \subseteq list /\ count' \in [Entry -> Int]
    BY <1>3, <1>5 DEF Clear
  <2>2. reg' \in [Subscriber -> 0 .. regs'] /\ UNCHANGED <<regs, at, got>>
    BY <1>0, <1>1, <1>5 DEF Clear
  <2> QED BY <1>1, <2>1, <2>2 DEF ListTypeOK
<1>6. ASSUME NEW t \in Thread, NEW event \in Nat, Iterate(t, event) PROVE ListTypeOK'
  BY <1>1, <1>6, IterateFacts, ZenonT(30) DEF ListTypeOK
<1>7. CASE UNCHANGED listVars
  BY <1>1, <1>7 DEF listVars, ListTypeOK
<1>9. CASE \E s \in Subscriber : Register(s) \/ Unregister(s)
  BY <1>2, <1>4, <1>9
<1>10. CASE \E t \in Thread, event \in Nat : Iterate(t, event)
  BY <1>6, <1>10
<1> QED BY <1>5, <1>7, <1>9, <1>10, ListSteps

\* The part of TypeOK about the queue and the threads.
QueueTypeOK ==
  /\ pending \in Seq(Item) /\ item \in [Thread -> Item]
  /\ running \in BOOLEAN /\ stop \in BOOLEAN
  /\ tasks \in Nat /\ events \in Nat
  /\ csMain \in Validator \cup {nobody} /\ csChainstate \in Validator \cup {nobody}
  /\ pc \in [Thread -> Labels] /\ then \in [Thread -> Callers]

\* A jump to a label.
LEMMA GoToTypes ==
  ASSUME QueueTypeOK, NEW t \in Thread, NEW l \in Labels, GoTo(t, l)
  PROVE  pc' \in [Thread -> Labels]
<1>1. pc \in [Thread -> Labels]
  BY DEF QueueTypeOK
<1> QED BY <1>1 DEF GoTo

\* AddToProcessQueue keeps them, with an event or a promise and a caller.
LEMMA AddTypes ==
  ASSUME QueueTypeOK, NEW t \in Thread, NEW i \in Item, NEW l \in Callers,
         AddToProcessQueue(t, i, l)
  PROVE  /\ pending' \in Seq(Item) /\ item' \in [Thread -> Item]
         /\ running' \in BOOLEAN /\ tasks' \in Nat
         /\ pc' \in [Thread -> Labels] /\ then' \in [Thread -> Callers]
<1>1. then \in [Thread -> Callers] /\ pending \in Seq(Item)
  BY DEF QueueTypeOK
<1>2. "maybe" \in Labels
  BY DEF Labels
<1>3. GoTo(t, "maybe")
  BY DEF AddToProcessQueue
<1>4. pc' \in [Thread -> Labels]
  BY <1>2, <1>3, GoToTypes
<1>5. then' \in [Thread -> Callers]
  BY <1>1 DEF AddToProcessQueue
<1>6. pending' \in Seq(Item)
  BY <1>1 DEF AddToProcessQueue
<1> QED BY <1>4, <1>5, <1>6 DEF AddToProcessQueue, QueueTypeOK

\* So does the end of MaybeScheduleProcessQueue.
LEMMA ReturnTypes ==
  ASSUME QueueTypeOK, NEW t \in Thread, NEW W, Return(t, W)
  PROVE  pc' \in [Thread -> Labels] /\ then' \in [Thread -> Callers]
<1>1. then[t] \in Callers /\ then \in [Thread -> Callers] /\ pc \in [Thread -> Labels]
  BY DEF QueueTypeOK
<1>2. then[t] \in Labels
  BY <1>1 DEF Labels
<1>3. "look" \in Callers /\ "look" \in Labels
  BY DEF Callers, Labels
<1>4. pc' \in [Thread -> Labels]
  BY <1>1, <1>2, <1>3 DEF Return
<1>5. then' \in [Thread -> Callers]
  BY <1>1, <1>3 DEF Return
<1> QED BY <1>4, <1>5

\* The labels of the actions.
LEMMA LabelFacts ==
  /\ {"look", "process", "more", "flushed", "clear", "done", "maybe", "schedule", "wait", "exited"} \subseteq Labels
  /\ {"begin", "call", "finish", "idle", "limit", "lock", "step", "checked", "connected"} \subseteq Labels
  /\ {"gone", "requested", "join_load", "join_all"} \subseteq Labels
  /\ {"look", "waiting", "lock", "connected", "unlock", "process", "more", "clear"} \subseteq Callers
BY DEF Labels, Callers

\* The threads stay at labels of the code.
LEMMA PcTypes ==
  ASSUME TypeOK, Next
  PROVE  pc' \in [Thread -> Labels]
<1>0. QueueTypeOK /\ pc \in [Thread -> Labels]
  BY DEF TypeOK, QueueTypeOK
<1> DEFINE Jumps == \E t \in Thread, l \in Labels : GoTo(t, l)
<1>1. ASSUME NEW t \in Thread, NEW W, Return(t, W) PROVE pc' \in [Thread -> Labels]
  BY <1>0, <1>1, ReturnTypes
<1>2. CASE Jumps
  BY <1>0, <1>2, GoToTypes
<1> HIDE DEF Jumps
<1>3. ASSUME NEW s \in Subscriber, Register(s) \/ Unregister(s) PROVE pc' \in [Thread -> Labels]
  BY <1>0, <1>3 DEF Register, Unregister
<1>4. ASSUME NEW t \in Thread, QueueStep(t) PROVE pc' \in [Thread -> Labels]
  <2>1. CASE MaybeScheduleProcessQueue(t)
    <3>1. Return(t, {}) \/ GoTo(t, "schedule")
      BY <2>1 DEF MaybeScheduleProcessQueue
    <3> QED BY <1>1, <1>2, <3>1, LabelFacts DEF Jumps
  <2>2. CASE Schedule(t)
    BY <1>1, <2>2, ZenonT(30) DEF Schedule
  <2>3. CASE ProcessQueue(t)
    <3>1. GoTo(t, "more") \/ GoTo(t, "look") \/ GoTo(t, "begin")
      BY <2>3 DEF ProcessQueue, Returned
    <3> QED BY <1>2, <3>1, LabelFacts DEF Jumps
  <2>4. CASE BeginEvent(t) \/ CallbackReturns(t)
    <3>1. GoTo(t, "finish") \/ GoTo(t, "call")
      BY <2>4 DEF BeginEvent, CallbackReturns
    <3> QED BY <1>2, <3>1, LabelFacts DEF Jumps
  <2>5. CASE SetPromise(t)
    <3>1. "finish" \in Labels /\ "lock" \in Labels
      BY LabelFacts
    <3>2. \/ GoTo(t, "finish")
          \/ pc' = [pc EXCEPT ![t] = "finish", ![item[t].waiter] = "lock"]
      BY <2>5 DEF SetPromise
    <3>3. CASE pc' = [pc EXCEPT ![t] = "finish", ![item[t].waiter] = "lock"]
      BY <1>0, <3>1, <3>3, ZenonT(30)
    <3> QED BY <1>2, <3>1, <3>2, <3>3 DEF Jumps
  <2>6. CASE FinishCallbacks(t)
    <3>1. GoTo(t, "maybe")
      BY <2>6 DEF FinishCallbacks
    <3> QED BY <1>2, <3>1, LabelFacts DEF Jumps
  <2> QED BY <1>4, <2>1, <2>2, <2>3, <2>4, <2>5, <2>6 DEF QueueStep
<1>5. ASSUME NEW w \in Worker, ServiceQueue(w) \/ SpuriousWakeup(w) PROVE pc' \in [Thread -> Labels]
  <2>1. w \in Thread
    BY DEF Thread
  <2>2. GoTo(w, "exited") \/ GoTo(w, "wait") \/ GoTo(w, "process") \/ GoTo(w, "look")
    BY <1>5 DEF ServiceQueue, SpuriousWakeup
  <2> QED BY <1>2, <2>1, <2>2, LabelFacts DEF Jumps
<1>6. ASSUME NEW v \in Validator, Start(v) \/ ChainStep(v) \/ ThreadEnds(v) PROVE pc' \in [Thread -> Labels]
  <2>1. v \in Thread
    BY DEF Thread
  <2>2. \E l \in {"limit", "gone", "maybe", "lock", "step", "idle", "connected", "checked"} : GoTo(v, l)
    BY <1>6 DEF Start, ThreadEnds, ChainStep, LimitValidationInterfaceQueue, LockMain, NothingToDo,
                BlockChecked, BlockConnected, UnlockMain, AddToProcessQueue
  <2> QED BY <1>2, <2>1, <2>2, LabelFacts DEF Jumps
<1>7. CASE StartShutdown \/ JoinLoadBlock \/ ForceFlushStateToDisk \/ EmptyQueue \/ Clear
  <2>1. main \in Thread
    BY DEF Thread
  <2>2. \E l \in {"requested", "join_all", "maybe", "flushed", "process", "done"} : GoTo(main, l)
    BY <1>7 DEF StartShutdown, JoinLoadBlock, ForceFlushStateToDisk, EmptyQueue, Clear, AddToProcessQueue
  <2> QED BY <1>2, <2>1, <2>2, LabelFacts DEF Jumps
<1>8. CASE StopScheduler
  <2>1. "join_load" \in Labels /\ "look" \in Labels
    BY LabelFacts
  <2> QED BY <1>0, <1>8, <2>1 DEF StopScheduler
<1> QED BY <1>3, <1>4, <1>5, <1>6, <1>7, <1>8 DEF Next, ShutdownStep

\* The queue keeps its types.
LEMMA QueueTypes ==
  ASSUME TypeOK, Next
  PROVE  QueueTypeOK'
<1>0. QueueTypeOK
  BY DEF TypeOK, QueueTypeOK
<1>p. pc' \in [Thread -> Labels]
  BY PcTypes
<1>1. ASSUME NEW s \in Subscriber, Register(s) \/ Unregister(s) PROVE QueueTypeOK'
  BY <1>0, <1>1, <1>p DEF QueueTypeOK, Register, Unregister, queueVars
<1>2. ASSUME NEW t \in Thread, QueueStep(t) PROVE QueueTypeOK'
  <2>1. CASE MaybeScheduleProcessQueue(t)
    <3>1. then' \in [Thread -> Callers]
      <4>1. CASE Return(t, {})
        BY <1>0, <4>1, ReturnTypes
      <4>2. CASE UNCHANGED then
        BY <1>0, <4>2 DEF QueueTypeOK
      <4> QED BY <2>1, <4>1, <4>2 DEF MaybeScheduleProcessQueue
    <3> QED BY <1>0, <1>p, <2>1, <3>1 DEF QueueTypeOK, MaybeScheduleProcessQueue, queueVars
  <2>2. CASE Schedule(t)
    <3>1. then' \in [Thread -> Callers]
      <4>1. \E W : Return(t, W)
        BY <2>2, ZenonT(30) DEF Schedule
      <4> QED BY <1>0, <4>1, ReturnTypes
    <3> QED BY <1>0, <1>p, <2>2, <3>1 DEF QueueTypeOK, Schedule
  <2>3. CASE ProcessQueue(t)
    <3>1. pending # <<>> => Head(pending) \in Item /\ Tail(pending) \in Seq(Item)
      BY <1>0 DEF QueueTypeOK
    <3>2. pending' \in Seq(Item) /\ running' \in BOOLEAN
      BY <1>0, <2>3, <3>1, ZenonT(30) DEF QueueTypeOK, ProcessQueue
    <3>3. item' \in [Thread -> Item]
      BY <1>0, <2>3, <3>1 DEF QueueTypeOK, ProcessQueue
    <3> QED BY <1>0, <1>p, <2>3, <3>2, <3>3 DEF QueueTypeOK, ProcessQueue
  <2>4. CASE BeginEvent(t) \/ CallbackReturns(t)
    BY <1>0, <1>p, <2>4 DEF QueueTypeOK, BeginEvent, CallbackReturns, queueVars
  <2>5. CASE SetPromise(t)
    <3>1. "lock" \in Callers
      BY LabelFacts
    <3>2. then' \in [Thread -> Callers]
      BY <1>0, <2>5, <3>1 DEF QueueTypeOK, SetPromise
    <3> QED BY <1>0, <1>p, <2>5, <3>2 DEF QueueTypeOK, SetPromise, queueVars
  <2>6. CASE FinishCallbacks(t)
    <3>1. Returned(t) \in Callers
      BY LabelFacts DEF Returned
    <3>2. nothing \in Item
      BY DEF nothing, Item
    <3>3. item' \in [Thread -> Item] /\ then' \in [Thread -> Callers]
      BY <1>0, <2>6, <3>1, <3>2 DEF QueueTypeOK, FinishCallbacks
    <3> QED BY <1>0, <1>p, <2>6, <3>3, ZenonT(30) DEF QueueTypeOK, FinishCallbacks
  <2> QED BY <1>2, <2>1, <2>2, <2>3, <2>4, <2>5, <2>6 DEF QueueStep
<1>3. ASSUME NEW w \in Worker, ServiceQueue(w) \/ SpuriousWakeup(w) PROVE QueueTypeOK'
  BY <1>0, <1>p, <1>3 DEF QueueTypeOK, ServiceQueue, SpuriousWakeup, queueVars
<1>4. ASSUME NEW v \in Validator, Start(v) \/ ThreadEnds(v) PROVE QueueTypeOK'
  BY <1>0, <1>p, <1>4 DEF QueueTypeOK, Start, ThreadEnds, queueVars
<1>5. ASSUME NEW v \in Validator, ChainStep(v) PROVE QueueTypeOK'
  <2>0. v \in Thread
    BY DEF Thread
  <2>1. CASE LimitValidationInterfaceQueue(v)
    <3>1. CASE AddToProcessQueue(v, [event |-> 0, waiter |-> v], "waiting")
      <4>1. [event |-> 0, waiter |-> v] \in Item /\ "waiting" \in Callers
        BY LabelFacts DEF Item
      <4>2. /\ pending' \in Seq(Item) /\ item' \in [Thread -> Item]
            /\ running' \in BOOLEAN /\ tasks' \in Nat /\ then' \in [Thread -> Callers]
        BY <1>0, <2>0, <3>1, <4>1, AddTypes
      <4> QED BY <1>0, <1>p, <2>1, <4>2 DEF QueueTypeOK, LimitValidationInterfaceQueue
    <3>2. CASE UNCHANGED <<pending, running, tasks, item, then>>
      BY <1>0, <1>p, <2>1, <3>2 DEF QueueTypeOK, LimitValidationInterfaceQueue
    <3> QED BY <2>1, <3>1, <3>2 DEF LimitValidationInterfaceQueue
  <2>2. CASE LockMain(v) \/ NothingToDo(v) \/ BlockChecked(v) \/ UnlockMain(v)
    BY <1>0, <1>p, <2>0, <2>2 DEF QueueTypeOK, LockMain, NothingToDo, BlockChecked, UnlockMain, queueVars
  <2>3. CASE BlockConnected(v)
    <3>1. events' \in Nat /\ [event |-> events', waiter |-> nobody] \in Item
      BY <1>0, <2>3 DEF QueueTypeOK, BlockConnected, Item
    <3>2. PICK l \in {"connected", "unlock"} : AddToProcessQueue(v, [event |-> events', waiter |-> nobody], l)
      BY <2>3 DEF BlockConnected
    <3>3. l \in Callers
      BY <3>2, LabelFacts
    <3>4. /\ pending' \in Seq(Item) /\ item' \in [Thread -> Item]
          /\ running' \in BOOLEAN /\ tasks' \in Nat /\ then' \in [Thread -> Callers]
      BY <1>0, <2>0, <3>1, <3>2, <3>3, AddTypes
    <3> QED BY <1>0, <1>p, <2>3, <3>1, <3>4 DEF QueueTypeOK, BlockConnected
  <2> QED BY <1>5, <2>1, <2>2, <2>3 DEF ChainStep
<1>6. CASE StartShutdown \/ StopScheduler \/ JoinLoadBlock \/ EmptyQueue \/ Clear
  BY <1>0, <1>p, <1>6, ZenonT(30) DEF QueueTypeOK, StartShutdown, StopScheduler, JoinLoadBlock, EmptyQueue, Clear, queueVars
<1>7. CASE ForceFlushStateToDisk
  <2>1. events' \in Nat /\ [event |-> events', waiter |-> nobody] \in Item /\ main \in Thread
    BY <1>0, <1>7 DEF QueueTypeOK, ForceFlushStateToDisk, Item, Thread
  <2>2. PICK l \in {"process", "clear"} : AddToProcessQueue(main, [event |-> events', waiter |-> nobody], l)
    BY <1>7 DEF ForceFlushStateToDisk
  <2>3. l \in Callers
    BY <2>2, LabelFacts
  <2>4. /\ pending' \in Seq(Item) /\ item' \in [Thread -> Item]
        /\ running' \in BOOLEAN /\ tasks' \in Nat /\ then' \in [Thread -> Callers]
    BY <1>0, <2>1, <2>2, <2>3, AddTypes
  <2> QED BY <1>0, <1>p, <1>7, <2>1, <2>4, ZenonT(30) DEF QueueTypeOK, ForceFlushStateToDisk
<1> QED BY <1>1, <1>2, <1>3, <1>4, <1>5, <1>6, <1>7 DEF Next, ShutdownStep

\* Every variable of ValidationSignals keeps its type: the entries in use were
\* made by Register, and a thread is always at a label of the code.
THEOREM TypeCorrect == Spec => []TypeOK
<1>1. Init => TypeOK
  <2> SUFFICES ASSUME Init PROVE TypeOK
    OBVIOUS
  <2>1. MaxRegs \in Nat
    BY SignalsAssumption
  <2>2. QueueTypeOK
    <3>1. {"look", "up", "idle"} \subseteq Labels /\ "look" \in Callers
      BY DEF Labels, Callers
    <3>2. nothing \in Item
      BY DEF nothing, Item
    <3>3. pc \in [Thread -> Labels]
      BY <3>1 DEF Init
    <3>4. then \in [Thread -> Callers] /\ item \in [Thread -> Item]
      BY <3>1, <3>2 DEF Init
    <3>5. pending \in Seq(Item)
      BY DEF Init
    <3>7. running \in BOOLEAN /\ stop \in BOOLEAN
      BY ZenonT(30) DEF Init
    <3>6. /\ tasks \in Nat /\ events \in Nat
          /\ csMain \in Validator \cup {nobody} /\ csChainstate \in Validator \cup {nobody}
      BY DEF Init
    <3> QED BY <3>3, <3>4, <3>5, <3>6, <3>7 DEF QueueTypeOK
  <2>3. ListTypeOK
    BY <2>1 DEF Init, ListTypeOK
  <2> QED BY <2>2, <2>3 DEF TypeOK, QueueTypeOK, ListTypeOK
<1>2. TypeOK /\ [Next]_vars => TypeOK'
  <2>1. CASE Next
    <3>1. ASSUME TypeOK PROVE ListTypeOK' /\ QueueTypeOK'
      BY <2>1, <3>1, ListTypes, QueueTypes
    <3> QED BY <3>1 DEF TypeOK, QueueTypeOK, ListTypeOK
  <2>2. CASE UNCHANGED vars
    BY <2>2 DEF TypeOK, vars, listVars, queueVars
  <2> QED BY <2>1, <2>2
<1> QED BY <1>1, <1>2, PTL DEF Spec

\* The strengthening: a subscriber has an entry of its own.
CInv ==
  /\ CountsAreExact
  /\ \A s, u \in Subscriber : reg[s] = reg[u] /\ reg[s] # 0 => s = u

\* Sets of threads and of subscribers have a number of elements, and one
\* element more or less is counted.
LEMMA Counting ==
  /\ \A S \in SUBSET Thread : IsFiniteSet(S) /\ Cardinality(S) \in Nat
  /\ \A S \in SUBSET Subscriber : IsFiniteSet(S) /\ Cardinality(S) \in Nat
<1>1. \A S \in SUBSET Thread : IsFiniteSet(S)
  BY FiniteThreads, FS_Subset
<1>2. \A S \in SUBSET Subscriber : IsFiniteSet(S)
  BY FiniteThreads, FS_Subset
<1> QED BY <1>1, <1>2, FS_CardinalityType

\* Registering.
LEMMA RegisterCounts ==
  ASSUME TypeOK, CInv, NEW s \in Subscriber, Register(s)
  PROVE  CInv'
<1>r. MaxRegs \in Nat /\ regs \in Nat
  BY ListedEntries
<1>n. PICK n \in Entry : n = regs + 1
  BY <1>r DEF Register, Entry
<1>0. /\ list' = list \cup {n} /\ n \notin list
      /\ reg' = [reg EXCEPT ![s] = n] /\ reg \in [Subscriber -> 0 .. regs]
      /\ at' = at /\ at \in [Thread -> 0 .. regs]
      /\ count' = [count EXCEPT ![n] = 1] /\ count \in [Entry -> Int]
      /\ n # 0
  BY <1>r, <1>n DEF Register, TypeOK
<1>f. (\A u \in Subscriber : reg[u] # n) /\ (\A t \in Thread : at[t] # n)
  BY <1>r, <1>n, <1>0
<1>1. \A u \in Subscriber, v \in Subscriber : reg'[u] = reg'[v] /\ reg'[u] # 0 => u = v
  BY <1>0, <1>f DEF CInv
<1>2. ASSUME NEW e \in Entry, e # n
      PROVE  Executing(e)' = Executing(e) /\ Registered(e)' = Registered(e) /\ count'[e] = count[e]
             /\ (e \in list' <=> e \in list)
  <2>1. reg[s] = 0 /\ e # 0
    BY DEF Register, Entry
  <2>2. \A u \in Subscriber : reg'[u] = e <=> reg[u] = e
    BY <1>0, <1>2, <2>1
  <2>3. count'[e] = count[e] /\ (e \in list' <=> e \in list)
    BY <1>0, <1>2
  <2> QED BY <1>0, <2>2, <2>3 DEF Executing, Registered
<1>3. Executing(n)' = {} /\ Registered(n)' = {s} /\ count'[n] = 1 /\ n \in list'
  BY <1>0, <1>f DEF Executing, Registered
<1>4. Cardinality({}) = 0 /\ Cardinality({s}) = 1
  BY FS_EmptySet, FS_Singleton, ZenonT(30)
<1>5. ASSUME NEW e \in Entry
      PROVE  /\ count'[e] = Cardinality(Executing(e)') + Cardinality(Registered(e)')
             /\ e \in list' <=> count'[e] > 0
  <2>1. CASE e # n
    BY <1>2, <2>1 DEF CInv, CountsAreExact, Executing, Registered
  <2>2. CASE e = n
    BY <1>3, <1>4, <2>2
  <2> QED BY <2>1, <2>2
<1> QED BY <1>1, <1>5, ZenonT(30) DEF CInv, CountsAreExact, Executing, Registered

\* Unregistering, one subscriber or all.  Each entry loses at most its own.
LEMMA DroppedCounts ==
  ASSUME TypeOK, CInv, NEW G \in SUBSET Subscriber,
         Dropped({reg[s] : s \in G} \ {0}),
         reg' = [s \in Subscriber |-> IF s \in G THEN 0 ELSE reg[s]],
         UNCHANGED at
  PROVE  CInv'
<1> DEFINE es == {reg[s] : s \in G} \ {0}
<1>0. /\ reg \in [Subscriber -> 0 .. regs] /\ count \in [Entry -> Int]
      /\ count' = [e \in Entry |-> IF e \in es THEN count[e] - 1 ELSE count[e]]
      /\ list' = list \ {e \in es : count[e] = 1}
  BY DEF TypeOK, Dropped
<1>1. \A u \in Subscriber, v \in Subscriber : reg'[u] = reg'[v] /\ reg'[u] # 0 => u = v
  BY ZenonT(30) DEF CInv
<1>2. ASSUME NEW e \in Entry
      PROVE  /\ count'[e] = Cardinality(Executing(e)') + Cardinality(Registered(e)')
             /\ e \in list' <=> count'[e] > 0
  <2>0. e # 0 /\ Executing(e)' = Executing(e)
    BY DEF Executing, Entry
  <2>1. /\ count[e] = Cardinality(Executing(e)) + Cardinality(Registered(e))
        /\ e \in list <=> count[e] > 0
    BY DEF CInv, CountsAreExact, Executing, Registered
  <2>2. Cardinality(Executing(e)) \in Nat
    BY Counting DEF Executing
  <2>3. CASE e \in es
    <3>1. PICK s \in G : reg[s] = e
      BY <2>3
    <3>2. Registered(e) = {s} /\ Registered(e)' = {}
      BY <2>0, <3>1 DEF Registered, CInv
    <3>3. Cardinality(Registered(e)) = 1 /\ Cardinality(Registered(e)') = 0
      BY <3>2, FS_EmptySet, FS_Singleton, ZenonT(30)
    <3>4. count'[e] = count[e] - 1 /\ (e \in list' <=> e \in list /\ count[e] # 1)
      BY <1>0, <2>3
    <3> HIDE DEF es
    <3> QED BY <2>0, <2>1, <2>2, <3>3, <3>4
  <2>4. CASE e \notin es
    <3>1. \A s \in Subscriber : reg'[s] = e <=> reg[s] = e
      BY <2>0, <2>4
    <3>2. Registered(e)' = Registered(e)
      BY <3>1 DEF Registered
    <3>3. count'[e] = count[e] /\ (e \in list' <=> e \in list)
      BY <1>0, <2>4
    <3> HIDE DEF es
    <3> QED BY <2>0, <2>1, <3>2, <3>3
  <2> QED BY <2>3, <2>4
<1> QED BY <1>1, <1>2, ZenonT(30) DEF CInv, CountsAreExact, Executing, Registered

\* A section of Iterate.
LEMMA IterateCounts ==
  ASSUME TypeOK, CInv, NEW t \in Thread, NEW event \in Nat, Iterate(t, event)
  PROVE  CInv'
<1>i. NextEntry(t) = 0 \/ (NextEntry(t) \in list /\ NextEntry(t) # at[t])
  BY NextEntryFacts
<1> DEFINE a == at[t]
           n == NextEntry(t)
<1>0. /\ at \in [Thread -> 0 .. regs] /\ count \in [Entry -> Int]
      /\ at' = [at EXCEPT ![t] = n] /\ UNCHANGED reg
      /\ count' = [e \in Entry |-> IF e = a THEN count[e] - 1
                                   ELSE IF e = n THEN count[e] + 1 ELSE count[e]]
      /\ list' = list \ {e \in {a} : e # 0 /\ count[e] = 1}
  BY DEF TypeOK, Iterate
<1>1. n = 0 \/ (n \in list /\ n # a)
  BY <1>i
<1> HIDE DEF n
<1>3. n # 0 => n \in list /\ n # a
  BY <1>1
<1>4. ASSUME NEW e \in Entry
      PROVE  /\ count'[e] = Cardinality(Executing(e)') + Cardinality(Registered(e)')
             /\ e \in list' <=> count'[e] > 0
  <2>0. e # 0 /\ Registered(e)' = Registered(e)
    BY <1>0 DEF Entry, Registered
  <2>1. /\ count[e] = Cardinality(Executing(e)) + Cardinality(Registered(e))
        /\ e \in list <=> count[e] > 0
    BY DEF CInv, CountsAreExact, Executing, Registered
  <2>2. /\ Cardinality(Executing(e)) \in Nat /\ Cardinality(Registered(e)) \in Nat
        /\ IsFiniteSet(Executing(e))
    BY Counting DEF Executing, Registered
  <2>3. CASE e = a
    <3>1. t \in Executing(e) /\ Executing(e)' = Executing(e) \ {t}
      BY <1>0, <1>3, <2>0, <2>3 DEF Executing
    <3>2. Cardinality(Executing(e)') = Cardinality(Executing(e)) - 1
      BY <2>2, <3>1, FS_RemoveElement, ZenonT(30)
    <3>3. count'[e] = count[e] - 1 /\ (e \in list' <=> e \in list /\ count[e] # 1)
      BY <1>0, <2>0, <2>3
    <3>4. Cardinality(Executing(e)') \in Nat
      BY Counting, <3>1 DEF Executing
    <3> QED BY <2>0, <2>1, <2>2, <3>2, <3>3, <3>4
  <2>4. CASE e # a /\ e = n
    <3>1. t \notin Executing(e) /\ Executing(e)' = Executing(e) \cup {t}
      BY <1>0, <2>4 DEF Executing
    <3>2. Cardinality(Executing(e)') = Cardinality(Executing(e)) + 1
      BY <2>2, <3>1, FS_AddElement
    <3>3. count'[e] = count[e] + 1 /\ e \in list' /\ e \in list
      BY <1>0, <1>3, <2>0, <2>4
    <3> QED BY <2>0, <2>1, <2>2, <3>2, <3>3
  <2>5. CASE e # a /\ e # n
    <3>1. \A u \in Thread : at'[u] = e <=> at[u] = e
      BY <1>0, <2>5
    <3>2. Executing(e)' = Executing(e)
      BY <3>1 DEF Executing
    <3>3. count'[e] = count[e] /\ (e \in list' <=> e \in list)
      BY <1>0, <2>5
    <3> QED BY <2>0, <2>1, <3>2, <3>3
  <2> QED BY <2>3, <2>4, <2>5
<1>5. \A u \in Subscriber, v \in Subscriber : reg'[u] = reg'[v] /\ reg'[u] # 0 => u = v
  BY <1>0 DEF CInv
<1> QED BY <1>4, <1>5 DEF CInv, CountsAreExact, Executing, Registered

\* The comment on ListEntry holds: the count of an entry is the number of its
\* executions, plus 1 if it is registered, and an entry is in the list while
\* its count is not 0.  The iterator of no Iterate is ever erased by another
\* thread.
THEOREM CountsExact == Spec => []CountsAreExact
<1>1. Init => CInv
  <2> SUFFICES ASSUME Init PROVE CInv
    OBVIOUS
  <2>1. ASSUME NEW e \in Entry PROVE Executing(e) = {} /\ Registered(e) = {}
    BY DEF Init, Executing, Registered, Entry
  <2>2. Cardinality({}) = 0
    BY FS_EmptySet
  <2>3. ASSUME NEW e \in Entry
        PROVE  /\ count[e] = Cardinality(Executing(e)) + Cardinality(Registered(e))
               /\ e \in list <=> count[e] > 0
    <3>1. count[e] = 0 /\ e \notin list
      BY DEF Init
    <3> QED BY <2>1, <2>2, <3>1
  <2>4. \A s, u \in Subscriber : reg[s] = reg[u] /\ reg[s] # 0 => s = u
    BY DEF Init
  <2> QED BY <2>3, <2>4 DEF CInv, CountsAreExact, Executing, Registered
<1>2. TypeOK /\ CInv /\ [Next]_vars => CInv'
  <2> SUFFICES ASSUME TypeOK, CInv, [Next]_vars PROVE CInv'
    OBVIOUS
  <2>1. ASSUME NEW s \in Subscriber, Register(s) PROVE CInv'
    BY <2>1, RegisterCounts
  <2>2. ASSUME NEW s \in Subscriber, Unregister(s) PROVE CInv'
    <3>1. {reg[u] : u \in {s}} \ {0} = {reg[s]}
      BY <2>2 DEF Unregister
    <3>2. reg' = [u \in Subscriber |-> IF u \in {s} THEN 0 ELSE reg[u]]
      BY <2>2, ZenonT(30) DEF Unregister, TypeOK
    <3>3. Dropped({reg[u] : u \in {s}} \ {0}) /\ UNCHANGED at
      BY <2>2, <3>1 DEF Unregister
    <3>4. {s} \in SUBSET Subscriber
      OBVIOUS
    <3> QED BY <3>2, <3>3, <3>4, DroppedCounts, ZenonT(30)
  <2>3. CASE Clear
    <3>1. reg' = [u \in Subscriber |-> IF u \in Subscriber THEN 0 ELSE reg[u]]
      BY <2>3 DEF Clear
    <3>2. Dropped({reg[u] : u \in Subscriber} \ {0}) /\ UNCHANGED at
      BY <2>3 DEF Clear
    <3> QED BY <3>1, <3>2, DroppedCounts
  <2>4. ASSUME NEW t \in Thread, NEW event \in Nat, Iterate(t, event) PROVE CInv'
    BY <2>4, IterateCounts
  <2>5. CASE UNCHANGED listVars
    BY <2>5 DEF CInv, CountsAreExact, listVars
  <2>6. CASE Next
    BY <2>1, <2>2, <2>3, <2>4, <2>5, <2>6, ListSteps
  <2>7. CASE UNCHANGED vars
    BY <2>5, <2>7 DEF vars
  <2> QED BY <2>6, <2>7
<1>3. CInv => CountsAreExact
  BY DEF CInv
<1> QED BY <1>1, <1>2, <1>3, TypeCorrect, PTL DEF Spec

\* A step of t, and of a thread it wakes, that leaves alone what QueueIsServed
\* looks at: t neither starts nor ends a callback, and it goes on to serve the
\* queue if it was about to.
Untouched(t) ==
  /\ \A u \in Thread \ {t} :
       pc'[u] = pc[u] \/ (pc[u] \in {"wait", "waiting"} /\ pc'[u] \in {"look", "lock"})
  /\ pc[t] \in Processing <=> pc'[t] \in Processing
  /\ pc'[t] # "wait"

GoesOn(t) ==
  \/ pc'[t] \in {"maybe", "schedule", "process", "more"}
  \/ pc[t] \notin {"maybe", "schedule", "process", "more"}

\* Such a step keeps QueueIsServed.
LEMMA QueueUntouched ==
  ASSUME QueueIsServed, NEW t \in Thread, Untouched(t),
         UNCHANGED <<pending, running, tasks, stop>>,
         running \/ pending = <<>> \/ GoesOn(t)
  PROVE  QueueIsServed'
<1>1. \A u \in Thread : pc[u] \in Processing <=> pc'[u] \in Processing
  BY DEF Processing, Untouched
<1>2. \A u \in Thread : pc'[u] = "wait" => pc[u] = "wait"
  BY ZenonT(30) DEF Untouched
<1>3. (\A u, w \in Thread : pc'[u] \in Processing /\ pc'[w] \in Processing => u = w)
      /\ (running' <=> \E u \in Thread : pc'[u] \in Processing)
  BY <1>1, ZenonT(30) DEF QueueIsServed, Untouched
<1>4. pending' # <<>> /\ ~running' =>
        tasks' > 0 \/ \E u \in Thread : pc'[u] \in {"maybe", "schedule", "process", "more"}
  BY DEF QueueIsServed, Untouched, GoesOn
<1>5. tasks' > 0 /\ ~stop' => \E w \in Worker : pc'[w] # "wait"
  BY <1>2 DEF QueueIsServed, Thread, Untouched
<1> QED BY <1>3, <1>4, <1>5, ZenonT(30) DEF QueueIsServed, Processing

\* No two jobs run at the same time, and none is forgotten.
THEOREM QueueServed == Spec => []QueueIsServed
<1>1. Init => QueueIsServed
  <2> SUFFICES ASSUME Init PROVE QueueIsServed
    OBVIOUS
  <2>1. \A t \in Thread : pc[t] \notin Processing
    BY DEF Init, Processing
  <2> QED BY <2>1 DEF Init, QueueIsServed
<1>2. TypeOK /\ QueueIsServed /\ [Next]_vars => QueueIsServed'
  <2> SUFFICES ASSUME TypeOK, QueueIsServed, [Next]_vars PROVE QueueIsServed'
    OBVIOUS
  <2>0. QueueTypeOK
    BY DEF TypeOK, QueueTypeOK
  <2>p. ASSUME Next PROVE pc' \in [Thread -> Labels]
    BY <2>p, PcTypes
  <2>1. CASE UNCHANGED <<pending, running, tasks, stop, pc>>
    BY <2>1 DEF QueueIsServed
  <2>2. ASSUME NEW s \in Subscriber, Register(s) \/ Unregister(s) PROVE QueueIsServed'
    BY <2>1, <2>2 DEF Register, Unregister, queueVars
  <2>3. ASSUME NEW t \in Thread, Next, QueueStep(t) PROVE QueueIsServed'
    <3>0. then[t] \in Callers /\ pc \in [Thread -> Labels] /\ pc' \in [Thread -> Labels] /\ tasks \in Nat
      BY <2>0, <2>3, <2>p DEF QueueTypeOK
    <3>r. then[t] \notin Processing /\ then[t] # "wait"
      BY <3>0 DEF Callers, Processing
    <3>1. CASE MaybeScheduleProcessQueue(t)
      <4>3. UNCHANGED <<pending, running, tasks, stop>>
        BY <3>1 DEF MaybeScheduleProcessQueue, queueVars
      <4>1. CASE (running \/ pending = <<>>) /\ Return(t, {})
        <5>1. pc'[t] = then[t] /\ \A u \in Thread \ {t} : pc'[u] = pc[u]
          BY <4>1 DEF Return
        <5>3. pc[t] = "maybe"
          BY <3>1 DEF MaybeScheduleProcessQueue
        <5>2. Untouched(t)
          BY <3>r, <5>1, <5>3 DEF Processing, Untouched
        <5> QED BY <4>1, <4>3, <5>2, QueueUntouched
      <4>2. CASE GoTo(t, "schedule")
        <5>1. pc'[t] = "schedule" /\ \A u \in Thread \ {t} : pc'[u] = pc[u]
          BY <3>0, <4>2 DEF GoTo
        <5>2. pc[t] = "maybe"
          BY <3>1 DEF MaybeScheduleProcessQueue
        <5>3. Untouched(t) /\ GoesOn(t)
          BY <5>1, <5>2 DEF Processing, Untouched, GoesOn
        <5> QED BY <4>3, <5>3, QueueUntouched
      <4> QED BY <3>1, <4>1, <4>2 DEF MaybeScheduleProcessQueue
    <3>2. CASE Schedule(t)
      <4>0. tasks' = tasks + 1 /\ tasks' > 0 /\ UNCHANGED <<pending, running, stop>> /\ pc[t] = "schedule"
        BY <3>0, <3>2 DEF Schedule
      <4>1. PICK W \in SUBSET Worker :
              /\ \A w \in W : pc[w] = "wait"
              /\ W = {} => \A w \in Worker : pc[w] # "wait"
              /\ Return(t, W)
        BY <3>2, ZenonT(30) DEF Schedule
      <4>2. \A u \in Thread : pc'[u] = IF u = t THEN then[t] ELSE IF u \in W THEN "look" ELSE pc[u]
        BY <4>1 DEF Return
      <4>3. \A u \in Thread : pc[u] \in Processing <=> pc'[u] \in Processing
        BY <3>r, <4>0, <4>1, <4>2 DEF Processing
      <4>4. \E w \in Worker : pc'[w] # "wait"
        <5>1. CASE W = {}
          BY <3>r, <4>1, <4>2, <5>1, SignalsAssumption, ZenonT(30) DEF Thread
        <5>2. CASE W # {}
          BY <3>r, <4>1, <4>2, <5>2 DEF Thread
        <5> QED BY <5>1, <5>2
      <4> QED BY <4>0, <4>3, <4>4 DEF QueueIsServed, Processing
    <3>3. CASE ProcessQueue(t)
      <4>1. CASE (running \/ pending = <<>>) /\ GoTo(t, Returned(t))
        <5>1. pc'[t] \in {"more", "look"} /\ \A u \in Thread \ {t} : pc'[u] = pc[u]
          BY <3>0, <4>1 DEF GoTo, Returned
        <5>2. UNCHANGED <<pending, running, tasks, stop>>
          BY <3>3, <4>1 DEF ProcessQueue
        <5>4. pc[t] = "process"
          BY <3>3 DEF ProcessQueue
        <5>3. Untouched(t)
          BY <5>1, <5>4, ZenonT(30) DEF Processing, Untouched
        <5> QED BY <4>1, <5>2, <5>3, QueueUntouched, ZenonT(30)
      <4>2. CASE ~(running \/ pending = <<>>)
        <5>1. /\ running' = TRUE /\ UNCHANGED <<tasks, stop>>
              /\ pc'[t] = "begin" /\ \A u \in Thread \ {t} : pc'[u] = pc[u]
          BY <3>0, <3>3, <4>2 DEF ProcessQueue, GoTo
        <5>2. \A u \in Thread : pc[u] \notin Processing
          BY <4>2 DEF QueueIsServed
        <5>3. \A u \in Thread : pc'[u] \in Processing <=> u = t
          BY <5>1, <5>2 DEF Processing
        <5>4. tasks' > 0 /\ ~stop' => \E w \in Worker : pc'[w] # "wait"
          BY <5>1, ZenonT(30) DEF QueueIsServed, Thread
        <5> QED BY <5>1, <5>3, <5>4 DEF QueueIsServed, Processing
      <4> QED BY <3>3, <4>1, <4>2 DEF ProcessQueue
    <3>4. CASE BeginEvent(t) \/ CallbackReturns(t)
      <4>1. /\ pc[t] \in {"begin", "call"} /\ pc'[t] \in {"finish", "call"}
            /\ \A u \in Thread \ {t} : pc'[u] = pc[u]
        BY <3>0, <3>4, ZenonT(30) DEF BeginEvent, CallbackReturns, GoTo
      <4>2. UNCHANGED <<pending, running, tasks, stop>>
        BY <3>4, ZenonT(30) DEF BeginEvent, CallbackReturns, queueVars
      <4>3. Untouched(t) /\ GoesOn(t)
        BY <4>1 DEF Processing, Untouched, GoesOn
      <4> QED BY <4>2, <4>3, QueueUntouched
    <3>5. CASE SetPromise(t)
      <4>1. /\ pc[t] = "begin" /\ pc'[t] = "finish"
            /\ \A u \in Thread \ {t} : pc'[u] = pc[u] \/ (pc[u] = "waiting" /\ pc'[u] = "lock")
        BY <3>0, <3>5, ZenonT(30) DEF SetPromise, GoTo
      <4>2. UNCHANGED <<pending, running, tasks, stop>>
        BY <3>5 DEF SetPromise, queueVars
      <4>3. Untouched(t) /\ GoesOn(t)
        BY <4>1 DEF Processing, Untouched, GoesOn
      <4> QED BY <4>2, <4>3, QueueUntouched
    <3>6. CASE FinishCallbacks(t)
      <4>1. /\ running' = FALSE /\ UNCHANGED <<tasks, stop>>
            /\ pc[t] = "finish" /\ pc'[t] = "maybe" /\ \A u \in Thread \ {t} : pc'[u] = pc[u]
        BY <3>0, <3>6, ZenonT(30) DEF FinishCallbacks, GoTo
      <4>2. \A u \in Thread : pc'[u] \notin Processing
        BY <4>1 DEF QueueIsServed, Processing
      <4>3. tasks' > 0 /\ ~stop' => \E w \in Worker : pc'[w] # "wait"
        BY <4>1 DEF QueueIsServed, Thread
      <4> QED BY <4>1, <4>2, <4>3, ZenonT(30) DEF QueueIsServed, Processing
    <3> QED BY <2>3, <3>1, <3>2, <3>3, <3>4, <3>5, <3>6 DEF QueueStep
  <2>4. ASSUME NEW w \in Worker, Next, ServiceQueue(w) \/ SpuriousWakeup(w) PROVE QueueIsServed'
    <3>0. w \in Thread /\ pc \in [Thread -> Labels] /\ pc' \in [Thread -> Labels] /\ tasks \in Nat
      BY <2>0, <2>4, <2>p DEF QueueTypeOK, Thread
    <3>1. CASE SpuriousWakeup(w)
      <4>1. pc[w] = "wait" /\ pc'[w] = "look" /\ \A u \in Thread \ {w} : pc'[u] = pc[u]
        BY <3>0, <3>1 DEF SpuriousWakeup, GoTo
      <4>2. UNCHANGED <<pending, running, tasks, stop>>
        BY <3>1 DEF SpuriousWakeup, queueVars
      <4>3. Untouched(w) /\ GoesOn(w)
        BY <4>1, ZenonT(30) DEF Processing, Untouched, GoesOn
      <4> QED BY <3>0, <4>2, <4>3, QueueUntouched
    <3>2. CASE ServiceQueue(w)
      <4>0. pc[w] = "look" /\ UNCHANGED <<pending, running, stop>>
        BY <3>2 DEF ServiceQueue
      <4>1. /\ \/ stop /\ pc'[w] = "exited" /\ tasks' = tasks
               \/ tasks = 0 /\ pc'[w] = "wait" /\ tasks' = tasks
               \/ ~stop /\ pc'[w] = "process" /\ tasks' = tasks - 1
            /\ \A u \in Thread \ {w} : pc'[u] = pc[u]
        BY <3>0, <3>2, ZenonT(30) DEF ServiceQueue, GoTo
      <4>2. \A u \in Thread : pc[u] \in Processing <=> pc'[u] \in Processing
        BY <4>0, <4>1 DEF Processing
      <4>3. pending' # <<>> /\ ~running' =>
              tasks' > 0 \/ \E u \in Thread : pc'[u] \in {"maybe", "schedule", "process", "more"}
        <5>1. CASE pc'[w] = "process"
          BY <3>0, <5>1
        <5>2. CASE pc'[w] # "process"
          BY <3>0, <4>0, <4>1, <5>2 DEF QueueIsServed
        <5> QED BY <5>1, <5>2
      <4>4. tasks' > 0 /\ ~stop' => \E u \in Worker : pc'[u] # "wait"
        BY <3>0, <4>0, <4>1
      <4> QED BY <4>0, <4>2, <4>3, <4>4 DEF QueueIsServed, Processing
    <3> QED BY <2>4, <3>1, <3>2
  <2>5. ASSUME NEW t \in Thread, Next, UNCHANGED <<running, tasks, stop>>,
               pc[t] \notin Processing \cup {"maybe", "schedule", "process", "more"},
               NEW l, GoTo(t, l), l \notin Processing \cup {"wait"},
               pending' = pending \/ l = "maybe"
        PROVE  QueueIsServed'
    <3>0. pc \in [Thread -> Labels]
      BY <2>0 DEF QueueTypeOK
    <3>1. pc'[t] = l /\ \A u \in Thread \ {t} : pc'[u] = pc[u]
      BY <2>5, <3>0 DEF GoTo
    <3>2. \A u \in Thread : pc[u] \in Processing <=> pc'[u] \in Processing
      BY <2>5, <3>1
    <3>3. tasks' > 0 /\ ~stop' => \E w \in Worker : pc'[w] # "wait"
      BY <2>5, <3>1, ZenonT(30) DEF QueueIsServed, Thread
    <3>4. pending' # <<>> /\ ~running' =>
            tasks' > 0 \/ \E u \in Thread : pc'[u] \in {"maybe", "schedule", "process", "more"}
      BY <2>5, <3>1 DEF QueueIsServed
    <3> QED BY <2>5, <3>2, <3>3, <3>4 DEF QueueIsServed, Processing
  <2>6. ASSUME NEW v \in Validator, Next, Start(v) \/ ChainStep(v) \/ ThreadEnds(v) PROVE QueueIsServed'
    <3>1. v \in Thread
      BY ZenonT(30) DEF Thread
    <3>2. pc[v] \in {"idle", "limit", "lock", "step", "checked", "connected", "unlock"}
      BY <2>6, ZenonT(30) DEF Start, ThreadEnds, ChainStep, LimitValidationInterfaceQueue, LockMain, NothingToDo,
                  BlockChecked, BlockConnected, UnlockMain
    <3>3. \E l \in {"limit", "gone", "maybe", "lock", "step", "idle", "connected", "checked"} :
            GoTo(v, l) /\ (pending' = pending \/ l = "maybe")
      BY <2>6, ZenonT(30) DEF Start, ThreadEnds, ChainStep, LimitValidationInterfaceQueue, LockMain, NothingToDo,
                  BlockChecked, BlockConnected, UnlockMain, AddToProcessQueue, queueVars
    <3>4. UNCHANGED <<running, tasks, stop>>
      BY <2>6, ZenonT(30) DEF Start, ThreadEnds, ChainStep, LimitValidationInterfaceQueue, LockMain, NothingToDo,
                  BlockChecked, BlockConnected, UnlockMain, AddToProcessQueue, queueVars
    <3>5. PICK l \in {"limit", "gone", "maybe", "lock", "step", "idle", "connected", "checked"} :
            GoTo(v, l) /\ (pending' = pending \/ l = "maybe")
      BY <3>3
    <3>6. l \notin Processing \cup {"wait"}
      BY <3>5 DEF Processing
    <3>7. pc[v] \notin Processing \cup {"maybe", "schedule", "process", "more"}
      BY <3>2 DEF Processing
    <3> QED BY <2>5, <2>6, <3>1, <3>4, <3>5, <3>6, <3>7
  <2>7. ASSUME Next, StartShutdown \/ JoinLoadBlock \/ ForceFlushStateToDisk \/ Clear PROVE QueueIsServed'
    <3>1. main \in Thread
      BY DEF Thread
    <3>2. pc[main] \in {"up", "join_load", "join_all", "flushed", "clear"}
      BY <2>7, ZenonT(30) DEF StartShutdown, JoinLoadBlock, ForceFlushStateToDisk, Clear
    <3>3. \E l \in {"requested", "join_all", "maybe", "done"} :
            GoTo(main, l) /\ (pending' = pending \/ l = "maybe")
      BY <2>7, ZenonT(30) DEF StartShutdown, JoinLoadBlock, ForceFlushStateToDisk, Clear, AddToProcessQueue, queueVars
    <3>4. UNCHANGED <<running, tasks, stop>>
      BY <2>7 DEF StartShutdown, JoinLoadBlock, ForceFlushStateToDisk, Clear, AddToProcessQueue, queueVars
    <3>5. PICK l \in {"requested", "join_all", "maybe", "done"} :
            GoTo(main, l) /\ (pending' = pending \/ l = "maybe")
      BY <3>3
    <3>6. l \notin Processing \cup {"wait"}
      BY <3>5 DEF Processing
    <3>7. pc[main] \notin Processing \cup {"maybe", "schedule", "process", "more"}
      BY <3>2 DEF Processing
    <3> QED BY <2>5, <2>7, <3>1, <3>4, <3>5, <3>6, <3>7
  <2>8. ASSUME Next, EmptyQueue PROVE QueueIsServed'
    <3>0. main \in Thread /\ pc \in [Thread -> Labels]
      BY <2>0 DEF Thread, QueueTypeOK
    <3>1. UNCHANGED <<pending, running, tasks, stop>>
      BY <2>8 DEF EmptyQueue, queueVars
    <3>2. /\ pc[main] = "more" /\ pc'[main] = IF pending = <<>> THEN "flushed" ELSE "process"
          /\ \A u \in Thread \ {main} : pc'[u] = pc[u]
      BY <2>8, <3>0, ZenonT(30) DEF EmptyQueue, GoTo
    <3>3. Untouched(main)
      BY <3>2 DEF Processing, Untouched
    <3>4. pending = <<>> \/ GoesOn(main)
      BY <3>2, ZenonT(30) DEF GoesOn
    <3> QED BY <3>0, <3>1, <3>3, <3>4, QueueUntouched
  <2>9. ASSUME StopScheduler PROVE QueueIsServed'
    <3>0. main \in Thread /\ pc \in [Thread -> Labels]
      BY <2>0 DEF Thread, QueueTypeOK
    <3>1. stop' /\ UNCHANGED <<pending, running, tasks>>
      BY <2>9 DEF StopScheduler, queueVars
    <3>2. /\ pc[main] = "requested" /\ pc'[main] = "join_load"
          /\ \A u \in Thread \ {main} : pc'[u] = IF pc[u] = "wait" THEN "look" ELSE pc[u]
      BY <2>9, <3>0 DEF StopScheduler
    <3>3. \A u \in Thread : pc[u] \in Processing <=> pc'[u] \in Processing
      BY <3>2 DEF Processing
    <3>4. \A u \in Thread : pc[u] \in {"maybe", "schedule", "process", "more"}
                             => pc'[u] \in {"maybe", "schedule", "process", "more"}
      BY <3>2
    <3>5. pending' # <<>> /\ ~running' =>
            tasks' > 0 \/ \E u \in Thread : pc'[u] \in {"maybe", "schedule", "process", "more"}
      BY <3>1, <3>4, ZenonT(30) DEF QueueIsServed
    <3> QED BY <3>1, <3>3, <3>5 DEF QueueIsServed, Processing
  <2>10. CASE Next
    BY <2>2, <2>3, <2>4, <2>6, <2>7, <2>8, <2>9, <2>10 DEF Next, ShutdownStep
  <2>11. CASE UNCHANGED vars
    BY <2>1, <2>11, ZenonT(30) DEF vars, queueVars
  <2> QED BY <2>10, <2>11
<1> QED BY <1>1, <1>2, TypeCorrect, PTL DEF Spec

----------------------------------------------------------------------------
(* The events, from the queue to the callbacks.                            *)

\* The places of the queue that hold an event, and the threads that are calling
\* callbacks with one.
Waiting == {i \in 1 .. Len(pending) : pending[i].event # 0}
InCallback(t) == item[t].event # 0 /\ pc[t] # "finish"

\* The queue holds the events after the k-th, in order.
QueuedAfter(k) ==
  /\ {pending[i].event : i \in Waiting} = (k + 1) .. events
  /\ \A i, j \in Waiting : i < j => pending[i].event < pending[j].event

\* The entries have been called with the k-th event and those before; while it is
\* being delivered, only those up to the one that is executing.
HeardUpTo(k) ==
  /\ \A t \in Thread : InCallback(t) =>
       item[t].event = k /\ \A e \in list : got[e] = IF e <= at[t] THEN k ELSE k - 1
  /\ (\A t \in Thread : ~InCallback(t)) => \A e \in list : got[e] = k

\* Where a thread has an event or executes a callback.
Busy == Processing \cup {"checked"}
PlacesInv ==
  \A t \in Thread : /\ item[t].event # 0 => pc[t] \in Processing
                    /\ pc[t] = "call" => item[t].event # 0
                    /\ at[t] # 0 => pc[t] \in {"call", "checked"}

EventInv == PlacesInv /\ \E k \in 0 .. events : QueuedAfter(k) /\ HeardUpTo(k)

\* What is known of the queue's items.
LEMMA ItemFacts ==
  ASSUME TypeOK
  PROVE  /\ Len(pending) \in Nat /\ events \in Nat
         /\ \A i \in 1 .. Len(pending) : pending[i].event \in Nat
         /\ \A t \in Thread : item[t].event \in Nat
<1>1. pending \in Seq(Item) /\ item \in [Thread -> Item] /\ events \in Nat
  BY DEF TypeOK
<1>2. \A i \in 1 .. Len(pending) : pending[i] \in Item
  BY <1>1
<1> QED BY <1>1, <1>2 DEF Item

\* The events that wait are those after the k-th: as many as were queued since.
LEMMA WaitingCount ==
  ASSUME TypeOK, NEW k \in 0 .. events, QueuedAfter(k)
  PROVE  Cardinality(Waiting) = events - k
<1> DEFINE f == [i \in Waiting |-> pending[i].event]
<1>0. events \in Nat /\ k \in Nat /\ k <= events /\ Len(pending) \in Nat
  BY ItemFacts
<1>1. \A i \in Waiting : i \in Int /\ pending[i].event \in Nat
  BY ItemFacts DEF Waiting
<1>2. IsFiniteSet(Waiting)
  <2>1. IsFiniteSet(1 .. Len(pending))
    BY <1>0, FS_Interval
  <2>2. Waiting \subseteq 1 .. Len(pending)
    BY DEF Waiting
  <2> QED BY <2>1, <2>2, FS_Subset, ZenonT(30)
<1>3. f \in Bijection(Waiting, (k + 1) .. events)
  <2>1. {pending[i].event : i \in Waiting} = (k + 1) .. events
    BY DEF QueuedAfter
  <2>2. f \in [Waiting -> (k + 1) .. events]
    BY <2>1
  <2>3. \A e \in (k + 1) .. events : \E i \in Waiting : f[i] = e
    BY <2>1
  <2>4. ASSUME NEW i \in Waiting, NEW j \in Waiting, f[i] = f[j] PROVE i = j
    <3>1. i < j => pending[i].event < pending[j].event
      BY DEF QueuedAfter
    <3>2. j < i => pending[j].event < pending[i].event
      BY DEF QueuedAfter
    <3>3. pending[i].event = pending[j].event
      BY <2>4
    <3> QED BY <1>1, <3>1, <3>2, <3>3
  <2> HIDE DEF f
  <2> QED BY <2>2, <2>3, <2>4 DEF Bijection, Injection, Surjection, IsInjective
<1>4. Cardinality(Waiting) = Cardinality((k + 1) .. events)
  BY <1>2, <1>3, FS_Bijection DEF ExistsBijection
<1>5. Cardinality((k + 1) .. events) = IF k + 1 > events THEN 0 ELSE events - (k + 1) + 1
  BY <1>0, FS_Interval
<1> QED BY <1>0, <1>4, <1>5

\* Only one thread calls callbacks with an event.
LEMMA OneInCallback ==
  ASSUME QueueIsServed, PlacesInv, NEW t \in Thread, InCallback(t), NEW u \in Thread,
         InCallback(u) \/ pc[u] \in Processing
  PROVE  u = t
<1>1. pc[t] \in Processing /\ pc[u] \in Processing
  BY DEF PlacesInv, InCallback
<1> QED BY <1>1 DEF QueueIsServed

\* So a new entry is told the k-th event when nobody is calling callbacks, and
\* the one before when it is still going to be called with the k-th.
LEMMA TakenIs ==
  ASSUME TypeOK, QueueIsServed, PlacesInv, NEW k \in 0 .. events, QueuedAfter(k)
  PROVE  /\ (\A t \in Thread : ~InCallback(t)) => Taken = k
         /\ (\E t \in Thread : InCallback(t)) => Taken = k - 1
<1> DEFINE C == {t \in Thread : InCallback(t)}
<1>1. Taken = events - Cardinality(Waiting) - Cardinality(C)
  BY DEF Taken, Waiting, InCallback
<1>2. Cardinality(Waiting) = events - k /\ events \in Nat /\ k \in Nat
  BY WaitingCount, ItemFacts
<1>3. (\A t \in Thread : ~InCallback(t)) => Cardinality(C) = 0
  BY FS_EmptySet
<1>4. ASSUME NEW t \in Thread, InCallback(t) PROVE Cardinality(C) = 1
  <2>1. C = {t}
    BY <1>4, OneInCallback
  <2> QED BY <2>1, FS_Singleton, ZenonT(30)
<1> HIDE DEF C
<1> QED BY <1>1, <1>2, <1>3, <1>4

\* What AddToProcessQueue does to the events that wait: a promise is none, and
\* the newest event goes behind the others.
LEMMA QueuedAppend ==
  ASSUME TypeOK, NEW k \in 0 .. events, QueuedAfter(k), NEW x \in Item,
         pending' = Append(pending, x),
         \/ x.event = 0 /\ events' = events
         \/ x.event = events + 1 /\ events' = events + 1
  PROVE  QueuedAfter(k)'
<1> DEFINE n == Len(pending)
<1>0. /\ n \in Nat /\ events \in Nat /\ k \in Nat /\ k <= events
      /\ \A i \in 1 .. n : pending[i].event \in Nat
  BY ItemFacts
<1>1. pending \in Seq(Item)
  BY DEF TypeOK
<1>2. Len(pending') = n + 1 /\ (\A i \in 1 .. n : pending'[i] = pending[i]) /\ pending'[n + 1] = x
  BY <1>1
<1>3. {pending[i].event : i \in Waiting} = (k + 1) .. events
      /\ \A i, j \in Waiting : i < j => pending[i].event < pending[j].event
  BY DEF QueuedAfter
<1>w. Waiting \subseteq 1 .. n
  BY DEF Waiting
<1> HIDE DEF n
<1>4. CASE x.event = 0 /\ events' = events
  <2>1. Waiting' = Waiting
    BY <1>0, <1>2, <1>4 DEF Waiting, n
  <2>2. \A i \in Waiting : pending'[i] = pending[i]
    BY <1>2, <1>w, ZenonT(30)
  <2>3. {pending'[i].event : i \in Waiting'} = {pending[i].event : i \in Waiting}
    BY <2>1, <2>2, ZenonT(30)
  <2> QED BY <1>3, <1>4, <2>1, <2>2, <2>3, ZenonT(30) DEF QueuedAfter
<1>5. CASE x.event = events + 1 /\ events' = events + 1
  <2>0. n + 1 \notin Waiting
    BY <1>0, <1>w
  <2>1. Waiting' = Waiting \cup {n + 1}
    BY <1>0, <1>2, <1>5 DEF Waiting, n
  <2>2. (\A i \in Waiting : pending'[i] = pending[i]) /\ pending'[n + 1].event = events + 1
    BY <1>2, <1>5, <1>w, ZenonT(30)
  <2>3. {pending'[i].event : i \in Waiting'} = {pending[i].event : i \in Waiting} \cup {events + 1}
    BY <2>1, <2>2, ZenonT(30)
  <2>4. {pending'[i].event : i \in Waiting'} = (k + 1) .. events'
    <3>1. ((k + 1) .. events) \cup {events + 1} = (k + 1) .. (events + 1)
      BY <1>0
    <3> QED BY <1>3, <1>5, <2>3, <3>1, ZenonT(30)
  <2>5. \A i \in Waiting : pending[i].event \in (k + 1) .. events
    BY <1>3
  <2>6. ASSUME NEW i \in Waiting', NEW j \in Waiting', i < j
        PROVE  pending'[i].event < pending'[j].event
    <3>1. i # n + 1
      BY <1>0, <1>w, <2>1, <2>6
    <3>2. i \in Waiting
      BY <2>1, <3>1
    <3>3. CASE j = n + 1
      <4>1. pending[i].event \in (k + 1) .. events /\ pending'[i].event = pending[i].event
        BY <2>2, <2>5, <3>2, ZenonT(30)
      <4>2. pending[i].event < events + 1
        BY <1>0, <4>1
      <4> QED BY <2>2, <3>3, <4>1, <4>2, ZenonT(30)
    <3>4. CASE j \in Waiting
      BY <1>3, <2>2, <2>6, <3>2, <3>4, ZenonT(30)
    <3> QED BY <2>1, <3>3, <3>4, ZenonT(30)
  <2> QED BY <2>4, <2>6, ZenonT(30) DEF QueuedAfter
<1> QED BY <1>4, <1>5

\* What ProcessQueue takes is a promise or the next event.
LEMMA QueuedTail ==
  ASSUME TypeOK, NEW k \in 0 .. events, QueuedAfter(k), pending # <<>>,
         pending' = Tail(pending), events' = events
  PROVE  \/ Head(pending).event = 0 /\ QueuedAfter(k)'
         \/ Head(pending).event = k + 1 /\ k + 1 \in 0 .. events /\ QueuedAfter(k + 1)'
<1> DEFINE n == Len(pending)
           h == pending[1].event
<1>0. /\ n \in Nat /\ events \in Nat /\ k \in Nat /\ k <= events
      /\ \A i \in 1 .. n : pending[i].event \in Nat
  BY ItemFacts
<1>1. pending \in Seq(Item)
  BY DEF TypeOK
<1>2. /\ n > 0 /\ Len(pending') = n - 1 /\ Head(pending).event = h
      /\ \A i \in 1 .. (n - 1) : pending'[i] = pending[i + 1]
  BY <1>1
<1>3. {pending[i].event : i \in Waiting} = (k + 1) .. events
      /\ \A i, j \in Waiting : i < j => pending[i].event < pending[j].event
  BY DEF QueuedAfter
<1>w. /\ \A i : i \in Waiting <=> i \in 1 .. n /\ pending[i].event # 0
      /\ \A i : i \in Waiting' <=> i \in 1 .. (n - 1) /\ pending[i + 1].event # 0
  BY <1>2 DEF Waiting
<1> HIDE DEF n, h
<1>4. \A i \in Waiting' : i + 1 \in Waiting /\ pending'[i] = pending[i + 1] /\ i \in Int
  BY <1>0, <1>2, <1>w
<1>5. \A j \in Waiting : j = 1 \/ (j - 1 \in Waiting' /\ pending'[j - 1] = pending[j] /\ j > 1)
  <2> SUFFICES ASSUME NEW j \in Waiting, j # 1
               PROVE  j - 1 \in Waiting' /\ pending'[j - 1] = pending[j] /\ j > 1
    BY ZenonT(30)
  <2>1. j \in 1 .. n /\ pending[j].event # 0
    BY <1>w
  <2>2. j - 1 \in 1 .. (n - 1) /\ (j - 1) + 1 = j /\ j > 1
    BY <1>0, <2>1
  <2> QED BY <1>2, <1>w, <2>1, <2>2
<1>6. ASSUME NEW i \in Waiting', NEW j \in Waiting', i < j
      PROVE  pending'[i].event < pending'[j].event
  <2>1. i + 1 < j + 1
    BY <1>4, <1>6
  <2> QED BY <1>3, <1>4, <2>1, ZenonT(30)
<1>7. CASE h = 0
  <2>1. 1 \notin Waiting
    BY <1>7, <1>w DEF h
  <2>2. {pending'[i].event : i \in Waiting'} = {pending[i].event : i \in Waiting}
    <3>1. ASSUME NEW i \in Waiting' PROVE pending'[i].event \in {pending[j].event : j \in Waiting}
      <4>1. i + 1 \in Waiting /\ pending'[i].event = pending[i + 1].event
        BY <1>4, <3>1, ZenonT(30)
      <4> QED BY <4>1, ZenonT(30)
    <3>2. ASSUME NEW j \in Waiting PROVE pending[j].event \in {pending'[i].event : i \in Waiting'}
      <4>1. j - 1 \in Waiting' /\ pending'[j - 1].event = pending[j].event
        BY <1>5, <2>1, <3>2, ZenonT(30)
      <4> QED BY <4>1, ZenonT(30)
    <3> QED BY <3>1, <3>2, ZenonT(30)
  <2>3. QueuedAfter(k)'
    BY <1>3, <1>6, <2>2, ZenonT(30) DEF QueuedAfter
  <2> QED BY <1>2, <1>7, <2>3
<1>8. CASE h # 0
  <2>1. 1 \in Waiting
    BY <1>0, <1>2, <1>8, <1>w DEF h
  <2>2. h \in (k + 1) .. events
    BY <1>3, <2>1 DEF h
  <2>3. k + 1 \in (k + 1) .. events
    BY <1>0, <2>2
  <2>4. PICK p \in Waiting : pending[p].event = k + 1
    BY <1>3, <2>3
  <2>5. h = k + 1
    BY <1>0, <1>3, <1>5, <2>1, <2>2, <2>4 DEF h
  <2>6. \A j \in Waiting : j # 1 => pending[j].event > h
    <3> SUFFICES ASSUME NEW j \in Waiting, j # 1 PROVE pending[j].event > h
      OBVIOUS
    <3>1. 1 < j
      BY <1>5
    <3>2. h < pending[j].event
      BY <1>3, <2>1, <3>1 DEF h
    <3>3. h \in Int /\ pending[j].event \in Int
      BY <1>0, <1>w, <2>1 DEF h
    <3> QED BY <3>2, <3>3
  <2>7. {pending'[i].event : i \in Waiting'} = {pending[i].event : i \in Waiting} \ {h}
    <3>1. ASSUME NEW i \in Waiting' PROVE pending'[i].event \in {pending[j].event : j \in Waiting} \ {h}
      <4>0. i \in 1 .. (n - 1)
        BY <1>w, <3>1
      <4>1. i + 1 \in Waiting /\ pending'[i].event = pending[i + 1].event
        BY <1>4, <3>1, ZenonT(30)
      <4>3. i + 1 # 1
        BY <1>0, <4>0
      <4>2. pending[i + 1].event # h
        <5>1. pending[i + 1].event > h /\ h \in Int
          BY <2>2, <2>6, <4>1, <4>3
        <5> QED BY <5>1
      <4> QED BY <4>1, <4>2, ZenonT(30)
    <3>2. ASSUME NEW j \in Waiting, pending[j].event # h
          PROVE  pending[j].event \in {pending'[i].event : i \in Waiting'}
      <4>1. j # 1
        BY <3>2 DEF h
      <4> QED BY <1>5, <4>1, ZenonT(30)
    <3> QED BY <3>1, <3>2, ZenonT(30)
  <2>8. {pending'[i].event : i \in Waiting'} = ((k + 1) + 1) .. events'
    <3>1. ((k + 1) .. events) \ {k + 1} = ((k + 1) + 1) .. events
      BY <1>0
    <3> QED BY <1>3, <2>5, <2>7, <3>1, ZenonT(30)
  <2>9. QueuedAfter(k + 1)'
    BY <1>6, <2>8, ZenonT(30) DEF QueuedAfter
  <2> QED BY <1>0, <1>2, <2>3, <2>5, <2>9
<1> QED BY <1>7, <1>8

\* A step of threads that neither have an event nor execute a callback.
LEMMA PlacesKept ==
  ASSUME PlacesInv, UNCHANGED <<item, at>>,
         \A u \in Thread : pc'[u] = pc[u] \/ (pc[u] \notin Busy /\ pc'[u] \notin Busy)
  PROVE  PlacesInv' /\ \A u \in Thread : InCallback(u)' <=> InCallback(u)
<1>1. ASSUME NEW u \in Thread
      PROVE  /\ item'[u].event # 0 => pc'[u] \in Processing
             /\ pc'[u] = "call" => item'[u].event # 0
             /\ at'[u] # 0 => pc'[u] \in {"call", "checked"}
             /\ InCallback(u)' <=> InCallback(u)
  <2>1. CASE pc'[u] = pc[u]
    BY <2>1 DEF PlacesInv, InCallback
  <2>2. CASE pc[u] \notin Busy /\ pc'[u] \notin Busy
    BY <2>2, ZenonT(30) DEF PlacesInv, InCallback, Busy, Processing
  <2> QED BY <2>1, <2>2, ZenonT(30)
<1> QED BY <1>1, ZenonT(30) DEF PlacesInv, Processing

\* What the entries have heard stays true while no callback is called: entries
\* may leave the list, and other threads execute callbacks without an event.
LEMMA HeardKept ==
  ASSUME NEW k, HeardUpTo(k), list' \subseteq list, \A e \in list' : got'[e] = got[e],
         \A u \in Thread : InCallback(u)' <=> InCallback(u),
         \A u \in Thread : InCallback(u) => item'[u].event = item[u].event /\ at'[u] = at[u]
  PROVE  HeardUpTo(k)'
<1>1. ASSUME NEW u \in Thread, InCallback(u)'
      PROVE  item'[u].event = k /\ \A e \in list' : got'[e] = IF e <= at'[u] THEN k ELSE k - 1
  BY <1>1, ZenonT(30) DEF HeardUpTo
<1>2. (\A u \in Thread : ~InCallback(u)') => \A e \in list' : got'[e] = k
  BY DEF HeardUpTo
<1> QED BY <1>1, <1>2, ZenonT(30) DEF HeardUpTo

\* Together: a step that is not about events.
LEMMA EventsFrame ==
  ASSUME EventInv, UNCHANGED <<pending, events, item, at, got>>, list' \subseteq list,
         \A u \in Thread : pc'[u] = pc[u] \/ (pc[u] \notin Busy /\ pc'[u] \notin Busy)
  PROVE  EventInv'
<1>1. PICK k \in 0 .. events : QueuedAfter(k) /\ HeardUpTo(k)
  BY DEF EventInv
<1>2. PlacesInv' /\ \A u \in Thread : InCallback(u)' <=> InCallback(u)
  BY PlacesKept, ZenonT(30) DEF EventInv
<1>3. HeardUpTo(k)'
  BY <1>1, <1>2, HeardKept, ZenonT(30)
<1>4. QueuedAfter(k)'
  BY <1>1 DEF QueuedAfter, Waiting
<1> QED BY <1>2, <1>3, <1>4 DEF EventInv

\* A new entry is behind the callbacks that are executing.
LEMMA RegisterEvents ==
  ASSUME TypeOK, QueueIsServed, EventInv, NEW s \in Subscriber, Register(s)
  PROVE  EventInv'
<1>r. MaxRegs \in Nat /\ regs \in Nat /\ list \subseteq 1 .. regs /\ at \in [Thread -> 0 .. regs]
      /\ got \in [Entry -> Int]
  BY ListedEntries DEF TypeOK
<1>n. PICK n \in Entry : n = regs + 1
  BY <1>r DEF Register, Entry
<1>0. /\ list' = list \cup {n} /\ got' = [got EXCEPT ![n] = Taken]
      /\ UNCHANGED <<pending, events, item, at, pc>>
  BY <1>n DEF Register, queueVars
<1>1. PICK k \in 0 .. events : QueuedAfter(k) /\ HeardUpTo(k)
  BY DEF EventInv
<1>2. PlacesInv' /\ \A u \in Thread : InCallback(u)' <=> InCallback(u)
  BY <1>0, PlacesKept, ZenonT(30) DEF EventInv
<1>3. QueuedAfter(k)'
  BY <1>0, <1>1 DEF QueuedAfter, Waiting
<1>4. /\ got'[n] = Taken /\ n \in Int
      /\ \A e \in list : got'[e] = got[e]
  BY <1>0, <1>n, <1>r DEF Entry
<1>t. /\ (\A t \in Thread : ~InCallback(t)) => Taken = k
      /\ (\E t \in Thread : InCallback(t)) => Taken = k - 1
  BY <1>1, TakenIs, ZenonT(30) DEF EventInv
<1>5. ASSUME NEW u \in Thread, InCallback(u)'
      PROVE  item'[u].event = k /\ \A e \in list' : got'[e] = IF e <= at'[u] THEN k ELSE k - 1
  <2>1. InCallback(u)
    BY <1>2, <1>5, ZenonT(30)
  <2>2. item[u].event = k /\ \A e \in list : got[e] = IF e <= at[u] THEN k ELSE k - 1
    BY <1>1, <2>1 DEF HeardUpTo
  <2>3. ~(n <= at[u])
    BY <1>n, <1>r
  <2>4. got'[n] = k - 1
    BY <1>4, <1>t, <2>1, ZenonT(30)
  <2>5. \A e \in list : got'[e] = IF e <= at[u] THEN k ELSE k - 1
    BY <1>4, <2>2
  <2> QED BY <1>0, <2>2, <2>3, <2>4, <2>5
<1>6. (\A u \in Thread : ~InCallback(u)') => \A e \in list' : got'[e] = k
  <2> SUFFICES ASSUME \A u \in Thread : ~InCallback(u)' PROVE \A e \in list' : got'[e] = k
    OBVIOUS
  <2>1. \A u \in Thread : ~InCallback(u)
    BY <1>2
  <2>2. \A e \in list : got[e] = k
    BY <1>1, <2>1, ZenonT(30) DEF HeardUpTo
  <2> QED BY <1>0, <1>4, <1>t, <2>1, <2>2
<1>7. HeardUpTo(k)'
  BY <1>5, <1>6 DEF HeardUpTo
<1> QED BY <1>0, <1>2, <1>3, <1>7, ZenonT(30) DEF EventInv

\* ProcessQueue takes a promise, or the event after those that were heard.
LEMMA ProcessEvents ==
  ASSUME TypeOK, QueueIsServed, EventInv, NEW t \in Thread, ProcessQueue(t)
  PROVE  EventInv'
<1>0. /\ pc \in [Thread -> Labels] /\ item \in [Thread -> Item]
      /\ pc[t] = "process" /\ UNCHANGED <<events, at, got, list>>
  BY DEF TypeOK, ProcessQueue, listVars
<1>1. CASE running \/ pending = <<>>
  <2>1. pc'[t] \in {"more", "look"} /\ \A u \in Thread \ {t} : pc'[u] = pc[u]
    BY <1>0, <1>1 DEF ProcessQueue, GoTo, Returned
  <2>2. UNCHANGED <<pending, item>>
    BY <1>1 DEF ProcessQueue
  <2>3. \A u \in Thread : pc'[u] = pc[u] \/ (pc[u] \notin Busy /\ pc'[u] \notin Busy)
    BY <1>0, <2>1 DEF Busy, Processing
  <2> QED BY <1>0, <2>2, <2>3, EventsFrame, ZenonT(30)
<1>2. CASE ~(running \/ pending = <<>>)
  <2>0. /\ item' = [item EXCEPT ![t] = Head(pending)] /\ pending' = Tail(pending)
        /\ pc' = [pc EXCEPT ![t] = "begin"] /\ pending # <<>> /\ ~running
    BY <1>2 DEF ProcessQueue, GoTo
  <2>1. PICK k \in 0 .. events : QueuedAfter(k) /\ HeardUpTo(k)
    BY DEF EventInv
  <2>k. k \in Nat
    BY ItemFacts
  <2>2. \A u \in Thread : pc[u] \notin Processing
    BY <2>0, ZenonT(30) DEF QueueIsServed
  <2>3. \A u \in Thread : ~InCallback(u) /\ item[u].event = 0
    BY <2>2, ZenonT(30) DEF EventInv, PlacesInv, InCallback
  <2>4. \A e \in list : got[e] = k
    BY <2>1, <2>3 DEF HeardUpTo
  <2>5. /\ item'[t] = Head(pending) /\ pc'[t] = "begin"
        /\ \A u \in Thread \ {t} : item'[u] = item[u] /\ pc'[u] = pc[u]
    BY <1>0, <2>0
  <2>6. at[t] = 0 /\ at[t] \in Int
    <3>1. at[t] \in Int
      BY DEF TypeOK
    <3>2. at[t] = 0
      BY <1>0, ZenonT(30) DEF EventInv, PlacesInv
    <3> QED BY <3>1, <3>2
  <2>7. PlacesInv'
    <3>1. ASSUME NEW u \in Thread
          PROVE  /\ item'[u].event # 0 => pc'[u] \in Processing
                 /\ pc'[u] = "call" => item'[u].event # 0
                 /\ at'[u] # 0 => pc'[u] \in {"call", "checked"}
      <4>1. CASE u = t
        BY <1>0, <2>5, <2>6, <4>1, ZenonT(30) DEF Processing
      <4>2. CASE u # t
        BY <1>0, <2>5, <4>2, ZenonT(30) DEF EventInv, PlacesInv
      <4> QED BY <4>1, <4>2, ZenonT(30)
    <3> QED BY <3>1, ZenonT(30) DEF PlacesInv, Processing
  <2>8. \A u \in Thread : InCallback(u)' <=> u = t /\ Head(pending).event # 0
    BY <2>3, <2>5 DEF InCallback
  <2>9. CASE Head(pending).event = 0 /\ QueuedAfter(k)'
    <3>1. HeardUpTo(k)'
      BY <1>0, <2>4, <2>8, <2>9, ZenonT(30) DEF HeardUpTo
    <3> QED BY <1>0, <2>7, <2>9, <3>1, ZenonT(30) DEF EventInv
  <2>10. CASE Head(pending).event = k + 1 /\ k + 1 \in 0 .. events /\ QueuedAfter(k + 1)'
    <3>1. \A u \in Thread : InCallback(u)' <=> u = t
      BY <2>k, <2>8, <2>10
    <3>2. ~(\A u \in Thread : ~InCallback(u)')
      BY <3>1
    <3>3. ASSUME NEW e \in list' PROVE ~(e <= at'[t]) /\ got'[e] = (k + 1) - 1
      <4>1. e \in Int /\ e >= 1
        BY <1>0, <3>3, ListedEntries DEF Entry
      <4>2. got'[e] = k
        BY <1>0, <2>4, <3>3, ZenonT(30)
      <4> QED BY <1>0, <2>6, <2>k, <4>1, <4>2
    <3>4. item'[t].event = k + 1
      BY <2>5, <2>10
    <3>5. HeardUpTo(k + 1)'
      BY <3>1, <3>2, <3>3, <3>4, ZenonT(30) DEF HeardUpTo
    <3> QED BY <1>0, <2>7, <2>10, <3>5 DEF EventInv
  <2> QED BY <1>0, <2>0, <2>1, <2>9, <2>10, QueuedTail, ZenonT(30)
<1> QED BY <1>1, <1>2, ZenonT(30)

\* A callback is called with the event, and those before it were called.
LEMMA DeliverEvents ==
  ASSUME TypeOK, QueueIsServed, EventInv, NEW t \in Thread, BeginEvent(t) \/ CallbackReturns(t)
  PROVE  /\ EventInv'
         /\ \A e \in list : got'[e] # got[e] => got'[e] = got[e] + 1
<1>0. /\ pc \in [Thread -> Labels] /\ pc[t] \in {"begin", "call"} /\ item[t].event # 0
      /\ Iterate(t, item[t].event) /\ UNCHANGED <<pending, events, item>>
      /\ pc' = [pc EXCEPT ![t] = IF at'[t] = 0 THEN "finish" ELSE "call"]
  BY ZenonT(30) DEF TypeOK, BeginEvent, CallbackReturns, GoTo, queueVars, EventInv, PlacesInv
<1>c. InCallback(t)
  BY <1>0 DEF InCallback
<1>1. PICK k \in 0 .. events : QueuedAfter(k) /\ HeardUpTo(k)
  BY DEF EventInv
<1>k. k \in Nat /\ item[t].event = k
  BY <1>1, <1>c, ItemFacts DEF HeardUpTo
<1>2. \A e \in list : got[e] = IF e <= at[t] THEN k ELSE k - 1
  BY <1>1, <1>c, ZenonT(30) DEF HeardUpTo
<1> DEFINE n == NextEntry(t)
<1>3. /\ list' \subseteq list /\ at'[t] = n /\ \A u \in Thread \ {t} : at'[u] = at[u]
  BY <1>0, <1>k, IterateFacts
<1>4. \A e \in list : e \in Int /\ e > 0 /\ got'[e] = IF e = n THEN k ELSE got[e]
  <2>1. got' = [e \in Entry |-> IF e = n THEN k ELSE got[e]]
    BY <1>0, <1>k, ZenonT(30) DEF Iterate
  <2>2. \A e \in list : e \in Entry
    BY ListedEntries
  <2> HIDE DEF n
  <2> QED BY <2>1, <2>2 DEF Entry
<1>5. \/ n = 0 /\ \A e \in list : e <= at[t]
      \/ n \in list /\ n > at[t] /\ \A f \in list : f > at[t] => n <= f
  BY NextEntryLeast
<1>a. at[t] \in Int
  BY DEF TypeOK
<1> HIDE DEF n
<1>6. \A e \in list : got'[e] # got[e] => got'[e] = got[e] + 1
  <2> SUFFICES ASSUME NEW e \in list, got'[e] # got[e] PROVE got'[e] = got[e] + 1
    OBVIOUS
  <2>1. e = n /\ got'[e] = k /\ n # 0
    BY <1>4
  <2>2. ~(e <= at[t])
    BY <1>4, <1>5, <1>a, <2>1
  <2>3. got[e] = k - 1
    BY <1>2, <2>2, ZenonT(30)
  <2> QED BY <1>k, <2>1, <2>3
<1>7. /\ pc'[t] = IF n = 0 THEN "finish" ELSE "call"
      /\ \A u \in Thread \ {t} : pc'[u] = pc[u]
  BY <1>0, <1>3, ZenonT(30)
<1>8. PlacesInv'
  <2>1. ASSUME NEW u \in Thread
        PROVE  /\ item'[u].event # 0 => pc'[u] \in Processing
               /\ pc'[u] = "call" => item'[u].event # 0
               /\ at'[u] # 0 => pc'[u] \in {"call", "checked"}
    <3>1. CASE u = t
      BY <1>0, <1>3, <1>7, <3>1 DEF Processing
    <3>2. CASE u # t
      BY <1>0, <1>3, <1>7, <3>2, ZenonT(30) DEF EventInv, PlacesInv
    <3> QED BY <3>1, <3>2, ZenonT(30)
  <2> QED BY <2>1, ZenonT(30) DEF PlacesInv, Processing
<1>9. \A u \in Thread : InCallback(u)' <=> u = t /\ n # 0
  <2>1. \A u \in Thread \ {t} : ~InCallback(u)
    BY <1>c, OneInCallback, ZenonT(30) DEF EventInv
  <2>2. ASSUME NEW u \in Thread, u # t PROVE ~InCallback(u)'
    BY <1>0, <1>7, <2>1, <2>2, ZenonT(30) DEF InCallback
  <2>3. InCallback(t)' <=> n # 0
    BY <1>0, <1>7 DEF InCallback
  <2> QED BY <2>2, <2>3
<1>10. HeardUpTo(k)'
  <2>1. CASE n = 0
    <3>1. ASSUME NEW e \in list' PROVE got'[e] = k
      <4>1. e \in list /\ e <= at[t] /\ e # n
        BY <1>3, <1>4, <1>5, <2>1, <3>1
      <4> QED BY <1>2, <1>4, <4>1, ZenonT(30)
    <3> QED BY <1>9, <2>1, <3>1 DEF HeardUpTo
  <2>2. CASE n # 0
    <3>1. ASSUME NEW e \in list' PROVE got'[e] = IF e <= n THEN k ELSE k - 1
      <4>0. e \in list /\ e \in Int /\ n \in Int /\ n > at[t]
        BY <1>3, <1>4, <1>5, <2>2, <3>1, ZenonT(30)
      <4>1. CASE e = n
        BY <1>4, <4>0, <4>1
      <4>2. CASE e < n
        <5>1. e <= at[t]
          BY <1>5, <1>a, <2>2, <4>0, <4>2
        <5> QED BY <1>2, <1>4, <4>0, <4>2, <5>1
      <4>3. CASE e > n
        <5>1. ~(e <= at[t]) /\ ~(e <= n) /\ e # n
          BY <1>a, <4>0, <4>3
        <5> QED BY <1>2, <1>4, <4>0, <5>1
      <4> QED BY <4>0, <4>1, <4>2, <4>3
    <3>2. item'[t].event = k
      BY <1>0, <1>k, ZenonT(30)
    <3> QED BY <1>3, <1>9, <2>2, <3>1, <3>2, ZenonT(30) DEF HeardUpTo
  <2> QED BY <2>1, <2>2, ZenonT(30)
<1>11. QueuedAfter(k)'
  BY <1>0, <1>1, ZenonT(30) DEF QueuedAfter, Waiting
<1>12. EventInv'
  BY <1>0, <1>8, <1>10, <1>11, ZenonT(30) DEF EventInv
<1> QED BY <1>6, <1>12, ZenonT(30)

\* BlockChecked executes callbacks that are told of no event.
LEMMA CheckedEvents ==
  ASSUME TypeOK, EventInv, NEW v \in Thread, BlockChecked(v)
  PROVE  EventInv' /\ \A e \in list : got'[e] = got[e]
<1>0. /\ pc \in [Thread -> Labels] /\ pc[v] \in {"step", "checked"}
      /\ Iterate(v, 0) /\ UNCHANGED <<pending, events, item>>
      /\ pc' = [pc EXCEPT ![v] = IF at'[v] = 0 THEN "connected" ELSE "checked"]
  BY DEF TypeOK, BlockChecked, GoTo, queueVars
<1>1. PICK k \in 0 .. events : QueuedAfter(k) /\ HeardUpTo(k)
  BY DEF EventInv
<1>2. list' \subseteq list /\ \A u \in Thread \ {v} : at'[u] = at[u]
  BY <1>0, IterateFacts
<1>3. \A e \in list : got'[e] = got[e]
  <2>1. got' = [e \in Entry |-> got[e]]
    BY <1>0 DEF Iterate
  <2>2. \A e \in list : e \in Entry
    BY ListedEntries
  <2> QED BY <2>1, <2>2, ZenonT(30)
<1>4. /\ pc'[v] = IF at'[v] = 0 THEN "connected" ELSE "checked"
      /\ \A u \in Thread \ {v} : pc'[u] = pc[u]
  BY <1>0, ZenonT(30)
<1>5. ASSUME NEW u \in Thread
      PROVE  /\ item'[u].event # 0 => pc'[u] \in Processing
             /\ pc'[u] = "call" => item'[u].event # 0
             /\ at'[u] # 0 => pc'[u] \in {"call", "checked"}
             /\ InCallback(u)' <=> InCallback(u)
             /\ InCallback(u) => u # v
  <2>1. CASE u = v
    <3>1. item[u].event = 0
      BY <1>0, <2>1 DEF EventInv, PlacesInv, Processing
    <3> QED BY <1>0, <1>4, <2>1, <3>1, ZenonT(30) DEF InCallback
  <2>2. CASE u # v
    BY <1>0, <1>2, <1>4, <2>2, ZenonT(30) DEF EventInv, PlacesInv, InCallback
  <2> QED BY <2>1, <2>2, ZenonT(30)
<1>6. PlacesInv'
  BY <1>5, ZenonT(30) DEF PlacesInv, Processing
<1>7. \A u \in Thread : InCallback(u) => item'[u].event = item[u].event /\ at'[u] = at[u]
  BY <1>0, <1>2, <1>5, ZenonT(30)
<1>8. HeardUpTo(k)'
  BY <1>1, <1>2, <1>3, <1>5, <1>7, HeardKept, ZenonT(30)
<1>9. QueuedAfter(k)'
  BY <1>0, <1>1 DEF QueuedAfter, Waiting
<1> QED BY <1>0, <1>3, <1>6, <1>8, <1>9, ZenonT(30) DEF EventInv

\* An event or a promise goes to the end of the queue.
LEMMA AddEvents ==
  ASSUME TypeOK, EventInv, NEW t \in Thread, NEW x \in Item, NEW l, AddToProcessQueue(t, x, l),
         pc[t] \notin Busy, UNCHANGED <<list, at, got>>,
         \/ x.event = 0 /\ events' = events
         \/ x.event = events + 1 /\ events' = events + 1
  PROVE  EventInv'
<1>0. pending' = Append(pending, x) /\ item' = item /\ pc' = [pc EXCEPT ![t] = "maybe"]
  BY DEF AddToProcessQueue, GoTo
<1>1. PICK k \in 0 .. events : QueuedAfter(k) /\ HeardUpTo(k)
  BY ZenonT(30) DEF EventInv
<1>2. \A u \in Thread : pc'[u] = pc[u] \/ (pc[u] \notin Busy /\ pc'[u] \notin Busy)
  BY <1>0 DEF TypeOK, Busy, Processing
<1>3. PlacesInv' /\ \A u \in Thread : InCallback(u)' <=> InCallback(u)
  BY <1>0, <1>2, PlacesKept, ZenonT(30) DEF EventInv
<1>4. HeardUpTo(k)'
  BY <1>0, <1>1, <1>3, HeardKept, ZenonT(30)
<1>5. QueuedAfter(k)'
  BY <1>0, <1>1, QueuedAppend, ZenonT(30)
<1>6. k \in 0 .. events'
  BY ItemFacts
<1> QED BY <1>3, <1>4, <1>5, <1>6 DEF EventInv

\* What the steps of the threads do to the events.
LEMMA QueueStepEvents ==
  ASSUME TypeOK, QueueIsServed, EventInv, NEW t \in Thread, QueueStep(t)
  PROVE  EventInv' /\ \A e \in list : got'[e] # got[e] => got'[e] = got[e] + 1
<1>0. /\ pc \in [Thread -> Labels] /\ then \in [Thread -> Callers] /\ item \in [Thread -> Item]
  BY ZenonT(30) DEF TypeOK
<1>c. then[t] \notin Busy /\ "look" \notin Busy
  BY <1>0, ZenonT(30) DEF Callers, Busy, Processing
<1>1. CASE MaybeScheduleProcessQueue(t)
  <2>1. UNCHANGED <<pending, events, item, at, got, list>> /\ pc[t] = "maybe"
    BY <1>1, ZenonT(30) DEF MaybeScheduleProcessQueue, queueVars, listVars
  <2>2. pc'[t] \in {then[t], "schedule"} /\ \A u \in Thread \ {t} : pc'[u] = pc[u]
    BY <1>0, <1>1, ZenonT(30) DEF MaybeScheduleProcessQueue, Return, GoTo
  <2>3. \A u \in Thread : pc'[u] = pc[u] \/ (pc[u] \notin Busy /\ pc'[u] \notin Busy)
    BY <1>c, <2>1, <2>2, ZenonT(30) DEF Busy, Processing
  <2> QED BY <2>1, <2>3, EventsFrame, ZenonT(30)
<1>2. CASE Schedule(t)
  <2>1. UNCHANGED <<pending, events, item, at, got, list>> /\ pc[t] = "schedule"
    BY <1>2, ZenonT(30) DEF Schedule, listVars
  <2>2. PICK W \in SUBSET Worker : (\A w \in W : pc[w] = "wait") /\ Return(t, W)
    BY <1>2, ZenonT(30) DEF Schedule
  <2>3. \A u \in Thread : pc'[u] = IF u = t THEN then[t] ELSE IF u \in W THEN "look" ELSE pc[u]
    BY <2>2, ZenonT(30) DEF Return
  <2>4. \A u \in Thread : pc'[u] = pc[u] \/ (pc[u] \notin Busy /\ pc'[u] \notin Busy)
    BY <1>c, <2>1, <2>2, <2>3, ZenonT(30) DEF Busy, Processing
  <2> QED BY <2>1, <2>4, EventsFrame, ZenonT(30)
<1>3. CASE ProcessQueue(t)
  BY <1>3, ProcessEvents, ZenonT(30) DEF ProcessQueue, listVars
<1>4. CASE BeginEvent(t) \/ CallbackReturns(t)
  BY <1>4, DeliverEvents, ZenonT(30)
<1>5. ASSUME UNCHANGED <<pending, events, at, got, list>>,
             \A u \in Thread : item'[u] = item[u] \/ (item'[u].event = 0 /\ pc'[u] # "call"),
             pc[t] \in Processing, pc[t] = "finish" \/ item[t].event = 0,
             pc'[t] = "finish" \/ (pc'[t] = "maybe" /\ item'[t].event = 0),
             \A u \in Thread \ {t} : item'[u] = item[u] /\
               (pc'[u] = pc[u] \/ (pc[u] = "waiting" /\ pc'[u] = "lock")),
             at[t] = 0
      PROVE  EventInv'
  <2>1. PICK k \in 0 .. events : QueuedAfter(k) /\ HeardUpTo(k)
    BY DEF EventInv
  <2>2. ASSUME NEW u \in Thread
        PROVE  /\ item'[u].event # 0 => pc'[u] \in Processing
               /\ pc'[u] = "call" => item'[u].event # 0
               /\ at'[u] # 0 => pc'[u] \in {"call", "checked"}
               /\ InCallback(u)' <=> InCallback(u)
               /\ InCallback(u) => u # t
    <3>1. CASE u = t
      BY <1>5, <3>1, ZenonT(30) DEF Processing, InCallback
    <3>2. CASE u # t /\ pc'[u] = pc[u]
      BY <1>5, <3>2, ZenonT(30) DEF EventInv, PlacesInv, InCallback
    <3>3. CASE u # t /\ pc[u] = "waiting" /\ pc'[u] = "lock"
      BY <1>5, <3>3, ZenonT(30) DEF EventInv, PlacesInv, InCallback, Processing
    <3> QED BY <1>5, <3>1, <3>2, <3>3, ZenonT(30)
  <2>3. PlacesInv'
    BY <2>2, ZenonT(30) DEF PlacesInv, Processing
  <2>4. \A u \in Thread : InCallback(u) => item'[u].event = item[u].event /\ at'[u] = at[u]
    BY <1>5, <2>2, ZenonT(30)
  <2>5. HeardUpTo(k)'
    BY <1>5, <2>1, <2>2, <2>4, HeardKept, ZenonT(30)
  <2>6. QueuedAfter(k)'
    BY <1>5, <2>1, ZenonT(30) DEF QueuedAfter, Waiting
  <2> QED BY <1>5, <2>3, <2>5, <2>6, ZenonT(30) DEF EventInv
<1>6. CASE SetPromise(t)
  <2>1. UNCHANGED <<pending, events, item, at, got, list>> /\ pc[t] = "begin" /\ item[t].event = 0
    BY <1>6, ZenonT(30) DEF SetPromise, queueVars, listVars
  <2>2. /\ pc'[t] = "finish"
        /\ \A u \in Thread \ {t} : pc'[u] = pc[u] \/ (pc[u] = "waiting" /\ pc'[u] = "lock")
    BY <1>0, <1>6, <2>1 DEF SetPromise, GoTo
  <2>3. at[t] = 0 /\ pc[t] \in Processing
    BY <2>1, ZenonT(30) DEF EventInv, PlacesInv, Processing
  <2> QED BY <1>5, <2>1, <2>2, <2>3, ZenonT(30)
<1>7. CASE FinishCallbacks(t)
  <2>1. UNCHANGED <<pending, events, at, got, list>> /\ pc[t] = "finish"
    BY <1>7 DEF FinishCallbacks, listVars
  <2>2. /\ pc'[t] = "maybe" /\ \A u \in Thread \ {t} : pc'[u] = pc[u] /\ item'[u] = item[u]
    BY <1>0, <1>7 DEF FinishCallbacks, GoTo
  <2>3. item'[t] = nothing
    BY <1>0, <1>7, ZenonT(30) DEF FinishCallbacks
  <2>4. item'[t].event = 0
    BY <2>3 DEF nothing
  <2>5. at[t] = 0 /\ pc[t] \in Processing
    BY <2>1, ZenonT(30) DEF EventInv, PlacesInv, Processing
  <2> QED BY <1>5, <2>1, <2>2, <2>4, <2>5, ZenonT(30)
<1> QED BY <1>1, <1>2, <1>3, <1>4, <1>6, <1>7, ZenonT(30) DEF QueueStep

\* Of the threads that activate chains.
LEMMA ChainStepEvents ==
  ASSUME TypeOK, EventInv, NEW v \in Validator, Start(v) \/ ChainStep(v) \/ ThreadEnds(v)
  PROVE  EventInv' /\ \A e \in list : got'[e] = got[e]
<1>0. v \in Thread /\ pc \in [Thread -> Labels] /\ events \in Nat
  BY ZenonT(30) DEF Thread, TypeOK
<1>1. ASSUME UNCHANGED <<listVars, queueVars>>, pc[v] \notin Busy, NEW l, l \notin Busy, GoTo(v, l)
      PROVE  EventInv'
  <2>1. \A u \in Thread : pc'[u] = pc[u] \/ (pc[u] \notin Busy /\ pc'[u] \notin Busy)
    BY <1>0, <1>1 DEF GoTo
  <2>2. UNCHANGED <<pending, events, item, at, got, list>>
    BY <1>1 DEF listVars, queueVars
  <2> QED BY <2>1, <2>2, EventsFrame
<1>2. CASE Start(v) \/ ThreadEnds(v) \/ LockMain(v) \/ NothingToDo(v) \/ UnlockMain(v)
  <2>1. UNCHANGED <<listVars, queueVars>> /\ pc[v] \in {"idle", "lock", "step", "unlock"}
    BY <1>2, ZenonT(30) DEF Start, ThreadEnds, LockMain, NothingToDo, UnlockMain
  <2>2. \E l \in {"limit", "gone", "step", "idle"} : GoTo(v, l)
    BY <1>2 DEF Start, ThreadEnds, LockMain, NothingToDo, UnlockMain
  <2>3. pc[v] \notin Busy /\ \A l \in {"limit", "gone", "step", "idle"} : l \notin Busy
    BY <2>1, ZenonT(30) DEF Busy, Processing
  <2> QED BY <1>1, <2>1, <2>2, <2>3, ZenonT(30) DEF listVars
<1>3. CASE LimitValidationInterfaceQueue(v)
  <2>1. UNCHANGED <<list, at, got, events>> /\ pc[v] = "limit" /\ pc[v] \notin Busy
    BY <1>3, ZenonT(30) DEF LimitValidationInterfaceQueue, listVars, Busy, Processing
  <2>2. CASE AddToProcessQueue(v, [event |-> 0, waiter |-> v], "waiting")
    <3>1. [event |-> 0, waiter |-> v] \in Item /\ [event |-> 0, waiter |-> v].event = 0
      BY DEF Item
    <3> QED BY <1>0, <2>1, <2>2, <3>1, AddEvents, ZenonT(30)
  <2>3. CASE GoTo(v, "lock") /\ UNCHANGED <<pending, running, tasks, item, then>>
    <3>1. UNCHANGED <<listVars, queueVars>> /\ "lock" \notin Busy
      BY <1>3, <2>3, ZenonT(30) DEF LimitValidationInterfaceQueue, queueVars, Busy, Processing
    <3> QED BY <1>1, <2>1, <2>3, <3>1, ZenonT(30)
  <2> QED BY <1>3, <2>1, <2>2, <2>3, ZenonT(30) DEF LimitValidationInterfaceQueue
<1>4. CASE BlockChecked(v)
  BY <1>0, <1>4, CheckedEvents, ZenonT(30)
<1>5. CASE BlockConnected(v)
  <2>1. UNCHANGED <<list, at, got>> /\ events' = events + 1 /\ pc[v] \notin Busy
    BY <1>5, ZenonT(30) DEF BlockConnected, listVars, Busy, Processing
  <2>2. \E l : AddToProcessQueue(v, [event |-> events', waiter |-> nobody], l)
    BY <1>5 DEF BlockConnected
  <2>3. [event |-> events', waiter |-> nobody] \in Item
        /\ [event |-> events', waiter |-> nobody].event = events + 1
    BY <1>0, <2>1 DEF Item
  <2> QED BY <1>0, <2>1, <2>2, <2>3, AddEvents, ZenonT(30)
<1> QED BY <1>2, <1>3, <1>4, <1>5, ZenonT(30) DEF ChainStep

\* Of the scheduler's threads and of Shutdown.
LEMMA OtherStepEvents ==
  ASSUME TypeOK, EventInv,
         \/ \E s \in Subscriber : Unregister(s)
         \/ \E w \in Worker : ServiceQueue(w) \/ SpuriousWakeup(w)
         \/ StartShutdown \/ ShutdownStep
  PROVE  EventInv' /\ got' = got
<1>0. pc \in [Thread -> Labels] /\ events \in Nat /\ main \in Thread
  BY DEF TypeOK, Thread
<1>1. ASSUME NEW s \in Subscriber, Unregister(s) PROVE EventInv' /\ got' = got
  <2>1. UNCHANGED <<pending, events, item, at, got, pc>> /\ list' \subseteq list
    BY <1>1 DEF Unregister, Dropped, queueVars
  <2> QED BY <2>1, EventsFrame, ZenonT(30)
<1>2. ASSUME NEW w \in Worker, ServiceQueue(w) \/ SpuriousWakeup(w) PROVE EventInv' /\ got' = got
  <2>1. UNCHANGED <<pending, events, item, at, got, list>> /\ pc[w] \in {"look", "wait"}
    BY <1>2, ZenonT(30) DEF ServiceQueue, SpuriousWakeup, queueVars, listVars
  <2>2. \E l \in {"exited", "wait", "process", "look"} : GoTo(w, l)
    BY <1>2 DEF ServiceQueue, SpuriousWakeup
  <2>3. \A u \in Thread : pc'[u] = pc[u] \/ (pc[u] \notin Busy /\ pc'[u] \notin Busy)
    BY <1>0, <2>1, <2>2, ZenonT(30) DEF GoTo, Busy, Processing
  <2> QED BY <2>1, <2>3, EventsFrame, ZenonT(30)
<1>3. CASE StartShutdown \/ StopScheduler \/ JoinLoadBlock \/ EmptyQueue \/ Clear
  <2>1. UNCHANGED <<pending, events, item, at, got>> /\ list' \subseteq list
        /\ pc[main] \in {"up", "requested", "join_load", "more", "clear"}
    BY <1>3, ZenonT(30) DEF StartShutdown, StopScheduler, JoinLoadBlock, EmptyQueue, Clear, Dropped, queueVars, listVars
  <2>2. /\ pc'[main] \in {"requested", "join_load", "join_all", "flushed", "process", "done"}
        /\ \A u \in Thread \ {main} : pc'[u] = pc[u] \/ (pc[u] = "wait" /\ pc'[u] = "look")
    BY <1>0, <1>3, ZenonT(30) DEF StartShutdown, StopScheduler, JoinLoadBlock, EmptyQueue, Clear, GoTo
  <2>3. \A u \in Thread : pc'[u] = pc[u] \/ (pc[u] \notin Busy /\ pc'[u] \notin Busy)
    BY <2>1, <2>2, ZenonT(30) DEF Busy, Processing
  <2> QED BY <2>1, <2>3, EventsFrame
<1>4. CASE ForceFlushStateToDisk
  <2>1. UNCHANGED <<list, at, got>> /\ events' = events + 1 /\ pc[main] \notin Busy
    BY <1>4 DEF ForceFlushStateToDisk, listVars, Busy, Processing
  <2>2. \E l : AddToProcessQueue(main, [event |-> events', waiter |-> nobody], l)
    BY <1>4 DEF ForceFlushStateToDisk
  <2>3. [event |-> events', waiter |-> nobody] \in Item
        /\ [event |-> events', waiter |-> nobody].event = events + 1
    BY <1>0, <2>1 DEF Item
  <2> QED BY <1>0, <2>1, <2>2, <2>3, AddEvents, ZenonT(30)
<1> QED BY <1>1, <1>2, <1>3, <1>4, ZenonT(30) DEF ShutdownStep

\* Every step keeps the account of the events, and an entry that is called is
\* called with the event after its last.
LEMMA StepEvents ==
  ASSUME TypeOK, QueueIsServed, EventInv, Next
  PROVE  /\ EventInv'
         /\ \A e \in Entry : got'[e] # got[e] /\ e \in list => got'[e] = got[e] + 1
<1>1. ASSUME NEW s \in Subscriber, Register(s)
      PROVE  EventInv' /\ \A e \in list : got'[e] = got[e]
  <2>1. \A e \in list : e # regs + 1
    BY ListedEntries DEF TypeOK
  <2>2. got' = [got EXCEPT ![regs + 1] = Taken] /\ got \in [Entry -> Int]
    BY <1>1 DEF Register, TypeOK
  <2>3. \A e \in list : got'[e] = got[e]
    BY <2>1, <2>2, ListedEntries
  <2> QED BY <1>1, <2>3, RegisterEvents, ZenonT(30)
<1> QED BY <1>1, QueueStepEvents, ChainStepEvents, OtherStepEvents, ZenonT(30) DEF Next

\* Events are accounted for in every state.
LEMMA EventsAccounted == Spec => []EventInv
<1>1. Init => EventInv
  <2> SUFFICES ASSUME Init PROVE EventInv
    OBVIOUS
  <2>1. pending = <<>> /\ events = 0 /\ list = {}
    BY ZenonT(30) DEF Init
  <2>2. ASSUME NEW t \in Thread PROVE item[t].event = 0 /\ at[t] = 0 /\ pc[t] # "call"
    BY DEF Init, nothing
  <2>3. PlacesInv
    BY <2>2 DEF PlacesInv
  <2>4. Waiting = {} /\ (0 + 1) .. events = {}
    BY <2>1 DEF Waiting
  <2>5. QueuedAfter(0)
    BY <2>4, ZenonT(30) DEF QueuedAfter
  <2>6. HeardUpTo(0)
    BY <2>1, <2>2 DEF HeardUpTo, InCallback
  <2>7. 0 \in 0 .. events
    BY <2>1
  <2> QED BY <2>3, <2>5, <2>6, <2>7, ZenonT(30) DEF EventInv
<1>2. TypeOK /\ QueueIsServed /\ EventInv /\ [Next]_vars => EventInv'
  <2> SUFFICES ASSUME TypeOK, QueueIsServed, EventInv, [Next]_vars PROVE EventInv'
    OBVIOUS
  <2>1. CASE Next
    BY <2>1, StepEvents
  <2>2. CASE UNCHANGED vars
    <3>1. UNCHANGED <<pending, events, item, at, got, list, pc>>
      BY <2>2 DEF vars, listVars, queueVars
    <3> QED BY <3>1, EventsFrame
  <2> QED BY <2>1, <2>2
<1> QED BY <1>1, <1>2, TypeCorrect, QueueServed, PTL DEF Spec

\* Every callback that is registered is called with every event, one after the
\* other, whoever registers, unregisters or is executing meanwhile.
THEOREM EventsComeInOrder == Spec => EventsInOrder
<1>1. TypeOK /\ QueueIsServed /\ EventInv /\ [Next]_vars
      => [\A e \in Entry : got'[e] # got[e] /\ e \in list => got'[e] = got[e] + 1]_vars
  BY StepEvents
<1> QED BY <1>1, TypeCorrect, QueueServed, EventsAccounted, PTL DEF Spec, EventsInOrder

\* And between two events no registered subscriber has missed one.
THEOREM NobodyMisses == Spec => []NobodyMissesEvents
<1>1. TypeOK /\ CountsAreExact /\ QueueIsServed /\ EventInv => NobodyMissesEvents
  <2> SUFFICES ASSUME TypeOK, CountsAreExact, QueueIsServed, EventInv,
                      NEW s \in Subscriber, reg[s] # 0, ~running
               PROVE  got[reg[s]] = Taken
    BY DEF NobodyMissesEvents
  <2>1. PICK k \in 0 .. events : QueuedAfter(k) /\ HeardUpTo(k)
    BY ZenonT(30) DEF EventInv
  <2>2. \A t \in Thread : ~InCallback(t)
    BY DEF QueueIsServed, EventInv, PlacesInv, InCallback
  <2>3. Taken = k
    BY <2>1, <2>2, TakenIs, ZenonT(30) DEF EventInv
  <2>4. reg[s] \in Entry
    BY ListedEntries DEF TypeOK, Entry
  <2>5. reg[s] \in list
    <3>1. s \in Registered(reg[s]) /\ IsFiniteSet(Registered(reg[s]))
      BY Counting DEF Registered
    <3>2. Cardinality(Registered(reg[s])) \in Nat /\ Cardinality(Registered(reg[s])) # 0
      BY <3>1, FS_EmptySet, FS_CardinalityType, ZenonT(30)
    <3>3. Cardinality(Executing(reg[s])) \in Nat
      BY Counting, ZenonT(30) DEF Executing
    <3>4. count[reg[s]] = Cardinality(Executing(reg[s])) + Cardinality(Registered(reg[s]))
          /\ (reg[s] \in list <=> count[reg[s]] > 0)
      BY <2>4, ZenonT(30) DEF CountsAreExact, Executing, Registered
    <3> QED BY <3>2, <3>3, <3>4
  <2>6. got[reg[s]] = k
    BY <2>1, <2>2, <2>5 DEF HeardUpTo
  <2> QED BY <2>3, <2>6
<1> QED BY <1>1, TypeCorrect, CountsExact, QueueServed, EventsAccounted, PTL DEF Spec

=============================================================================
