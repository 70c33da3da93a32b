------------------------- MODULE ValidationSignals -------------------------
(***************************************************************************)
(* How the subscribers of CValidationInterface hear of the chain:          *)
(*  - MainSignalsInstance, the list of callbacks that Register, Unregister *)
(*    and Clear change while other threads are inside Iterate;             *)
(*  - SingleThreadedSchedulerClient, the queue of events, and the threads  *)
(*    of CScheduler that serve it;                                         *)
(*  - the threads that activate chains: they signal under cs_main, and     *)
(*    wait for the queue when it is long, holding m_cs_chainstate;         *)
(*  - Shutdown, which stops the scheduler and empties the queue itself.    *)
(*                                                                         *)
(* A section under m_mutex, m_cs_callbacks_pending or newTaskMutex is one  *)
(* action.  Tasks of the scheduler other than ProcessQueue only keep its   *)
(* threads busy and are left out.  A callback takes and releases cs_main.  *)
(* Of the signals, BlockConnected stands for those that are queued and     *)
(* BlockChecked for those that call back at once.                          *)
(***************************************************************************)
EXTENDS Integers, Sequences, FiniteSets

CONSTANTS
  Worker,       \* the threads in CScheduler::serviceQueue
  Net,          \* threads that activate chains: messages, RPC
  Import,       \* and the thread of ThreadImport
  Subscriber,   \* CValidationInterface objects
  MaxPending,   \* the 10 of LimitValidationInterfaceQueue
  MaxEvents,    \* bound on the blocks connected
  MaxRegs       \* bound on the registrations

main == "main"
nobody == "nobody"
nothing == [event |-> 0, waiter |-> nobody]

Validator == Net \cup Import
Thread == Worker \cup Validator \cup {main}
Entry == 1 .. MaxRegs

VARIABLES
  pending,      \* m_callbacks_pending: events, and promises of waiting threads
  running,      \* m_are_callbacks_running
  tasks,        \* how many ProcessQueue tasks taskQueue holds
  stop,         \* stopRequested
  list, count,  \* m_list, in the order of the numbers of its entries
  reg,          \* m_map: reg[s] is the entry of s, or 0
  regs,         \* how many entries were ever made
  at,           \* at[t]: the entry whose callback t is executing, or 0
  got,          \* got[e]: the last event the entry was called with
  csMain, csChainstate,
  events,       \* how many events were queued
  item,         \* item[t]: what ProcessQueue took from the queue
  pc, then      \* where a thread is, and where it returns to

listVars == <<list, count, reg, regs, at, got>>
queueVars == <<pending, running, tasks, events, item>>
vars == <<listVars, queueVars, stop, csMain, csChainstate, pc, then>>

ASSUME SignalsAssumption ==
  /\ {MaxPending, MaxEvents, MaxRegs} \subseteq Nat
  /\ IsFiniteSet(Worker) /\ IsFiniteSet(Validator) /\ IsFiniteSet(Subscriber)
  /\ Worker # {}
  /\ main \notin Worker \cup Validator
  /\ nobody \notin Validator
  /\ Worker \cap Validator = {}

Init ==
  /\ pending = <<>> /\ running = FALSE /\ tasks = 0 /\ stop = FALSE /\ events = 0
  /\ list = {} /\ regs = 0
  /\ count = [e \in Entry |-> 0] /\ got = [e \in Entry |-> 0]
  /\ reg = [s \in Subscriber |-> 0]
  /\ at = [t \in Thread |-> 0]
  /\ item = [t \in Thread |-> nothing]
  /\ csMain = nobody /\ csChainstate = nobody
  /\ pc = [t \in Thread |-> IF t \in Worker THEN "look"
                            ELSE IF t = main THEN "up" ELSE "idle"]
  /\ then = [t \in Thread |-> "look"]

ShutdownRequested == pc[main] # "up"

GoTo(t, l) == pc' = [pc EXCEPT ![t] = l]

----------------------------------------------------------------------------
(* MainSignalsInstance.                                                    *)

\* How many events were taken from the queue before those a new entry gets:
\* an event whose callbacks are being called still reaches the end of the list.
Taken ==
  events - Cardinality({i \in 1 .. Len(pending) : pending[i].event # 0})
         - Cardinality({t \in Thread : item[t].event # 0 /\ pc[t] # "finish"})

Register(s) ==
  /\ ~ShutdownRequested
  /\ reg[s] = 0 /\ regs < MaxRegs
  /\ regs' = regs + 1
  /\ list' = list \cup {regs'}
  /\ count' = [count EXCEPT ![regs'] = 1]
  /\ reg' = [reg EXCEPT ![s] = regs']
  /\ got' = [got EXCEPT ![regs'] = Taken]
  /\ UNCHANGED <<queueVars, stop, at, csMain, csChainstate, pc, then>>

\* The entries lose one count, and go when it was the last.
Dropped(es) ==
  /\ count' = [e \in Entry |-> IF e \in es THEN count[e] - 1 ELSE count[e]]
  /\ list' = list \ {e \in es : count[e] = 1}

\* MUTANT: the entry goes although its callback may be executing.
UnregisterErases(s) ==
  /\ reg[s] # 0
  /\ count' = [count EXCEPT ![reg[s]] = 0]
  /\ list' = list \ {reg[s]}
  /\ reg' = [reg EXCEPT ![s] = 0]
  /\ UNCHANGED <<queueVars, stop, regs, at, got, csMain, csChainstate, pc, then>>

Unregister(s) ==
  /\ reg[s] # 0
  /\ Dropped({reg[s]})
  /\ reg' = [reg EXCEPT ![s] = 0]
  /\ UNCHANGED <<queueVars, stop, regs, at, got, csMain, csChainstate, pc, then>>

\* UnregisterAllValidationInterfaces, the end of Shutdown.
Clear ==
  /\ pc[main] = "clear"
  /\ Dropped({reg[s] : s \in Subscriber} \ {0})
  /\ reg' = [s \in Subscriber |-> 0]
  /\ GoTo(main, "done")
  /\ UNCHANGED <<queueVars, stop, regs, at, got, csMain, csChainstate, then>>

\* MUTANT: the iteration ends where it has to erase an entry.
NextToErased(t) ==
  LET erased == at[t] # 0 /\ count[at[t]] = 1
      rest == {e \in list : e > at[t]}
  IN  IF rest = {} \/ erased THEN 0 ELSE CHOOSE e \in rest : \A f \in rest : e <= f

\* The entry behind the one t stands on, or 0 at the end of the list.
NextEntry(t) ==
  LET rest == {e \in list : e > at[t]}
  IN  IF rest = {} THEN 0 ELSE CHOOSE e \in rest : \A f \in rest : e <= f

\* A section of Iterate by t: leave the entry whose callback has returned, if
\* any, and enter the next one.
Iterate(t, event) ==
  LET next == NextEntry(t)
  IN  /\ at' = [at EXCEPT ![t] = next]
      /\ count' = [e \in Entry |-> IF e = at[t] THEN count[e] - 1
                                   ELSE IF e = next THEN count[e] + 1 ELSE count[e]]
      /\ list' = list \ {e \in {at[t]} : e # 0 /\ count[e] = 1}
      /\ got' = [e \in Entry |-> IF event # 0 /\ e = next THEN event ELSE got[e]]
      /\ UNCHANGED <<reg, regs>>

----------------------------------------------------------------------------
(* SingleThreadedSchedulerClient and CScheduler.                           *)

\* The first section of AddToProcessQueue; the thread goes on with
\* MaybeScheduleProcessQueue, and from there to l.
AddToProcessQueue(t, i, l) ==
  /\ pending' = Append(pending, i)
  /\ GoTo(t, "maybe")
  /\ then' = [then EXCEPT ![t] = l]
  /\ UNCHANGED <<running, tasks, item>>

\* The end of MaybeScheduleProcessQueue; the threads of woken wake up.
Return(t, woken) ==
  /\ pc' = [u \in Thread |-> IF u = t THEN then[t] ELSE IF u \in woken THEN "look" ELSE pc[u]]
  /\ then' = [then EXCEPT ![t] = "look"]

MaybeScheduleProcessQueue(t) ==
  /\ pc[t] = "maybe"
  /\ IF running \/ pending = <<>> THEN Return(t, {})
     ELSE GoTo(t, "schedule") /\ UNCHANGED then
  /\ UNCHANGED <<listVars, queueVars, stop, csMain, csChainstate>>

\* newTaskScheduled.notify_one() wakes one of the threads that wait, if any do.
Schedule(t) ==
  /\ pc[t] = "schedule"
  /\ tasks' = tasks + 1
  /\ \/ (\A w \in Worker : pc[w] # "wait") /\ Return(t, {})
     \/ \E w \in Worker : pc[w] = "wait" /\ Return(t, {w})
  /\ UNCHANGED <<listVars, pending, running, events, item, stop, csMain, csChainstate>>

ServiceQueue(w) ==
  /\ pc[w] = "look"
  /\ IF stop THEN GoTo(w, "exited") /\ UNCHANGED tasks
     ELSE IF tasks = 0 THEN GoTo(w, "wait") /\ UNCHANGED tasks
     ELSE GoTo(w, "process") /\ tasks' = tasks - 1
  /\ UNCHANGED <<listVars, pending, running, events, item, stop, csMain, csChainstate, then>>

\* Also when a wait_until for a later task ends.
SpuriousWakeup(w) ==
  /\ pc[w] = "wait"
  /\ GoTo(w, "look")
  /\ UNCHANGED <<listVars, queueVars, stop, csMain, csChainstate, then>>

\* Where a thread goes after ProcessQueue: EmptyQueue or serviceQueue.
Returned(t) == IF t = main THEN "more" ELSE "look"

\* MUTANT: m_are_callbacks_running is not looked at.
ProcessQueueTwice(t) ==
  /\ pc[t] = "process"
  /\ IF pending = <<>>
     THEN GoTo(t, Returned(t)) /\ UNCHANGED <<pending, running, item>>
     ELSE /\ running' = TRUE
          /\ item' = [item EXCEPT ![t] = Head(pending)]
          /\ pending' = Tail(pending)
          /\ GoTo(t, "begin")
  /\ UNCHANGED <<listVars, tasks, events, stop, csMain, csChainstate, then>>

ProcessQueue(t) ==
  /\ pc[t] = "process"
  /\ IF running \/ pending = <<>>
     THEN GoTo(t, Returned(t)) /\ UNCHANGED <<pending, running, item>>
     ELSE /\ running' = TRUE
          /\ item' = [item EXCEPT ![t] = Head(pending)]
          /\ pending' = Tail(pending)
          /\ GoTo(t, "begin")
  /\ UNCHANGED <<listVars, tasks, events, stop, csMain, csChainstate, then>>

\* An event calls the first callback.
BeginEvent(t) ==
  /\ pc[t] = "begin" /\ item[t].event # 0
  /\ Iterate(t, item[t].event)
  /\ GoTo(t, IF at'[t] = 0 THEN "finish" ELSE "call")
  /\ UNCHANGED <<queueVars, stop, csMain, csChainstate, then>>

\* The function of SyncWithValidationInterfaceQueue sets its promise; the
\* thread may not have come to wait for it yet.
SetPromise(t) ==
  LET v == item[t].waiter
  IN  /\ pc[t] = "begin" /\ item[t].event = 0
      /\ IF pc[v] = "waiting"
         THEN pc' = [pc EXCEPT ![t] = "finish", ![v] = "lock"] /\ UNCHANGED then
         ELSE GoTo(t, "finish") /\ then' = [then EXCEPT ![v] = "lock"]
      /\ UNCHANGED <<listVars, queueVars, stop, csMain, csChainstate>>

\* A callback gets cs_main and returns, and the next one is called.
CallbackReturns(t) ==
  /\ pc[t] = "call" /\ csMain = nobody
  /\ Iterate(t, item[t].event)
  /\ GoTo(t, IF at'[t] = 0 THEN "finish" ELSE "call")
  /\ UNCHANGED <<queueVars, stop, csMain, csChainstate, then>>

\* MUTANT: what came in meanwhile is not scheduled.
FinishWithoutSchedule(t) ==
  /\ pc[t] = "finish"
  /\ running' = FALSE
  /\ item' = [item EXCEPT ![t] = nothing]
  /\ GoTo(t, Returned(t))
  /\ UNCHANGED <<listVars, pending, tasks, events, stop, csMain, csChainstate, then>>

\* RAIICallbacksRunning.
FinishCallbacks(t) ==
  /\ pc[t] = "finish"
  /\ running' = FALSE
  /\ item' = [item EXCEPT ![t] = nothing]
  /\ GoTo(t, "maybe")
  /\ then' = [then EXCEPT ![t] = Returned(t)]
  /\ UNCHANGED <<listVars, pending, tasks, events, stop, csMain, csChainstate>>

----------------------------------------------------------------------------
(* ActivateBestChain.                                                      *)

\* A shutdown that is requested does not keep a thread from calling it.
Start(v) ==
  /\ pc[v] = "idle" /\ csChainstate = nobody
  /\ events < MaxEvents
  /\ csChainstate' = v
  /\ GoTo(v, "limit")
  /\ UNCHANGED <<listVars, queueVars, stop, csMain, then>>

LimitValidationInterfaceQueue(v) ==
  /\ pc[v] = "limit"
  /\ IF Len(pending) > MaxPending
     THEN AddToProcessQueue(v, [event |-> 0, waiter |-> v], "waiting")
     ELSE GoTo(v, "lock") /\ UNCHANGED <<pending, running, tasks, item, then>>
  /\ UNCHANGED <<listVars, events, stop, csMain, csChainstate>>

LockMain(v) ==
  /\ pc[v] = "lock" /\ csMain \in {nobody, v}
  /\ csMain' = v
  /\ GoTo(v, "step")
  /\ UNCHANGED <<listVars, queueVars, stop, csChainstate, then>>

\* Nothing to do: the function returns.
NothingToDo(v) ==
  /\ pc[v] = "step"
  /\ csMain' = nobody /\ csChainstate' = nobody
  /\ GoTo(v, "idle")
  /\ UNCHANGED <<listVars, queueVars, stop, then>>

\* ConnectTip signals BlockChecked, which calls back at once.
BlockChecked(v) ==
  /\ pc[v] \in {"step", "checked"} /\ events < MaxEvents
  /\ Iterate(v, 0)
  /\ GoTo(v, IF at'[v] = 0 THEN "connected" ELSE "checked")
  /\ UNCHANGED <<queueVars, stop, csMain, csChainstate, then>>

\* One of the blocks of connectTrace, the last one or not.
BlockConnected(v) ==
  /\ pc[v] = "connected"
  /\ events' = events + 1
  /\ \E l \in {"connected", "unlock"} :
       /\ l = "connected" => events' < MaxEvents
       /\ AddToProcessQueue(v, [event |-> events', waiter |-> nobody], l)
  /\ UNCHANGED <<listVars, stop, csMain, csChainstate>>

\* MUTANT: cs_main is kept for the next step.
UnlockMainAtEnd(v) ==
  /\ pc[v] = "unlock"
  /\ \/ csMain' = nobody /\ csChainstate' = nobody /\ GoTo(v, "idle")
     \/ ~ShutdownRequested /\ GoTo(v, "limit") /\ UNCHANGED <<csMain, csChainstate>>
  /\ UNCHANGED <<listVars, queueVars, stop, then>>

\* cs_main is released after every step of the chain; on a shutdown, or when
\* the step reached the most work, the function returns.
UnlockMain(v) ==
  /\ pc[v] = "unlock"
  /\ csMain' = nobody
  /\ \/ csChainstate' = nobody /\ GoTo(v, "idle")
     \/ ~ShutdownRequested /\ GoTo(v, "limit") /\ UNCHANGED csChainstate
  /\ UNCHANGED <<listVars, queueVars, stop, then>>

----------------------------------------------------------------------------
(* Shutdown.                                                               *)

\* A thread ends: of the import at any time, the others when they are stopped.
ThreadEnds(v) ==
  /\ pc[v] = "idle" /\ (ShutdownRequested \/ v \in Import)
  /\ GoTo(v, "gone")
  /\ UNCHANGED <<listVars, queueVars, stop, csMain, csChainstate, then>>

StartShutdown ==
  /\ pc[main] = "up"
  /\ GoTo(main, "requested")
  /\ UNCHANGED <<listVars, queueVars, stop, csMain, csChainstate, then>>

\* The threads of the HTTP server and of connman are joined before.
StopScheduler ==
  /\ pc[main] = "requested" /\ \A v \in Net : pc[v] = "gone"
  /\ stop' = TRUE
  /\ pc' = [t \in Thread |-> IF t = main THEN "join_load"
                             ELSE IF pc[t] = "wait" THEN "look" ELSE pc[t]]
  /\ UNCHANGED <<listVars, queueVars, csMain, csChainstate, then>>

JoinLoadBlock ==
  /\ pc[main] = "join_load" /\ \A v \in Import : pc[v] = "gone"
  /\ GoTo(main, "join_all")
  /\ UNCHANGED <<listVars, queueVars, stop, csMain, csChainstate, then>>

\* A flush signals ChainStateFlushed.  The one after FlushBackgroundCallbacks
\* is heard by nobody: "Any future callbacks will be dropped".
ForceFlushStateToDisk ==
  /\ \/ pc[main] = "join_all" /\ \A w \in Worker : pc[w] = "exited"
     \/ pc[main] = "flushed"
  /\ events' = events + 1
  /\ AddToProcessQueue(main, [event |-> events', waiter |-> nobody],
                       IF pc[main] = "flushed" THEN "clear" ELSE "process")
  /\ UNCHANGED <<listVars, stop, csMain, csChainstate>>

EmptyQueue ==
  /\ pc[main] = "more"
  /\ GoTo(main, IF pending = <<>> THEN "flushed" ELSE "process")
  /\ UNCHANGED <<listVars, queueVars, stop, csMain, csChainstate, then>>

----------------------------------------------------------------------------

\* The steps of ProcessQueue and of the functions it calls or is called by.
QueueStep(t) ==
  \/ MaybeScheduleProcessQueue(t) \/ Schedule(t)
  \/ ProcessQueue(t) \/ BeginEvent(t) \/ SetPromise(t)
  \/ CallbackReturns(t) \/ FinishCallbacks(t)

ChainStep(v) ==
  \/ LimitValidationInterfaceQueue(v) \/ LockMain(v) \/ NothingToDo(v)
  \/ BlockChecked(v) \/ BlockConnected(v) \/ UnlockMain(v)

ShutdownStep ==
  StopScheduler \/ JoinLoadBlock \/ ForceFlushStateToDisk \/ EmptyQueue \/ Clear

Next ==
  \/ \E s \in Subscriber : Register(s) \/ Unregister(s)
  \/ \E t \in Thread : QueueStep(t)
  \/ \E w \in Worker : ServiceQueue(w) \/ SpuriousWakeup(w)
  \/ \E v \in Validator : Start(v) \/ ChainStep(v) \/ ThreadEnds(v)
  \/ StartShutdown \/ ShutdownStep

Spec == Init /\ [][Next]_vars

\* Threads run, and a thread that waits for cs_main gets it in the end.  The
\* import has an end, and the other threads activate no more chains for ever once
\* they are told to stop.  What nobody has to do: register, start an activation,
\* ask for a shutdown.
Fairness ==
  /\ \A w \in Worker : /\ WF_vars(ServiceQueue(w) \/ QueueStep(w))
                       /\ SF_vars(CallbackReturns(w))
  /\ \A v \in Validator : /\ WF_vars(ChainStep(v) \/ QueueStep(v))
                          /\ SF_vars(ThreadEnds(v))
  /\ WF_vars(ShutdownStep \/ QueueStep(main))

FairSpec == Spec /\ Fairness

----------------------------------------------------------------------------

Item == [event : Nat, waiter : Validator \cup {nobody}]

\* Where MaybeScheduleProcessQueue returns to.
Callers == {"look", "waiting", "lock", "connected", "unlock", "process", "more", "clear"}

Labels == Callers \cup
  {"maybe", "schedule", "wait", "exited", "begin", "call", "finish",
   "idle", "limit", "step", "checked", "gone",
   "up", "requested", "join_load", "join_all", "flushed", "done"}

\* Type correctness: the entries that are registered or executed were made
\* before, and no thread comes to wait for a task but in serviceQueue.
TypeOK ==
  /\ pending \in Seq(Item) /\ item \in [Thread -> Item]
  /\ running \in BOOLEAN /\ stop \in BOOLEAN
  /\ tasks \in Nat /\ events \in Nat /\ regs \in 0 .. MaxRegs
  /\ list \subseteq 1 .. regs
  /\ count \in [Entry -> Int] /\ got \in [Entry -> Int]
  /\ reg \in [Subscriber -> 0 .. regs]
  /\ at \in [Thread -> 0 .. regs]
  /\ csMain \in Validator \cup {nobody} /\ csChainstate \in Validator \cup {nobody}
  /\ pc \in [Thread -> Labels] /\ then \in [Thread -> Callers]

\* The comment on ListEntry: the count of an entry is the number of its current
\* executions, plus 1 if it is registered, and an entry of the list has one.
\* So no thread in Iterate stands on an erased entry.
CountsAreExact ==
  \A e \in Entry :
    /\ count[e] = Cardinality({t \in Thread : at[t] = e})
                  + Cardinality({s \in Subscriber : reg[s] = e})
    /\ e \in list <=> count[e] > 0

Processing == {"begin", "call", "finish"}

\* "No two jobs will be executed at the same time" (scheduler.h), and none is
\* forgotten: while events wait and none is run, a ProcessQueue is scheduled or
\* about to be, or Shutdown is going to empty the queue; and a scheduled task
\* has a thread that is awake or about to be woken.
QueueIsServed ==
  /\ \A t, u \in Thread : pc[t] \in Processing /\ pc[u] \in Processing => t = u
  /\ running <=> \E t \in Thread : pc[t] \in Processing
  /\ pending # <<>> /\ ~running =>
       tasks > 0 \/ \E t \in Thread : pc[t] \in {"maybe", "schedule", "process", "more"}
  /\ tasks > 0 /\ ~stop =>
       \E w \in Worker : pc[w] # "wait"

\* Every entry is called with every event, in order and once, from the first
\* one it is called with.
EventsInOrder ==
  [][\A e \in Entry : got'[e] # got[e] /\ e \in list => got'[e] = got[e] + 1]_vars

\* Between two events no registered subscriber has missed one.
NobodyMissesEvents ==
  \A s \in Subscriber : reg[s] # 0 /\ ~running => got[reg[s]] = Taken

\* No thread waits for ever: the queue is emptied, but for what the last flush
\* of Shutdown adds to it, an activation returns, and a shutdown ends.  The
\* exception is the thread of ThreadImport, when it waits for the queue of a
\* scheduler that Shutdown has stopped before joining it.
Stuck == stop /\ \E v \in Import : pc[v] = "waiting"

EverybodyGetsOn ==
  /\ \A v \in Validator :
       pc[v] \notin {"idle", "gone"} ~> pc[v] \in {"idle", "gone"} \/ Stuck
  /\ pending # <<>> ~> pending = <<>> \/ pc[main] = "done" \/ Stuck
  /\ pc[main] = "requested" ~> pc[main] = "done" \/ Stuck
=============================================================================
