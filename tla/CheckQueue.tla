----------------------------- MODULE CheckQueue ------------------------------
(***************************************************************************)
(* CCheckQueue and CCheckQueueControl (checkqueue.h): the pool of threads  *)
(* that evaluates the script checks of a block.  A step is a section under *)
(* the queue's mutex; evaluating a batch, which touches nothing shared, is *)
(* part of the section that follows it.  A check is its outcome.           *)
(***************************************************************************)
EXTENDS Integers, Sequences, FiniteSets
CONSTANTS Workers,     \* threads running Thread()
          Masters,     \* threads that create a CCheckQueueControl
          None,
          nBatchSize,
          MaxChecks    \* bound: checks added in one round

ASSUME CheckQueueAssumption ==
    /\ Workers \cap Masters = {} /\ None \notin Workers \cup Masters \cup BOOLEAN
    /\ nBatchSize \in Nat \ {0} /\ MaxChecks \in Nat

VARIABLES queue, nIdle, nTotal, fAllOk, nTodo,
          owner,     \* the thread holding ControlMutex
          pc,        \* where each thread is
          batch,     \* vChecks of each thread; empty before its first batch
          fOk,       \* fOk of each thread when it took its batch
          verdict,   \* what Wait returned in this round
          failing,   \* history: a check that does not pass was added in this round
          added      \* history: checks added in this round

counters == <<nIdle, nTotal, fAllOk, nTodo>>
history == <<failing, added>>
vars == <<queue, counters, owner, pc, batch, fOk, verdict, history>>

Threads == Workers \cup Masters

Init ==
    /\ queue = <<>> /\ nIdle = 0 /\ nTotal = 0 /\ fAllOk = TRUE /\ nTodo = 0
    /\ owner = None /\ verdict = None /\ failing = FALSE /\ added = 0
    /\ pc = [t \in Threads |-> IF t \in Workers THEN "loop" ELSE "out"]
    /\ batch = [t \in Threads |-> <<>>]
    /\ fOk = [t \in Threads |-> TRUE]

------------------------------------------------------------------------------
\* Condition variables: a notified thread still has to take the mutex.
Waiting(S) == {t \in S : pc[t] = "wait"}
Notified(S) == [t \in Threads |-> IF t \in S THEN "notified" ELSE pc[t]]

\* notify_one wakes one waiting thread, if there is one.
OneOf(S) == IF Waiting(S) = {} THEN {{}} ELSE {{t} : t \in Waiting(S)}

\* Evaluating a batch stops at the first check that does not pass, and does
\* nothing when one did not pass before.
Evaluated(t) == fOk[t] /\ \A i \in DOMAIN batch[t] : batch[t][i]

MaxOf(a, b) == IF a > b THEN a ELSE b
MinOf(a, b) == IF a < b THEN a ELSE b
nNow(total, idle) == MaxOf(1, MinOf(nBatchSize, Len(queue) \div (total + idle + 1)))

\* Mutant: the master returns once the queue is empty.
ReturnsEarly(t, todo) == t \in Masters /\ queue = <<>>

\* The master leaves when nothing is left to do.
Returns(t, todo) == t \in Masters /\ queue = <<>> /\ todo = 0

\* The inner loop under the mutex, from the counters the section has reached:
\* the master returns, or the thread waits, or it takes a batch off the end.
Proceed(t, total, idle, todo, ok, at) ==
    /\ nTodo' = todo
    /\ \/ /\ Returns(t, todo)
          /\ nTotal' = total - 1 /\ nIdle' = idle
          /\ fAllOk' = TRUE /\ verdict' = ok
          /\ pc' = [at EXCEPT ![t] = "done"]
          /\ batch' = [batch EXCEPT ![t] = <<>>]
          /\ UNCHANGED <<queue, fOk>>
       \/ /\ queue = <<>> /\ ~Returns(t, todo)
          /\ nTotal' = total /\ nIdle' = idle + 1 /\ fAllOk' = ok
          /\ pc' = [at EXCEPT ![t] = "wait"]
          /\ batch' = [batch EXCEPT ![t] = <<>>]
          /\ UNCHANGED <<queue, fOk, verdict>>
       \/ /\ queue # <<>>
          /\ queue' = SubSeq(queue, 1, Len(queue) - nNow(total, idle))
          /\ batch' = [batch EXCEPT ![t] = [i \in 1..nNow(total, idle) |-> queue[Len(queue) + 1 - i]]]
          /\ nTotal' = total /\ nIdle' = idle /\ fAllOk' = ok
          /\ fOk' = [fOk EXCEPT ![t] = ok]
          /\ pc' = [at EXCEPT ![t] = "loop"]
          /\ UNCHANGED verdict
    /\ UNCHANGED <<owner, history>>

\* Mutant: the master is not told.
ToTellNobody(t, todo) == {{}}

\* The threads woken when t accounts for its batch: a worker that finishes the
\* last check tells the master.
ToTell(t, todo) == IF todo = 0 /\ t \in Workers THEN OneOf(Masters) ELSE {{}}

\* Loop enters its section for the first time.
FirstSection(t) ==
    /\ pc[t] = "loop" /\ batch[t] = <<>>
    /\ Proceed(t, nTotal + 1, nIdle, nTodo, fAllOk, pc)

\* Loop has evaluated its batch and accounts for it.
NextSection(t) ==
    /\ pc[t] = "loop" /\ batch[t] # <<>>
    /\ LET todo == nTodo - Len(batch[t]) IN
       \E woken \in ToTell(t, todo) :
          Proceed(t, nTotal, nIdle, todo, fAllOk /\ Evaluated(t), Notified(woken))

\* A notified thread has the mutex again.
Resume(t) ==
    /\ pc[t] = "notified"
    /\ Proceed(t, nTotal, nIdle - 1, nTodo, fAllOk, pc)

\* Condition variables may wake a thread for no reason.
SpuriousWakeup(t) ==
    /\ pc[t] = "wait"
    /\ pc' = Notified({t})
    /\ UNCHANGED <<queue, counters, owner, batch, fOk, verdict, history>>

------------------------------------------------------------------------------
\* CCheckQueueControl's constructor takes ControlMutex.
BeginControl(m) ==
    /\ pc[m] = "out" /\ owner = None
    /\ owner' = m /\ verdict' = None /\ failing' = FALSE /\ added' = 0
    /\ pc' = [pc EXCEPT ![m] = "control"]
    /\ UNCHANGED <<queue, counters, batch, fOk>>

\* Add; no checks, no effect.
Add(m, vChecks) ==
    /\ pc[m] = "control"
    /\ added + Len(vChecks) <= MaxChecks
    /\ queue' = queue \o vChecks
    /\ nTodo' = nTodo + Len(vChecks)
    /\ \E woken \in IF Len(vChecks) = 1 THEN OneOf(Workers) ELSE {Waiting(Workers)} :
          pc' = Notified(woken)
    /\ added' = added + Len(vChecks)
    /\ failing' = (failing \/ \E i \in DOMAIN vChecks : ~vChecks[i])
    /\ UNCHANGED <<nIdle, nTotal, fAllOk, owner, batch, fOk, verdict>>

\* Wait, or the destructor when ConnectBlock returns before it: the master
\* joins the pool.
Wait(m) ==
    /\ pc[m] = "control"
    /\ pc' = [pc EXCEPT ![m] = "loop"]
    /\ UNCHANGED <<queue, counters, owner, batch, fOk, verdict, history>>

\* The destructor releases ControlMutex.
EndControl(m) ==
    /\ pc[m] = "done"
    /\ owner' = None
    /\ pc' = [pc EXCEPT ![m] = "out"]
    /\ UNCHANGED <<queue, counters, batch, fOk, verdict, history>>

Batches == UNION {[1..n -> BOOLEAN] : n \in 1..MaxChecks}

Thread(t) == FirstSection(t) \/ NextSection(t) \/ Resume(t)

Next ==
    \/ \E t \in Threads : Thread(t) \/ SpuriousWakeup(t)
    \/ \E m \in Masters :
          \/ BeginControl(m) \/ Wait(m) \/ EndControl(m)
          \/ \E vChecks \in Batches : Add(m, vChecks)

\* Every thread goes on when it can; nothing wakes a waiting one but a notify.
Fairness == /\ \A t \in Threads : WF_vars(Thread(t))
            /\ \A m \in Masters : WF_vars(Wait(m)) /\ WF_vars(EndControl(m))

Spec == Init /\ [][Next]_vars /\ Fairness

------------------------------------------------------------------------------
\* The counters are in range.
TypeOK ==
    /\ queue \in Seq(BOOLEAN) /\ Len(queue) <= MaxChecks
    /\ {nIdle, nTotal} \subseteq 0..Cardinality(Threads)
    /\ nTodo \in 0..MaxChecks /\ {fAllOk, failing} \subseteq BOOLEAN
    /\ owner \in Masters \cup {None} /\ verdict \in BOOLEAN \cup {None}
    /\ pc \in [Threads -> {"out", "control", "loop", "wait", "notified", "done"}]
    /\ \A t \in Threads : batch[t] \in Seq(BOOLEAN) /\ Len(batch[t]) <= nBatchSize

\* validation.cpp:2189: ConnectBlock keeps the transactions' data only as long
\* as its control.  Once Wait has returned or the destructor is through, no
\* check of the round is queued or held by any thread, and the queue is as new.
NoCheckOutlivesControl ==
    (\A m \in Masters : pc[m] \in {"out", "done"}) =>
        /\ queue = <<>> /\ nTodo = 0 /\ fAllOk
        /\ \A t \in Threads : batch[t] = <<>>

Rounds == INSTANCE CheckRounds

\* checkqueue.h:138: Wait returns whether all evaluations of this round were
\* successful, for one owner at a time, and every round ends: no wakeup is lost
\* between the workers, the master and Add.
RefinesRounds == Rounds!Spec
==============================================================================
