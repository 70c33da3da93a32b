------------------------- MODULE ConnectBlockProofs --------------------------
(***************************************************************************)
(* What ConnectBlock leans on: the script check queue and the coins caches.*)
(*                                                                         *)
(* First the queue, for any number of workers and masters, any batch size  *)
(* and any number of checks: no check outlives the control it was added    *)
(* by, and every verdict is that of its own round.  Then the caches, with  *)
(* their refinement of UtxoView.  There the work is in lemmas about the    *)
(* operators of Coins, each about one cache c over an arbitrary base; the  *)
(* theorems apply them to CoinsTip over the database and to the view over  *)
(* CoinsTip.                                                               *)
(***************************************************************************)
EXTENDS CheckQueue, CoinsCache, FiniteSetTheorems, TLAPS

PCs == {"out", "control", "loop", "wait", "notified", "done"}
Parked == {"wait", "notified"}

\* The threads that nIdle counts, the threads that nTotal counts, and the
\* checks that threads hold, each a thread and a position in its vChecks.
IdleIn(p) == {u \in Threads : p[u] \in Parked}
JoinedIn(p, b) == {u \in Threads : p[u] \in Parked \/ (p[u] = "loop" /\ b[u] # <<>>)}
HeldIn(b) == {x \in Threads \X Nat : x[2] \in DOMAIN b[x[1]]}
HeldByOthers(t) == {x \in HeldIn(batch) : x[1] # t}

AllTrue(s) == \A i \in DOMAIN s : s[i] = TRUE

NoRound == \A m \in Masters : pc[m] \in {"out", "done"}
InRound == owner # None /\ pc[owner] # "done"

Types ==
    /\ queue \in Seq(BOOLEAN) /\ batch \in [Threads -> Seq(BOOLEAN)]
    /\ pc \in [Threads -> PCs] /\ fOk \in [Threads -> BOOLEAN]
    /\ fAllOk \in BOOLEAN /\ failing \in BOOLEAN
    /\ owner \in Masters \cup {None} /\ verdict \in BOOLEAN \cup {None}
    /\ added \in Nat

\* The counters are exact.
Counted ==
    /\ IsFiniteSet(IdleIn(pc)) /\ nIdle = Cardinality(IdleIn(pc))
    /\ IsFiniteSet(JoinedIn(pc, batch)) /\ nTotal = Cardinality(JoinedIn(pc, batch))
    /\ IsFiniteSet(HeldIn(batch)) /\ nTodo = Len(queue) + Cardinality(HeldIn(batch))

\* Where threads may be.
Placed ==
    /\ \A t \in Threads : batch[t] # <<>> => pc[t] = "loop"
    /\ \A w \in Workers : pc[w] \in {"loop"} \cup Parked
    /\ \A m \in Masters : (pc[m] = "out") <=> (owner # m)

\* What is known of the outcome: between rounds the queue is as new, in a round
\* a failed check has been accounted for, or is queued, or is held.
Judged ==
    /\ NoRound => nTodo = 0 /\ fAllOk
    /\ InRound => /\ verdict = None
                  /\ failing <=> ~(fAllOk /\ AllTrue(queue) /\ \A t \in Threads : AllTrue(batch[t]))
    /\ owner # None /\ pc[owner] = "done" => verdict \in BOOLEAN
    /\ \A t \in Threads : batch[t] # <<>> /\ ~fOk[t] => ~fAllOk

IInv == Types /\ Counted /\ Placed /\ Judged

\* What a section has established before Proceed, when thread t holds nothing
\* and counts as joined and not as idle.
Mid(t, total, idle, todo, ok, at) ==
    /\ t \in Threads /\ pc[t] \in {"loop", "notified"}
    /\ at \in [Threads -> PCs]
    /\ \A u \in Threads \ {t} : at[u] = pc[u] \/ (pc[u] = "wait" /\ at[u] = "notified")
    /\ idle = Cardinality(IdleIn(pc) \ {t})
    /\ total = 1 + Cardinality(JoinedIn(pc, batch) \ {t})
    /\ todo = Len(queue) + Cardinality(HeldByOthers(t))
    /\ ok \in BOOLEAN
    /\ \A u \in Threads \ {t} : batch[u] # <<>> /\ ~fOk[u] => ~ok
    /\ NoRound => todo = 0 /\ ok
    /\ InRound => (failing <=> ~(ok /\ AllTrue(queue) /\ \A u \in Threads \ {t} : AllTrue(batch[u])))

\* Thread t holding a sequence s adds Len(s) to what is held.
LEMMA HeldCount ==
  ASSUME NEW t \in Threads, NEW k \in Nat
  PROVE  IsFiniteSet({t} \X (1..k)) /\ Cardinality({t} \X (1..k)) = k
<1> DEFINE f == [i \in 1..k |-> <<t, i>>]
<1>1. f \in Bijection(1..k, {t} \X (1..k))
  <2>1. f \in [1..k -> {t} \X (1..k)]
    OBVIOUS
  <2>2. \A i, j \in 1..k : f[i] = f[j] => i = j
    OBVIOUS
  <2>3. \A x \in {t} \X (1..k) : \E i \in 1..k : f[i] = x
    <3> TAKE x \in {t} \X (1..k)
    <3>1. x[2] \in 1..k /\ x = <<t, x[2]>>
      OBVIOUS
    <3> QED BY <3>1
  <2> HIDE DEF f
  <2> QED BY <2>1, <2>2, <2>3 DEF Bijection, Injection, Surjection, IsInjective
<1>2. IsFiniteSet(1..k) /\ Cardinality(1..k) = k
  BY FS_Interval
<1> QED BY <1>1, <1>2, FS_Bijection DEF ExistsBijection

LEMMA HeldChange ==
  ASSUME NEW t \in Threads, batch \in [Threads -> Seq(BOOLEAN)], IsFiniteSet(HeldIn(batch)),
         NEW s \in Seq(BOOLEAN)
  PROVE  /\ IsFiniteSet(HeldByOthers(t))
         /\ Cardinality(HeldByOthers(t)) \in Nat
         /\ IsFiniteSet(HeldIn([batch EXCEPT ![t] = s]))
         /\ Cardinality(HeldIn([batch EXCEPT ![t] = s])) = Cardinality(HeldByOthers(t)) + Len(s)
<1> DEFINE B == [batch EXCEPT ![t] = s]
           O == HeldByOthers(t)
           N == {t} \X (1..Len(s))
<1>1. IsFiniteSet(O) /\ Cardinality(O) \in Nat
  BY FS_Subset, FS_CardinalityType DEF HeldByOthers
<1>2. Len(s) \in Nat /\ DOMAIN s = 1..Len(s)
  OBVIOUS
<1>3. IsFiniteSet(N) /\ Cardinality(N) = Len(s)
  BY <1>2, HeldCount, Zenon
<1>4. HeldIn(B) = O \cup N
  <2>1. ASSUME NEW x \in Threads \X Nat PROVE x \in HeldIn(B) <=> x \in O \cup N
    <3>1. CASE x[1] = t
      <4>1. B[x[1]] = s /\ x \notin O
        BY <3>1 DEF HeldByOthers
      <4>2. x \in N <=> x[2] \in 1..Len(s)
        BY <3>1
      <4> QED BY <4>1, <4>2, <1>2 DEF HeldIn
    <3>2. CASE x[1] # t
      <4>1. B[x[1]] = batch[x[1]] /\ x \notin N
        BY <3>2
      <4> QED BY <4>1, <3>2 DEF HeldIn, HeldByOthers
    <3> QED BY <3>1, <3>2
  <2>2. O \cup N \subseteq Threads \X Nat /\ HeldIn(B) \subseteq Threads \X Nat
    BY <1>2 DEF HeldIn, HeldByOthers
  <2> QED BY <2>1, <2>2, Zenon
<1>5. O \cap N = {}
  BY DEF HeldByOthers
<1>6. IsFiniteSet(O \cup N) /\ Cardinality(O \cup N) = Cardinality(O) + Cardinality(N) - Cardinality(O \cap N)
  BY <1>1, <1>3, FS_Union, Zenon
<1>7. Cardinality(O \cap N) = 0
  BY <1>5, FS_EmptySet, Zenon
<1> HIDE DEF B, O, N
<1>8. IsFiniteSet(HeldIn(B)) /\ Cardinality(HeldIn(B)) = Cardinality(O) + Len(s)
  BY <1>1, <1>2, <1>3, <1>4, <1>6, <1>7
<1> QED BY <1>1, <1>8 DEF B, O

LEMMA DivBound ==
  ASSUME NEW n \in Nat, NEW k \in Nat \ {0}
  PROVE  n \div k \in 0..n
<1>1. PICK q \in Int : q = n \div k
  OBVIOUS
<1>2. k * q <= n /\ n < k * q + k
  BY <1>1
<1>3. q >= 0
  BY <1>2
<1>4. q <= k * q
  BY <1>3
<1> QED BY <1>1, <1>2, <1>3, <1>4

LEMMA BooleanSeq ==
  ASSUME NEW n \in Nat, NEW s \in [1..n -> BOOLEAN]
  PROVE  s \in Seq(BOOLEAN) /\ Len(s) = n
OBVIOUS

\* The batch that a section takes off the end of a queue, last check first.
LEMMA SplitSeq ==
  ASSUME NEW s \in Seq(BOOLEAN), NEW k \in 0..Len(s),
         NEW rest, rest = SubSeq(s, 1, Len(s) - k),
         NEW taken, taken = [i \in 1..k |-> s[Len(s) + 1 - i]]
  PROVE  /\ rest \in Seq(BOOLEAN) /\ Len(rest) = Len(s) - k
         /\ taken \in Seq(BOOLEAN) /\ Len(taken) = k
         /\ AllTrue(s) <=> AllTrue(rest) /\ AllTrue(taken)
<1> DEFINE n == Len(s)
<1>1. n \in Nat /\ s \in [1..n -> BOOLEAN] /\ k \in Nat /\ k <= n /\ n - k \in Nat
  OBVIOUS
<1>2. rest = [i \in 1..n - k |-> s[i]] /\ taken = [i \in 1..k |-> s[n + 1 - i]]
  BY <1>1
<1> HIDE DEF n
<1>3. (\A i \in 1..n - k : i \in 1..n) /\ \A i \in 1..k : n + 1 - i \in 1..n
  BY <1>1
<1>4. rest \in [1..n - k -> BOOLEAN]
  BY <1>1, <1>2, <1>3, Zenon
<1>5. taken \in [1..k -> BOOLEAN]
  BY <1>1, <1>2, <1>3
<1>6. rest \in Seq(BOOLEAN) /\ Len(rest) = n - k /\ taken \in Seq(BOOLEAN) /\ Len(taken) = k
  BY <1>1, <1>4, <1>5, BooleanSeq
<1>7. DOMAIN rest = 1..n - k /\ DOMAIN taken = 1..k /\ DOMAIN s = 1..n
  BY <1>1, <1>4, <1>5
<1>8. (\A i \in 1..n - k : rest[i] = s[i]) /\ \A i \in 1..k : taken[i] = s[n + 1 - i]
  BY <1>2, Zenon
<1>9. AllTrue(s) => AllTrue(rest) /\ AllTrue(taken)
  BY <1>3, <1>7, <1>8, Zenon DEF AllTrue
<1>10. ASSUME AllTrue(rest), AllTrue(taken), NEW i \in 1..n PROVE s[i] = TRUE
  <2>1. CASE i \in 1..n - k
    BY <1>7, <1>8, <1>10, <2>1, Zenon DEF AllTrue
  <2>2. CASE i \notin 1..n - k
    <3>1. n + 1 - i \in 1..k /\ n + 1 - (n + 1 - i) = i
      BY <1>1, <2>2
    <3>2. taken[n + 1 - i] = s[i]
      BY <1>8, <3>1, ZenonT(30)
    <3> QED BY <1>7, <1>10, <3>1, <3>2 DEF AllTrue
  <2> QED BY <2>1, <2>2, Zenon
<1>11. AllTrue(rest) /\ AllTrue(taken) => AllTrue(s)
  BY <1>7, <1>10, Zenon DEF AllTrue
<1> QED BY <1>6, <1>9, <1>11 DEF n

LEMMA TakenBatch ==
  ASSUME queue \in Seq(BOOLEAN), queue # <<>>, NEW total \in Nat, NEW idle \in Nat,
         NEW rest, rest = SubSeq(queue, 1, Len(queue) - nNow(total, idle)),
         NEW taken, taken = [i \in 1..nNow(total, idle) |-> queue[Len(queue) + 1 - i]]
  PROVE  /\ rest \in Seq(BOOLEAN) /\ taken \in Seq(BOOLEAN) /\ taken # <<>>
         /\ Len(rest) + Len(taken) = Len(queue)
         /\ AllTrue(queue) <=> AllTrue(rest) /\ AllTrue(taken)
<1> DEFINE n == Len(queue)
<1>1. n \in Nat \ {0}
  OBVIOUS
<1>2. nNow(total, idle) \in 1..n
  <2> DEFINE k == total + idle + 1
  <2>1. k \in Nat \ {0}
    OBVIOUS
  <2>3. nNow(total, idle) = MaxOf(1, MinOf(nBatchSize, n \div k))
    BY DEF nNow
  <2> HIDE DEF k, n
  <2>2. n \div k \in 0..n
    BY <1>1, <2>1, DivBound
  <2> QED BY <1>1, <2>2, <2>3, CheckQueueAssumption DEF MaxOf, MinOf
<1>3. PICK k \in 1..n : k = nNow(total, idle)
  BY <1>2
<1>4. /\ rest = SubSeq(queue, 1, Len(queue) - k)
      /\ taken = [i \in 1..k |-> queue[Len(queue) + 1 - i]]
      /\ k \in 0..Len(queue)
  BY <1>1, <1>3
<1>5. /\ rest \in Seq(BOOLEAN) /\ Len(rest) = Len(queue) - k
      /\ taken \in Seq(BOOLEAN) /\ Len(taken) = k
      /\ AllTrue(queue) <=> AllTrue(rest) /\ AllTrue(taken)
  BY <1>4, SplitSeq, Zenon
<1>6. taken # <<>> /\ Len(rest) + Len(taken) = n
  <2>1. Len(taken) # 0 /\ Len(rest) + Len(taken) = n
    <3>1. k # 0 /\ (Len(queue) - k) + k = n
      BY <1>1, <1>3
    <3> QED BY <1>5, <3>1, ZenonT(30)
  <2>2. Len(<<>>) = 0
    OBVIOUS
  <2> QED BY <2>1, <2>2, ZenonT(30)
<1> QED BY <1>5, <1>6, Zenon

\* Threads hold nothing when nothing is left to do.
LEMMA NothingHeld ==
  ASSUME batch \in [Threads -> Seq(BOOLEAN)], NEW S \in SUBSET Threads,
         \A x \in HeldIn(batch) : x[1] \notin S
  PROVE  \A u \in S : batch[u] = <<>>
<1> SUFFICES ASSUME NEW u \in S, batch[u] # <<>> PROVE FALSE
  OBVIOUS
<1>1. batch[u] \in Seq(BOOLEAN) /\ 1 \in DOMAIN batch[u]
  OBVIOUS
<1>2. <<u, 1>> \in HeldIn(batch)
  BY <1>1 DEF HeldIn
<1> QED BY <1>2

\* Every way out of a section keeps the invariant, and the owner's way out is
\* the end of its round, with the right verdict.
LEMMA ProceedKeeps ==
  ASSUME IInv, NEW t, NEW total, NEW idle, NEW todo, NEW ok, NEW at,
         Mid(t, total, idle, todo, ok, at), Proceed(t, total, idle, todo, ok, at)
  PROVE  IInv' /\ [Rounds!Next]_(Rounds!vars)
<1> USE DEF IInv
<1>t. t \in Threads /\ pc[t] \in {"loop", "notified"} /\ todo \in Nat /\ ok \in BOOLEAN
  BY HeldChange DEF Mid, Types, Counted
<1>m. /\ at \in [Threads -> PCs]
      /\ \A u \in Threads \ {t} : at[u] = pc[u] \/ (pc[u] = "wait" /\ at[u] = "notified")
  BY DEF Mid
<1>a. ASSUME NEW u \in Threads \ {t}
      PROVE  /\ at[u] \in PCs
             /\ (at[u] = "out") <=> (pc[u] = "out")
             /\ (at[u] = "loop") <=> (pc[u] = "loop")
             /\ (at[u] = "done") <=> (pc[u] = "done")
             /\ (at[u] \in Parked) <=> (pc[u] \in Parked)
  BY <1>m DEF Parked
<1>o. t \in Masters => owner = t
  BY <1>t DEF Placed
<1> DEFINE I == IdleIn(pc) \ {t}
           J == JoinedIn(pc, batch) \ {t}
<1>n. /\ IsFiniteSet(I) /\ Cardinality(I) \in Nat /\ idle = Cardinality(I)
      /\ IsFiniteSet(J) /\ Cardinality(J) \in Nat /\ total = 1 + Cardinality(J)
  <2>1. IsFiniteSet(I) /\ IsFiniteSet(J)
    BY FS_RemoveElement, ZenonT(30) DEF Counted
  <2> QED BY <2>1, FS_CardinalityType DEF Mid
<1>c. ASSUME NEW x \in PCs, NEW b \in Seq(BOOLEAN), pc' = [at EXCEPT ![t] = x],
             batch' = [batch EXCEPT ![t] = b],
             nIdle' = (IF x \in Parked THEN idle + 1 ELSE idle),
             nTotal' = (IF x \in Parked \/ (x = "loop" /\ b # <<>>) THEN total ELSE total - 1),
             nTodo' = Len(queue') + (todo - Len(queue)) + Len(b), queue' \in Seq(BOOLEAN)
      PROVE  Counted'
  <2>1. /\ IsFiniteSet(IdleIn(pc)') /\ Cardinality(IdleIn(pc)') = nIdle'
        /\ IsFiniteSet(JoinedIn(pc, batch)') /\ Cardinality(JoinedIn(pc, batch)') = nTotal'
    <3> DEFINE p == [at EXCEPT ![t] = x]
               B == [batch EXCEPT ![t] = b]
    <3>3. p \in [Threads -> PCs] /\ p[t] = x /\ B[t] = b
          /\ \A u \in Threads \ {t} : p[u] = at[u] /\ B[u] = batch[u]
      BY <1>t, <1>m DEF Types
    <3>4. IdleIn(p) = IF x \in Parked THEN I \cup {t} ELSE I
      BY <1>a, <1>t, <3>3 DEF IdleIn
    <3>5. JoinedIn(p, B) = IF x \in Parked \/ (x = "loop" /\ b # <<>>) THEN J \cup {t} ELSE J
      BY <1>a, <1>t, <3>3 DEF JoinedIn
    <3>6. t \notin I /\ t \notin J /\ pc' = p /\ batch' = B
      BY <1>c
    <3> HIDE DEF p, B, I, J
    <3>1. IdleIn(pc)' = IdleIn(p) /\ JoinedIn(pc, batch)' = JoinedIn(p, B)
      BY <3>6 DEF IdleIn, JoinedIn
    <3>7. /\ IsFiniteSet(I \cup {t}) /\ Cardinality(I \cup {t}) = Cardinality(I) + 1
          /\ IsFiniteSet(J \cup {t}) /\ Cardinality(J \cup {t}) = Cardinality(J) + 1
      BY <1>n, <3>6, FS_AddElement
    <3>8. IsFiniteSet(IdleIn(p)) /\ Cardinality(IdleIn(p)) = nIdle'
      BY <1>c, <1>n, <3>4, <3>7, ZenonT(30)
    <3>9. IsFiniteSet(JoinedIn(p, B)) /\ Cardinality(JoinedIn(p, B)) = nTotal'
      BY <1>c, <1>n, <3>5, <3>7
    <3> QED BY <3>1, <3>8, <3>9
  <2>2. IsFiniteSet(HeldIn(batch)') /\ Cardinality(HeldIn(batch)') = Cardinality(HeldByOthers(t)) + Len(b)
        /\ Cardinality(HeldByOthers(t)) \in Nat
    <3>1. HeldIn(batch)' = HeldIn([batch EXCEPT ![t] = b])
      BY <1>c, ZenonT(30) DEF HeldIn
    <3> QED BY <1>c, <1>t, <3>1, HeldChange, Zenon DEF Types, Counted
  <2>3. todo - Len(queue) = Cardinality(HeldByOthers(t))
    BY <2>2 DEF Mid, Types
  <2>4. nTodo' = Len(queue') + Cardinality(HeldIn(batch)')
    BY <1>c, <2>2, <2>3
  <2> QED BY <2>1, <2>2, <2>4 DEF Counted
<1>p. ASSUME NEW x \in {"done", "wait", "loop"}, pc' = [at EXCEPT ![t] = x], x = "done" => t \in Masters,
             NEW b, batch' = [batch EXCEPT ![t] = b], b # <<>> => x = "loop"
      PROVE  Placed'
  <2>1. pc'[t] = x /\ batch'[t] = b /\ owner' = owner
        /\ \A u \in Threads \ {t} : pc'[u] = at[u] /\ batch'[u] = batch[u]
    BY <1>p, <1>t, ZenonT(30) DEF Mid, Types, Proceed
  <2>2. \A u \in Threads : batch'[u] # <<>> => pc'[u] = "loop"
    BY <2>1, <1>p, <1>a, ZenonT(30) DEF Placed
  <2>3. \A w \in Workers : pc'[w] \in {"loop"} \cup Parked
    BY <2>1, <1>p, <1>a, CheckQueueAssumption, ZenonT(30) DEF Placed, Threads, Parked
  <2>4. \A m \in Masters : (pc'[m] = "out") <=> (owner' # m)
    BY <2>1, <1>p, <1>a, <1>t DEF Placed, Threads
  <2> QED BY <2>2, <2>3, <2>4, ZenonT(30) DEF Placed
<1>1. CASE /\ Returns(t, todo) /\ nTotal' = total - 1 /\ nIdle' = idle
           /\ fAllOk' = TRUE /\ verdict' = ok /\ pc' = [at EXCEPT ![t] = "done"]
           /\ batch' = [batch EXCEPT ![t] = <<>>] /\ UNCHANGED <<queue, fOk>>
  <2>1. t \in Masters /\ queue = <<>> /\ todo = 0 /\ nTodo' = 0 /\ UNCHANGED <<owner, failing, added>>
    BY <1>1 DEF Returns, Proceed, history
  <2>2. Types'
    <3>0. <<>> \in Seq(BOOLEAN)
      OBVIOUS
    <3>1. batch' \in [Threads -> Seq(BOOLEAN)]
      BY <1>1, <3>0, Zenon DEF Types
    <3>2. pc' \in [Threads -> PCs]
      BY <1>1, <1>m, Zenon DEF PCs
    <3> QED BY <1>1, <2>1, <1>t, <3>1, <3>2 DEF Types
  <2>3. Counted'
    <3>1. <<>> \in Seq(BOOLEAN) /\ Len(<<>>) = 0 /\ "done" \in PCs /\ "done" \notin Parked /\ "done" # "loop"
      BY DEF PCs, Parked
    <3>2. nTodo' = Len(queue') + (todo - Len(queue)) + Len(<<>>) /\ queue' \in Seq(BOOLEAN)
      BY <1>1, <2>1, <3>1
    <3>3. /\ nIdle' = (IF "done" \in Parked THEN idle + 1 ELSE idle)
          /\ nTotal' = (IF "done" \in Parked \/ ("done" = "loop" /\ <<>> # <<>>) THEN total ELSE total - 1)
      BY <1>1, <3>1
    <3> QED BY <1>c, <1>1, <3>1, <3>2, <3>3, Zenon
  <2>4. Placed'
    BY <1>p, <1>1, <2>1, Zenon
  <2>5. \A u \in Threads \ {t} : batch[u] = <<>>
    <3>1. IsFiniteSet(HeldByOthers(t)) /\ Cardinality(HeldByOthers(t)) \in Nat
      BY HeldChange, <1>t, Zenon DEF Types, Counted
    <3>2. Cardinality(HeldByOthers(t)) = 0
      BY <2>1, <3>1 DEF Mid
    <3>3. HeldByOthers(t) = {}
      BY <3>1, <3>2, FS_EmptySet
    <3>4. \A x \in HeldIn(batch) : x[1] \notin Threads \ {t}
      BY <3>3 DEF HeldByOthers
    <3> QED BY <3>4, NothingHeld, Zenon DEF Types
  <2>6. owner = t /\ InRound /\ verdict = None
    BY <1>o, <2>1, <1>t, CheckQueueAssumption, ZenonT(30) DEF InRound, Judged
  <2>7. failing <=> ~ok
    BY <2>1, <2>5, <2>6 DEF Mid, AllTrue
  <2>8. Judged'
    <3>1. \A u \in Threads : batch'[u] = <<>>
      BY <1>1, <2>5, <1>t, ZenonT(30) DEF Types
    <3>2. pc'[owner'] = "done"
      BY <1>1, <2>1, <2>6, <1>t DEF Mid
    <3> QED BY <1>1, <2>1, <3>1, <3>2, <1>t, ZenonT(30) DEF Judged, InRound
  <2>9. Rounds!Finish
    <3>1. verdict' = ~failing
      BY <1>1, <2>7, <1>t, Zenon DEF Types
    <3> QED BY <3>1, <2>1, <2>6, CheckQueueAssumption DEF Rounds!Finish
  <2> QED BY <2>2, <2>3, <2>4, <2>8, <2>9, ZenonT(30) DEF Rounds!Next
<1>2. CASE /\ queue = <<>> /\ ~Returns(t, todo)
           /\ nTotal' = total /\ nIdle' = idle + 1 /\ fAllOk' = ok /\ pc' = [at EXCEPT ![t] = "wait"]
           /\ batch' = [batch EXCEPT ![t] = <<>>] /\ UNCHANGED <<queue, fOk, verdict>>
  <2>1. nTodo' = todo /\ UNCHANGED <<owner, failing, added>>
    BY DEF Proceed, history
  <2>2. Types'
    <3>0. <<>> \in Seq(BOOLEAN)
      OBVIOUS
    <3>1. batch' \in [Threads -> Seq(BOOLEAN)]
      BY <1>2, <3>0, Zenon DEF Types
    <3>2. pc' \in [Threads -> PCs]
      BY <1>2, <1>m, Zenon DEF PCs
    <3> QED BY <1>2, <2>1, <1>t, <3>1, <3>2 DEF Types
  <2>3. Counted'
    <3>1. <<>> \in Seq(BOOLEAN) /\ Len(<<>>) = 0 /\ "wait" \in PCs /\ "wait" \in Parked
      BY DEF PCs, Parked
    <3>2. nTodo' = Len(queue') + (todo - Len(queue)) + Len(<<>>) /\ queue' \in Seq(BOOLEAN)
      BY <1>2, <2>1, <3>1, <1>t
    <3>3. /\ nIdle' = (IF "wait" \in Parked THEN idle + 1 ELSE idle)
          /\ nTotal' = (IF "wait" \in Parked \/ ("wait" = "loop" /\ <<>> # <<>>) THEN total ELSE total - 1)
      BY <1>2, <3>1
    <3> QED BY <1>c, <1>2, <3>1, <3>2, <3>3, Zenon
  <2>4. Placed'
    BY <1>p, <1>2, Zenon
  <2>5. pc'[t] = "wait" /\ batch'[t] = <<>>
        /\ \A u \in Threads \ {t} : pc'[u] = at[u] /\ batch'[u] = batch[u]
    BY <1>2, <1>t DEF Mid, Types
  <2>6. NoRound' => nTodo' = 0 /\ fAllOk'
    <3>1. NoRound' => NoRound
      BY <2>5, <1>a, <1>t, ZenonT(30) DEF NoRound, Threads
    <3> QED BY <3>1, <1>2, <2>1, ZenonT(30) DEF Mid
  <2>7. InRound' => InRound
    BY <2>1, <2>5, <1>a, <1>t, ZenonT(30) DEF InRound, Types, Threads
  <2>8. InRound => (failing <=> ~(ok /\ AllTrue(queue) /\ \A u \in Threads : AllTrue(batch'[u])))
    <3>1. AllTrue(batch'[t])
      BY <2>5 DEF AllTrue
    <3> QED BY <3>1, <2>5, <1>t, ZenonT(30) DEF Mid
  <2>9. Judged'
    <3>1. owner # None /\ pc'[owner] = "done" => pc[owner] = "done"
      BY <2>5, <1>a, <1>t, ZenonT(30) DEF Types, Threads
    <3>2. \A u \in Threads : batch'[u] # <<>> /\ ~fOk'[u] => ~fAllOk'
      BY <1>2, <2>5, ZenonT(30) DEF Mid
    <3>3. InRound' => verdict' = None /\ (failing' <=> ~(fAllOk' /\ AllTrue(queue') /\ \A u \in Threads : AllTrue(batch'[u])))
      BY <1>2, <2>1, <2>7, <2>8, ZenonT(30) DEF Judged
    <3>4. owner' # None /\ pc'[owner'] = "done" => verdict' \in BOOLEAN
      BY <1>2, <2>1, <3>1 DEF Judged
    <3> QED BY <2>6, <3>2, <3>3, <3>4 DEF Judged, AllTrue
  <2> QED BY <2>1, <2>2, <2>3, <2>4, <2>9, <1>2, ZenonT(30) DEF Rounds!vars
<1>3. CASE /\ queue # <<>>
           /\ queue' = SubSeq(queue, 1, Len(queue) - nNow(total, idle))
           /\ batch' = [batch EXCEPT ![t] = [i \in 1..nNow(total, idle) |-> queue[Len(queue) + 1 - i]]]
           /\ nTotal' = total /\ nIdle' = idle /\ fAllOk' = ok /\ fOk' = [fOk EXCEPT ![t] = ok]
           /\ pc' = [at EXCEPT ![t] = "loop"] /\ UNCHANGED verdict
  <2>1. nTodo' = todo /\ UNCHANGED <<owner, failing, added>>
    BY DEF Proceed, history
  <2> DEFINE rest == SubSeq(queue, 1, Len(queue) - nNow(total, idle))
             taken == [i \in 1..nNow(total, idle) |-> queue[Len(queue) + 1 - i]]
  <2>0. total \in Nat /\ idle \in Nat
    BY <1>n
  <2>2. /\ rest \in Seq(BOOLEAN) /\ taken \in Seq(BOOLEAN) /\ taken # <<>>
        /\ Len(rest) + Len(taken) = Len(queue)
        /\ AllTrue(queue) <=> AllTrue(rest) /\ AllTrue(taken)
    BY <1>3, <2>0, TakenBatch, Zenon DEF Types
  <2>3. queue' = rest /\ batch' = [batch EXCEPT ![t] = taken]
    BY <1>3
  <2> HIDE DEF rest, taken
  <2>4. Types'
    <3>1. batch' \in [Threads -> Seq(BOOLEAN)]
      BY <2>2, <2>3, Zenon DEF Types
    <3>2. pc' \in [Threads -> PCs]
      BY <1>3, <1>m, Zenon DEF PCs
    <3>3. fOk' \in [Threads -> BOOLEAN] /\ fAllOk' \in BOOLEAN
      BY <1>3, <1>t DEF Types
    <3> QED BY <1>3, <2>1, <2>2, <2>3, <3>1, <3>2, <3>3, Zenon DEF Types
  <2>5. Counted'
    <3>1. "loop" \in PCs /\ "loop" \notin Parked
      BY DEF PCs, Parked
    <3>2. nTodo' = Len(queue') + (todo - Len(queue)) + Len(taken) /\ queue' \in Seq(BOOLEAN)
      <4>1. Len(rest) \in Nat /\ Len(taken) \in Nat /\ Len(queue) \in Nat
        BY <2>2 DEF Types
      <4> QED BY <2>1, <2>2, <2>3, <4>1, <1>t
    <3> QED BY <1>c, <1>3, <2>2, <2>3, <3>1, <3>2, Zenon
  <2>6. Placed'
    BY <1>p, <1>3, <2>3, Zenon
  <2>7. pc'[t] = "loop" /\ batch'[t] = taken /\ fOk'[t] = ok
        /\ \A u \in Threads \ {t} : pc'[u] = at[u] /\ batch'[u] = batch[u] /\ fOk'[u] = fOk[u]
    BY <1>3, <2>3, <1>t, Zenon DEF Mid, Types
  <2>8. NoRound' => nTodo' = 0 /\ fAllOk'
    <3>1. NoRound' => NoRound
      BY <2>7, <1>a, <1>t, ZenonT(30) DEF NoRound, Threads
    <3> QED BY <3>1, <1>3, <2>1, ZenonT(30) DEF Mid
  <2>9. InRound' => InRound
    BY <2>1, <2>7, <1>a, <1>t, ZenonT(30) DEF InRound, Types, Threads
  <2>10. InRound => (failing <=> ~(ok /\ AllTrue(queue') /\ \A u \in Threads : AllTrue(batch'[u])))
    <3>1. (\A u \in Threads : AllTrue(batch'[u])) <=> AllTrue(taken) /\ \A u \in Threads \ {t} : AllTrue(batch[u])
      BY <2>7, <1>t, ZenonT(30)
    <3> QED BY <3>1, <2>2, <2>3, ZenonT(30) DEF Mid
  <2>11. Judged'
    <3>1. owner # None /\ pc'[owner] = "done" => pc[owner] = "done"
      BY <2>7, <1>a, <1>t, ZenonT(30) DEF Types, Threads
    <3>2. \A u \in Threads : batch'[u] # <<>> /\ ~fOk'[u] => ~fAllOk'
      BY <1>3, <2>7 DEF Mid
    <3>3. InRound' => verdict' = None /\ (failing' <=> ~(fAllOk' /\ AllTrue(queue') /\ \A u \in Threads : AllTrue(batch'[u])))
      BY <1>3, <2>1, <2>9, <2>10, ZenonT(30) DEF Judged
    <3>4. owner' # None /\ pc'[owner'] = "done" => verdict' \in BOOLEAN
      BY <1>3, <2>1, <3>1, ZenonT(30) DEF Judged
    <3> QED BY <2>8, <3>2, <3>3, <3>4 DEF Judged, AllTrue
  <2> QED BY <2>1, <2>4, <2>5, <2>6, <2>11, <1>3, ZenonT(30) DEF Rounds!vars
<1> QED BY <1>1, <1>2, <1>3, Zenon DEF Proceed

\* What a section starts from: the counters without thread t.
LEMMA WithoutThread ==
  ASSUME IInv, NEW t \in Threads
  PROVE  /\ Cardinality(IdleIn(pc) \ {t}) = IF pc[t] \in Parked THEN nIdle - 1 ELSE nIdle
         /\ 1 + Cardinality(JoinedIn(pc, batch) \ {t}) =
               IF pc[t] \in Parked \/ (pc[t] = "loop" /\ batch[t] # <<>>) THEN nTotal ELSE nTotal + 1
         /\ Len(queue) + Cardinality(HeldByOthers(t)) = nTodo - Len(batch[t])
         /\ nTodo = 0 => queue = <<>> /\ batch[t] = <<>>
<1> USE DEF IInv
<1>1. Cardinality(IdleIn(pc)) \in Nat /\ Cardinality(JoinedIn(pc, batch)) \in Nat
  BY FS_CardinalityType DEF Counted
<1>2. t \in IdleIn(pc) <=> pc[t] \in Parked
  BY DEF IdleIn
<1>3. t \in JoinedIn(pc, batch) <=> (pc[t] \in Parked \/ (pc[t] = "loop" /\ batch[t] # <<>>))
  BY DEF JoinedIn
<1>4. Cardinality(IdleIn(pc) \ {t}) = IF pc[t] \in Parked THEN nIdle - 1 ELSE nIdle
  BY <1>1, <1>2, FS_RemoveElement, Zenon DEF Counted
<1>5. 1 + Cardinality(JoinedIn(pc, batch) \ {t}) =
        IF pc[t] \in Parked \/ (pc[t] = "loop" /\ batch[t] # <<>>) THEN nTotal ELSE nTotal + 1
  <2> DEFINE J == JoinedIn(pc, batch)
  <2>1. IsFiniteSet(J) /\ nTotal = Cardinality(J) /\ Cardinality(J) \in Nat
    BY <1>1 DEF Counted
  <2> HIDE DEF J
  <2>2. Cardinality(J \ {t}) = IF t \in J THEN nTotal - 1 ELSE nTotal
    BY <2>1, FS_RemoveElement, Zenon
  <2>3. 1 + Cardinality(J \ {t}) = IF t \in J THEN nTotal ELSE nTotal + 1
    BY <2>1, <2>2
  <2> QED BY <1>3, <2>3 DEF J
<1>6. batch[t] \in Seq(BOOLEAN) /\ [batch EXCEPT ![t] = batch[t]] = batch
  BY DEF Types
<1>7. /\ Cardinality(HeldByOthers(t)) \in Nat
      /\ Cardinality(HeldIn(batch)) = Cardinality(HeldByOthers(t)) + Len(batch[t])
  BY <1>6, HeldChange, ZenonT(30) DEF Types, Counted
<1>8. Len(queue) \in Nat /\ Len(batch[t]) \in Nat
  BY <1>6 DEF Types
<1>9. nTodo = Len(queue) + Cardinality(HeldByOthers(t)) + Len(batch[t])
  BY <1>7, <1>8 DEF Counted
<1>10. nTodo = 0 => Len(queue) = 0 /\ Len(batch[t]) = 0
  BY <1>7, <1>8, <1>9
<1>11. nTodo = 0 => queue = <<>> /\ batch[t] = <<>>
  BY <1>6, <1>10 DEF Types
<1> QED BY <1>4, <1>5, <1>7, <1>8, <1>9, <1>11

LEMMA FirstSectionKeeps ==
  ASSUME IInv, NEW t \in Threads, FirstSection(t)
  PROVE  IInv' /\ [Rounds!Next]_(Rounds!vars)
<1>1. pc[t] = "loop" /\ batch[t] = <<>> /\ Proceed(t, nTotal + 1, nIdle, nTodo, fAllOk, pc)
  BY DEF FirstSection
<1>2. "loop" \notin Parked /\ Len(<<>>) = 0 /\ nTodo - 0 = nTodo
  <2>1. nTodo \in Nat
    BY FS_CardinalityType DEF IInv, Counted, Types
  <2> QED BY <2>1 DEF Parked
<1>3. Mid(t, nTotal + 1, nIdle, nTodo, fAllOk, pc)
  <2>1. /\ nIdle = Cardinality(IdleIn(pc) \ {t})
        /\ nTotal + 1 = 1 + Cardinality(JoinedIn(pc, batch) \ {t})
        /\ nTodo = Len(queue) + Cardinality(HeldByOthers(t))
    BY <1>1, <1>2, WithoutThread, Zenon
  <2>2. pc \in [Threads -> PCs] /\ fAllOk \in BOOLEAN
    BY DEF IInv, Types
  <2>3. \A u \in Threads \ {t} : batch[u] # <<>> /\ ~fOk[u] => ~fAllOk
    BY DEF IInv, Judged
  <2>4. NoRound => nTodo = 0 /\ fAllOk
    BY DEF IInv, Judged
  <2>5. InRound => (failing <=> ~(fAllOk /\ AllTrue(queue) /\ \A u \in Threads \ {t} : AllTrue(batch[u])))
    <3>1. AllTrue(batch[t])
      BY <1>1 DEF AllTrue
    <3> QED BY <3>1, ZenonT(30) DEF IInv, Judged
  <2> QED BY <1>1, <2>1, <2>2, <2>3, <2>4, <2>5 DEF Mid
<1> QED BY <1>1, <1>3, ProceedKeeps, ZenonT(30)

LEMMA ResumeKeeps ==
  ASSUME IInv, NEW t \in Threads, Resume(t)
  PROVE  IInv' /\ [Rounds!Next]_(Rounds!vars)
<1>1. pc[t] = "notified" /\ Proceed(t, nTotal, nIdle - 1, nTodo, fAllOk, pc)
  BY DEF Resume
<1>2. batch[t] = <<>>
  BY <1>1 DEF IInv, Placed
<1>3. "notified" \in Parked /\ Len(<<>>) = 0 /\ nTodo - 0 = nTodo
  <2>1. nTodo \in Nat
    BY FS_CardinalityType DEF IInv, Counted, Types
  <2> QED BY <2>1 DEF Parked
<1>4. Mid(t, nTotal, nIdle - 1, nTodo, fAllOk, pc)
  <2>1. /\ nIdle - 1 = Cardinality(IdleIn(pc) \ {t})
        /\ nTotal = 1 + Cardinality(JoinedIn(pc, batch) \ {t})
        /\ nTodo = Len(queue) + Cardinality(HeldByOthers(t))
    BY <1>1, <1>2, <1>3, WithoutThread, Zenon
  <2>2. pc \in [Threads -> PCs] /\ fAllOk \in BOOLEAN
    BY DEF IInv, Types
  <2>3. \A u \in Threads \ {t} : batch[u] # <<>> /\ ~fOk[u] => ~fAllOk
    BY DEF IInv, Judged
  <2>4. NoRound => nTodo = 0 /\ fAllOk
    BY DEF IInv, Judged
  <2>5. InRound => (failing <=> ~(fAllOk /\ AllTrue(queue) /\ \A u \in Threads \ {t} : AllTrue(batch[u])))
    <3>1. AllTrue(batch[t])
      BY <1>2 DEF AllTrue
    <3> QED BY <3>1 DEF IInv, Judged
  <2> QED BY <1>1, <2>1, <2>2, <2>3, <2>4, <2>5 DEF Mid
<1> QED BY <1>1, <1>4, ProceedKeeps

LEMMA NextSectionKeeps ==
  ASSUME IInv, NEW t \in Threads, NextSection(t)
  PROVE  IInv' /\ [Rounds!Next]_(Rounds!vars)
<1> DEFINE todo == nTodo - Len(batch[t])
           ok == fAllOk /\ Evaluated(t)
<1>1. PICK woken \in ToTell(t, todo) : Proceed(t, nTotal, nIdle, todo, ok, Notified(woken))
  BY ZenonT(30) DEF NextSection
<1>2. pc[t] = "loop" /\ batch[t] # <<>> /\ "loop" \notin Parked
  BY DEF NextSection, Parked
<1>3. /\ nIdle = Cardinality(IdleIn(pc) \ {t})
      /\ nTotal = 1 + Cardinality(JoinedIn(pc, batch) \ {t})
      /\ todo = Len(queue) + Cardinality(HeldByOthers(t))
      /\ nTodo # 0
  BY <1>2, WithoutThread, Zenon
<1>4. \A u \in woken : u \in Masters /\ pc[u] = "wait"
  <2>1. ToTell(t, todo) \subseteq OneOf(Masters) \cup {{}}
    BY DEF ToTell
  <2> HIDE DEF todo
  <2> QED BY <1>1, <2>1 DEF OneOf, Waiting
<1>5. /\ Notified(woken) \in [Threads -> PCs]
      /\ \A u \in Threads \ {t} : Notified(woken)[u] = pc[u] \/ (pc[u] = "wait" /\ Notified(woken)[u] = "notified")
  <2>1. "notified" \in PCs /\ pc \in [Threads -> PCs]
    BY DEF PCs, IInv, Types
  <2> HIDE DEF todo, ok
  <2> QED BY <1>4, <2>1 DEF Notified
<1>6. ok <=> (fAllOk /\ fOk[t] = TRUE /\ AllTrue(batch[t]))
  <2>1. \A i \in DOMAIN batch[t] : batch[t][i] \in BOOLEAN
    BY DEF IInv, Types
  <2>2. (\A i \in DOMAIN batch[t] : batch[t][i]) <=> AllTrue(batch[t])
    BY <2>1, Zenon DEF AllTrue
  <2>3. fOk[t] \in BOOLEAN
    BY DEF IInv, Types
  <2> QED BY <2>2, <2>3, Zenon DEF Evaluated
<1>7. ok \in BOOLEAN /\ fAllOk \in BOOLEAN
  <2>1. fAllOk \in BOOLEAN
    BY DEF IInv, Types
  <2> QED BY <1>6, <2>1, Zenon
<1>8. fAllOk => fOk[t] = TRUE
  <2>1. fOk[t] \in BOOLEAN /\ (~fOk[t] => ~fAllOk)
    BY <1>2, ZenonT(30) DEF IInv, Types, Judged
  <2> QED BY <2>1
<1> HIDE DEF todo, ok
<1>9. Mid(t, nTotal, nIdle, todo, ok, Notified(woken))
  <2>1. \A u \in Threads \ {t} : batch[u] # <<>> /\ ~fOk[u] => ~ok
    BY <1>6, ZenonT(30) DEF IInv, Judged
  <2>2. ~NoRound
    BY <1>3, ZenonT(30) DEF IInv, Judged
  <2>3. InRound => (failing <=> ~(ok /\ AllTrue(queue) /\ \A u \in Threads \ {t} : AllTrue(batch[u])))
    BY <1>6, <1>8, ZenonT(30) DEF IInv, Judged
  <2> QED BY <1>2, <1>3, <1>5, <1>7, <2>1, <2>2, <2>3, ZenonT(30) DEF Mid
<1> QED BY <1>1, <1>9, ProceedKeeps, ZenonT(30)

\* Waking threads that wait.
LEMMA WakeKeeps ==
  ASSUME IInv, NEW S \in SUBSET Waiting(Threads), pc' = Notified(S),
         UNCHANGED <<batch, owner>>
  PROVE  /\ pc' \in [Threads -> PCs] /\ Placed'
         /\ \A u \in Threads : pc[u] \notin Parked => pc'[u] = pc[u]
         /\ \A u \in Threads : pc[u] \in Parked => pc'[u] \in Parked
         /\ IdleIn(pc)' = IdleIn(pc) /\ JoinedIn(pc, batch)' = JoinedIn(pc, batch)
         /\ HeldIn(batch)' = HeldIn(batch)
<1>1. pc \in [Threads -> PCs] /\ "notified" \in PCs /\ "notified" \in Parked /\ "wait" \in Parked
      /\ "loop" \notin Parked /\ "out" \notin Parked
  BY DEF IInv, Types, PCs, Parked
<1>2. pc' \in [Threads -> PCs]
  BY <1>1 DEF Notified
<1>3. \A u \in Threads : pc'[u] = pc[u] \/ (pc[u] = "wait" /\ pc'[u] = "notified")
  BY <1>1 DEF Notified, Waiting
<1>4. \A u \in Threads : /\ pc[u] \notin Parked => pc'[u] = pc[u]
                         /\ pc[u] \in Parked => pc'[u] \in Parked
  BY <1>1, <1>3, ZenonT(30)
<1>5. Placed'
  <2>1. \A u \in Threads : batch'[u] # <<>> => pc'[u] = "loop"
    BY <1>1, <1>4, ZenonT(30) DEF IInv, Placed
  <2>2. \A w \in Workers : pc'[w] \in {"loop"} \cup Parked
    BY <1>1, <1>4, ZenonT(30) DEF IInv, Placed, Threads
  <2>3. \A m \in Masters : (pc'[m] = "out") <=> (owner' # m)
    BY <1>1, <1>3, ZenonT(30) DEF IInv, Placed, Threads
  <2> QED BY <2>1, <2>2, <2>3, ZenonT(30) DEF Placed
<1>6. IdleIn(pc)' = IdleIn(pc) /\ JoinedIn(pc, batch)' = JoinedIn(pc, batch)
      /\ HeldIn(batch)' = HeldIn(batch)
  BY <1>1, <1>3 DEF IdleIn, JoinedIn, HeldIn
<1> QED BY <1>2, <1>4, <1>5, <1>6, ZenonT(30)

LEMMA SpuriousKeeps ==
  ASSUME IInv, NEW t \in Threads, SpuriousWakeup(t)
  PROVE  IInv' /\ UNCHANGED Rounds!vars
<1>1. /\ pc' = Notified({t}) /\ {t} \in SUBSET Waiting(Threads)
      /\ UNCHANGED <<queue, nIdle, nTotal, fAllOk, nTodo, owner, batch, fOk, verdict, failing, added>>
  BY DEF SpuriousWakeup, Waiting, counters, history
<1>2. /\ pc' \in [Threads -> PCs] /\ Placed'
      /\ \A u \in Threads : pc[u] \notin Parked => pc'[u] = pc[u]
      /\ \A u \in Threads : pc[u] \in Parked => pc'[u] \in Parked
      /\ IdleIn(pc)' = IdleIn(pc) /\ JoinedIn(pc, batch)' = JoinedIn(pc, batch)
      /\ HeldIn(batch)' = HeldIn(batch)
  BY <1>1, WakeKeeps, Zenon
<1>3. Types'
  BY <1>1, <1>2, Zenon DEF IInv, Types
<1>4. Counted'
  BY <1>1, <1>2, ZenonT(30) DEF IInv, Counted
<1>5. Judged'
  <2>1. "out" \notin Parked /\ "done" \notin Parked
    BY DEF Parked
  <2>2. NoRound' => NoRound
    BY <1>2, <2>1 DEF NoRound, Threads
  <2>3. owner \in Masters \cup {None}
    BY DEF IInv, Types
  <2>4. InRound' <=> InRound
    BY <1>1, <1>2, <2>1, <2>3, ZenonT(30) DEF InRound, Threads
  <2>5. owner # None /\ pc'[owner] = "done" => pc[owner] = "done"
    BY <1>2, <2>1, <2>3 DEF Threads
  <2> QED BY <1>1, <2>2, <2>4, <2>5, ZenonT(30) DEF IInv, Judged, AllTrue
<1> QED BY <1>1, <1>2, <1>3, <1>4, <1>5, ZenonT(30) DEF IInv, Rounds!vars

LEMMA AppendSeq ==
  ASSUME NEW a \in Seq(BOOLEAN), NEW b \in Seq(BOOLEAN)
  PROVE  /\ a \o b \in Seq(BOOLEAN) /\ Len(a \o b) = Len(a) + Len(b)
         /\ AllTrue(a \o b) <=> AllTrue(a) /\ AllTrue(b)
<1> DEFINE k == Len(a)
           n == Len(b)
           c == a \o b
<1>1. k \in Nat /\ n \in Nat /\ DOMAIN a = 1..k /\ DOMAIN b = 1..n
      /\ c \in Seq(BOOLEAN) /\ Len(c) = k + n
  OBVIOUS
<1>2. DOMAIN c = 1..k + n
  BY <1>1
<1>3. (\A i \in 1..k : c[i] = a[i]) /\ \A i \in 1..n : c[k + i] = b[i]
  OBVIOUS
<1> HIDE DEF k, n, c
<1>4. AllTrue(c) => AllTrue(a) /\ AllTrue(b)
  <2>1. (\A i \in 1..k : i \in 1..k + n) /\ \A i \in 1..n : k + i \in 1..k + n
    BY <1>1
  <2> QED BY <1>1, <1>2, <1>3, <2>1, Zenon DEF AllTrue
<1>5. AllTrue(a) /\ AllTrue(b) => AllTrue(c)
  <2>1. \A i \in 1..k + n : i \in 1..k \/ (i - k \in 1..n /\ k + (i - k) = i)
    BY <1>1
  <2> QED BY <1>1, <1>2, <1>3, <2>1, Zenon DEF AllTrue
<1> QED BY <1>1, <1>4, <1>5 DEF k, n, c

LEMMA AddKeeps ==
  ASSUME IInv, NEW m \in Masters, NEW vChecks \in Batches, Add(m, vChecks)
  PROVE  IInv' /\ Rounds!Add
<1>1. /\ pc[m] = "control" /\ queue' = queue \o vChecks /\ nTodo' = nTodo + Len(vChecks)
      /\ added' = added + Len(vChecks)
      /\ failing' = (failing \/ \E i \in DOMAIN vChecks : ~vChecks[i])
      /\ UNCHANGED <<nIdle, nTotal, fAllOk, owner, batch, fOk, verdict>>
  BY DEF Add
<1>2. PICK woken \in SUBSET Waiting(Workers) : pc' = Notified(woken)
  <2>1. PICK w \in (IF Len(vChecks) = 1 THEN OneOf(Workers) ELSE {Waiting(Workers)}) : pc' = Notified(w)
    BY DEF Add
  <2>2. w \in SUBSET Waiting(Workers)
    BY <2>1 DEF OneOf
  <2> QED BY <2>1, <2>2
<1>3. woken \in SUBSET Waiting(Threads)
  BY <1>2, ZenonT(30) DEF Waiting, Threads
<1>4. /\ pc' \in [Threads -> PCs] /\ Placed'
      /\ \A u \in Threads : pc[u] \notin Parked => pc'[u] = pc[u]
      /\ IdleIn(pc)' = IdleIn(pc) /\ JoinedIn(pc, batch)' = JoinedIn(pc, batch)
      /\ HeldIn(batch)' = HeldIn(batch)
  BY <1>1, <1>2, <1>3, WakeKeeps
<1>5. vChecks \in Seq(BOOLEAN) /\ Len(vChecks) \in Nat
  <2>1. PICK n \in 1..MaxChecks : vChecks \in [1..n -> BOOLEAN]
    BY DEF Batches
  <2>2. n \in Nat
    BY CheckQueueAssumption
  <2> QED BY <2>1, <2>2, BooleanSeq
<1>6. /\ queue' \in Seq(BOOLEAN) /\ Len(queue') = Len(queue) + Len(vChecks)
      /\ AllTrue(queue') <=> AllTrue(queue) /\ AllTrue(vChecks)
  BY <1>1, <1>5, AppendSeq DEF IInv, Types
<1>7. (\E i \in DOMAIN vChecks : ~vChecks[i]) <=> ~AllTrue(vChecks)
  <2>1. \A i \in DOMAIN vChecks : vChecks[i] \in BOOLEAN
    BY <1>5
  <2> QED BY <2>1, Zenon DEF AllTrue
<1>8. failing' \in BOOLEAN /\ (failing' <=> failing \/ ~AllTrue(vChecks))
      /\ failing' \in {failing, TRUE}
  <2>1. failing \in BOOLEAN
    BY ZenonT(30) DEF IInv, Types
  <2> QED BY <1>1, <1>7, <2>1, Zenon
<1>9. Types'
  BY <1>1, <1>4, <1>5, <1>6, <1>8 DEF IInv, Types
<1>10. Counted'
  <2>1. Cardinality(HeldIn(batch)) \in Nat /\ Len(queue) \in Nat
    BY FS_CardinalityType DEF IInv, Counted, Types
  <2>2. nTodo' = Len(queue') + Cardinality(HeldIn(batch))
    BY <1>1, <1>5, <1>6, <2>1 DEF IInv, Counted
  <2> QED BY <1>1, <1>4, <2>2, ZenonT(30) DEF IInv, Counted
<1>11. owner = m /\ owner # None /\ pc'[m] = "control" /\ InRound
  <2>1. m \in Threads /\ "control" \notin Parked /\ m # None
    BY CheckQueueAssumption, ZenonT(30) DEF Threads, Parked
  <2>2. owner = m
    BY <1>1, ZenonT(30) DEF IInv, Placed
  <2> QED BY <1>1, <1>4, <2>1, <2>2 DEF InRound
<1>12. Judged'
  <2>1. ~NoRound'
    BY <1>11 DEF NoRound
  <2>2. pc'[owner'] # "done"
    BY <1>1, <1>11, ZenonT(30)
  <2>3. failing <=> ~(fAllOk /\ AllTrue(queue) /\ \A u \in Threads : AllTrue(batch[u]))
    BY <1>11, ZenonT(30) DEF IInv, Judged
  <2>4. failing' <=> ~(fAllOk' /\ AllTrue(queue') /\ \A u \in Threads : AllTrue(batch'[u]))
    BY <1>1, <1>6, <1>8, <2>3
  <2>5. verdict' = None
    BY <1>1, <1>11, ZenonT(30) DEF IInv, Judged
  <2>6. \A u \in Threads : batch'[u] # <<>> /\ ~fOk'[u] => ~fAllOk'
    BY <1>1 DEF IInv, Judged
  <2> QED BY <2>1, <2>2, <2>4, <2>5, <2>6, ZenonT(30) DEF Judged, AllTrue
<1>13. Rounds!Add
  <2>1. verdict = None
    BY <1>11 DEF IInv, Judged
  <2> QED BY <1>1, <1>8, <1>11, <2>1, Zenon DEF Rounds!Add
<1> QED BY <1>4, <1>9, <1>10, <1>12, <1>13, ZenonT(30) DEF IInv

\* A master moves, outside the pool or into it, holding nothing.
LEMMA MasterMoves ==
  ASSUME IInv, NEW m \in Masters, NEW x \in PCs \ Parked, pc[m] \notin Parked \cup {"loop"},
         pc' = [pc EXCEPT ![m] = x],
         UNCHANGED <<queue, nIdle, nTotal, fAllOk, nTodo, batch, fOk>>
  PROVE  /\ m \in Threads /\ pc' \in [Threads -> PCs] /\ Counted'
         /\ pc'[m] = x /\ \A u \in Threads \ {m} : pc'[u] = pc[u]
         /\ \A u \in Threads : batch'[u] # <<>> => pc'[u] = "loop"
         /\ \A w \in Workers : pc'[w] \in {"loop"} \cup Parked
<1>1. m \in Threads /\ pc \in [Threads -> PCs] /\ m \notin Workers
  BY CheckQueueAssumption DEF IInv, Types, Threads
<1>2. pc' \in [Threads -> PCs] /\ pc'[m] = x /\ \A u \in Threads \ {m} : pc'[u] = pc[u]
  BY <1>1, ZenonT(30)
<1>3. batch[m] = <<>>
  BY <1>1, ZenonT(30) DEF IInv, Placed
<1>4. /\ IdleIn(pc)' = IdleIn(pc) /\ JoinedIn(pc, batch)' = JoinedIn(pc, batch)
      /\ HeldIn(batch)' = HeldIn(batch)
  BY <1>2, <1>3, ZenonT(30) DEF IdleIn, JoinedIn, HeldIn
<1>5. Counted'
  BY <1>4, ZenonT(30) DEF IInv, Counted
<1>6. \A u \in Threads : batch'[u] # <<>> => pc'[u] = "loop"
  BY <1>2, <1>3, ZenonT(30) DEF IInv, Placed
<1>7. \A w \in Workers : pc'[w] \in {"loop"} \cup Parked
  BY <1>1, <1>2, ZenonT(30) DEF IInv, Placed, Threads
<1> QED BY <1>1, <1>2, <1>5, <1>6, <1>7, ZenonT(30)

LEMMA BeginControlKeeps ==
  ASSUME IInv, NEW m \in Masters, BeginControl(m)
  PROVE  IInv' /\ Rounds!Begin(m)
<1>1. /\ pc[m] = "out" /\ owner = None /\ owner' = m /\ verdict' = None /\ failing' = FALSE /\ added' = 0
      /\ pc' = [pc EXCEPT ![m] = "control"]
      /\ UNCHANGED <<queue, nIdle, nTotal, fAllOk, nTodo, batch, fOk>>
  BY DEF BeginControl, counters
<1>2. "control" \in PCs \ Parked /\ "out" \notin Parked \cup {"loop"}
  BY DEF PCs, Parked
<1>3. /\ m \in Threads /\ pc' \in [Threads -> PCs] /\ Counted'
      /\ pc'[m] = "control" /\ \A u \in Threads \ {m} : pc'[u] = pc[u]
      /\ \A u \in Threads : batch'[u] # <<>> => pc'[u] = "loop"
      /\ \A w \in Workers : pc'[w] \in {"loop"} \cup Parked
  BY <1>1, <1>2, MasterMoves, Zenon
<1>4. \A n \in Masters : pc[n] = "out"
  BY <1>1, CheckQueueAssumption, ZenonT(30) DEF IInv, Placed
<1>5. Placed'
  <2>1. \A n \in Masters : (pc'[n] = "out") <=> (owner' # n)
    BY <1>1, <1>3, <1>4 DEF Threads
  <2> QED BY <1>3, <2>1, ZenonT(30) DEF Placed
<1>6. Types'
  BY <1>1, <1>3, Zenon DEF IInv, Types
<1>7. nTodo = 0 /\ fAllOk
  BY <1>4 DEF NoRound, IInv, Judged
<1>8. queue = <<>> /\ \A u \in Threads : batch[u] = <<>>
  BY <1>3, <1>7, WithoutThread, Zenon
<1>9. Judged'
  <2>1. ~NoRound'
    BY <1>3, ZenonT(30) DEF NoRound
  <2>2. pc'[owner'] # "done"
    BY <1>1, <1>3, ZenonT(30)
  <2>3. AllTrue(queue') /\ \A u \in Threads : AllTrue(batch'[u])
    BY <1>1, <1>8 DEF AllTrue
  <2> QED BY <1>1, <1>7, <1>8, <2>1, <2>2, <2>3, ZenonT(30) DEF Judged, AllTrue
<1> QED BY <1>1, <1>3, <1>5, <1>6, <1>9, ZenonT(30) DEF IInv, Rounds!Begin

LEMMA WaitKeeps ==
  ASSUME IInv, NEW m \in Masters, Wait(m)
  PROVE  IInv' /\ UNCHANGED Rounds!vars
<1>1. /\ pc[m] = "control" /\ pc' = [pc EXCEPT ![m] = "loop"]
      /\ UNCHANGED <<queue, nIdle, nTotal, fAllOk, nTodo, owner, batch, fOk, verdict, failing, added>>
  BY DEF Wait, counters, history
<1>2. "loop" \in PCs \ Parked /\ "control" \notin Parked \cup {"loop"}
  BY DEF PCs, Parked
<1>3. /\ m \in Threads /\ pc' \in [Threads -> PCs] /\ Counted'
      /\ pc'[m] = "loop" /\ \A u \in Threads \ {m} : pc'[u] = pc[u]
      /\ \A u \in Threads : batch'[u] # <<>> => pc'[u] = "loop"
      /\ \A w \in Workers : pc'[w] \in {"loop"} \cup Parked
  BY <1>1, <1>2, MasterMoves, Zenon
<1>4. owner = m /\ m # None
  BY <1>1, CheckQueueAssumption DEF IInv, Placed
<1>5. Placed'
  <2>1. \A n \in Masters : (pc'[n] = "out") <=> (owner' # n)
    BY <1>1, <1>3, <1>4 DEF IInv, Placed, Threads
  <2> QED BY <1>3, <2>1, ZenonT(30) DEF Placed
<1>6. Types'
  BY <1>1, <1>3, ZenonT(30) DEF IInv, Types
<1>7. Judged'
  <2>1. ~NoRound' /\ InRound /\ pc'[owner'] # "done"
    BY <1>1, <1>3, <1>4, ZenonT(30) DEF NoRound, InRound
  <2> QED BY <1>1, <2>1 DEF IInv, Judged, AllTrue
<1> QED BY <1>1, <1>3, <1>5, <1>6, <1>7, ZenonT(30) DEF IInv, Rounds!vars

LEMMA EndControlKeeps ==
  ASSUME IInv, NEW m \in Masters, EndControl(m)
  PROVE  IInv' /\ Rounds!End
<1>1. /\ pc[m] = "done" /\ owner' = None /\ pc' = [pc EXCEPT ![m] = "out"]
      /\ UNCHANGED <<queue, nIdle, nTotal, fAllOk, nTodo, batch, fOk, verdict, failing, added>>
  BY DEF EndControl, counters, history
<1>2. "out" \in PCs \ Parked /\ "done" \notin Parked \cup {"loop"}
  BY DEF PCs, Parked
<1>3. /\ m \in Threads /\ pc' \in [Threads -> PCs] /\ Counted'
      /\ pc'[m] = "out" /\ \A u \in Threads \ {m} : pc'[u] = pc[u]
      /\ \A u \in Threads : batch'[u] # <<>> => pc'[u] = "loop"
      /\ \A w \in Workers : pc'[w] \in {"loop"} \cup Parked
  BY <1>1, <1>2, MasterMoves, Zenon
<1>4. owner = m /\ m # None /\ verdict \in BOOLEAN
  <2>1. owner = m /\ m # None
    BY <1>1, CheckQueueAssumption, ZenonT(30) DEF IInv, Placed
  <2> QED BY <1>1, <2>1, ZenonT(30) DEF IInv, Judged
<1>5. \A n \in Masters \ {m} : pc[n] = "out"
  BY <1>4, ZenonT(30) DEF IInv, Placed
<1>6. Placed'
  <2>1. \A n \in Masters : (pc'[n] = "out") <=> (owner' # n)
    BY <1>1, <1>3, <1>5, CheckQueueAssumption, ZenonT(30) DEF Threads
  <2> QED BY <1>3, <2>1 DEF Placed
<1>7. Types'
  BY <1>1, <1>3, ZenonT(30) DEF IInv, Types
<1>8. Judged'
  <2>1. NoRound /\ ~InRound' /\ owner' = None
    BY <1>1, <1>5 DEF NoRound, InRound
  <2> QED BY <1>1, <2>1, ZenonT(30) DEF IInv, Judged
<1>9. Rounds!End
  <2>1. verdict # None
    BY <1>4, CheckQueueAssumption, ZenonT(30)
  <2> QED BY <1>1, <1>4, <2>1, ZenonT(30) DEF Rounds!End
<1> QED BY <1>3, <1>6, <1>7, <1>8, <1>9, ZenonT(30) DEF IInv

LEMMA StepKeeps ==
  ASSUME IInv, [Next]_vars
  PROVE  IInv' /\ [Rounds!Next]_(Rounds!vars)
<1>1. ASSUME NEW t \in Threads, Thread(t) \/ SpuriousWakeup(t)
      PROVE  IInv' /\ [Rounds!Next]_(Rounds!vars)
  BY <1>1, FirstSectionKeeps, NextSectionKeeps, ResumeKeeps, SpuriousKeeps, ZenonT(30) DEF Thread
<1>2. ASSUME NEW m \in Masters, BeginControl(m)
      PROVE  IInv' /\ [Rounds!Next]_(Rounds!vars)
  BY <1>2, BeginControlKeeps DEF Rounds!Next
<1>3. ASSUME NEW m \in Masters, Wait(m)
      PROVE  IInv' /\ [Rounds!Next]_(Rounds!vars)
  BY <1>3, WaitKeeps
<1>4. ASSUME NEW m \in Masters, EndControl(m)
      PROVE  IInv' /\ [Rounds!Next]_(Rounds!vars)
  BY <1>4, EndControlKeeps DEF Rounds!Next
<1>5. ASSUME NEW m \in Masters, NEW vChecks \in Batches, Add(m, vChecks)
      PROVE  IInv' /\ [Rounds!Next]_(Rounds!vars)
  BY <1>5, AddKeeps, ZenonT(30) DEF Rounds!Next
<1>6. CASE UNCHANGED vars
  BY <1>6 DEF vars, counters, history, IInv, Types, Counted, Placed, Judged, NoRound, InRound,
              IdleIn, JoinedIn, HeldIn, AllTrue, Rounds!vars
<1> QED BY <1>1, <1>2, <1>3, <1>4, <1>5, <1>6, ZenonT(30) DEF Next

LEMMA InitHolds ==
  ASSUME Init
  PROVE  IInv /\ Rounds!Init
<1>1. Types
  <2>1. <<>> \in Seq(BOOLEAN) /\ "loop" \in PCs /\ "out" \in PCs
    BY DEF PCs
  <2>2. queue \in Seq(BOOLEAN) /\ batch \in [Threads -> Seq(BOOLEAN)]
    BY <2>1 DEF Init
  <2>3. pc \in [Threads -> PCs] /\ fOk \in [Threads -> BOOLEAN]
    BY <2>1, ZenonT(30) DEF Init
  <2> QED BY <2>2, <2>3, Zenon DEF Init, Types
<1>2. IdleIn(pc) = {} /\ JoinedIn(pc, batch) = {} /\ HeldIn(batch) = {}
  <2>1. \A u \in Threads : pc[u] \notin Parked /\ batch[u] = <<>>
    BY DEF Init, Parked
  <2> QED BY <2>1 DEF IdleIn, JoinedIn, HeldIn
<1>3. Counted
  <2>1. IsFiniteSet({}) /\ Cardinality({}) = 0 /\ Len(<<>>) = 0
    BY FS_EmptySet
  <2>2. nIdle = 0 /\ nTotal = 0 /\ nTodo = 0 /\ queue = <<>>
    BY ZenonT(30) DEF Init
  <2> QED BY <1>2, <2>1, <2>2 DEF Counted
<1>4. Placed
  BY CheckQueueAssumption DEF Init, Placed, Threads
<1>5. Judged
  BY DEF Init, Judged, InRound
<1> QED BY <1>1, <1>3, <1>4, <1>5 DEF IInv, Init, Rounds!Init

\* For any number of threads, checks and rounds: when no control is waiting, no
\* check of a round that is over is queued or held by a thread that will
\* evaluate it, and the queue starts the next round as new (checkqueue.h:66-124).
THEOREM NothingOutlives == Spec => []NoCheckOutlivesControl
<1>1. Init => IInv
  BY InitHolds
<1>2. IInv /\ [Next]_vars => IInv'
  BY StepKeeps, ZenonT(30)
<1>3. IInv => NoCheckOutlivesControl
  <2> SUFFICES ASSUME IInv, NoRound
               PROVE  queue = <<>> /\ nTodo = 0 /\ fAllOk /\ \A t \in Threads : batch[t] = <<>>
    BY DEF NoCheckOutlivesControl, NoRound
  <2>1. nTodo = 0 /\ fAllOk
    BY DEF IInv, Judged
  <2>2. \A t \in Threads : batch[t] = <<>>
    BY <2>1, WithoutThread, Zenon
  <2>3. queue = <<>>
    <3>1. Len(queue) \in Nat /\ Cardinality(HeldIn(batch)) \in Nat
      BY FS_CardinalityType DEF IInv, Types, Counted
    <3>2. Len(queue) = 0
      BY <2>1, <3>1 DEF IInv, Counted
    <3> QED BY <3>2 DEF IInv, Types
  <2> QED BY <2>1, <2>2, <2>3, ZenonT(30)
<1> QED BY <1>1, <1>2, <1>3, PTL DEF Spec

\* The queue implements rounds: one owner at a time, and what Wait returns is
\* whether all the checks of its own round pass (checkqueue.h:138-142).  That
\* every round ends is left to the model checker.
THEOREM RoundsAreSafe == Spec => Rounds!Init /\ [][Rounds!Next]_(Rounds!vars)
<1>1. Init => IInv /\ Rounds!Init
  BY InitHolds
<1>2. IInv /\ [Next]_vars => IInv' /\ [Rounds!Next]_(Rounds!vars)
  BY StepKeeps
<1> QED BY <1>1, <1>2, PTL DEF Spec

-----------------------------------------------------------------------------
\* The stack of caches.

\* Leaves that name no prover: SMT, then Zenon, with time to spare.
USE SMTT(20), ZenonT(30)

\* An outpoint that is not in the map carries no flag.
StackBlank(c) == \A o \in OutPoints : ~c[o].in => ~c[o].dirty /\ ~c[o].fresh

\* The flags of cache c over base are as coins.h says.
StackSound(c, base) == FreshOver(c, base) /\ CleanOver(c, base) /\ FreshIsUnspent(c) /\ StackBlank(c)

\* What a layer answers is a UTXO map.
LEMMA StackLookType ==
    ASSUME NEW c \in Caches, NEW base \in UtxoMaps
    PROVE  Look(c, base) \in UtxoMaps
BY DEF Look, Caches, UtxoMaps, Entry

\* An empty cache shows its base and has no flag to get wrong.
LEMMA StackEmptyCacheFacts ==
    ASSUME NEW base \in UtxoMaps
    PROVE  /\ EmptyCache \in Caches
           /\ Look(EmptyCache, base) = base
           /\ StackSound(EmptyCache, base)
<1>1. EmptyCache \in Caches
  BY DEF EmptyCache, NoEntry, Caches, Entry, MaybeCoin
<1>2. Look(EmptyCache, base) = base
  BY ZenonT(30) DEF EmptyCache, NoEntry, Look, UtxoMaps
<1>3. StackSound(EmptyCache, base)
  BY DEF EmptyCache, NoEntry, StackSound, FreshOver, CleanOver, FreshIsUnspent, StackBlank
<1> QED BY <1>1, <1>2, <1>3, ZenonT(30)

\* Fetching a coin shows in no answer and keeps the flags sound.
LEMMA StackFetchFacts ==
    ASSUME NEW c \in Caches, NEW base \in UtxoMaps, NEW o \in OutPoints,
           StackSound(c, base)
    PROVE  /\ FetchCoin(c, base, o) \in Caches
           /\ Look(FetchCoin(c, base, o), base) = Look(c, base)
           /\ StackSound(FetchCoin(c, base, o), base)
<1>1. FetchCoin(c, base, o) \in Caches
  BY ZenonT(30) DEF FetchCoin, Caches, UtxoMaps, Entry
<1>2. Look(FetchCoin(c, base, o), base) = Look(c, base)
  BY ZenonT(30) DEF FetchCoin, Look, Caches, UtxoMaps, Entry
<1>3. StackSound(FetchCoin(c, base, o), base)
  BY DEF FetchCoin, StackSound, FreshOver, CleanOver, FreshIsUnspent, StackBlank, Caches, Entry
<1> QED BY <1>1, <1>2, <1>3, ZenonT(30)

\* AddCoin sets one coin.  With possible_overwrite = FALSE it needs the caller's
\* word that the coin is not there, and then it neither throws nor marks FRESH
\* a coin the base has.
LEMMA StackAddCoinFacts ==
    ASSUME NEW c \in Caches, NEW base \in UtxoMaps, NEW o \in OutPoints,
           NEW coin \in Coins, NEW overwrite \in BOOLEAN,
           StackSound(c, base), ~overwrite => Look(c, base)[o] = Spent
    PROVE  /\ AddCoin(c, o, coin, overwrite) \in Caches
           /\ Look(AddCoin(c, o, coin, overwrite), base) =
                IF coin \in Unspendable THEN Look(c, base)
                ELSE [Look(c, base) EXCEPT ![o] = coin]
           /\ StackSound(AddCoin(c, o, coin, overwrite), base)
           /\ ~AddCoinThrows(c, o, coin, overwrite)
<1>1. AddCoin(c, o, coin, overwrite) \in Caches
  BY ZenonT(30) DEF AddCoin, Caches, Entry, MaybeCoin, Spendable
<1>2. Look(AddCoin(c, o, coin, overwrite), base) =
        IF coin \in Unspendable THEN Look(c, base)
        ELSE [Look(c, base) EXCEPT ![o] = coin]
  BY ZenonT(30) DEF AddCoin, Look, Caches, Entry
<1>3. StackSound(AddCoin(c, o, coin, overwrite), base)
  BY SpentAssumption, ZenonT(30) DEF AddCoin, Look, StackSound, FreshOver, CleanOver,
           FreshIsUnspent, StackBlank, Caches, Entry, NoEntry
<1>4. ~AddCoinThrows(c, o, coin, overwrite)
  BY ZenonT(30) DEF AddCoinThrows, Look
<1> QED BY <1>1, <1>2, <1>3, <1>4, ZenonT(30)

\* SpendCoin makes the coin spent, whether it forgets the entry or marks it.
LEMMA StackSpendCoinFacts ==
    ASSUME NEW c \in Caches, NEW base \in UtxoMaps, NEW o \in OutPoints,
           StackSound(c, base)
    PROVE  /\ SpendCoin(c, base, o) \in Caches
           /\ Look(SpendCoin(c, base, o), base) = [Look(c, base) EXCEPT ![o] = Spent]
           /\ StackSound(SpendCoin(c, base, o), base)
<1> DEFINE f == FetchCoin(c, base, o)
<1>1. f \in Caches /\ Look(f, base) = Look(c, base) /\ StackSound(f, base)
  BY StackFetchFacts, ZenonT(30)
<1>2. ~f[o].in => f = c /\ Look(c, base)[o] = Spent
  BY DEF FetchCoin, Look, Caches, Entry
<1>3. SpendCoin(c, base, o) = IF ~f[o].in THEN c
                              ELSE IF f[o].fresh THEN [f EXCEPT ![o] = NoEntry]
                              ELSE [f EXCEPT ![o] = SpentEntry]
  BY ZenonT(30) DEF SpendCoin
<1> HIDE DEF f
<1>4. SpendCoin(c, base, o) \in Caches
  BY <1>1, <1>3 DEF Caches, Entry, MaybeCoin, NoEntry, SpentEntry
<1>5. Look(SpendCoin(c, base, o), base) = [Look(c, base) EXCEPT ![o] = Spent]
  <2> DEFINE L == Look(c, base)
             s == SpendCoin(c, base, o)
  <2>1. L \in UtxoMaps
    BY StackLookType, ZenonT(30)
  <2>2. \A p \in OutPoints : L[p] = IF f[p].in THEN f[p].coin ELSE base[p]
    BY <1>1 DEF Look
  <2>3. \A p \in OutPoints : (IF s[p].in THEN s[p].coin ELSE base[p]) =
                             IF p = o THEN Spent ELSE L[p]
    <3>0. /\ ~f[o].in => L[o] = Spent /\ s = f
          /\ f[o].in /\ f[o].fresh => s = [f EXCEPT ![o] = NoEntry] /\ base[o] = Spent
          /\ f[o].in /\ ~f[o].fresh => s = [f EXCEPT ![o] = SpentEntry]
      BY <1>1, <1>2, <1>3 DEF StackSound, FreshOver
    <3> HIDE DEF L, s
    <3>1. CASE ~f[o].in
      BY <2>2, <3>0, <3>1, ZenonT(30)
    <3>2. CASE f[o].in /\ f[o].fresh
      <4>1. \A p \in OutPoints : s[p] = IF p = o THEN NoEntry ELSE f[p]
        BY <1>1, <3>0, <3>2, ZenonT(30) DEF Caches
      <4>2. ~s[o].in /\ base[o] = Spent
        BY <3>0, <3>2, <4>1 DEF NoEntry
      <4>3. \A p \in OutPoints \ {o} : s[p] = f[p]
        BY <4>1, ZenonT(30)
      <4> QED BY <2>2, <4>2, <4>3, ZenonT(30)
    <3>3. CASE f[o].in /\ ~f[o].fresh
      <4>1. \A p \in OutPoints : s[p] = IF p = o THEN SpentEntry ELSE f[p]
        BY <1>1, <3>0, <3>3, ZenonT(30) DEF Caches
      <4>2. s[o].in /\ s[o].coin = Spent
        BY <4>1 DEF SpentEntry
      <4>3. \A p \in OutPoints \ {o} : s[p] = f[p]
        BY <4>1, ZenonT(30)
      <4> QED BY <2>2, <4>2, <4>3, ZenonT(30)
    <3> QED BY <3>1, <3>2, <3>3, ZenonT(30)
  <2>4. Look(s, base) = [p \in OutPoints |-> IF p = o THEN Spent ELSE L[p]]
    BY <2>3 DEF Look
  <2> QED BY <2>1, <2>4, ZenonT(30) DEF UtxoMaps
<1>6. StackSound(SpendCoin(c, base, o), base)
  <2> DEFINE s == SpendCoin(c, base, o)
  <2>1. ASSUME NEW p \in OutPoints, p # o PROVE s[p] = f[p]
    BY <1>1, <1>2, <1>3, <2>1 DEF Caches
  <2>2. s = f \/ s[o] = NoEntry \/ (s[o] = SpentEntry /\ ~f[o].fresh)
    <3>1. CASE ~f[o].in
      BY <1>2, <1>3, <3>1, ZenonT(30)
    <3>2. CASE f[o].in
      BY <1>1, <1>3, <3>2 DEF Caches
    <3> QED BY <3>1, <3>2, ZenonT(30)
  <2> HIDE DEF s, f
  <2>e. ~NoEntry.in /\ ~NoEntry.dirty /\ ~NoEntry.fresh /\ SpentEntry.in /\ SpentEntry.dirty /\ ~SpentEntry.fresh
    BY ZenonT(30) DEF NoEntry, SpentEntry
  <2>3. StackSound(s, base)
    <3>1. ASSUME NEW p \in OutPoints
          PROVE  /\ s[p].in /\ s[p].fresh => base[p] = Spent
                 /\ s[p].in /\ ~s[p].dirty => s[p].coin = base[p]
                 /\ s[p].in /\ s[p].fresh => s[p].dirty /\ s[p].coin # Spent
                 /\ ~s[p].in => ~s[p].dirty /\ ~s[p].fresh
      <4>1. CASE s[p] = f[p]
        BY <1>1, <4>1, ZenonT(30)
        DEF StackSound, FreshOver, CleanOver, FreshIsUnspent, StackBlank
      <4>2. CASE s[p] = NoEntry
        BY <2>e, <4>2, ZenonT(30)
      <4>3. CASE s[p] = SpentEntry
        BY <2>e, <4>3, ZenonT(30)
      <4> QED BY <2>1, <2>2, <4>1, <4>2, <4>3, ZenonT(30)
    <3> QED BY <3>1, ZenonT(30)
      DEF StackSound, FreshOver, CleanOver, FreshIsUnspent, StackBlank
  <2> QED BY <2>3, ZenonT(30) DEF s
<1> QED BY <1>4, <1>5, <1>6

\* A flush into a cache does not throw, and the parent then answers as the
\* child did: what the child forgot or skipped, the parent had right.
LEMMA StackBatchWriteFacts ==
    ASSUME NEW parent \in Caches, NEW child \in Caches, NEW base \in UtxoMaps,
           StackSound(parent, base), StackSound(child, Look(parent, base))
    PROVE  /\ BatchWrite(parent, child) \in Caches
           /\ ~BatchWriteThrows(parent, child)
           /\ Look(BatchWrite(parent, child), base) = Look(child, Look(parent, base))
           /\ StackSound(BatchWrite(parent, child), base)
<1>1. \A o \in OutPoints : MergeEntry(parent[o], child[o]) \in Entry
  BY ZenonT(30) DEF MergeEntry, NoEntry, Caches, Entry, MaybeCoin
<1>2. BatchWrite(parent, child) \in Caches
  BY <1>1 DEF BatchWrite, Caches
<1>3. ~BatchWriteThrows(parent, child)
  BY ZenonT(30) DEF BatchWriteThrows, MergeThrows, StackSound, FreshOver, Look
<1>4. Look(BatchWrite(parent, child), base) = Look(child, Look(parent, base))
  BY DEF BatchWrite, MergeEntry, NoEntry, Look, Caches, Entry, StackSound, FreshOver,
         CleanOver, FreshIsUnspent, StackBlank
<1>5. StackSound(BatchWrite(parent, child), base)
  BY DEF BatchWrite, MergeEntry, NoEntry, Look, Caches, Entry, StackSound, FreshOver,
         CleanOver, FreshIsUnspent, StackBlank
<1> QED BY <1>2, <1>3, <1>4, <1>5

\* A flush into the database leaves there what the cache answered.
LEMMA StackDBWriteFacts ==
    ASSUME NEW c \in Caches, NEW base \in UtxoMaps, StackSound(c, base)
    PROVE  DBWrite(base, c) = Look(c, base)
BY DEF DBWrite, Look, StackSound, CleanOver, Caches, Entry, UtxoMaps

\* Uncache drops only what the base answers as well.
LEMMA StackUncacheFacts ==
    ASSUME NEW c \in Caches, NEW base \in UtxoMaps, NEW o \in OutPoints,
           StackSound(c, base)
    PROVE  /\ Uncache(c, o) \in Caches
           /\ Look(Uncache(c, o), base) = Look(c, base)
           /\ StackSound(Uncache(c, o), base)
<1>1. Uncache(c, o) \in Caches
  BY ZenonT(30) DEF Uncache, NoEntry, Caches, Entry, MaybeCoin
<1>2. Look(Uncache(c, o), base) = Look(c, base)
  BY DEF Uncache, NoEntry, Look, StackSound, CleanOver, Caches, Entry
<1>3. StackSound(Uncache(c, o), base)
  BY ZenonT(30) DEF Uncache, NoEntry, StackSound, FreshOver, CleanOver,
           FreshIsUnspent, StackBlank, Caches, Entry
<1> QED BY <1>1, <1>2, <1>3, ZenonT(30)

-----------------------------------------------------------------------------
\* FlagsSound and NoSpentFresh hold one cache at a time; what makes them
\* inductive is that an absent entry has no flags, and that no view outlives
\* its scope, so a flush of CoinsTip never pulls the base from under one.
StackIInv ==
    /\ CoinsTypeOK
    /\ StackSound(tip, db)
    /\ StackSound(view, TipCoins)
    /\ ~open => view = EmptyCache
    /\ ~thrown

LEMMA StackInitIInv == InitCoinsCache => StackIInv
<1> SUFFICES ASSUME InitCoinsCache PROVE StackIInv
  OBVIOUS
<1>1. db \in UtxoMaps
  BY DEF InitCoinsCache, UtxoMaps, MaybeCoin
<1>2. TipCoins \in UtxoMaps
  BY <1>1, StackEmptyCacheFacts, ZenonT(30) DEF InitCoinsCache, TipCoins
<1> QED BY <1>1, <1>2, StackEmptyCacheFacts, ZenonT(30) DEF InitCoinsCache, StackIInv, CoinsTypeOK

\* A miss in the view fills CoinsTip, and CoinsTip answers as before.
LEMMA StackTipFetchFacts ==
    ASSUME StackIInv, NEW o \in OutPoints
    PROVE  /\ TipAfterFetch(o) \in Caches
           /\ Look(TipAfterFetch(o), db) = TipCoins
           /\ StackSound(TipAfterFetch(o), db)
BY StackFetchFacts DEF StackIInv, CoinsTypeOK, TipAfterFetch, TipCoins

\* Every call keeps the invariant.
LEMMA StackNextIInv == StackIInv /\ [CoinsNext]_coinsVars => StackIInv'
<1> SUFFICES ASSUME StackIInv, [CoinsNext]_coinsVars PROVE StackIInv'
  OBVIOUS
<1> USE DEF StackIInv, CoinsTypeOK
<1>t. TipCoins \in UtxoMaps
  BY StackLookType, ZenonT(30) DEF TipCoins
<1>1. CASE OpenView
  BY <1>1, <1>t, StackEmptyCacheFacts DEF OpenView, TipCoins
<1>2. CASE CloseView
  BY <1>2, <1>t, StackEmptyCacheFacts, ZenonT(30) DEF CloseView, TipCoins
<1>3. CASE FlushView
  <2>1. /\ BatchWrite(tip, view) \in Caches
        /\ ~BatchWriteThrows(tip, view)
        /\ StackSound(BatchWrite(tip, view), db)
    BY StackBatchWriteFacts DEF TipCoins
  <2>2. tip' = BatchWrite(tip, view) /\ view' = EmptyCache /\ UNCHANGED <<db, open, thrown>>
    BY <1>3, <2>1, ZenonT(30) DEF FlushView
  <2>3. TipCoins' \in UtxoMaps
    BY <2>1, <2>2, StackLookType DEF TipCoins
  <2> QED BY <2>1, <2>2, <2>3, StackEmptyCacheFacts, ZenonT(30)
<1>4. CASE FlushTip
  <2>1. db' = TipCoins /\ tip' = EmptyCache /\ view' = EmptyCache /\ UNCHANGED <<open, thrown>>
    BY <1>4, StackDBWriteFacts, ZenonT(30) DEF FlushTip, TipCoins
  <2>2. TipCoins' = db'
    BY <1>t, <2>1, StackEmptyCacheFacts, ZenonT(30) DEF TipCoins
  <2> QED BY <1>t, <2>1, <2>2, StackEmptyCacheFacts, ZenonT(30)
<1>5. CASE UNCHANGED coinsVars
  BY <1>5, ZenonT(30) DEF coinsVars, TipCoins
<1>6. ASSUME NEW o \in OutPoints, ReadTip(o) PROVE StackIInv'
  BY <1>6, StackFetchFacts DEF ReadTip, TipCoins
<1>7. ASSUME NEW o \in OutPoints, ReadView(o) PROVE StackIInv'
  BY <1>7, <1>t, StackFetchFacts, StackTipFetchFacts, ZenonT(30) DEF ReadView, TipCoins
<1>8. ASSUME NEW o \in OutPoints, Spend(o) PROVE StackIInv'
  BY <1>8, <1>t, StackSpendCoinFacts, StackTipFetchFacts, ZenonT(30) DEF Spend, TipCoins
<1>9. ASSUME NEW o \in OutPoints, UncacheTip(o) PROVE StackIInv'
  BY <1>9, StackUncacheFacts, ZenonT(30) DEF UncacheTip, TipCoins
<1>10. ASSUME NEW o \in OutPoints, NEW coin \in Coins, AddNewCoin(o, coin) PROVE StackIInv'
  <2> DEFINE f == FetchCoin(view, TipCoins, o)
  <2>1. f \in Caches /\ Look(f, TipCoins) = ViewCoins /\ StackSound(f, TipCoins)
    BY <1>t, StackFetchFacts, ZenonT(30) DEF ViewCoins
  <2>2. Look(f, TipCoins)[o] = Spent
    BY <1>10, <2>1 DEF AddNewCoin, HaveCoin, ViewCoins
  <2>3. /\ AddCoin(f, o, coin, FALSE) \in Caches
        /\ StackSound(AddCoin(f, o, coin, FALSE), TipCoins)
        /\ ~AddCoinThrows(f, o, coin, FALSE)
    BY <1>t, <2>1, <2>2, StackAddCoinFacts, ZenonT(30)
  <2>4. TipCoins' = TipCoins
    BY <1>10, StackTipFetchFacts, ZenonT(30) DEF AddNewCoin, TipCoins
  <2> QED BY <1>10, <2>3, <2>4, StackTipFetchFacts, ZenonT(30) DEF AddNewCoin
<1>11. ASSUME NEW o \in OutPoints, NEW coin \in Coins, AddCoinbase(o, coin) PROVE StackIInv'
  BY <1>11, <1>t, StackAddCoinFacts, ZenonT(30) DEF AddCoinbase, TipCoins
<1>12. ASSUME NEW o \in OutPoints, NEW coin \in Coins, AddCheckedCoin(o, coin) PROVE StackIInv'
  <2> DEFINE f == FetchCoin(view, TipCoins, o)
             ow == HaveCoin(view, TipCoins, o)
  <2>1. f \in Caches /\ Look(f, TipCoins) = ViewCoins /\ StackSound(f, TipCoins)
    BY <1>t, StackFetchFacts DEF ViewCoins
  <2>2. ow \in BOOLEAN /\ (~ow => Look(f, TipCoins)[o] = Spent)
    BY <2>1, ZenonT(30) DEF HaveCoin, ViewCoins
  <2>3. /\ AddCoin(f, o, coin, ow) \in Caches
        /\ StackSound(AddCoin(f, o, coin, ow), TipCoins)
        /\ ~AddCoinThrows(f, o, coin, ow)
    <3> HIDE DEF f, ow, StackIInv
    <3> QED BY <1>t, <2>1, <2>2, StackAddCoinFacts
  <2>4. TipCoins' = TipCoins
    BY <1>12, StackTipFetchFacts DEF AddCheckedCoin, TipCoins
  <2> QED BY <1>12, <2>3, <2>4, StackTipFetchFacts, ZenonT(30) DEF AddCheckedCoin
<1> QED
  BY <1>1, <1>2, <1>3, <1>4, <1>5, <1>6, <1>7, <1>8, <1>9, <1>10, <1>11, <1>12, ZenonT(30) DEF CoinsNext

\* The invariant holds throughout.
THEOREM StackInvariance == CoinsSpec => []StackIInv
BY StackInitIInv, StackNextIInv, PTL DEF CoinsSpec

\* Every cache of the stack holds entries and every map coins.
THEOREM StackTypeCorrect == CoinsSpec => []CoinsTypeOK
BY StackInvariance, PTL DEF StackIInv

\* FRESH and DIRTY mean in every reachable state what coins.h says of them.
THEOREM StackFlagsAreSound == CoinsSpec => []FlagsSound
<1>1. StackIInv => FlagsSound
  BY ZenonT(30) DEF StackIInv, FlagsSound, StackSound
<1> QED BY <1>1, StackInvariance, PTL

\* No FRESH entry is spent or clean.
THEOREM StackFreshIsNeverSpent == CoinsSpec => []NoSpentFresh
<1>1. StackIInv => NoSpentFresh
  BY DEF StackIInv, NoSpentFresh, StackSound
<1> QED BY <1>1, StackInvariance, PTL

\* No caller meets a logic_error of AddCoin or BatchWrite.
THEOREM StackNeverThrows == CoinsSpec => []NoLogicError
<1>1. StackIInv => NoLogicError
  BY DEF StackIInv, NoLogicError
<1> QED BY <1>1, StackInvariance, PTL

\* The stack of caches implements the three UTXO maps: a flush copies a map, a
\* spend or an add changes one coin of the working map, and nothing else shows.
THEOREM StackRefinement == CoinsSpec => RefinesUtxoView
<1>1. InitCoinsCache => U!Init
  <2> SUFFICES ASSUME InitCoinsCache PROVE U!Init
    OBVIOUS
  <2>1. db \in UtxoMaps /\ db \in U!Maps
    BY DEF InitCoinsCache, UtxoMaps, MaybeCoin, U!Maps
  <2>2. TipCoins = db
    BY <2>1, StackEmptyCacheFacts, ZenonT(30) DEF InitCoinsCache, TipCoins
  <2>3. ViewCoins = db
    BY <2>1, <2>2, StackEmptyCacheFacts, ZenonT(30) DEF InitCoinsCache, ViewCoins
  <2> QED BY <2>1, <2>2, <2>3, ZenonT(30) DEF U!Init
<1>2. StackIInv /\ [CoinsNext]_coinsVars => [U!Next]_U!vars
  <2> SUFFICES ASSUME StackIInv, [CoinsNext]_coinsVars PROVE [U!Next]_U!vars
    OBVIOUS
  <2> USE DEF StackIInv, CoinsTypeOK
  <2>t. TipCoins \in UtxoMaps
    BY StackLookType, ZenonT(30) DEF TipCoins
  <2>v. view = EmptyCache => ViewCoins = TipCoins
    BY <2>t, StackEmptyCacheFacts, ZenonT(30) DEF ViewCoins
  <2>s. ASSUME UNCHANGED <<db, TipCoins, ViewCoins>> PROVE [U!Next]_U!vars
    BY <2>s DEF U!vars
  <2>w. ASSUME NEW o \in OutPoints, NEW coin \in MaybeCoin,
               ViewCoins' = [ViewCoins EXCEPT ![o] = coin], UNCHANGED <<db, TipCoins>>
        PROVE  U!Next
    BY <2>w, ZenonT(30) DEF U!Next, U!Set, MaybeCoin
  <2>1. CASE OpenView
    <3>1. UNCHANGED <<db, TipCoins, ViewCoins>>
      BY <2>1, ZenonT(30) DEF OpenView, TipCoins, ViewCoins
    <3> QED BY <2>s, <3>1, ZenonT(30)
  <2>2. CASE CloseView
    <3>1. UNCHANGED <<db, TipCoins>> /\ ViewCoins' = TipCoins
      BY <2>2, <2>t, StackEmptyCacheFacts, ZenonT(30) DEF CloseView, TipCoins, ViewCoins
    <3> QED BY <3>1 DEF U!Next, U!Discard
  <2>3. CASE FlushView
    <3>1. /\ BatchWrite(tip, view) \in Caches
          /\ ~BatchWriteThrows(tip, view)
          /\ Look(BatchWrite(tip, view), db) = ViewCoins
      BY StackBatchWriteFacts, ZenonT(30) DEF TipCoins, ViewCoins
    <3>2. UNCHANGED db /\ TipCoins' = ViewCoins
      BY <2>3, <3>1 DEF FlushView, TipCoins
    <3>3. ViewCoins' = TipCoins'
      BY <2>3, <3>1, <3>2, StackLookType, StackEmptyCacheFacts, ZenonT(30)
      DEF FlushView, TipCoins, ViewCoins
    <3> QED BY <3>2, <3>3, ZenonT(30) DEF U!Next, U!Commit
  <2>4. CASE FlushTip
    <3>1. db' = TipCoins /\ tip' = EmptyCache /\ view = EmptyCache /\ view' = view
      BY <2>4, StackDBWriteFacts, ZenonT(30) DEF FlushTip, TipCoins
    <3>2. TipCoins' = TipCoins
      BY <2>t, <3>1, StackEmptyCacheFacts, ZenonT(30) DEF TipCoins
    <3>3. ViewCoins' = ViewCoins
      BY <3>1, <3>2, ZenonT(30) DEF ViewCoins
    <3> QED BY <3>1, <3>2, <3>3, ZenonT(30) DEF U!Next, U!Persist
  <2>5. CASE UNCHANGED coinsVars
    <3>1. UNCHANGED <<db, TipCoins, ViewCoins>>
      BY <2>5, ZenonT(30) DEF coinsVars, TipCoins, ViewCoins
    <3> QED BY <2>s, <3>1
  <2>6. ASSUME NEW o \in OutPoints, ReadTip(o) PROVE [U!Next]_U!vars
    <3>1. UNCHANGED <<db, TipCoins>>
      BY <2>6, StackFetchFacts DEF ReadTip, TipCoins
    <3>2. UNCHANGED ViewCoins
      BY <2>6, <3>1, ZenonT(30) DEF ReadTip, ViewCoins
    <3> QED BY <2>s, <3>1, <3>2, ZenonT(30)
  <2>7. ASSUME NEW o \in OutPoints, ReadView(o) PROVE [U!Next]_U!vars
    <3>1. UNCHANGED <<db, TipCoins>>
      BY <2>7, StackTipFetchFacts, ZenonT(30) DEF ReadView, TipCoins
    <3>2. UNCHANGED ViewCoins
      BY <2>7, <2>t, <3>1, StackFetchFacts, ZenonT(30) DEF ReadView, ViewCoins
    <3> QED BY <2>s, <3>1, <3>2
  <2>8. ASSUME NEW o \in OutPoints, Spend(o) PROVE [U!Next]_U!vars
    <3>1. UNCHANGED <<db, TipCoins>>
      BY <2>8, StackTipFetchFacts DEF Spend, TipCoins
    <3>2. ViewCoins' = [ViewCoins EXCEPT ![o] = Spent]
      BY <2>8, <2>t, <3>1, StackSpendCoinFacts, ZenonT(30) DEF Spend, ViewCoins
    <3> QED BY <2>w, <3>1, <3>2, ZenonT(30) DEF MaybeCoin
  <2>9. ASSUME NEW o \in OutPoints, UncacheTip(o) PROVE [U!Next]_U!vars
    <3>1. UNCHANGED <<db, TipCoins>>
      BY <2>9, StackUncacheFacts, ZenonT(30) DEF UncacheTip, TipCoins
    <3>2. UNCHANGED ViewCoins
      BY <2>9, <3>1, ZenonT(30) DEF UncacheTip, ViewCoins
    <3> QED BY <2>s, <3>1, <3>2
  <2>a. ASSUME NEW o \in OutPoints, NEW coin \in Coins, NEW c \in Caches,
               NEW ow \in BOOLEAN, StackSound(c, TipCoins), Look(c, TipCoins) = ViewCoins,
               ~ow => ViewCoins[o] = Spent,
               view' = AddCoin(c, o, coin, ow), UNCHANGED <<db, TipCoins>>
        PROVE  [U!Next]_U!vars
    <3>1. ViewCoins' = IF coin \in Unspendable THEN ViewCoins
                       ELSE [ViewCoins EXCEPT ![o] = coin]
      BY <2>a, <2>t, StackAddCoinFacts DEF ViewCoins
    <3>2. CASE coin \in Unspendable
      BY <2>a, <2>s, <3>1, <3>2, ZenonT(30)
    <3>3. CASE coin \notin Unspendable
      BY <2>a, <2>w, <3>1, <3>3, ZenonT(30) DEF MaybeCoin, Spendable
    <3> QED BY <3>2, <3>3, ZenonT(30)
  <2>10. ASSUME NEW o \in OutPoints, NEW coin \in Coins, AddNewCoin(o, coin)
         PROVE  [U!Next]_U!vars
    <3> DEFINE f == FetchCoin(view, TipCoins, o)
    <3>1. f \in Caches /\ Look(f, TipCoins) = ViewCoins /\ StackSound(f, TipCoins)
      BY <2>t, StackFetchFacts DEF ViewCoins
    <3>2. ViewCoins[o] = Spent
      BY <2>10 DEF AddNewCoin, HaveCoin, ViewCoins
    <3>3. ~AddCoinThrows(f, o, coin, FALSE)
      BY <2>t, <3>1, <3>2, StackAddCoinFacts, ZenonT(30)
    <3>4. view' = AddCoin(f, o, coin, FALSE) /\ UNCHANGED <<db, TipCoins>>
      BY <2>10, <3>3, StackTipFetchFacts, ZenonT(30) DEF AddNewCoin, TipCoins
    <3> QED BY <2>a, <3>1, <3>2, <3>4, ZenonT(30)
  <2>11. ASSUME NEW o \in OutPoints, NEW coin \in Coins, AddCoinbase(o, coin)
         PROVE  [U!Next]_U!vars
    <3>1. view' = AddCoin(view, o, coin, TRUE) /\ UNCHANGED <<db, TipCoins>>
      BY <2>11, ZenonT(30) DEF AddCoinbase, TipCoins
    <3> QED BY <2>a, <3>1, ZenonT(30) DEF ViewCoins
  <2>12. ASSUME NEW o \in OutPoints, NEW coin \in Coins, AddCheckedCoin(o, coin)
         PROVE  [U!Next]_U!vars
    <3> DEFINE f == FetchCoin(view, TipCoins, o)
               ow == HaveCoin(view, TipCoins, o)
    <3>1. f \in Caches /\ Look(f, TipCoins) = ViewCoins /\ StackSound(f, TipCoins)
      BY <2>t, StackFetchFacts DEF ViewCoins
    <3>2. ow \in BOOLEAN /\ (~ow => ViewCoins[o] = Spent)
      BY ZenonT(30) DEF HaveCoin, ViewCoins
    <3>3. AddCheckedCoin(o, coin) =>
            AddCoinThrows(f, o, coin, ow) \/ view' = AddCoin(f, o, coin, ow)
      BY DEF AddCheckedCoin
    <3>4. UNCHANGED <<db, TipCoins>>
      BY <2>12, StackTipFetchFacts, ZenonT(30) DEF AddCheckedCoin, TipCoins
    <3> HIDE DEF f, ow
    <3>5. ~AddCoinThrows(f, o, coin, ow)
      BY <2>t, <3>1, <3>2, StackAddCoinFacts
    <3> QED BY <2>12, <2>a, <3>1, <3>2, <3>3, <3>4, <3>5, ZenonT(30)
  <2> QED
    BY <2>1, <2>2, <2>3, <2>4, <2>5, <2>6, <2>7, <2>8, <2>9, <2>10, <2>11, <2>12, ZenonT(30) DEF CoinsNext
<1> QED BY <1>1, <1>2, StackInvariance, PTL DEF CoinsSpec, RefinesUtxoView, U!Spec
==============================================================================
