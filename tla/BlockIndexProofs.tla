-------------------------- MODULE BlockIndexProofs --------------------------
(***************************************************************************)
(* Proofs about BlockTree, the first half: the operators (nChainWork,      *)
(* CBlockIndexWorkComparator, the queue of ReceivedBlockTransactions), the *)
(* inductive invariant Inv, what the larger handlers do, and that every    *)
(* step keeps the types, the index and the marks.                          *)
(***************************************************************************)
EXTENDS BlockTree, BlockPathProofs

\* Leaves that name no prover: SMT, then Zenon, with time to spare.
USE SMTT(20), ZenonT(30)

\* nChainWork grows along a path.
LEMMA WorkGrows ==
  /\ Work \in [Blocks \cup {None} -> Nat]
  /\ \A b \in Blocks : Work[Parent[b]] < Work[b]
<1> DEFINE step == [b \in Blocks |-> [w \in Nat |-> Proof[b] + w]]
<1>1. step \in TreeSteps(Nat) /\ 0 \in Nat
  BY BlockTreeAssumption DEF TreeSteps
<1>2. PICK f : TreeSolution(f, Nat, 0, step)
  <2> HIDE DEF step
  <2> QED BY <1>1, TreeRecursion
<1>3. f = [b \in Blocks \cup {None} |-> IF b = None THEN 0 ELSE Proof[b] + f[Parent[b]]]
  <2>1. ASSUME NEW b \in Blocks PROVE f[b] = Proof[b] + f[Parent[b]]
    <3>1. f[Parent[b]] \in Nat
      BY <1>2, TreeAssumption DEF TreeSolution
    <3> QED BY <1>2, <3>1, ZenonT(30) DEF TreeSolution
  <2>2. ASSUME NEW b \in Blocks \cup {None}
        PROVE  f[b] = IF b = None THEN 0 ELSE Proof[b] + f[Parent[b]]
    BY <1>2, <2>1, TreeAssumption DEF TreeSolution
  <2>3. f = [b \in Blocks \cup {None} |-> f[b]]
    BY <1>2 DEF TreeSolution
  <2> QED BY <2>2, <2>3, ZenonT(30)
<1> HIDE DEF step
<1>4. Work = [b \in Blocks \cup {None} |-> IF b = None THEN 0 ELSE Proof[b] + Work[Parent[b]]]
  BY <1>3, ZenonT(30) DEF Work
<1>5. /\ Work[None] = 0
      /\ \A b \in Blocks : Work[b] = Proof[b] + Work[Parent[b]]
  BY <1>4, TreeAssumption, ZenonT(30)
<1>6. \A b \in Blocks : Work[b] \in Nat
  <2> DEFINE T == {b \in Blocks : Work[b] \in Nat}
  <2>1. ASSUME NEW b \in Blocks, b = Genesis \/ Parent[b] \in T PROVE b \in T
    <3>1. Work[Parent[b]] \in Nat /\ Proof[b] \in Nat
      BY <1>5, <2>1, TreeAssumption, BlockTreeAssumption
    <3> QED BY <1>5, <3>1
  <2>2. Blocks \subseteq T
    <3> HIDE DEF T
    <3> QED BY <2>1, TreeInduction
  <2> QED BY <2>2
<1>7. Work \in [Blocks \cup {None} -> Nat]
  <2>1. ASSUME NEW b \in Blocks \cup {None} PROVE Work[b] \in Nat
    BY <1>5, <1>6
  <2>2. Work = [b \in Blocks \cup {None} |-> Work[b]]
    BY <1>4, ZenonT(30)
  <2> QED BY <2>1, <2>2, ZenonT(30)
<1>8. ASSUME NEW b \in Blocks PROVE Work[Parent[b]] < Work[b]
  <2>1. Work[Parent[b]] \in Nat /\ Proof[b] \in Nat \ {0}
    BY <1>7, TreeAssumption, BlockTreeAssumption
  <2> QED BY <1>5, <2>1
<1> QED BY <1>7, <1>8

\* A block has more work than its ancestors.
LEMMA WorkOfAncestor ==
  ASSUME NEW b \in Blocks, NEW a \in Path[b], a # b
  PROVE  Work[a] < Work[b]
<1> DEFINE T == {c \in Blocks : \A x \in Path[c] : x # c => Work[x] < Work[c]}
<1>1. ASSUME NEW c \in Blocks, c = Genesis \/ Parent[c] \in T PROVE c \in T
  <2> SUFFICES ASSUME NEW x \in Path[c], x # c PROVE Work[x] < Work[c]
    OBVIOUS
  <2>1. x \in Path[Parent[c]] /\ Parent[c] \in Blocks /\ x \in Blocks
    BY PathStep, PathInBlocks, TreeAssumption
  <2>2. Work[x] <= Work[Parent[c]]
    BY <1>1, <2>1, WorkGrows, TreeAssumption
  <2> QED BY <2>1, <2>2, WorkGrows
<1>2. Blocks \subseteq T
  <2> HIDE DEF T
  <2> QED BY <1>1, TreeInduction
<1> QED BY <1>2

\* Every index entry has an address of its own.
LEMMA AddressType ==
  /\ \A b \in Blocks : Address(b) \in DOMAIN Order /\ Address(b) \in Nat /\ Order[Address(b)] = b
  /\ \A a, b \in Blocks : Address(a) = Address(b) => a = b
BY BlockTreeAssumption DEF Address, Range

\* CBlockIndexWorkComparator is a strict total order.
LEMMA WorseOrder ==
  ASSUME NEW s \in [Blocks -> Int]
  PROVE  /\ \A a \in Blocks : ~Worse(s, a, a)
         /\ \A a, b \in Blocks : Worse(s, a, b) => ~Worse(s, b, a)
         /\ \A a, b \in Blocks : a = b \/ Worse(s, a, b) \/ Worse(s, b, a)
         /\ \A a, b, c \in Blocks : Worse(s, a, b) /\ Worse(s, b, c) => Worse(s, a, c)
BY AddressType, WorkGrows DEF Worse

\* An ancestor is worse, whatever the sequence numbers.
LEMMA WorseAncestor ==
  ASSUME NEW s, NEW b \in Blocks, NEW a \in Path[b], a # b
  PROVE  Worse(s, a, b)
BY WorkOfAncestor DEF Worse

\* The order of two blocks depends on their sequence numbers only.
LEMMA WorseFrame ==
  ASSUME NEW r, NEW s, NEW a, NEW b, r[a] = s[a], r[b] = s[b]
  PROVE  Worse(r, a, b) <=> Worse(s, a, b)
BY DEF Worse

\* Of some blocks one is the best.
LEMMA BestExists ==
  ASSUME NEW s \in [Blocks -> Int], NEW C \in SUBSET Blocks, C # {}
  PROVE  \E c \in C : \A d \in C : ~Worse(s, c, d)
<1> DEFINE T == {n \in Nat : \A S \in SUBSET Blocks :
                    S # {} /\ (\A b \in S : Address(b) <= n) => \E c \in S : \A d \in S : ~Worse(s, c, d)}
<1>1. 0 \in T
  BY AddressType, BlockTreeAssumption
<1>2. ASSUME NEW n \in Nat, n \in T PROVE n + 1 \in T
  <2> SUFFICES ASSUME NEW S \in SUBSET Blocks, S # {}, \A b \in S : Address(b) <= n + 1
               PROVE  \E c \in S : \A d \in S : ~Worse(s, c, d)
    OBVIOUS
  <2> DEFINE R == {b \in S : Address(b) <= n}
  <2>1. ASSUME NEW b \in S, b \notin R PROVE Address(b) = n + 1
    BY <2>1, AddressType
  <2>2. CASE R = {}
    <3>1. PICK b \in S : TRUE
      OBVIOUS
    <3>2. \A d \in S : Address(d) = Address(b)
      BY <2>1, <2>2
    <3>3. \A d \in S : d = b
      BY <3>2, AddressType
    <3> QED BY <3>3, WorseOrder
  <2>3. CASE R # {}
    <3>1. PICK c \in R : \A d \in R : ~Worse(s, c, d)
      BY <1>2, <2>3, ZenonT(30)
    <3>2. CASE \A d \in S : ~Worse(s, c, d)
      BY <3>2
    <3>3. ASSUME NEW d \in S, Worse(s, c, d) PROVE \E e \in S : \A f \in S : ~Worse(s, e, f)
      <4>1. \A f \in S \ R : f = d
        BY <2>1, <3>1, <3>3, AddressType
      <4>2. \A f \in R : ~Worse(s, d, f)
        BY <3>1, <3>3, WorseOrder
      <4> QED BY <4>1, <4>2, WorseOrder
    <3> QED BY <3>2, <3>3
  <2> QED BY <2>2, <2>3
<1>3. Nat \subseteq T
  <2> HIDE DEF T
  <2> QED BY <1>1, <1>2, NatSetInduction
<1>4. Len(Order) \in Nat /\ \A b \in Blocks : Address(b) <= Len(Order)
  BY AddressType, BlockTreeAssumption
<1> QED BY <1>3, <1>4


\* The queue of ReceivedBlockTransactions: it starts from b, takes only blocks
\* that waited for one of its members, and takes all of them.
LEMMA NowLinkedClosed ==
  ASSUME NEW b \in Blocks, unlinked \in Seq(Blocks), IsInjective(unlinked), b \notin Range(unlinked)
  PROVE  /\ NowLinked(b) \in Seq(Blocks)
         /\ b \in Range(NowLinked(b)) /\ Range(NowLinked(b)) \subseteq {b} \cup Range(unlinked)
         /\ \A c \in Range(NowLinked(b)) : c = b \/ Parent[c] \in Range(NowLinked(b))
         /\ \A c \in Range(unlinked) : Parent[c] \in Range(NowLinked(b)) => c \in Range(NowLinked(b))
<1> DEFINE V == Seq(Blocks)
           wait(a) == Kept(unlinked, {c \in Blocks : Parent[c] = a})
           grow(n) == [q \in V |-> IF n + 1 > Len(q) THEN q ELSE q \o wait(q[n + 1])]
           step == [n \in Nat |-> grow(n)]
           N == Len(unlinked)
<1>1. ASSUME NEW a
      PROVE  /\ wait(a) \in V /\ IsInjective(wait(a))
             /\ Range(wait(a)) = {c \in Range(unlinked) : Parent[c] = a}
  <2>1. Range(unlinked) \subseteq Blocks
    BY DEF Range
  <2>2. /\ wait(a) \in Seq(Blocks) /\ (IsInjective(unlinked) => IsInjective(wait(a)))
        /\ Range(wait(a)) = Range(unlinked) \cap {c \in Blocks : Parent[c] = a}
    BY KeptRange, ZenonT(30)
  <2> QED BY <2>1, <2>2, ZenonT(30)
<1> HIDE DEF wait
<1>2. step \in NatSteps(V) /\ <<b>> \in V
  <2>1. ASSUME NEW n \in Nat PROVE grow(n) \in [V -> V]
    <3>1. ASSUME NEW q \in V PROVE q \o wait(q[n + 1]) \in V
      BY <1>1, ConcatRange
    <3> QED BY <3>1
  <2> QED BY <2>1 DEF NatSteps
<1>3. PICK f : NatSolution(f, V, <<b>>, step)
  <2> HIDE DEF step, V
  <2> QED BY <1>2, NatRecursion
<1>4. N \in Nat /\ f[0] = <<b>> /\ \A n \in Nat : f[n] \in V
  <2>1. N \in Nat
    OBVIOUS
  <2> HIDE DEF step, V, N
  <2> QED BY <1>3, <2>1 DEF NatSolution
<1>5. ASSUME NEW i \in 1..N
      PROVE  f[i] = IF i > Len(f[i - 1]) THEN f[i - 1] ELSE f[i - 1] \o wait(f[i - 1][i])
  <2>1. i - 1 \in Nat /\ (i - 1) + 1 = i
    BY <1>4
  <2>2. f[(i - 1) + 1] = step[i - 1][f[i - 1]] /\ f[i - 1] \in V
    BY <1>3, <1>4, <2>1, ZenonT(30) DEF NatSolution
  <2> QED BY <2>1, <2>2
<1> HIDE DEF V, step
<1> DEFINE g == [i \in 0..N |-> f[i]]
<1>6. g = [i \in 0..N |-> IF i = 0 THEN <<b>>
                          ELSE IF i > Len(g[i - 1]) THEN g[i - 1] ELSE g[i - 1] \o wait(g[i - 1][i])]
  <2>1. ASSUME NEW i \in 0..N, i # 0 PROVE i \in 1..N /\ g[i] = f[i] /\ g[i - 1] = f[i - 1]
    BY <1>4, <2>1
  <2> QED BY <1>4, <1>5, <2>1, ZenonT(30)
<1>7. PICK k : /\ k = [i \in 0..N |-> IF i = 0 THEN <<b>>
                          ELSE IF i > Len(k[i - 1]) THEN k[i - 1] ELSE k[i - 1] \o wait(k[i - 1][i])]
               /\ NowLinked(b) = k[N]
  <2> HIDE DEF g
  <2> QED BY <1>6, ZenonT(30) DEF NowLinked, wait
<1>8. /\ k[0] = <<b>>
      /\ \A i \in 1..N : k[i] = IF i > Len(k[i - 1]) THEN k[i - 1] ELSE k[i - 1] \o wait(k[i - 1][i])
  <2>1. 0 \in 0..N /\ \A i \in 1..N : i \in 0..N /\ i # 0
    BY <1>4
  <2> QED BY <1>7, <2>1, ZenonT(30)
<1> DEFINE Served(q, i) == \A j \in 1..i : j <= Len(q) => \A c \in Range(unlinked) : Parent[c] = q[j] => c \in Range(q)
           Source(q, i) == \A c \in Range(q) : c = b \/ \E j \in 1..i : j <= Len(q) /\ Parent[c] = q[j]
           Good(q, i) == /\ q \in Seq(Blocks) /\ IsInjective(q)
                         /\ b \in Range(q) /\ Range(q) \subseteq {b} \cup Range(unlinked)
                         /\ Served(q, i) /\ Source(q, i)
           T == {i \in Nat : i <= N => Good(k[i], i)}
<1>9. 0 \in T
  <2>1. Good(<<b>>, 0)
    BY DEF Range, IsInjective
  <2> QED BY <1>8, <2>1, ZenonT(30)
<1>10. ASSUME NEW i \in Nat, i \in T PROVE i + 1 \in T
  <2> SUFFICES ASSUME i + 1 <= N PROVE Good(k[i + 1], i + 1)
    OBVIOUS
  <2> DEFINE q == k[i]
  <2>1. /\ i + 1 \in 1..N /\ (i + 1) - 1 = i
        /\ k[i + 1] = IF i + 1 > Len(q) THEN q ELSE q \o wait(q[i + 1])
    BY <1>4, <1>8
  <2>2. Good(q, i)
    BY <1>4, <1>10
  <2> HIDE DEF q
  <2>3. CASE i + 1 > Len(q)
    <3>1. Served(q, i + 1)
      BY <2>2, <2>3
    <3>2. Source(q, i + 1)
      BY <2>2, <2>3
    <3> QED BY <2>1, <2>2, <2>3, <3>1, <3>2
  <2>4. CASE ~(i + 1 > Len(q))
    <3> DEFINE w == wait(q[i + 1])
    <3>1. i + 1 \in 1..Len(q) /\ Len(q) \in Nat /\ DOMAIN q = 1..Len(q) /\ q[i + 1] \in Blocks
      BY <2>2, <2>4
    <3>2. /\ w \in Seq(Blocks) /\ IsInjective(w)
          /\ Range(w) = {c \in Range(unlinked) : Parent[c] = q[i + 1]}
      BY <1>1 DEF V
    <3>3. ASSUME NEW c \in Range(q), c \in Range(w) PROVE FALSE
      <4>1. c # b
        BY <3>2, <3>3
      <4>2. PICK j \in 1..i : j <= Len(q) /\ Parent[c] = q[j]
        BY <2>2, <4>1
      <4>3. Parent[c] = q[i + 1]
        BY <3>2, <3>3
      <4>4. j \in DOMAIN q /\ i + 1 \in DOMAIN q /\ j # i + 1
        BY <3>1, <4>2
      <4>5. IsInjective(q)
        BY <2>2
      <4> QED BY <4>2, <4>3, <4>4, <4>5, ZenonT(30) DEF IsInjective
    <3> HIDE DEF w
    <3>4. /\ q \o w \in Seq(Blocks) /\ IsInjective(q \o w) /\ Range(q \o w) = Range(q) \cup Range(w)
          /\ Len(q \o w) \in Nat /\ Len(q) <= Len(q \o w) /\ \A j \in 1..Len(q) : (q \o w)[j] = q[j]
      BY <2>2, <3>2, <3>3, ConcatRange
    <3>5. ASSUME NEW j \in 1..(i + 1) PROVE j \in 1..Len(q) /\ (j = i + 1 \/ j \in 1..i)
      BY <3>1
    <3>6. Served(q \o w, i + 1)
      BY <2>2, <3>2, <3>4, <3>5
    <3>7. Source(q \o w, i + 1)
      <4> SUFFICES ASSUME NEW c \in Range(q \o w), c # b
                   PROVE  \E j \in 1..(i + 1) : j <= Len(q \o w) /\ Parent[c] = (q \o w)[j]
        OBVIOUS
      <4>1. CASE c \in Range(q)
        <5>1. PICK j \in 1..i : j <= Len(q) /\ Parent[c] = q[j]
          BY <2>2, <4>1
        <5> QED BY <3>1, <3>4, <5>1
      <4>2. CASE c \in Range(w)
        BY <3>1, <3>2, <3>4, <4>2
      <4> QED BY <3>4, <4>1, <4>2
    <3>8. b \in Range(q \o w) /\ Range(q \o w) \subseteq {b} \cup Range(unlinked)
      BY <2>2, <3>2, <3>4
    <3> QED BY <2>1, <2>4, <3>4, <3>6, <3>7, <3>8, ZenonT(30) DEF w
  <2> QED BY <2>3, <2>4
<1>11. Nat \subseteq T
  <2> HIDE DEF T
  <2> QED BY <1>9, <1>10, NatSetInduction, ZenonT(30)
<1> DEFINE queue == NowLinked(b)
<1>12. Good(queue, N)
  <2>1. N \in T /\ N <= N
    <3> HIDE DEF T
    <3> QED BY <1>4, <1>11
  <2> QED BY <1>7, <2>1
<1> HIDE DEF queue
<1>13. \A c \in Range(queue) : c = b \/ Parent[c] \in Range(queue)
  BY <1>4, <1>12 DEF Range
<1>14. ASSUME NEW c \in Range(unlinked), Parent[c] \in Range(queue) PROVE c \in Range(queue)
  <2>1. Len(queue) <= N + 1 /\ (Len(queue) = N + 1 => Range(queue) = {b} \cup Range(unlinked))
    <3>1. /\ Append(unlinked, b) \in Seq(Blocks) /\ IsInjective(Append(unlinked, b))
          /\ Range(Append(unlinked, b)) = Range(unlinked) \cup {b}
      BY AppendRange
    <3>2. Len(Append(unlinked, b)) = N + 1
      OBVIOUS
    <3> QED BY <1>12, <3>1, <3>2, SeqFits, ZenonT(30)
  <2>2. PICK j \in 1..Len(queue) : Parent[c] = queue[j]
    BY <1>12, <1>14 DEF Range
  <2>3. CASE j <= N
    BY <1>4, <1>12, <2>2, <2>3
  <2>4. CASE ~(j <= N)
    <3>1. Len(queue) = N + 1
      BY <1>4, <1>12, <2>1, <2>2, <2>4
    <3> QED BY <2>1, <3>1
  <2> QED BY <2>3, <2>4
<1> QED BY <1>12, <1>13, <1>14 DEF queue

-----------------------------------------------------------------------------
\* What the proofs add to the properties of BlockTree.

\* Where the thread is: with a chain to aim at, within activation or invalidation.
Aiming == run.pc \in {"released", "find", "step"} /\ run.most # None
Activating == run.pc \in {"find", "step"}
Invalidating == run.pc \in {"invalidate", "mark"}

\* The index: a block's transactions are received before it is linked, and its
\* ancestors' too.
IndexInv ==
    /\ \A b \in have : level[b] >= TRANSACTIONS
    /\ \A b \in Known : Path[b] \subseteq Known
    /\ \A b \in linked : Path[b] \subseteq linked

\* The marks: neither the active chain nor the one aimed at has any.
MarkInv ==
    /\ Active \cap failed = {}
    /\ Aiming => Path[run.most] \cap failed = {}
    /\ FailedHasCause

\* The blocks that wait for an ancestor.
LinkInv ==
    /\ IsInjective(unlinked)
    /\ Range(unlinked) \cap linked = {}
    /\ \A b \in Range(unlinked) : Parent[b] \notin linked
    /\ reconsidered = "no" => \A b \in have \ linked : CauseAbove(b) \/ b \in Range(unlinked)

\* Where the tip is on its way to the chain aimed at, and what has been connected
\* once can be connected again.
Connectable(b) == Path[b] \cap (BadConnect \cup Mutated) = {}
ChainInv ==
    /\ \A b \in cands : ~Worse(seq, b, tip)
    /\ Connectable(tip)
    /\ Aiming => run.most \in cands
    /\ Aiming /\ run.pc # "step" => tip \in Path[run.most]
    /\ run.pc = "released" => run.most # tip
    /\ run.pc = "find" \/ (run.pc = "step" /\ tip \notin Path[run.most]) => ~Worse(seq, run.start, tip)
    /\ Activating => run.start \in linked /\ Connectable(run.start) /\ Path[run.start] \cap failed = {}
    /\ Invalidating => run.byWork \subseteq linked /\ run.toMark \in Known

\* The candidates: no block as good as the tip and as t is missing.
Whole(t) == \A b \in linked \ failed : ~Worse(seq, b, tip) /\ ~Worse(seq, b, t) => b \in cands
CandsInv ==
    ~Deep /\ ~overtaken =>
       /\ MainFree => tip \in cands
       /\ run.pc \in {"idle", "released"} \/ (Invalidating /\ run.toMark \in Active) => Whole(tip)
       /\ Activating => /\ Whole(run.start)
                        /\ run.start \in cands \/ Worse(seq, run.start, tip)
                        /\ run.most # None => ~Worse(seq, run.most, run.start)

\* No candidate without a mark above it is better than the chain aimed at or,
\* when nothing is left to do, the tip.
Best(t) == \A c \in cands : Path[c] \cap failed = {} => ~Worse(seq, t, c)
BestInv ==
    /\ run.pc = "idle" /\ ~call /\ ~stop => Best(tip)
    /\ Aiming /\ ~call => Best(run.most)

Inv == TypeOK /\ IndexInv /\ MarkInv /\ LinkInv /\ ChainInv /\ CandsInv /\ BestInv

-----------------------------------------------------------------------------
\* The fields of run, and the values it takes.
LEMMA RunFields ==
  ASSUME run \in Runs
  PROVE  /\ run.pc \in {"idle", "released", "find", "step", "invalidate", "mark"}
         /\ run.pc \in {"released", "find"} => run.most \in Blocks \cup {None}
         /\ run.pc = "step" => run.most \in Blocks /\ run.oldTip \in Blocks
         /\ Activating => run.start \in Blocks
         /\ Invalidating => /\ run.pindex \in Blocks \ {Genesis} /\ run.toMark \in Blocks \ {Genesis}
                            /\ run.byWork \in SUBSET Blocks
         /\ run.pc = "idle" => run = Idle
BY DEF Runs, Idle, Activating, Invalidating

\* The records that the actions assign to run.
LEMMA RunTypes ==
  /\ Idle \in Runs /\ Idle.pc = "idle"
  /\ \A m \in Blocks \cup {None} : [pc |-> "released", most |-> m] \in Runs
  /\ \A m \in Blocks \cup {None}, s \in Blocks, c \in BOOLEAN :
        [pc |-> "find", most |-> m, start |-> s, connected |-> c] \in Runs
  /\ \A m \in Blocks, s \in Blocks, t \in Blocks :
        [pc |-> "step", most |-> m, start |-> s, oldTip |-> t] \in Runs
  /\ \A p, m \in Blocks \ {Genesis}, w \in SUBSET Blocks, pc \in {"invalidate", "mark"} :
        [pc |-> pc, pindex |-> p, toMark |-> m, byWork |-> w] \in Runs
BY DEF Runs, Idle

\* The block to connect next.
LEMMA TowardFacts ==
  ASSUME TypeOK, IndexInv, MarkInv, ChainInv, AtConnect
  PROVE  /\ Toward \in Path[run.most] /\ Parent[Toward] = tip /\ Toward \in linked /\ Toward \in Blocks
         /\ Toward \notin Active /\ Toward \notin failed /\ Path[Toward] = {Toward} \cup Active
         /\ Worse(seq, tip, Toward)
         /\ Toward # run.most => Worse(seq, Toward, run.most)
<1>1. run.pc = "step" /\ run.most \in Blocks /\ run.most \in linked /\ tip \in Path[run.most] /\ tip # run.most
  BY RunFields, TreeAssumption DEF TypeOK, AtConnect, ChainInv, Aiming
<1>2. \E c \in Path[run.most] : Parent[c] = tip
  BY <1>1, PathChild
<1>3. Toward \in Path[run.most] /\ Parent[Toward] = tip
  BY <1>2 DEF Toward
<1>4. Toward \in linked /\ Toward \in Blocks
  BY <1>1, <1>3, PathInBlocks DEF IndexInv
<1>5. Toward \notin failed
  BY <1>1, <1>3, TreeAssumption DEF MarkInv, Aiming
<1>6. Toward \notin Active /\ Path[Toward] = {Toward} \cup Active
  BY <1>3, <1>4, PathStep, PathAcyclic DEF Active
<1>7. Worse(seq, tip, Toward)
  BY <1>3, <1>4, <1>6, PathHasSelf, WorseAncestor, PathInBlocks, ZenonT(30) DEF Active, TypeOK, Known
<1>8. Toward # run.most => Worse(seq, Toward, run.most)
  BY <1>1, <1>3, WorseAncestor
<1> QED BY <1>3, <1>4, <1>5, <1>6, <1>7, <1>8, ZenonT(30)

\* The sets of the state hold blocks.
LEMMA BlocksTypes ==
  ASSUME TypeOK
  PROVE  /\ Known \subseteq Blocks /\ have \subseteq Blocks /\ linked \subseteq Blocks /\ cands \subseteq Blocks
         /\ failed \subseteq Known /\ tip \in Blocks /\ tip # None
BY TreeAssumption DEF TypeOK, Known, failed

\* The candidate that FindMostWorkChain looks at.
LEMMA BestFacts ==
  ASSUME TypeOK, cands # {}
  PROVE  /\ BestCandidate \in cands
         /\ \A d \in cands : ~Worse(seq, BestCandidate, d)
<1>1. \E c \in cands : \A d \in cands : ~Worse(seq, c, d)
  BY BlocksTypes, BestExists, ZenonT(30) DEF TypeOK
<1> QED BY <1>1 DEF BestCandidate

\* The marked ancestor that FindMostWorkChain stops at: every block between it and
\* the candidate descends from it.
LEMMA DropFacts ==
  ASSUME TypeOK, NEW c \in Blocks, FailedOnPath(c) # {}
  PROVE  /\ NearestFailed(c) \in failed /\ NearestFailed(c) \in Path[c] /\ NearestFailed(c) \in Blocks
         /\ \A x \in Path[c] \ Path[NearestFailed(c)] : NearestFailed(c) \in Path[x]
<1>1. FailedOnPath(c) \subseteq Path[c]
  BY DEF FailedOnPath
<1>2. \E t \in FailedOnPath(c) : FailedOnPath(c) \subseteq Path[t]
  BY <1>1, PathLast
<1>3. NearestFailed(c) \in FailedOnPath(c)
  BY <1>2 DEF NearestFailed
<1>4. NearestFailed(c) \in failed /\ NearestFailed(c) \in Path[c]
  BY <1>3 DEF FailedOnPath
<1> QED BY <1>4, PathLinear, PathInBlocks

\* The blocks that a rejected header marks descend from a failed one.
LEMMA HeaderFacts ==
  ASSUME TypeOK, IndexInv, NEW b \in Blocks, b # Genesis
  PROVE  \A x \in MarkedByHeader(b) : x \in Known /\ \E f \in failedBlocks : f \in Path[x]
<1> DEFINE p == Parent[b]
           S == FailedAbove(p)
<1> SUFFICES ASSUME NEW x \in MarkedByHeader(b) PROVE x \in Known /\ \E f \in failedBlocks : f \in Path[x]
  OBVIOUS
<1>1. p \in Blocks /\ p \in Known /\ S # {} /\ x \in Path[p] /\ x \notin Path[FirstFailed(p)]
  BY TreeAssumption DEF MarkedByHeader, Known
<1>2. S \subseteq failedBlocks /\ S \subseteq Path[p] /\ S \subseteq Blocks
  BY <1>1, PathInBlocks DEF FailedAbove
<1>3. \E f \in S : \A g \in S : Address(f) <= Address(g)
  <2> DEFINE A == {Address(f) : f \in S}
  <2>1. A \in SUBSET Nat /\ A # {}
    BY <1>1, <1>2, AddressType
  <2>2. PICK m \in A : \A n \in A : m <= n
    <3> HIDE DEF A
    <3> QED BY <2>1, NatLeast
  <2> QED BY <2>2
<1>4. FirstFailed(p) \in S
  BY <1>3 DEF FirstFailed
<1>5. FirstFailed(p) \in Path[x]
  BY <1>1, <1>2, <1>4, PathLinear
<1> QED BY <1>1, <1>2, <1>4, <1>5 DEF IndexInv

\* An accepted header is not marked, and its ancestors are in the index.
LEMMA HeaderKnown ==
  ASSUME TypeOK, IndexInv, NEW b \in Blocks, b # Genesis, HeaderAccepted(b)
  PROVE  b \notin failed /\ Parent[b] \in Known /\ Path[b] \subseteq Known \cup {b}
<1>1. CASE level[b] > 0
  <2>1. b \in Known /\ b \notin failed
    BY <1>1 DEF HeaderAccepted, Known
  <2>2. Parent[b] \in Path[b]
    BY PathStep, PathHasSelf, TreeAssumption
  <2> QED BY <2>1, <2>2 DEF IndexInv
<1>2. CASE ~(level[b] > 0)
  <2>1. b \notin failed
    BY <1>2, BlocksTypes DEF Known
  <2>2. Parent[b] \in Known
    BY <1>2, TreeAssumption DEF HeaderAccepted, Known
  <2> QED BY <2>1, <2>2, PathStep DEF IndexInv
<1> QED BY <1>1, <1>2

\* What ReceivedBlockTransactions does: the blocks J become linked, and are
\* candidates unless they are worse than the tip.
Receives(b, J) ==
    /\ J \subseteq have \cup {b} /\ J \cap linked = {} /\ linked' = linked \cup J
    /\ \A c \in J : Path[c] \subseteq linked \cup J
    /\ seq' \in [Blocks -> Int] /\ nextSeq' \in Nat /\ \A c \in Blocks \ J : seq'[c] = seq[c]
    /\ cands' = cands \cup {c \in J : ~Worse(seq', c, tip)}
    /\ unlinked' \in Seq(have \cup {b}) /\ IsInjective(unlinked')
    /\ \/ /\ b \in J /\ Range(unlinked') = Range(unlinked) \ J
          /\ \A c \in Range(unlinked') : Parent[c] \notin linked \cup J
       \/ /\ J = {} /\ Parent[b] \notin linked
          /\ Range(unlinked') = Range(unlinked) \cup (IF Parent[b] \in failed THEN {} ELSE {b})

\* ReceivedBlockTransactions links the blocks of its queue and no other.
LEMMA Received ==
  ASSUME TypeOK, IndexInv, LinkInv, NEW b \in Blocks, b # Genesis, b \notin have,
         ReceivedBlockTransactions(b)
  PROVE  \E J \in SUBSET Blocks : Receives(b, J)
<1>1. unlinked \in Seq(Blocks) /\ have \subseteq Blocks /\ linked \subseteq have
  BY BlocksTypes DEF TypeOK
<1>2. Range(unlinked) \subseteq have /\ b \notin Range(unlinked) /\ IsInjective(unlinked)
      /\ Range(unlinked) \cap linked = {} /\ \A c \in Range(unlinked) : Parent[c] \notin linked
  BY DEF TypeOK, LinkInv, Range
<1>3. CASE Parent[b] \in linked
  <2> DEFINE queue == NowLinked(b)
             J == Range(queue)
  <2>1. /\ queue \in Seq(Blocks) /\ b \in J /\ J \subseteq {b} \cup Range(unlinked)
        /\ \A c \in J : c = b \/ Parent[c] \in J
        /\ \A c \in Range(unlinked) : Parent[c] \in J => c \in J
    BY <1>1, <1>2, NowLinkedClosed
  <2>2. /\ linked' = linked \cup J /\ nextSeq' = nextSeq + Len(queue)
        /\ seq' = [c \in Blocks |-> IF \E i \in DOMAIN queue : queue[i] = c
                                       THEN nextSeq + (CHOOSE i \in DOMAIN queue : queue[i] = c) - 1
                                       ELSE seq[c]]
        /\ cands' = cands \cup {c \in J : ~Worse(seq', c, tip)}
        /\ unlinked' = Kept(unlinked, Blocks \ J)
    BY <1>3, ZenonT(30) DEF ReceivedBlockTransactions
  <2> HIDE DEF queue
  <2>3. seq' \in [Blocks -> Int] /\ nextSeq' \in Nat
    <3>1. nextSeq \in Nat /\ seq \in [Blocks -> Int] /\ Len(queue) \in Nat /\ DOMAIN queue = 1..Len(queue)
      BY <2>1 DEF TypeOK
    <3>2. ASSUME NEW c \in Blocks, \E i \in DOMAIN queue : queue[i] = c
          PROVE  (CHOOSE i \in DOMAIN queue : queue[i] = c) \in DOMAIN queue
      BY <3>2
    <3>3. ASSUME NEW c \in Blocks PROVE seq'[c] \in Int
      BY <2>2, <3>1, <3>2, <3>3
    <3>4. seq' = [c \in Blocks |-> seq'[c]]
      BY <2>2
    <3> QED BY <2>2, <3>1, <3>3, <3>4
  <2>4. \A c \in Blocks \ J : seq'[c] = seq[c]
    BY <2>2 DEF Range
  <2>5. /\ unlinked' \in Seq(have) /\ IsInjective(unlinked')
        /\ Range(unlinked') = Range(unlinked) \cap (Blocks \ J)
    <3>1. unlinked \in Seq(have)
      BY DEF TypeOK
    <3>2. /\ Kept(unlinked, Blocks \ J) \in Seq(have)
          /\ Range(Kept(unlinked, Blocks \ J)) = Range(unlinked) \cap (Blocks \ J)
          /\ IsInjective(unlinked) => IsInjective(Kept(unlinked, Blocks \ J))
      BY <3>1, KeptRange, ZenonT(30)
    <3> QED BY <1>2, <2>2, <3>2, ZenonT(30)
  <2> DEFINE T == {c \in Blocks : c \in J => Path[c] \subseteq linked \cup J}
  <2>6. Blocks \subseteq T
    <3>1. Path[Parent[b]] \subseteq linked
      BY <1>3, ZenonT(30) DEF IndexInv
    <3>2. \A c \in Blocks : c = Genesis \/ Parent[c] \in T => c \in T
      BY <2>1, <3>1, PathStep, TreeAssumption, BlocksTypes
    <3> HIDE DEF T
    <3> QED BY <3>2, TreeInduction
  <2>7. unlinked' \in Seq(have \cup {b})
    BY <2>5
  <2>8. Range(unlinked') = Range(unlinked) \ J /\ Range(unlinked) \subseteq Blocks
    BY <1>1, <1>2, <2>5, ZenonT(30)
  <2>9. J \subseteq Blocks /\ J \cap linked = {} /\ J \subseteq have \cup {b}
    BY <1>1, <1>2, <2>1
  <2> HIDE DEF J
  <2>10. \A c \in J : Path[c] \subseteq linked \cup J
    BY <2>6, <2>9
  <2>11. \A c \in Range(unlinked') : Parent[c] \notin linked \cup J
    BY <1>2, <2>1, <2>8
  <2>12. Receives(b, J)
    BY <2>1, <2>2, <2>3, <2>4, <2>5, <2>7, <2>8, <2>9, <2>10, <2>11, ZenonT(30) DEF Receives
  <2> QED BY <2>9, <2>12, ZenonT(30)
<1>4. CASE Parent[b] \notin linked
  <2>1. /\ unlinked' = IF Parent[b] \in failed THEN unlinked ELSE Append(unlinked, b)
        /\ UNCHANGED <<linked, seq, nextSeq, cands>>
    BY <1>4 DEF ReceivedBlockTransactions
  <2>2. unlinked \in Seq(have \cup {b})
    BY DEF TypeOK
  <2>3. /\ unlinked' \in Seq(have \cup {b}) /\ IsInjective(unlinked')
        /\ Range(unlinked') = Range(unlinked) \cup (IF Parent[b] \in failed THEN {} ELSE {b})
    <3>1. CASE Parent[b] \in failed
      BY <1>2, <2>1, <2>2, <3>1, ZenonT(30)
    <3>2. CASE Parent[b] \notin failed
      <4>1. b \in have \cup {b}
        OBVIOUS
      <4>2. /\ Append(unlinked, b) \in Seq(have \cup {b})
            /\ Range(Append(unlinked, b)) = Range(unlinked) \cup {b}
            /\ IsInjective(unlinked) /\ b \notin Range(unlinked) => IsInjective(Append(unlinked, b))
        BY <2>2, <4>1, AppendRange, ZenonT(30)
      <4> QED BY <1>2, <2>1, <3>2, <4>2
    <3> QED BY <3>1, <3>2
  <2>4. Receives(b, {})
    BY <1>4, <2>1, <2>3, ZenonT(30) DEF Receives, TypeOK
  <2> QED BY <2>4, ZenonT(30)
<1> QED BY <1>3, <1>4

\* AcceptBlock ignores the block, finds it invalid, or stores it.
LEMMA Accepts ==
  ASSUME TypeOK, IndexInv, LinkInv, NEW b \in Blocks, NEW fRequested \in BOOLEAN, AcceptBlock(b, fRequested)
  PROVE  /\ b # Genesis /\ b \notin failed /\ Parent[b] \in Known /\ Path[b] \subseteq Known \cup {b}
         /\ MainFree /\ UNCHANGED <<failedChild, failedBlocks, revSeq, lastPrecious, tip, run, stop, calls, history>>
         /\ call' \in BOOLEAN /\ (call => call')
         /\ \/ /\ level' = WithHeader(b) /\ call'
               /\ UNCHANGED <<have, failedValid, linked, unlinked, seq, nextSeq, cands>>
            \/ /\ b \in BadBody /\ b \notin have /\ level' = WithHeader(b)
               /\ failedValid' = failedValid \cup {b} 
               /\ UNCHANGED <<have, linked, unlinked, seq, nextSeq, cands>>
            \/ /\ b \notin have /\ level' = [level EXCEPT ![b] = TRANSACTIONS] /\ call'
               /\ have' = have \cup {b} /\ failedValid' = failedValid
               /\ \E J \in SUBSET Blocks : Receives(b, J)
<1>1. /\ b # Genesis /\ HeaderAccepted(b) /\ MainFree
      /\ call' = (call \/ Ignored(b, fRequested) \/ b \notin BadBody)
      /\ UNCHANGED <<failedChild, failedBlocks, revSeq, lastPrecious, tip, run, stop, calls, history>>
  BY ZenonT(30) DEF AcceptBlock
<1>2. b \notin failed /\ Parent[b] \in Known /\ Path[b] \subseteq Known \cup {b}
  BY <1>1, HeaderKnown
<1>3. call' \in BOOLEAN /\ (call => call')
  BY <1>1, ZenonT(30)
<1>4. CASE Ignored(b, fRequested)
  BY <1>1, <1>2, <1>3, <1>4, ZenonT(30) DEF AcceptBlock
<1>5. CASE ~Ignored(b, fRequested) /\ b \in BadBody
  BY <1>1, <1>2, <1>3, <1>5, ZenonT(30) DEF AcceptBlock, Ignored
<1>6. CASE ~Ignored(b, fRequested) /\ b \notin BadBody
  <2>1. /\ level' = [level EXCEPT ![b] = TRANSACTIONS]
        /\ ReceivedBlockTransactions(b) /\ failedValid' = failedValid
    BY <1>6, ZenonT(30) DEF AcceptBlock
  <2>2. b \notin have
    BY <1>6 DEF Ignored
  <2>3. \E J \in SUBSET Blocks : Receives(b, J)
    BY <1>1, <2>1, <2>2, Received
  <2>4. have' = have \cup {b}
    BY <2>1, ZenonT(30) DEF ReceivedBlockTransactions
  <2>5. call' = TRUE
    BY <1>1, <1>6, ZenonT(30)
  <2> QED BY <1>1, <1>2, <1>3, <2>1, <2>2, <2>3, <2>4, <2>5, ZenonT(30)
<1> QED BY <1>4, <1>5, <1>6, ZenonT(30)

\* The values of nStatus & BLOCK_VALID_MASK.
Levels == {0, TREE, TRANSACTIONS, SCRIPTS}

\* The index entry that AcceptBlock and AcceptBlockHeader write.
LEMMA HeaderLevels ==
  ASSUME TypeOK, NEW b \in Blocks, level' = WithHeader(b) \/ level' = [level EXCEPT ![b] = TRANSACTIONS]
  PROVE  /\ level' \in [Blocks -> Levels] /\ Known' = Known \cup {b}
         /\ \A x \in Blocks \ {b} : level'[x] = level[x]
         /\ level' = WithHeader(b) => level[b] = 0 \/ level'[b] = level[b]
<1>1. level \in [Blocks -> Levels]
  BY DEF TypeOK, Levels
<1>2. CASE level' = WithHeader(b)
  BY <1>1, <1>2 DEF WithHeader, Levels, Known, TREE, TRANSACTIONS, SCRIPTS
<1>3. CASE level' = [level EXCEPT ![b] = TRANSACTIONS]
  BY <1>1, <1>3 DEF WithHeader, Levels, Known, TREE, TRANSACTIONS, SCRIPTS
<1> QED BY <1>2, <1>3

\* RaiseValidity never lowers a status.
LEMMA RaisedLevels ==
  ASSUME TypeOK, NEW b \in Known, level' = Raised(b, SCRIPTS)
  PROVE  /\ level' \in [Blocks -> Levels] /\ Known' = Known
         /\ \A x \in Blocks : level'[x] >= level[x]
<1>1. level \in [Blocks -> Levels] /\ b \in Blocks /\ level[b] > 0
  BY DEF TypeOK, Levels, Known
<1>2. CASE b \notin failed /\ level[b] < SCRIPTS
  <2>1. level' = [level EXCEPT ![b] = SCRIPTS]
    BY <1>2 DEF Raised
  <2> QED BY <1>1, <1>2, <2>1 DEF Levels, Known, TREE, TRANSACTIONS, SCRIPTS
<1>3. CASE ~(b \notin failed /\ level[b] < SCRIPTS)
  <2>1. level' = level
    BY <1>3 DEF Raised
  <2> QED BY <1>1, <2>1 DEF Levels, Known, TREE, TRANSACTIONS, SCRIPTS
<1> QED BY <1>2, <1>3

-----------------------------------------------------------------------------
\* The state at the start.
LEMMA InitInv == Init => Inv
<1> SUFFICES ASSUME Init PROVE Inv
  OBVIOUS
<1>1. Genesis \in Blocks /\ Parent[Genesis] = None /\ Path[Genesis] = {Genesis} /\ Genesis # None
  BY TreeAssumption, PathStep
<1>3. Known = {Genesis}
  <2>1. ASSUME NEW b \in Blocks PROVE level[b] = IF b = Genesis THEN 3 ELSE 0
    BY DEF Init, TRANSACTIONS
  <2> QED BY <1>1, <2>1 DEF Known
<1>2. TypeOK
  <2>1. level \in [Blocks -> {0, TREE, TRANSACTIONS, SCRIPTS}] /\ seq \in [Blocks -> Int]
    BY DEF Init
  <2>r. RevSeqs \in Nat \ {0} /\ MaxCalls \in Nat
    BY BlockTreeAssumption
  <2>2. nextSeq \in Nat /\ revSeq \in (-RevSeqs)..-1 /\ lastPrecious \in Nat /\ calls \in 0..MaxCalls
    BY <2>r DEF Init
  <2>3. have \cup failedValid \cup failedChild \cup failedBlocks \subseteq Known
    BY <1>3 DEF Init
  <2>4. cands \subseteq linked /\ linked \subseteq have /\ tip \in linked /\ unlinked \in Seq(have)
    BY DEF Init
  <2>5. run \in Runs /\ {call, stop, overtaken} \subseteq BOOLEAN /\ reconsidered \in {"no", "plain", "deep"}
    BY RunTypes, ZenonT(30) DEF Init
  <2> QED BY <2>1, <2>2, <2>3, <2>4, <2>5, ZenonT(30) DEF TypeOK
<1>5. run.pc = "idle" /\ ~Aiming /\ ~Activating /\ ~Invalidating
  BY RunTypes DEF Init, Aiming, Activating, Invalidating
<1>4. IndexInv
  BY <1>1, <1>3 DEF Init, IndexInv, TRANSACTIONS
<1>6. MarkInv
  BY <1>5 DEF Init, MarkInv, FailedHasCause, failed
<1>7. LinkInv
  BY DEF Init, LinkInv, IsInjective, Range
<1>8. ~Worse(seq, Genesis, Genesis) /\ Connectable(Genesis)
  <2>1. seq \in [Blocks -> Int]
    BY <1>2 DEF TypeOK
  <2>2. ~Worse(seq, Genesis, Genesis)
    BY <1>1, <2>1, WorseOrder, ZenonT(30)
  <2> QED BY <1>1, <2>2, BlockTreeAssumption DEF Connectable
<1>9. ChainInv
  BY <1>5, <1>8 DEF Init, ChainInv
<1>10. CandsInv
  BY <1>1, <1>5, ZenonT(30) DEF Init, CandsInv, MainFree, Whole, Active
<1>11. BestInv
  BY <1>5, <1>8 DEF Init, BestInv, Best
<1> QED BY <1>2, <1>4, <1>6, <1>7, <1>9, <1>10, <1>11, ZenonT(30) DEF Inv

\* A stuttering step keeps the invariant.
LEMMA StutterInv == Inv /\ UNCHANGED vars => Inv'
<1> SUFFICES ASSUME Inv, UNCHANGED vars PROVE Inv'
  OBVIOUS
<1> USE DEF Inv
<1>1. /\ level' = level /\ have' = have /\ failedValid' = failedValid /\ failedChild' = failedChild
      /\ linked' = linked /\ failedBlocks' = failedBlocks /\ unlinked' = unlinked /\ seq' = seq
      /\ nextSeq' = nextSeq /\ revSeq' = revSeq /\ lastPrecious' = lastPrecious /\ cands' = cands /\ tip' = tip
      /\ run' = run /\ call' = call /\ stop' = stop /\ calls' = calls /\ reconsidered' = reconsidered
      /\ overtaken' = overtaken
  BY DEF vars, index, order, control, history
<1>2. /\ Known' = Known /\ failed' = failed /\ Active' = Active /\ (Aiming' <=> Aiming) /\ (Deep' <=> Deep)
      /\ (Activating' <=> Activating) /\ (Invalidating' <=> Invalidating) /\ (MainFree' <=> MainFree)
  BY <1>1 DEF Known, failed, Active, Aiming, Activating, Invalidating, MainFree, Deep
<1>3. TypeOK'
  BY <1>1, <1>2, ZenonT(30) DEF TypeOK
<1>4. IndexInv'
  BY <1>1, <1>2 DEF IndexInv
<1>5. MarkInv'
  BY <1>1, <1>2, ZenonT(30) DEF MarkInv, FailedHasCause, CauseAbove
<1>6. LinkInv'
  BY <1>1, <1>2, ZenonT(30) DEF LinkInv, CauseAbove
<1>7. ChainInv'
  BY <1>1, <1>2, ZenonT(30) DEF ChainInv, Connectable
<1>8. CandsInv'
  BY <1>1, <1>2, ZenonT(30) DEF CandsInv, Whole
<1>9. BestInv'
  BY <1>1, <1>2, ZenonT(30) DEF BestInv, Best
<1> QED BY <1>3, <1>4, <1>5, <1>6, <1>7, <1>8, <1>9, ZenonT(30)

\* Every step keeps the types and the index.
LEMMA TypesKept == Inv /\ Next => TypeOK' /\ IndexInv'
<1> SUFFICES ASSUME Inv, Next PROVE TypeOK' /\ IndexInv'
  OBVIOUS
<1> USE DEF Inv
<1>0. /\ level \in [Blocks -> Levels]
      /\ have \cup failedValid \cup failedChild \cup failedBlocks \subseteq Known
      /\ cands \subseteq linked /\ linked \subseteq have /\ tip \in linked
      /\ unlinked \in Seq(have)
      /\ seq \in [Blocks -> Int] /\ nextSeq \in Nat /\ revSeq \in (-RevSeqs)..-1
      /\ lastPrecious \in Nat
      /\ run \in Runs
      /\ call \in BOOLEAN /\ stop \in BOOLEAN /\ overtaken \in BOOLEAN /\ calls \in 0..MaxCalls
      /\ reconsidered \in {"no", "plain", "deep"}
      /\ Known \subseteq Blocks
      /\ Levels = {0, TREE, TRANSACTIONS, SCRIPTS}
      /\ tip \in Blocks /\ tip \in Known
  BY DEF TypeOK, Levels, Known
<1>c. calls < MaxCalls /\ calls' = calls + 1 => calls' \in 0..MaxCalls
  <2>1. calls \in 0..MaxCalls /\ MaxCalls \in Nat
    BY <1>0, BlockTreeAssumption, ZenonT(30)
  <2> QED BY <2>1
<1>i. Invalidating => run.toMark \in Known
  BY DEF ChainInv
<1>1. ASSUME NEW b \in Blocks, AcceptBlockHeader(b) PROVE TypeOK' /\ IndexInv'
  <2>0. /\ UNCHANGED <<have, failedValid, linked, failedBlocks, unlinked, order, cands, tip, run, control>>
        /\ b # Genesis
    BY <1>1, ZenonT(30) DEF AcceptBlockHeader
  <2>1. CASE HeaderAccepted(b) /\ level' = WithHeader(b) /\ UNCHANGED failedChild
    <3>1. /\ level' \in [Blocks -> Levels] /\ Known' = Known \cup {b}
          /\ \A x \in Blocks \ {b} : level'[x] = level[x]
          /\ level[b] = 0 \/ level'[b] = level[b]
      BY <2>1, HeaderLevels, ZenonT(30)
    <3>2. TypeOK'
      BY <1>0, <2>0, <2>1, <3>1, ZenonT(30) DEF TypeOK, order, control, history
    <3>3. Path[b] \subseteq Known \cup {b}
      BY <2>0, <2>1, HeaderKnown
    <3>4. \A x \in have : level'[x] >= TRANSACTIONS
      <4>1. have \subseteq Blocks /\ \A x \in have : level[x] >= TRANSACTIONS
        BY <1>0 DEF IndexInv
      <4> QED BY <3>1, <4>1 DEF TRANSACTIONS
    <3> QED BY <2>0, <3>1, <3>2, <3>3, <3>4, ZenonT(30) DEF IndexInv
  <2>2. CASE failedChild' = failedChild \cup MarkedByHeader(b) /\ UNCHANGED level
    <3>1. Known' = Known /\ MarkedByHeader(b) \subseteq Known
      BY <2>0, <2>2, HeaderFacts, ZenonT(30) DEF Known
    <3> QED BY <1>0, <2>0, <2>2, <3>1, ZenonT(30) DEF TypeOK, order, control, history, IndexInv
  <2> QED BY <1>1, <2>1, <2>2 DEF AcceptBlockHeader
<1>2. ASSUME NEW b \in Blocks, NEW fRequested \in BOOLEAN, AcceptBlock(b, fRequested)
      PROVE  TypeOK' /\ IndexInv'
  <2>0. /\ b # Genesis /\ b \notin failed /\ Parent[b] \in Known /\ Path[b] \subseteq Known \cup {b}
        /\ UNCHANGED <<failedChild, failedBlocks, revSeq, lastPrecious, tip, run, stop, calls, history>>
        /\ call' \in BOOLEAN
    BY <1>2, Accepts, ZenonT(30)
  <2>1. CASE /\ level' = WithHeader(b) /\ failedValid' \in {failedValid, failedValid \cup {b}}
             /\ UNCHANGED <<have, linked, unlinked, seq, nextSeq, cands>>
    <3>1. /\ level' \in [Blocks -> Levels] /\ Known' = Known \cup {b}
          /\ \A x \in Blocks \ {b} : level'[x] = level[x]
          /\ level[b] = 0 \/ level'[b] = level[b]
      BY <2>1, HeaderLevels
    <3>2. TypeOK'
      BY <1>0, <2>0, <2>1, <3>1, ZenonT(30) DEF TypeOK, history
    <3>4. \A x \in have : level'[x] >= TRANSACTIONS
      <4>1. have \subseteq Blocks /\ \A x \in have : level[x] >= TRANSACTIONS
        BY <1>0 DEF IndexInv
      <4> QED BY <3>1, <4>1 DEF TRANSACTIONS
    <3> QED BY <2>0, <2>1, <3>1, <3>2, <3>4 DEF IndexInv
  <2>2. CASE /\ b \notin have /\ level' = [level EXCEPT ![b] = TRANSACTIONS]
             /\ have' = have \cup {b} /\ failedValid' = failedValid
             /\ \E J \in SUBSET Blocks : Receives(b, J)
    <3>1. /\ level' \in [Blocks -> Levels] /\ Known' = Known \cup {b}
          /\ \A x \in Blocks \ {b} : level'[x] = level[x]
          /\ level'[b] = TRANSACTIONS
      BY <1>0, <2>2, HeaderLevels, ZenonT(30)
    <3>2. PICK J \in SUBSET Blocks : Receives(b, J)
      BY <2>2, ZenonT(30)
    <3>3. /\ J \subseteq have \cup {b} /\ J \cap linked = {} /\ linked' = linked \cup J
          /\ \A c \in J : Path[c] \subseteq linked \cup J
          /\ seq' \in [Blocks -> Int] /\ nextSeq' \in Nat 
          /\ cands' = cands \cup {c \in J : ~Worse(seq', c, tip)}
          /\ unlinked' \in Seq(have \cup {b})
      BY <3>2 DEF Receives
    <3>4. TypeOK'
      BY <1>0, <2>0, <2>2, <3>1, <3>3, ZenonT(30) DEF TypeOK, history
    <3>5. \A x \in have \cup {b} : level'[x] >= TRANSACTIONS
      <4>1. have \subseteq Blocks /\ \A x \in have : level[x] >= TRANSACTIONS
        BY <1>0 DEF IndexInv
      <4> QED BY <3>1, <4>1 DEF TRANSACTIONS
    <3>6. \A x \in Known \cup {b} : Path[x] \subseteq Known \cup {b}
      BY <2>0, ZenonT(30) DEF IndexInv
    <3>7. \A x \in linked \cup J : Path[x] \subseteq linked \cup J
      BY <3>3, ZenonT(30) DEF IndexInv
    <3>8. have' = have \cup {b} /\ linked' = linked \cup J /\ Known' = Known \cup {b}
      BY <2>2, <3>1, <3>3, ZenonT(30)
    <3> QED BY <3>4, <3>5, <3>6, <3>7, <3>8, ZenonT(30) DEF IndexInv
  <2> QED BY <1>2, <2>1, <2>2, Accepts, ZenonT(30)
<1>3. ASSUME NEW b \in Blocks, PreciousBlock(b) PROVE TypeOK' /\ IndexInv'
  <2> DEFINE from == IF Work[tip] > lastPrecious THEN -1 ELSE revSeq
  <2>1. /\ calls < MaxCalls /\ calls' = calls + 1 /\ b \in Known
        /\ seq' = [seq EXCEPT ![b] = from]
        /\ revSeq' = IF from > -RevSeqs THEN from - 1 ELSE from
        /\ overtaken' \in BOOLEAN
        /\ cands' \subseteq cands \cup ({b} \cap linked)
        /\ lastPrecious' = Work[tip]
        /\ call' = TRUE
        /\ UNCHANGED <<index, nextSeq, tip, run, stop, reconsidered>>
    BY <1>3 DEF PreciousBlock
  <2>r. revSeq \in (-RevSeqs)..-1 /\ RevSeqs \in Nat \ {0} /\ seq \in [Blocks -> Int]
    BY <1>0, BlockTreeAssumption
  <2>2. from \in (-RevSeqs)..-1
    BY <2>r
  <2>3. seq' \in [Blocks -> Int] /\ revSeq' \in (-RevSeqs)..-1
    <3> HIDE DEF from
    <3>1. seq' \in [Blocks -> Int]
      BY <2>r, <2>1, <2>2
    <3> QED BY <2>r, <2>1, <2>2, <3>1
  <2>4. Work[tip] \in Nat /\ calls' \in 0..MaxCalls
    BY <1>0, <1>c, <2>1, WorkGrows, ZenonT(30)
  <2> HIDE DEF from
  <2>5. Known' = Known
    BY <2>1, ZenonT(30) DEF index, Known
  <2> QED BY <1>0, <2>1, <2>3, <2>4, <2>5, ZenonT(30) DEF TypeOK, index, IndexInv
<1>4. ASSUME NEW b \in Blocks, InvalidateBlock(b) PROVE TypeOK' /\ IndexInv'
  <2>1. PICK w \in SUBSET Blocks : run' = [pc |-> "invalidate", pindex |-> b, toMark |-> b, byWork |-> w]
    BY <1>0, <1>4, ZenonT(30) DEF InvalidateBlock
  <2>2. /\ calls < MaxCalls /\ calls' = calls + 1 /\ b # Genesis
        /\ UNCHANGED <<index, order, cands, tip, call, stop, history>>
    BY <1>4 DEF InvalidateBlock
  <2>3. run' \in Runs /\ calls' \in 0..MaxCalls
    BY <1>c, <2>1, <2>2, RunTypes, ZenonT(30)
  <2>4. Known' = Known
    BY <2>2, ZenonT(30) DEF index, Known
  <2> QED BY <1>0, <2>2, <2>3, <2>4, ZenonT(30) DEF TypeOK, index, order, history, IndexInv
<1>5. ASSUME NEW b \in Blocks, ResetBlockFailureFlags(b) PROVE TypeOK' /\ IndexInv'
  <2>1. /\ calls < MaxCalls /\ calls' = calls + 1 /\ call' = TRUE
        /\ failedValid' \subseteq failedValid /\ failedChild' \subseteq failedChild
        /\ failedBlocks' \subseteq failedBlocks
        /\ cands' \subseteq cands \cup linked
        /\ reconsidered' \in {"plain", "deep"}
        /\ UNCHANGED <<level, have, linked, unlinked, order, tip, run, stop, overtaken>>
    BY <1>5, ZenonT(30) DEF ResetBlockFailureFlags, ResetCandidates
  <2>2. calls' \in 0..MaxCalls
    BY <1>c, <2>1
  <2>3. Known' = Known
    BY <2>1 DEF Known
  <2> QED BY <1>0, <2>1, <2>2, <2>3, ZenonT(30) DEF TypeOK, order, IndexInv
<1>6. CASE ActivateBestChain
  BY <1>0, <1>6, RunTypes, ZenonT(30) DEF ActivateBestChain, TypeOK, IndexInv, index, order, history, Known
<1>7. CASE LockMain
  BY <1>0, <1>7, RunTypes, RunFields, ZenonT(30) DEF LockMain, TypeOK, IndexInv, index, order, control, history, Known
<1>8. CASE DropCandidate
  <2>1. BestCandidate \in cands /\ BestCandidate \in Blocks /\ BestCandidate \in Known
    BY <1>0, <1>8, BestFacts, ZenonT(30) DEF DropCandidate
  <2>2. /\ failedChild' \subseteq failedChild \cup Path[BestCandidate] /\ cands' \subseteq cands
        /\ UNCHANGED <<level, have, failedValid, linked, failedBlocks, unlinked, order, tip, run, control>>
    BY <1>8, ZenonT(30) DEF DropCandidate
  <2>3. failedChild' \subseteq Known /\ Known' = Known
    BY <1>0, <2>1, <2>2, ZenonT(30) DEF IndexInv, Known
  <2> QED BY <1>0, <2>2, <2>3, ZenonT(30) DEF TypeOK, IndexInv, order, control, history
<1>9. CASE NothingToDo
  <2>1. run.pc = "find" /\ UNCHANGED <<index, order, cands, tip, control>>
    BY <1>9, ZenonT(30) DEF NothingToDo, Found
  <2>2. MostWork \in Blocks \cup {None}
    BY <1>0, <1>9 DEF NothingToDo
  <2>3. run' \in Runs
    BY <1>9, <2>2, RunTypes, ZenonT(30) DEF NothingToDo, LeaveMain
  <2> QED BY <1>0, <2>1, <2>3, ZenonT(30) DEF TypeOK, IndexInv, index, order, control, history, Known
<1>10. CASE BeginStep
  <2>1. run.pc = "find" /\ UNCHANGED <<index, order, cands, tip, control>> /\ MostWork # None
    BY <1>10, ZenonT(30) DEF BeginStep, Found
  <2>2. MostWork \in Blocks /\ run.start \in Blocks
    BY <1>0, <1>10, <2>1, RunFields, BestFacts, ZenonT(30) DEF MostWork, Activating
  <2>3. run' \in Runs
    BY <1>0, <1>10, <2>2, RunTypes, ZenonT(30) DEF BeginStep
  <2> QED BY <1>0, <2>1, <2>3, ZenonT(30) DEF TypeOK, IndexInv, index, order, control, history, Known
<1>11. CASE DisconnectTip
  <2>1. run.pc = "step" /\ tip \notin Path[run.most] /\ tip' = Parent[tip]
        /\ UNCHANGED <<index, order, cands, run, control>>
    BY <1>11 DEF DisconnectTip
  <2>2. tip # Genesis
    BY <1>0, <2>1, RunFields, PathHasSelf, ZenonT(30)
  <2>3. Parent[tip] \in linked
    BY <1>0, <2>2, PathStep, PathHasSelf, TreeAssumption, ZenonT(30) DEF IndexInv
  <2> QED BY <1>0, <2>1, <2>3, ZenonT(30) DEF TypeOK, IndexInv, index, order, control, history, Known
<1>12. CASE ConnectTip
  <2>1. /\ AtConnect /\ tip' = Toward /\ level' = Raised(Toward, SCRIPTS) /\ cands' \subseteq cands
        /\ UNCHANGED <<have, failedValid, failedChild, linked, failedBlocks, unlinked, order, control>>
        /\ run' = IF Work[Toward] > Work[run.oldTip] \/ Toward = run.most
              THEN EndStep(run.most, Toward) ELSE run
    BY <1>12, ZenonT(30) DEF ConnectTip, Pruned
  <2>2. Toward \in linked /\ Toward \in Known
    BY <1>0, <2>1, TowardFacts, ZenonT(30)
  <2>3. run' \in Runs
    BY <1>0, <2>1, RunFields, RunTypes, ZenonT(30) DEF AtConnect, EndStep, LeaveMain, Activating
  <2>4. /\ level' \in [Blocks -> Levels] /\ Known' = Known
        /\ \A x \in Blocks : level'[x] >= level[x]
    BY <2>1, <2>2, RaisedLevels, ZenonT(30)
  <2>5. \A x \in have : level'[x] >= TRANSACTIONS
    <3> SUFFICES ASSUME NEW x \in have PROVE level'[x] >= TRANSACTIONS
      OBVIOUS
    <3>1. level[x] \in {2, 0, 3, 5} /\ level'[x] \in {2, 0, 3, 5} /\ level'[x] >= level[x]
      BY <1>0, <2>4 DEF Levels, TREE, TRANSACTIONS, SCRIPTS
    <3>2. level[x] >= 3
      BY ZenonT(30) DEF IndexInv, TRANSACTIONS
    <3> QED BY <3>1, <3>2 DEF TRANSACTIONS
  <2> QED BY <1>0, <2>1, <2>2, <2>3, <2>4, <2>5, ZenonT(30) DEF TypeOK, IndexInv, order, control, history
<1>13. CASE ConnectFails
  <2>1. /\ AtConnect /\ cands' \subseteq cands /\ run' = EndStep(None, tip)
        /\ failedValid' \subseteq failedValid \cup {Toward} /\ failedBlocks' \subseteq failedBlocks \cup {Toward}
        /\ UNCHANGED <<level, have, failedChild, linked, unlinked, order, tip, control>>
    BY <1>13, ZenonT(30) DEF ConnectFails, InvalidBlockFound
  <2>2. Toward \in linked /\ Toward \in Known
    BY <1>0, <2>1, TowardFacts, ZenonT(30)
  <2>3. run' \in Runs
    BY <1>0, <2>1, RunFields, RunTypes, ZenonT(30) DEF AtConnect, EndStep, LeaveMain, Activating
  <2>4. Known' = Known
    BY <2>1 DEF Known
  <2> QED BY <1>0, <2>1, <2>2, <2>3, <2>4, ZenonT(30) DEF TypeOK, IndexInv, order, control, history
<1>14. CASE InvalidateTip
  <2> DEFINE better == {c \in run.byWork : ~Worse(seq, c, Parent[tip])}
             remark == Parent[tip] = run.toMark /\ Parent[tip] \in failedValid
  <2>1. /\ run.pc = "invalidate" /\ run.pindex \in Active /\ ~stop
        /\ tip' = Parent[tip] /\ cands' = (cands \ {tip}) \cup {Parent[tip]} \cup better
        /\ failedValid' = (failedValid \cup {tip}) \ (IF remark THEN {Parent[tip]} ELSE {})
        /\ failedChild' = failedChild \cup (IF remark THEN {Parent[tip]} ELSE {})
        /\ run' = [run EXCEPT !.toMark = tip, !.byWork = @ \ better]
        /\ UNCHANGED <<level, have, linked, failedBlocks, unlinked, order, control>>
    BY <1>14 DEF InvalidateTip
  <2>2. run.pindex \in Blocks \ {Genesis} /\ run.byWork \subseteq linked /\ run.byWork \subseteq Blocks
    BY <1>0, <2>1, RunFields DEF Invalidating, ChainInv
  <2>3. tip # Genesis
    BY <2>1, <2>2, PathStep, TreeAssumption DEF Active
  <2>4. Parent[tip] \in linked
    BY <1>0, <2>3, PathStep, PathHasSelf, TreeAssumption, ZenonT(30) DEF IndexInv
  <2>5. run' \in Runs
    <3>1. run = [pc |-> "invalidate", pindex |-> run.pindex, toMark |-> run.toMark, byWork |-> run.byWork]
      BY <1>0, <2>1 DEF Runs, Idle
    <3>2. run' = [pc |-> "invalidate", pindex |-> run.pindex, toMark |-> tip, byWork |-> run.byWork \ better]
      BY <2>1, <3>1, ZenonT(30)
    <3> HIDE DEF better
    <3> QED BY <1>0, <2>2, <2>3, <3>2, RunTypes, ZenonT(30)
  <2>6. Known' = Known /\ cands' \subseteq linked
    BY <1>0, <2>1, <2>2, <2>4, ZenonT(30) DEF Known
  <2> HIDE DEF better, remark
  <2> QED BY <1>0, <2>1, <2>4, <2>5, <2>6, ZenonT(30) DEF TypeOK, IndexInv, order, control, history
<1>15. CASE InvalidateLoopEnds
  <2>1. run.pc = "invalidate" /\ run' = [run EXCEPT !.pc = "mark"] /\ UNCHANGED <<index, order, cands, tip, control>>
    BY <1>15 DEF InvalidateLoopEnds
  <2>2. run' \in Runs
    <3>1. /\ run' = [pc |-> "mark", pindex |-> run.pindex, toMark |-> run.toMark, byWork |-> run.byWork]
          /\ run.pindex \in Blocks \ {Genesis} /\ run.toMark \in Blocks \ {Genesis} /\ run.byWork \in SUBSET Blocks
      BY <1>0, <2>1 DEF Runs, Idle
    <3> QED BY <3>1, RunTypes, ZenonT(30)
  <2> QED BY <1>0, <2>1, <2>2, ZenonT(30) DEF TypeOK, IndexInv, index, order, control, history, Known
<1>16. CASE MarkInvalid
  <2>1. /\ run.pc = "mark" /\ failedValid' \subseteq failedValid \cup {run.toMark}
        /\ failedBlocks' \subseteq failedBlocks \cup {run.toMark}
        /\ cands' \subseteq cands \cup linked /\ run' = Idle /\ call' = TRUE
        /\ UNCHANGED <<level, have, failedChild, linked, unlinked, order, tip, stop, calls, history>>
    BY <1>16, ZenonT(30) DEF MarkInvalid
  <2>2. run.toMark \in Known
    BY <1>i, <2>1 DEF Invalidating
  <2> QED BY <1>0, <2>1, <2>2, RunTypes, ZenonT(30) DEF TypeOK, IndexInv, order, history, Known
<1>17. CASE StartShutdown
  <2>1. calls' \in 0..MaxCalls /\ stop' = TRUE /\ UNCHANGED <<index, order, cands, tip, run, call, history>>
    BY <1>c, <1>17 DEF StartShutdown
  <2> QED BY <1>0, <2>1, ZenonT(30) DEF TypeOK, IndexInv, index, order, history, Known
<1>18. CASE Restart
  <2> DEFINE inChild == {b \in Known : Path[b] \cap failed # {}} \ failed
             complete == {b \in have : Path[b] \subseteq have}
  <2>1. /\ failedChild' = failedChild \cup inChild /\ linked' = complete
        /\ unlinked' = Kept(Order, have \ complete)
        /\ cands' \subseteq complete /\ seq' = [b \in Blocks |-> 0]
        /\ nextSeq' = 1 /\ revSeq' = -1 /\ lastPrecious' = 0 /\ failedBlocks' = {}
        /\ call' = TRUE /\ stop' = FALSE /\ overtaken' = FALSE
        /\ UNCHANGED <<level, have, failedValid, tip, run, calls, reconsidered>>
    BY <1>18, ZenonT(30) DEF Restart
  <2>2. have \subseteq Blocks /\ complete \subseteq have /\ inChild \subseteq Known
    BY <1>0, ZenonT(30)
  <2>3. tip \in complete
    BY <1>0 DEF IndexInv
  <2>4. ASSUME NEW b \in complete PROVE Path[b] \subseteq complete
    BY <2>2, PathTransitive
  <2>5. unlinked' \in Seq(have)
    <3>1. Order \in Seq(Blocks)
      BY BlockTreeAssumption
    <3>2. Kept(Order, have \ complete) \in Seq(Blocks) /\ Range(Kept(Order, have \ complete)) = Range(Order) \cap (have \ complete)
      BY <3>1, KeptRange, ZenonT(30)
    <3> HIDE DEF complete
    <3>3. Range(unlinked') \subseteq have /\ unlinked' \in Seq(Blocks)
      BY <2>1, <3>2, ZenonT(30)
    <3> QED BY <3>3 DEF Range
  <2> HIDE DEF inChild, complete
  <2>6. revSeq' \in (-RevSeqs)..-1 /\ nextSeq' \in Nat /\ lastPrecious' \in Nat
    BY <2>1, BlockTreeAssumption
  <2>7. Known' = Known /\ seq' \in [Blocks -> Int]
    BY <2>1 DEF Known
  <2>8. TypeOK'
    BY <1>0, <2>1, <2>2, <2>3, <2>5, <2>6, <2>7, ZenonT(30) DEF TypeOK
  <2>9. IndexInv'
    BY <2>1, <2>4, <2>7, ZenonT(30) DEF IndexInv
  <2> QED BY <2>8, <2>9
<1> QED BY <1>1, <1>2, <1>3, <1>4, <1>5, <1>6, <1>7, <1>8, <1>9, <1>10, <1>11, <1>12, <1>13, <1>14, <1>15,
           <1>16, <1>17, <1>18, ZenonT(30) DEF Next, Activation, Invalidation

\* One round of InvalidateBlock's loop: it marks the tip, and never finds the
\* next tip marked.
LEMMA InvalidatesTip ==
  ASSUME Inv, InvalidateTip
  PROVE  /\ run.pc = "invalidate" /\ run.pindex \in Active
         /\ tip # Genesis /\ Parent[tip] \in Active /\ Parent[tip] \in Blocks
         /\ tip' = Parent[tip] /\ failedValid' = failedValid \cup {tip} /\ failedChild' = failedChild
         /\ run' = [pc |-> "invalidate", pindex |-> run.pindex, toMark |-> tip,
                    byWork |-> {c \in run.byWork : Worse(seq, c, Parent[tip])}]
         /\ cands' = (cands \ {tip}) \cup {Parent[tip]} \cup {c \in run.byWork : ~Worse(seq, c, Parent[tip])}
         /\ UNCHANGED <<level, have, linked, failedBlocks, unlinked, order, control>>
<1> USE DEF Inv
<1>0. tip \in Blocks /\ run \in Runs /\ Active \cap failed = {}
  BY BlocksTypes DEF TypeOK, MarkInv
<1>1. run.pc = "invalidate" /\ run.pindex \in Active
  BY ZenonT(30) DEF InvalidateTip
<1>2. tip # Genesis
  BY <1>0, <1>1, RunFields, PathStep, TreeAssumption, ZenonT(30) DEF Active, Invalidating
<1>3. Parent[tip] \in Active /\ Parent[tip] \in Blocks
  BY <1>0, <1>2, PathStep, PathHasSelf, TreeAssumption DEF Active
<1>4. Parent[tip] \notin failedValid
  BY <1>0, <1>3, ZenonT(30) DEF failed
<1>5. run = [pc |-> "invalidate", pindex |-> run.pindex, toMark |-> run.toMark, byWork |-> run.byWork]
  BY <1>0, <1>1 DEF Runs, Idle
<1>6. run' = [run EXCEPT !.toMark = tip, !.byWork = run.byWork \ {c \in run.byWork : ~Worse(seq, c, Parent[tip])}]
  BY ZenonT(30) DEF InvalidateTip
<1>7. run' = [pc |-> "invalidate", pindex |-> run.pindex, toMark |-> tip,
              byWork |-> run.byWork \ {c \in run.byWork : ~Worse(seq, c, Parent[tip])}]
  <2> DEFINE better == {c \in run.byWork : ~Worse(seq, c, Parent[tip])}
  <2>1. run' = [run EXCEPT !.toMark = tip, !.byWork = run.byWork \ better]
    BY <1>6, ZenonT(30)
  <2> HIDE DEF better
  <2>2. run' = [pc |-> "invalidate", pindex |-> run.pindex, toMark |-> tip, byWork |-> run.byWork \ better]
    <3> DEFINE p == run.pindex
               m == run.toMark
               w == run.byWork
    <3>1. run = [pc |-> "invalidate", pindex |-> p, toMark |-> m, byWork |-> w]
      BY <1>5
    <3>2. run' = [run EXCEPT !.toMark = tip, !.byWork = w \ better]
      BY <2>1
    <3> HIDE DEF p, m, w
    <3>3. run' = [pc |-> "invalidate", pindex |-> p, toMark |-> tip, byWork |-> w \ better]
      BY <3>1, <3>2, ZenonT(30)
    <3> QED BY <3>3 DEF p, w
  <2> QED BY <2>2 DEF better
<1>8. run' = [pc |-> "invalidate", pindex |-> run.pindex, toMark |-> tip,
              byWork |-> {c \in run.byWork : Worse(seq, c, Parent[tip])}]
  <2>1. run.byWork \ {c \in run.byWork : ~Worse(seq, c, Parent[tip])} = {c \in run.byWork : Worse(seq, c, Parent[tip])}
    OBVIOUS
  <2> QED BY <1>7, <2>1, ZenonT(30)
<1>9. /\ tip' = Parent[tip] /\ failedValid' = failedValid \cup {tip} /\ failedChild' = failedChild
      /\ cands' = (cands \ {tip}) \cup {Parent[tip]} \cup {c \in run.byWork : ~Worse(seq, c, Parent[tip])}
      /\ UNCHANGED <<level, have, linked, failedBlocks, unlinked, order, control>>
  BY <1>4 DEF InvalidateTip
<1> QED BY <1>1, <1>2, <1>3, <1>8, <1>9, ZenonT(30)

\* Marks that come with a cause keep FailedHasCause.
LEMMA MarksWithCause ==
  ASSUME MarkInv, failedValid \subseteq failedValid', reconsidered' = reconsidered,
         failedBlocks' \subseteq failedBlocks \cup failedValid',
         \A x \in failed' \ failed : ~Deep => \E f \in failedValid' : f \in Path[x]
  PROVE  FailedHasCause'
<1>1. ~Deep => \A x \in failed : \E f \in failedValid : f \in Path[x]
  BY DEF MarkInv, FailedHasCause, CauseAbove
<1>2. (Deep' <=> Deep) /\ failedBlocks \subseteq failedValid
  BY DEF Deep, MarkInv, FailedHasCause
<1>3. ~Deep' => \A x \in failed' : \E f \in failedValid' : f \in Path[x]
  BY <1>1, <1>2
<1> QED BY <1>2, <1>3 DEF FailedHasCause, CauseAbove

\* Every step keeps the marks: what is marked lies off the active chain and off
\* the chain aimed at, since its cause does.
LEMMA MarksKept == Inv /\ Next => MarkInv'
<1> SUFFICES ASSUME Inv, Next PROVE MarkInv'
  OBVIOUS
<1> USE DEF Inv
<1>0. /\ Active \cap failed = {} /\ (Aiming => Path[run.most] \cap failed = {})
      /\ (~Deep => \A x \in failed : \E f \in failedValid : f \in Path[x])
      /\ failedBlocks \subseteq failedValid /\ failedValid \subseteq failed
  BY ZenonT(30) DEF MarkInv, FailedHasCause, CauseAbove, failed
<1>t. /\ tip \in Blocks /\ tip # None /\ Active \subseteq Blocks /\ Active \subseteq linked
      /\ run \in Runs /\ linked \subseteq Blocks /\ linked \subseteq have /\ failed \subseteq Blocks
  BY BlocksTypes, PathInBlocks, ZenonT(30) DEF Active, IndexInv, TypeOK
<1>a. Aiming => run.most \in Blocks /\ run.most \in cands /\ Path[run.most] \subseteq linked
  BY BlocksTypes, ZenonT(30) DEF ChainInv, IndexInv, TypeOK
<1>p. \A x \in Blocks : \A f \in Path[x] : x \in Active => f \in Active
  BY <1>t, PathTransitive DEF Active
<1>q. Aiming => \A x \in Blocks : \A f \in Path[x] : x \in Path[run.most] => f \in Path[run.most]
  BY <1>a, PathTransitive, ZenonT(30)
<1>f. ASSUME FailedHasCause', tip' = tip, run' = run, Active \cap failed' = {},
             Aiming => Path[run.most] \cap failed' = {}
      PROVE  MarkInv'
  BY <1>f, ZenonT(30) DEF MarkInv, Active, Aiming
<1>g. ASSUME FailedHasCause', Active' \cap failed' = {}, ~Aiming' PROVE MarkInv'
  BY <1>g DEF MarkInv
<1>1. ASSUME NEW b \in Blocks, AcceptBlockHeader(b) PROVE MarkInv'
  <2>0. /\ UNCHANGED <<failedValid, failedBlocks, tip, run, reconsidered>> /\ b # Genesis
    BY <1>1 DEF AcceptBlockHeader, control, history
  <2>1. failedChild' = failedChild \/ failedChild' = failedChild \cup MarkedByHeader(b)
    BY <1>1, ZenonT(30) DEF AcceptBlockHeader
  <2>2. \A x \in failed' \ failed : x \in Blocks /\ \E f \in failedValid : f \in Path[x]
    BY <1>0, <2>0, <2>1, HeaderFacts, BlocksTypes, ZenonT(30) DEF failed
  <2>3. FailedHasCause'
    BY <2>0, <2>2, MarksWithCause, ZenonT(30)
  <2>4. Active \cap failed' = {}
    BY <1>0, <1>p, <2>2, ZenonT(30)
  <2>5. Aiming => Path[run.most] \cap failed' = {}
    BY <1>0, <1>q, <2>2, ZenonT(30)
  <2> QED BY <1>f, <2>0, <2>3, <2>4, <2>5, ZenonT(30)
<1>2. ASSUME NEW b \in Blocks, NEW fRequested \in BOOLEAN, AcceptBlock(b, fRequested) PROVE MarkInv'
  <2>1. /\ UNCHANGED <<failedChild, failedBlocks, tip, run, reconsidered>>
        /\ failedValid' = failedValid \/ (b \notin have /\ failedValid' = failedValid \cup {b})
    BY <1>2, Accepts, ZenonT(30) DEF history
  <2>2. failed' = failed \/ (b \notin linked /\ failed' = failed \cup {b} /\ b \in failedValid')
    BY <1>t, <2>1 DEF failed
  <2>3. FailedHasCause'
    BY <2>1, <2>2, PathHasSelf, MarksWithCause
  <2> QED BY <1>0, <1>a, <1>f, <1>t, <2>1, <2>2, <2>3, ZenonT(30)
<1>3. ASSUME NEW b \in Blocks, PreciousBlock(b) PROVE MarkInv'
  <2>1. UNCHANGED <<failedValid, failedChild, failedBlocks, tip, run, reconsidered>>
    BY <1>3 DEF PreciousBlock, index
  <2>2. failed' = failed
    BY <2>1 DEF failed
  <2> QED BY <1>0, <1>f, <2>1, <2>2, MarksWithCause, ZenonT(30)
<1>4. ASSUME NEW b \in Blocks, InvalidateBlock(b) PROVE MarkInv'
  <2>1. UNCHANGED <<failedValid, failedChild, failedBlocks, tip, reconsidered>> /\ run'.pc = "invalidate"
    BY <1>4 DEF InvalidateBlock, index, history
  <2>2. failed' = failed /\ Active' = Active /\ ~Aiming'
    BY <2>1 DEF failed, Active, Aiming
  <2> QED BY <1>0, <1>g, <2>1, <2>2, MarksWithCause, ZenonT(30)
<1>5. ASSUME NEW b \in Blocks, ResetBlockFailureFlags(b) PROVE MarkInv'
  <2>1. /\ failedValid' = failedValid \ Cleared(b) /\ failedChild' = failedChild \ Cleared(b)
        /\ failedBlocks' = failedBlocks \ Cleared(b) /\ b # Genesis
        /\ UNCHANGED <<tip, run>>
        /\ reconsidered' = IF Deep \/ Path[Parent[b]] \cap failed # {} THEN "deep" ELSE "plain"
    BY <1>5, ZenonT(30) DEF ResetBlockFailureFlags
  <2>2. failed' = failed \ Cleared(b)
    BY <2>1, ZenonT(30) DEF failed
  <2>3. ~Deep' => ~Deep /\ Path[Parent[b]] \cap failed = {}
    BY <2>1, ZenonT(30) DEF Deep
  <2>4. ASSUME ~Deep', NEW x \in failed' PROVE \E f \in failedValid' : f \in Path[x]
    <3>1. x \in failed /\ x \in Blocks /\ x \notin Cleared(b)
      BY <1>t, <2>2, ZenonT(30)
    <3>2. PICK f \in failedValid : f \in Path[x]
      BY <1>0, <2>3, <2>4, <3>1, ZenonT(30)
    <3>3. f \in Blocks /\ f \in failed
      BY <1>0, <1>t, <3>2, ZenonT(30)
    <3>4. x \notin Descendants(b)
      BY <3>1, ZenonT(30) DEF Cleared
    <3>5. b \notin Path[x]
      BY <3>1, <3>4, ZenonT(30) DEF Descendants
    <3>6. b \notin Path[f]
      BY <3>1, <3>2, <3>5, PathTransitive, ZenonT(30)
    <3>7. f # b
      BY <3>2, <3>5, ZenonT(30)
    <3>8. f \notin Path[b]
      BY <2>3, <2>4, <3>3, <3>7, PathStep, ZenonT(30)
    <3>9. f \notin Cleared(b)
      BY <3>6, <3>8, ZenonT(30) DEF Cleared, Descendants
    <3> QED BY <2>1, <3>2, <3>9, ZenonT(30)
  <2>5. FailedHasCause'
    BY <1>0, <2>1, <2>4, ZenonT(30) DEF FailedHasCause, CauseAbove
  <2> QED BY <1>0, <1>f, <2>1, <2>2, <2>5, ZenonT(30)
<1>6. CASE ActivateBestChain
  <2>1. UNCHANGED <<failedValid, failedChild, failedBlocks, tip, reconsidered>> /\ run'.most = None
    BY <1>6 DEF ActivateBestChain, index, history
  <2>2. failed' = failed /\ Active' = Active /\ ~Aiming'
    BY <2>1 DEF failed, Active, Aiming
  <2> QED BY <1>0, <1>g, <2>1, <2>2, MarksWithCause, ZenonT(30)
<1>7. CASE LockMain
  <2>1. UNCHANGED <<failedValid, failedChild, failedBlocks, tip, reconsidered>> /\ run.pc = "released" /\ run'.most = run.most
    BY <1>7 DEF LockMain, index, control, history
  <2>2. failed' = failed /\ Active' = Active /\ (Aiming' => Aiming)
    BY <2>1 DEF failed, Active, Aiming
  <2>3. FailedHasCause'
    BY <1>0, <2>1, <2>2, MarksWithCause, ZenonT(30)
  <2> QED BY <1>0, <2>1, <2>2, <2>3, ZenonT(30) DEF MarkInv
<1>8. CASE DropCandidate
  <2> DEFINE best == BestCandidate
             bad == NearestFailed(best)
  <2>1. best \in Blocks /\ FailedOnPath(best) # {} /\ run.most = None
    BY <1>8, <1>t, BestFacts, ZenonT(30) DEF DropCandidate, TypeOK
  <2>2. /\ bad \in failed /\ bad \in Path[best] /\ bad \in Blocks
        /\ \A x \in Path[best] \ Path[bad] : bad \in Path[x]
    BY <2>1, DropFacts, ZenonT(30)
  <2>3. /\ failedChild' = failedChild \cup (Path[best] \ Path[bad])
        /\ UNCHANGED <<failedValid, failedBlocks, tip, run, reconsidered>>
    BY <1>8, ZenonT(30) DEF DropCandidate, control, history
  <2> HIDE DEF best, bad
  <2>4. \A x \in failed' \ failed : x \in Blocks /\ bad \in Path[x] /\ Path[bad] \subseteq Path[x]
    BY <2>1, <2>2, <2>3, PathInBlocks, PathTransitive, ZenonT(30) DEF failed
  <2>5. FailedHasCause'
    BY <1>0, <2>2, <2>3, <2>4, MarksWithCause, ZenonT(30)
  <2>6. Active \cap failed' = {}
    BY <1>0, <1>p, <2>2, <2>4, ZenonT(30)
  <2> QED BY <1>f, <2>1, <2>3, <2>5, <2>6, ZenonT(30) DEF Aiming
<1>9. CASE NothingToDo
  <2>1. UNCHANGED <<failedValid, failedChild, failedBlocks, tip, reconsidered>>
    BY <1>9 DEF NothingToDo, index, control, history
  <2>2. failed' = failed /\ Active' = Active
    BY <2>1, ZenonT(30) DEF failed, Active
  <2>3. run' = Idle \/ run'.most = None
    BY <1>9, <1>t DEF NothingToDo, LeaveMain
  <2>4. ~Aiming'
    BY <2>3, RunTypes, ZenonT(30) DEF Aiming
  <2> QED BY <1>0, <1>g, <2>1, <2>2, <2>4, MarksWithCause, ZenonT(30)
<1>10. CASE BeginStep
  <2>1. /\ UNCHANGED <<failedValid, failedChild, failedBlocks, tip, reconsidered>> /\ run'.most = MostWork
        /\ Found /\ MostWork # None
    BY <1>10 DEF BeginStep, index, control, history
  <2>2. failed' = failed /\ Active' = Active
    BY <2>1 DEF failed, Active
  <2>3. Path[MostWork] \cap failed = {}
    <3>1. CASE run.most # None
      BY <1>0, <2>1, <3>1, ZenonT(30) DEF MostWork, Found, Aiming
    <3>2. CASE run.most = None
      <4>1. MostWork = BestCandidate /\ FailedOnPath(BestCandidate) = {}
        BY <2>1, <3>2, ZenonT(30) DEF MostWork, Found
      <4> QED BY <1>0, <4>1, ZenonT(30) DEF FailedOnPath
    <3> QED BY <3>1, <3>2
  <2>4. FailedHasCause'
    BY <1>0, <2>1, <2>2, MarksWithCause, ZenonT(30)
  <2> QED BY <1>0, <2>1, <2>2, <2>3, <2>4, ZenonT(30) DEF MarkInv
<1>11. CASE DisconnectTip
  <2>1. UNCHANGED <<failedValid, failedChild, failedBlocks, run, reconsidered>> /\ tip' = Parent[tip]
    BY <1>11, ZenonT(30) DEF DisconnectTip, index, control, history
  <2>2. failed' = failed /\ Active' \subseteq Active /\ Aiming' = Aiming
    BY <1>t, <2>1, PathStep, ZenonT(30) DEF failed, Active, Aiming
  <2>3. FailedHasCause'
    BY <1>0, <2>1, <2>2, MarksWithCause, ZenonT(30)
  <2> QED BY <1>0, <2>1, <2>2, <2>3, ZenonT(30) DEF MarkInv
<1>12. CASE ConnectTip
  <2>1. /\ AtConnect /\ tip' = Toward
        /\ UNCHANGED <<failedValid, failedChild, failedBlocks, reconsidered>>
        /\ run' \in {run, EndStep(run.most, Toward)}
    BY <1>12, ZenonT(30) DEF ConnectTip, control, history
  <2>2. Toward \notin failed /\ Path[Toward] = {Toward} \cup Active
    BY <2>1, TowardFacts, ZenonT(30)
  <2>3. failed' = failed /\ Active' \cap failed' = {}
    BY <1>0, <2>1, <2>2 DEF failed, Active
  <2>4. run'.pc = "idle" \/ run'.most = run.most
    BY <2>1, RunTypes DEF EndStep, LeaveMain
  <2>5. Aiming' => Aiming /\ run'.most = run.most
    BY <2>1, <2>4, ZenonT(30) DEF Aiming, AtConnect
  <2>6. FailedHasCause'
    BY <1>0, <2>1, <2>3, MarksWithCause
  <2> QED BY <1>0, <2>3, <2>5, <2>6 DEF MarkInv
<1>13. CASE ConnectFails
  <2>1. /\ AtConnect /\ run' = EndStep(None, tip) /\ UNCHANGED <<failedChild, tip, reconsidered>>
        /\ \/ failedValid' = failedValid /\ failedBlocks' = failedBlocks
           \/ failedValid' = failedValid \cup {Toward} /\ failedBlocks' = failedBlocks \cup {Toward}
    BY <1>13, ZenonT(30) DEF ConnectFails, InvalidBlockFound, control, history
  <2>2. Toward \notin Active /\ Toward \in Blocks
    BY <2>1, TowardFacts
  <2>3. failed' \subseteq failed \cup ({Toward} \cap failedValid')
    BY <2>1 DEF failed
  <2>4. ~Aiming'
    BY <2>1, RunTypes, ZenonT(30) DEF EndStep, LeaveMain, Aiming
  <2>5. FailedHasCause'
    BY <2>1, <2>2, <2>3, PathHasSelf, MarksWithCause, ZenonT(30)
  <2>6. Active' \cap failed' = {}
    BY <1>0, <2>1, <2>2, <2>3, ZenonT(30) DEF Active
  <2> QED BY <1>g, <2>4, <2>5, <2>6, ZenonT(30)
<1>14. CASE InvalidateTip
  <2>1. /\ tip' = Parent[tip] /\ failedValid' = failedValid \cup {tip} /\ failedChild' = failedChild
        /\ run'.pc = "invalidate" /\ UNCHANGED <<failedBlocks, reconsidered>>
    <3>1. run' = [pc |-> "invalidate", pindex |-> run.pindex, toMark |-> tip,
                  byWork |-> {c \in run.byWork : Worse(seq, c, Parent[tip])}]
      BY <1>14, InvalidatesTip, ZenonT(30)
    <3>2. /\ tip' = Parent[tip] /\ failedValid' = failedValid \cup {tip} /\ failedChild' = failedChild
          /\ UNCHANGED <<failedBlocks, control>>
      BY <1>14, InvalidatesTip, ZenonT(30)
    <3> QED BY <3>1, <3>2 DEF control, history
  <2>2. failed' = failed \cup {tip} /\ tip \notin Path[Parent[tip]]
    BY <1>t, <2>1, PathAcyclic, ZenonT(30) DEF failed
  <2>3. Active' \cap failed' = {}
    BY <1>0, <1>t, <2>1, <2>2, PathStep DEF Active
  <2>4. FailedHasCause'
    BY <1>t, <2>1, <2>2, PathHasSelf, MarksWithCause, ZenonT(30)
  <2> QED BY <1>g, <2>1, <2>3, <2>4, ZenonT(30) DEF Aiming
<1>15. CASE InvalidateLoopEnds
  <2>1. UNCHANGED <<failedValid, failedChild, failedBlocks, tip, reconsidered>> /\ run'.pc = "mark"
    BY <1>15, <1>t DEF InvalidateLoopEnds, index, control, history, Runs, Idle
  <2>2. failed' = failed /\ Active' = Active /\ ~Aiming'
    BY <2>1 DEF failed, Active, Aiming
  <2> QED BY <1>0, <1>g, <2>1, <2>2, MarksWithCause, ZenonT(30)
<1>16. CASE MarkInvalid
  <2>1. /\ run.pc = "mark" /\ UNCHANGED <<failedChild, tip, reconsidered>> /\ run' = Idle
        /\ \/ failedValid' = failedValid /\ failedBlocks' = failedBlocks
           \/ /\ failedValid' = failedValid \cup {run.toMark} /\ failedBlocks' = failedBlocks \cup {run.toMark}
              /\ run.toMark \notin Active
    BY <1>16, ZenonT(30) DEF MarkInvalid, history
  <2>2. run.toMark \in Blocks
    BY <1>t, <2>1, RunFields DEF Invalidating
  <2>3. failed' = failed \/ (failed' = failed \cup {run.toMark} /\ run.toMark \notin Active /\ run.toMark \in failedValid')
    BY <2>1, ZenonT(30) DEF failed
  <2>4. FailedHasCause'
    BY <2>1, <2>2, <2>3, PathHasSelf, MarksWithCause, ZenonT(30)
  <2>5. Active' \cap failed' = {} /\ ~Aiming'
    BY <1>0, <2>1, <2>3, RunTypes, ZenonT(30) DEF Active, Aiming
  <2> QED BY <1>g, <2>4, <2>5, ZenonT(30)
<1>17. CASE StartShutdown
  <2>1. UNCHANGED <<failedValid, failedChild, failedBlocks, tip, run, reconsidered>>
    BY <1>17 DEF StartShutdown, index, history
  <2>2. failed' = failed
    BY <2>1 DEF failed
  <2> QED BY <1>0, <1>f, <2>1, <2>2, MarksWithCause, ZenonT(30)
<1>18. CASE Restart
  <2>1. /\ failedChild' = failedChild \cup ({b \in Known : Path[b] \cap failed # {}} \ failed)
        /\ failedBlocks' = {} /\ run = Idle
        /\ UNCHANGED <<failedValid, tip, run, reconsidered>>
    BY <1>18, ZenonT(30) DEF Restart
  <2>2. \A x \in failed' \ failed : x \in Blocks /\ \E g \in failed : g \in Path[x] /\ Path[g] \subseteq Path[x]
    BY <2>1, PathTransitive, ZenonT(30) DEF failed, Known
  <2>3. FailedHasCause'
    BY <1>0, <2>1, <2>2, MarksWithCause, ZenonT(30)
  <2>4. Active \cap failed' = {}
    BY <1>0, <1>p, <2>2
  <2> QED BY <1>f, <2>1, <2>3, <2>4, RunTypes, ZenonT(30) DEF Aiming
<1> QED BY <1>1, <1>2, <1>3, <1>4, <1>5, <1>6, <1>7, <1>8, <1>9, <1>10, <1>11, <1>12, <1>13, <1>14, <1>15,
           <1>16, <1>17, <1>18, ZenonT(30) DEF Next, Activation, Invalidation
=============================================================================
