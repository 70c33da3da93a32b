--------------------------- MODULE BlockPathProofs ---------------------------
(***************************************************************************)
(* What the proofs about the block index use: induction and recursion over *)
(* the natural numbers and over the tree, and the order of the ancestors   *)
(* of a block.                                                             *)
(***************************************************************************)
EXTENDS BlockPaths, Functions, FiniteSets, FiniteSetTheorems, WellFoundedInduction, TLAPS

\* The successor of a natural number is one.
LEMMA NatSucc == ASSUME NEW i \in Nat PROVE i + 1 \in Nat
  OBVIOUS

\* Induction over the natural numbers, for the members of a set.
LEMMA NatSetInduction ==
  ASSUME NEW T, 0 \in T, \A n \in Nat : n \in T => n + 1 \in T
  PROVE  Nat \subseteq T
<1> DEFINE S == Nat \ T
<1> SUFFICES ASSUME S # {} PROVE FALSE
  OBVIOUS
<1>1. PICK m \in S : \A n \in S : ~(<<n, m>> \in OpToRel(<, Nat))
  BY NatLessThanWellFounded, WFMin, ZenonT(30)
<1>2. \A n \in S : ~(n < m)
  BY <1>1, ZenonT(30) DEF OpToRel
<1>3. m # 0 /\ m - 1 \in Nat /\ m - 1 < m
  OBVIOUS
<1>4. m - 1 \in T
  BY <1>2, <1>3
<1>5. (m - 1) + 1 \in T
  BY <1>3, <1>4
<1> QED BY <1>3, <1>5

\* A set of natural numbers has a least member.
LEMMA NatLeast ==
  ASSUME NEW S \in SUBSET Nat, S # {}
  PROVE  \E m \in S : \A n \in S : m <= n
<1>1. PICK m \in S : \A n \in S : ~(<<n, m>> \in OpToRel(<, Nat))
  BY NatLessThanWellFounded, WFMin, ZenonT(30)
<1>2. \A n \in S : ~(n < m)
  BY <1>1, ZenonT(30) DEF OpToRel
<1> QED BY <1>2

\* A function can be defined by recursion over the natural numbers.
NatSteps(V) == [Nat -> [V -> V]]
NatSolution(f, V, base, step) ==
    f \in [Nat -> V] /\ f[0] = base /\ \A n \in Nat : f[n + 1] = step[n][f[n]]

\* A function defined by recursion over the natural numbers exists.
LEMMA NatRecursion ==
  ASSUME NEW V, NEW base \in V, NEW step \in NatSteps(V)
  PROVE  \E f : NatSolution(f, V, base, step)
<1> USE DEF NatSteps
<1> DEFINE Sol(n, g) == /\ g \in [0..n -> V] /\ g[0] = base
                        /\ \A i \in 0..n : i # n => g[i + 1] = step[i][g[i]]
           E == {n \in Nat : \E g : Sol(n, g)}
<1>1. 0 \in E
  <2>1. Sol(0, [i \in 0..0 |-> base])
    OBVIOUS
  <2> QED BY <2>1, ZenonT(30)
<1>2. ASSUME NEW n \in Nat, n \in E PROVE n + 1 \in E
  <2>1. PICK g : Sol(n, g)
    BY <1>2
  <2> DEFINE h == [i \in 0..(n + 1) |-> IF i = n + 1 THEN step[n][g[n]] ELSE g[i]]
  <2>2. h \in [0..(n + 1) -> V] /\ h[0] = base
    BY <2>1
  <2>3. ASSUME NEW i \in 0..(n + 1), i # n + 1 PROVE h[i + 1] = step[i][h[i]]
    BY <2>1, <2>3
  <2>4. Sol(n + 1, h) /\ n + 1 \in Nat
    BY <2>2, <2>3
  <2> HIDE DEF Sol, h
  <2> QED BY <2>4
<1>3. Nat \subseteq E
  <2> HIDE DEF E
  <2> QED BY <1>1, <1>2, NatSetInduction
<1>4. ASSUME NEW n \in Nat, NEW m \in Nat, NEW g, NEW h, Sol(n, g), Sol(m, h), n <= m
      PROVE  \A i \in 0..n : g[i] = h[i]
  <2> DEFINE T == {i \in Nat : i <= n => g[i] = h[i]}
  <2>1. 0 \in T
    BY <1>4
  <2>2. ASSUME NEW i \in Nat, i \in T PROVE i + 1 \in T
    BY <1>4, <2>2
  <2>3. Nat \subseteq T
    <3> HIDE DEF T
    <3> QED BY <2>1, <2>2, NatSetInduction
  <2> QED BY <2>3
<1> DEFINE G(n) == CHOOSE g : Sol(n, g)
           F == [n \in Nat |-> G(n)[n]]
<1>5. ASSUME NEW n \in Nat PROVE Sol(n, G(n))
  BY <1>3, ZenonT(30)
<1> HIDE DEF G
<1>6. F \in [Nat -> V] /\ F[0] = base
  BY <1>5
<1>7. ASSUME NEW n \in Nat PROVE F[n + 1] = step[n][F[n]]
  <2>1. n \in 0..(n + 1) /\ n + 1 \in Nat /\ n <= n + 1 /\ n \in 0..n
    OBVIOUS
  <2>2. G(n + 1)[n + 1] = step[n][G(n + 1)[n]]
    BY <1>5, <2>1
  <2>3. G(n)[n] = G(n + 1)[n]
    <3> HIDE DEF Sol
    <3> QED BY <1>4, <1>5, <2>1
  <2> QED BY <2>1, <2>2, <2>3
<1> QED BY <1>6, <1>7, ZenonT(30) DEF NatSolution

\* Induction from Genesis upwards.
LEMMA TreeInduction ==
  ASSUME NEW T, \A b \in Blocks : b = Genesis \/ Parent[b] \in T => b \in T
  PROVE  Blocks \subseteq T
<1> DEFINE S == Blocks \ T
<1> SUFFICES ASSUME S # {} PROVE FALSE
  OBVIOUS
<1>1. PICK b \in S : Parent[b] \notin S
  BY TreeAssumption, ZenonT(30)
<1> QED BY <1>1, TreeAssumption

\* The recursion of Path has a solution: the least set that holds the block and
\* the parent of each of its members.
LEMMA PathFunction ==
  Path = [b \in Blocks \cup {None} |-> IF b = None THEN {} ELSE {b} \cup Path[Parent[b]]]
<1> DEFINE Closed(b, S) == b \in S /\ \A x \in S : Parent[x] \in S \cup {None}
           L(b) == {a \in Blocks : \A S \in SUBSET Blocks : Closed(b, S) => a \in S}
           F == [b \in Blocks \cup {None} |-> IF b = None THEN {} ELSE L(b)]
<1>1. ASSUME NEW b \in Blocks, Parent[b] # None
      PROVE  L(b) = {b} \cup L(Parent[b])
  <2>1. Parent[b] \in Blocks
    BY <1>1, TreeAssumption
  <2>2. ASSUME NEW a \in L(b), a # b
        PROVE  a \in L(Parent[b])
    <3> SUFFICES ASSUME NEW S \in SUBSET Blocks, Closed(Parent[b], S)
                 PROVE  a \in S
      BY <2>2
    <3>1. Closed(b, S \cup {b})
      BY <2>1
    <3> QED BY <2>2, <3>1, ZenonT(30)
  <2>3. ASSUME NEW a \in L(Parent[b])
        PROVE  a \in L(b)
    <3> SUFFICES ASSUME NEW S \in SUBSET Blocks, Closed(b, S)
                 PROVE  a \in S
      BY <2>3
    <3>1. Closed(Parent[b], S)
      BY <1>1
    <3> QED BY <2>3, <3>1
  <2>4. b \in L(b)
    OBVIOUS
  <2> QED BY <2>2, <2>3, <2>4
<1>2. ASSUME NEW b \in Blocks, Parent[b] = None
      PROVE  L(b) = {b}
  BY <1>2, ZenonT(30)
<1>3. F = [b \in Blocks \cup {None} |-> IF b = None THEN {} ELSE {b} \cup F[Parent[b]]]
  <2> HIDE DEF L
  <2> SUFFICES ASSUME NEW b \in Blocks PROVE F[b] = {b} \cup F[Parent[b]]
    BY TreeAssumption, ZenonT(30)
  <2> QED BY <1>1, <1>2, TreeAssumption, ZenonT(30)
<1> HIDE DEF F
<1> QED BY <1>3, ZenonT(30) DEF Path

\* The path of a block is the block and the path of its parent.
LEMMA PathStep ==
  /\ Path[None] = {}
  /\ \A b \in Blocks : Path[b] = {b} \cup Path[Parent[b]]
BY PathFunction, TreeAssumption, ZenonT(30)

\* Paths hold blocks.
LEMMA PathInBlocks == \A b \in Blocks \cup {None} : Path[b] \subseteq Blocks
<1> DEFINE T == {b \in Blocks : Path[b] \subseteq Blocks}
<1>1. \A b \in Blocks : b = Genesis \/ Parent[b] \in T => b \in T
  BY PathStep, TreeAssumption
<1>2. Blocks \subseteq T
  BY <1>1, TreeInduction, ZenonT(30)
<1> QED BY <1>2, PathStep, ZenonT(30)

\* A path begins with Genesis and ends with its block.
LEMMA PathHasSelf == \A b \in Blocks : b \in Path[b] /\ Genesis \in Path[b]
<1> DEFINE T == {b \in Blocks : Genesis \in Path[b]}
<1>1. \A b \in Blocks : b = Genesis \/ Parent[b] \in T => b \in T
  BY PathStep
<1>2. Blocks \subseteq T
  BY <1>1, TreeInduction, ZenonT(30)
<1> QED BY <1>2, PathStep, ZenonT(30)

\* The ancestors of an ancestor are ancestors.
LEMMA PathTransitive ==
  ASSUME NEW b \in Blocks \cup {None}, NEW a \in Path[b]
  PROVE  a \in Blocks /\ Path[a] \subseteq Path[b]
<1> DEFINE T == {c \in Blocks : \A x \in Path[c] : Path[x] \subseteq Path[c]}
<1>1. \A c \in Blocks : c = Genesis \/ Parent[c] \in T => c \in T
  BY PathStep, TreeAssumption
<1>2. Blocks \subseteq T
  BY <1>1, TreeInduction, ZenonT(30)
<1> QED BY <1>2, PathStep, PathInBlocks

\* No block is its own ancestor.
LEMMA PathAcyclic == \A b \in Blocks : b \notin Path[Parent[b]]
<1> DEFINE T == {b \in Blocks : b \notin Path[Parent[b]]}
<1>1. ASSUME NEW b \in Blocks, b = Genesis \/ Parent[b] \in T PROVE b \in T
  <2>1. CASE b = Genesis
    BY <2>1, PathStep, TreeAssumption
  <2>2. CASE b # Genesis
    <3>1. Parent[b] \in Blocks
      BY <2>2, TreeAssumption
    <3>2. SUFFICES ASSUME b \in Path[Parent[b]] PROVE FALSE
      OBVIOUS
    <3>3. Path[b] \subseteq Path[Parent[b]] /\ Path[Parent[b]] \subseteq Path[b]
      BY <3>1, <3>2, PathTransitive, PathStep
    <3>4. Parent[b] # b
      BY <1>1, <2>2, <3>1, PathStep
    <3>5. b \in Path[Parent[Parent[b]]]
      BY <3>1, <3>2, <3>4, PathStep
    <3>6. Parent[b] \in Path[b]
      BY <3>1, PathStep, PathHasSelf
    <3>7. Path[b] \subseteq Path[Parent[Parent[b]]]
      BY <3>1, <3>5, PathTransitive, TreeAssumption
    <3> QED BY <1>1, <2>2, <3>6, <3>7
  <2> QED BY <2>1, <2>2
<1>2. Blocks \subseteq T
  BY <1>1, TreeInduction, ZenonT(30)
<1> QED BY <1>2

\* Two blocks that are each other's ancestors are one.
LEMMA PathAntisymmetric ==
  ASSUME NEW a \in Blocks, NEW b \in Blocks, a \in Path[b], b \in Path[a]
  PROVE  a = b
<1> SUFFICES ASSUME a # b PROVE FALSE
  OBVIOUS
<1>1. a \in Path[Parent[b]]
  BY PathStep
<1>2. Path[a] \subseteq Path[Parent[b]]
  BY <1>1, PathTransitive, TreeAssumption
<1> QED BY <1>2, PathAcyclic

\* The ancestors of a block are one line.
LEMMA PathLinear ==
  ASSUME NEW b \in Blocks \cup {None}, NEW a \in Path[b], NEW c \in Path[b]
  PROVE  a \in Path[c] \/ c \in Path[a]
<1> DEFINE T == {d \in Blocks : \A x, y \in Path[d] : x \in Path[y] \/ y \in Path[x]}
<1>1. \A d \in Blocks : d = Genesis \/ Parent[d] \in T => d \in T
  BY PathStep, PathHasSelf, TreeAssumption
<1>2. Blocks \subseteq T
  BY <1>1, TreeInduction, ZenonT(30)
<1> QED BY <1>2, PathStep

\* Some ancestors of a block have a last one.
LEMMA PathLast ==
  ASSUME NEW b \in Blocks \cup {None}, NEW S, S \subseteq Path[b], S # {}
  PROVE  \E t \in S : S \subseteq Path[t]
<1> DEFINE T == {d \in Blocks : \A R \in SUBSET Path[d] : R # {} => \E t \in R : R \subseteq Path[t]}
<1>1. ASSUME NEW d \in Blocks, d = Genesis \/ Parent[d] \in T PROVE d \in T
  <2> SUFFICES ASSUME NEW R \in SUBSET Path[d], R # {} PROVE \E t \in R : R \subseteq Path[t]
    OBVIOUS
  <2>1. CASE d \in R
    BY <2>1
  <2>2. CASE d \notin R
    <3>1. R \subseteq Path[Parent[d]]
      BY <2>2, PathStep
    <3>2. d # Genesis
      BY <3>1, PathStep, TreeAssumption
    <3> QED BY <1>1, <3>1, <3>2
  <2> QED BY <2>1, <2>2
<1>2. Blocks \subseteq T
  BY <1>1, TreeInduction, ZenonT(30)
<1> QED BY <1>2, PathStep

\* A block that has a descendant on the path has a child on it, and only one.
LEMMA PathChild ==
  ASSUME NEW b \in Blocks, NEW a \in Path[b], a # b
  PROVE  /\ \E c \in Path[b] : Parent[c] = a
         /\ \A c, d \in Path[b] : Parent[c] = a /\ Parent[d] = a => c = d
<1> DEFINE T == {d \in Blocks : \A x \in Path[d] : x # d => \E c \in Path[d] : Parent[c] = x}
<1>1. \A d \in Blocks : d = Genesis \/ Parent[d] \in T => d \in T
  BY PathStep, PathHasSelf, TreeAssumption
<1>2. Blocks \subseteq T
  BY <1>1, TreeInduction, ZenonT(30)
<1>3. ASSUME NEW c \in Path[b], NEW d \in Path[b], Parent[c] = a, Parent[d] = a, c \in Path[d]
      PROVE  c = d
  <2>1. c \in Blocks /\ d \in Blocks /\ a \in Blocks
    BY PathInBlocks
  <2>2. SUFFICES ASSUME c # d PROVE FALSE
    OBVIOUS
  <2>3. c \in Path[a]
    BY <1>3, <2>1, <2>2, PathStep
  <2> QED BY <1>3, <2>1, <2>3, PathAcyclic
<1>4. \A c, d \in Path[b] : Parent[c] = a /\ Parent[d] = a => c = d
  BY <1>3, PathLinear
<1> QED BY <1>2, <1>4

\* A path holds the parent of each of its blocks.
LEMMA PathParent ==
  ASSUME NEW b \in Blocks \cup {None}, NEW a \in Path[b]
  PROVE  Parent[a] \in Path[b] \cup {None}
<1>1. a \in Blocks /\ Path[a] \subseteq Path[b]
  BY PathTransitive
<1>2. Parent[a] = None \/ Parent[a] \in Path[a]
  BY <1>1, PathStep, PathHasSelf, TreeAssumption
<1> QED BY <1>1, <1>2

\* A function can be defined by recursion over the tree.
TreeSteps(V) == [Blocks -> [V -> V]]
TreeSolution(f, V, base, step) ==
    f \in [Blocks \cup {None} -> V] /\ f[None] = base /\ \A b \in Blocks : f[b] = step[b][f[Parent[b]]]

\* A function defined by recursion from Genesis upwards exists.
LEMMA TreeRecursion ==
  ASSUME NEW V, NEW base \in V, NEW step \in TreeSteps(V)
  PROVE  \E f : TreeSolution(f, V, base, step)
<1> USE DEF TreeSteps
<1> DEFINE Sol(b, g) == /\ g \in [Path[b] \cup {None} -> V] /\ g[None] = base
                        /\ \A a \in Path[b] : g[a] = step[a][g[Parent[a]]]
           E == {b \in Blocks : \E g : Sol(b, g)}
<1>1. ASSUME NEW b \in Blocks, b = Genesis \/ Parent[b] \in E PROVE b \in E
  <2>1. \E g : Sol(Parent[b], g)
    <3>1. CASE b = Genesis
      <4>1. Sol(None, [x \in {None} |-> base])
        BY PathStep
      <4> QED BY <3>1, <4>1, TreeAssumption, ZenonT(30)
    <3>2. CASE b # Genesis
      BY <1>1, <3>2, ZenonT(30)
    <3> QED BY <3>1, <3>2, ZenonT(30)
  <2>2. PICK g : Sol(Parent[b], g)
    BY <2>1
  <2> DEFINE h == [a \in Path[b] \cup {None} |-> IF a = b THEN step[b][g[Parent[b]]] ELSE g[a]]
  <2>3. /\ Path[b] = {b} \cup Path[Parent[b]] /\ b \notin Path[Parent[b]] /\ b # None
        /\ Parent[b] \in Path[Parent[b]] \cup {None} /\ Parent[b] \in Blocks \cup {None}
    BY PathStep, PathAcyclic, PathHasSelf, TreeAssumption
  <2>4. h \in [Path[b] \cup {None} -> V] /\ h[None] = base
    BY <2>2, <2>3
  <2>5. ASSUME NEW a \in Path[b] PROVE h[a] = step[a][h[Parent[a]]]
    <3>1. CASE a = b
      BY <2>3, <3>1, ZenonT(30)
    <3>2. CASE a # b
      <4>1. a \in Path[Parent[b]] /\ Parent[a] \in Path[Parent[b]] \cup {None}
        BY <2>3, <3>2, PathParent, ZenonT(30)
      <4> QED BY <2>2, <2>3, <3>2, <4>1
    <3> QED BY <3>1, <3>2
  <2>6. Sol(b, h)
    BY <2>4, <2>5, ZenonT(30)
  <2> QED BY <2>6, ZenonT(30)
<1>2. Blocks \subseteq E
  <2> HIDE DEF E
  <2> QED BY <1>1, TreeInduction
<1>3. ASSUME NEW b \in Blocks, NEW c \in Blocks, NEW g, NEW h, Sol(b, g), Sol(c, h)
      PROVE  \A a \in Path[b] \cap Path[c] : g[a] = h[a]
  <2> DEFINE T == {a \in Blocks : a \in Path[b] \cap Path[c] => g[a] = h[a]}
  <2>1. ASSUME NEW a \in Blocks, a = Genesis \/ Parent[a] \in T PROVE a \in T
    <3> SUFFICES ASSUME a \in Path[b] \cap Path[c] PROVE g[a] = h[a]
      OBVIOUS
    <3>1. Parent[a] = None \/ Parent[a] \in Path[b] \cap Path[c]
      BY PathParent
    <3>2. g[Parent[a]] = h[Parent[a]]
      BY <1>3, <2>1, <3>1, TreeAssumption
    <3> QED BY <1>3, <3>2
  <2>2. Blocks \subseteq T
    <3> HIDE DEF T
    <3> QED BY <2>1, TreeInduction
  <2> QED BY <2>2, PathInBlocks
<1> DEFINE G(b) == CHOOSE g : Sol(b, g)
           F == [b \in Blocks \cup {None} |-> IF b = None THEN base ELSE G(b)[b]]
<1>4. ASSUME NEW b \in Blocks PROVE Sol(b, G(b))
  BY <1>2, ZenonT(30)
<1> HIDE DEF G
<1>5. F \in [Blocks \cup {None} -> V] /\ F[None] = base
  BY <1>4, PathHasSelf, ZenonT(30)
<1>6. ASSUME NEW b \in Blocks PROVE F[b] = step[b][F[Parent[b]]]
  <2>1. b # None /\ G(b)[b] = step[b][G(b)[Parent[b]]]
    BY <1>4, PathHasSelf, TreeAssumption, ZenonT(30)
  <2>2. CASE Parent[b] = None
    BY <1>4, <2>1, <2>2, ZenonT(30)
  <2>3. CASE Parent[b] # None
    <3>1. Parent[b] \in Blocks /\ Parent[b] \in Path[b] \cap Path[Parent[b]]
      BY <2>3, PathStep, PathHasSelf, TreeAssumption
    <3>2. G(b)[Parent[b]] = G(Parent[b])[Parent[b]]
      <4> HIDE DEF Sol
      <4> QED BY <1>3, <1>4, <3>1
    <3> QED BY <2>1, <2>3, <3>1, <3>2
  <2> QED BY <2>2, <2>3
<1> QED BY <1>5, <1>6, ZenonT(30) DEF TreeSolution

\* What Append adds.
LEMMA AppendRange ==
  ASSUME NEW X, NEW q \in Seq(X), NEW x \in X
  PROVE  /\ Append(q, x) \in Seq(X)
         /\ Range(Append(q, x)) = Range(q) \cup {x}
         /\ IsInjective(q) /\ x \notin Range(q) => IsInjective(Append(q, x))
<1>1. /\ Append(q, x) \in Seq(X) /\ Len(Append(q, x)) = Len(q) + 1 /\ Len(q) \in Nat
      /\ \A i \in 1..Len(q) : Append(q, x)[i] = q[i]
      /\ Append(q, x)[Len(q) + 1] = x
      /\ DOMAIN Append(q, x) = 1..(Len(q) + 1) /\ DOMAIN q = 1..Len(q)
  OBVIOUS
<1>2. \A i \in 1..(Len(q) + 1) : i \in 1..Len(q) \/ i = Len(q) + 1
  BY <1>1
<1>3. Range(Append(q, x)) = Range(q) \cup {x}
  BY <1>1, <1>2 DEF Range
<1>4. IsInjective(q) /\ x \notin Range(q) => IsInjective(Append(q, x))
  BY <1>1, <1>2 DEF Range, IsInjective
<1> QED BY <1>1, <1>3, <1>4

\* What a concatenation holds.
LEMMA ConcatRange ==
  ASSUME NEW X, NEW q \in Seq(X), NEW r \in Seq(X)
  PROVE  /\ q \o r \in Seq(X) /\ Len(q \o r) = Len(q) + Len(r)
         /\ \A i \in 1..Len(q) : (q \o r)[i] = q[i]
         /\ Range(q \o r) = Range(q) \cup Range(r)
         /\ IsInjective(q) /\ IsInjective(r) /\ Range(q) \cap Range(r) = {} => IsInjective(q \o r)
<1>1. /\ q \o r \in Seq(X) /\ Len(q \o r) = Len(q) + Len(r) /\ Len(q) \in Nat /\ Len(r) \in Nat
      /\ \A i \in 1..Len(q) : (q \o r)[i] = q[i]
      /\ \A i \in 1..Len(r) : (q \o r)[Len(q) + i] = r[i]
      /\ DOMAIN (q \o r) = 1..(Len(q) + Len(r)) /\ DOMAIN q = 1..Len(q) /\ DOMAIN r = 1..Len(r)
  OBVIOUS
<1>2. \A i \in 1..(Len(q) + Len(r)) :
         i \in 1..Len(q) \/ (i - Len(q) \in 1..Len(r) /\ i = Len(q) + (i - Len(q)))
  BY <1>1
<1>3. Range(q \o r) = Range(q) \cup Range(r)
  <2>1. Range(q \o r) \subseteq Range(q) \cup Range(r)
    BY <1>1, <1>2 DEF Range
  <2>2. \A i \in 1..Len(r) : Len(q) + i \in 1..(Len(q) + Len(r))
    BY <1>1
  <2>3. \A i \in 1..Len(q) : i \in 1..(Len(q) + Len(r))
    BY <1>1
  <2>4. Range(q) \subseteq Range(q \o r)
    BY <1>1, <2>3 DEF Range
  <2>5. Range(r) \subseteq Range(q \o r)
    BY <1>1, <2>2, ZenonT(30) DEF Range
  <2> QED BY <2>1, <2>4, <2>5
<1>4. ASSUME IsInjective(q), IsInjective(r), Range(q) \cap Range(r) = {}
      PROVE  IsInjective(q \o r)
  <2> SUFFICES ASSUME NEW i \in 1..(Len(q) + Len(r)), NEW j \in 1..(Len(q) + Len(r)),
                      (q \o r)[i] = (q \o r)[j]
               PROVE  i = j
    BY <1>1 DEF IsInjective
  <2>1. CASE i \in 1..Len(q) /\ j \in 1..Len(q)
    BY <1>1, <1>4, <2>1 DEF IsInjective
  <2>2. CASE i \notin 1..Len(q) /\ j \notin 1..Len(q)
    <3>1. r[i - Len(q)] = r[j - Len(q)]
      BY <1>1, <1>2, <2>2
    <3>2. i - Len(q) = j - Len(q)
      BY <1>1, <1>2, <1>4, <2>2, <3>1 DEF IsInjective
    <3> QED BY <1>1, <3>2
  <2>3. CASE i \in 1..Len(q) /\ j \notin 1..Len(q)
    <3>1. (q \o r)[i] \in Range(q)
      BY <1>1, <2>3, ZenonT(30) DEF Range
    <3>2. (q \o r)[j] \in Range(r)
      BY <1>1, <1>2, <2>3 DEF Range
    <3> QED BY <1>4, <3>1, <3>2
  <2>4. CASE i \notin 1..Len(q) /\ j \in 1..Len(q)
    <3>1. (q \o r)[j] \in Range(q)
      BY <1>1, <2>4 DEF Range
    <3>2. (q \o r)[i] \in Range(r)
      BY <1>1, <1>2, <2>4 DEF Range
    <3> QED BY <1>4, <3>1, <3>2
  <2> QED BY <2>1, <2>2, <2>3, <2>4
<1> QED BY <1>1, <1>3, <1>4

\* What Kept keeps.
LEMMA KeptRange ==
  ASSUME NEW X, NEW s \in Seq(X), NEW S
  PROVE  /\ Kept(s, S) \in Seq(X)
         /\ Range(Kept(s, S)) = Range(s) \cap S
         /\ IsInjective(s) => IsInjective(Kept(s, S))
<1> DEFINE V == Seq(X)
           add(n) == [q \in V |-> IF n + 1 \in 1..Len(s) /\ s[n + 1] \in S THEN Append(q, s[n + 1]) ELSE q]
           step == [n \in Nat |-> add(n)]
<1>1. step \in NatSteps(V) /\ <<>> \in V
  <2>1. ASSUME NEW n \in Nat PROVE add(n) \in [V -> V]
    <3>1. ASSUME NEW q \in V, n + 1 \in 1..Len(s) PROVE Append(q, s[n + 1]) \in V
      BY <3>1, AppendRange
    <3> QED BY <3>1
  <2> QED BY <2>1 DEF NatSteps
<1>2. PICK f : NatSolution(f, V, <<>>, step)
  <2> HIDE DEF step, V
  <2> QED BY <1>1, NatRecursion
<1> DEFINE g == [i \in 0..Len(s) |-> f[i]]
<1>3. Len(s) \in Nat /\ f[0] = <<>> /\ \A n \in Nat : f[n] \in V
  BY <1>2 DEF NatSolution
<1>4. ASSUME NEW i \in 1..Len(s)
      PROVE  /\ f[i - 1] \in V /\ s[i] \in X
             /\ f[i] = IF s[i] \in S THEN Append(f[i - 1], s[i]) ELSE f[i - 1]
  <2>1. i - 1 \in Nat /\ (i - 1) + 1 = i
    BY <1>3
  <2>2. f[(i - 1) + 1] = step[i - 1][f[i - 1]] /\ f[i - 1] \in V
    BY <1>2, <1>3, <2>1, ZenonT(30) DEF NatSolution
  <2> QED BY <2>1, <2>2
<1> HIDE DEF V, step
<1>5. g = [i \in 0..Len(s) |-> IF i = 0 THEN <<>>
                               ELSE IF s[i] \in S THEN Append(g[i - 1], s[i]) ELSE g[i - 1]]
  <2>1. ASSUME NEW i \in 0..Len(s), i # 0 PROVE i \in 1..Len(s) /\ g[i] = f[i] /\ g[i - 1] = f[i - 1]
    BY <1>3, <2>1
  <2> QED BY <1>3, <1>4, <2>1
<1>6. PICK k : /\ k = [i \in 0..Len(s) |-> IF i = 0 THEN <<>>
                                ELSE IF s[i] \in S THEN Append(k[i - 1], s[i]) ELSE k[i - 1]]
               /\ Kept(s, S) = k[Len(s)]
  <2> HIDE DEF g
  <2> QED BY <1>5, ZenonT(30) DEF Kept
<1>7. /\ k[0] = <<>>
      /\ \A i \in 1..Len(s) : k[i] = IF s[i] \in S THEN Append(k[i - 1], s[i]) ELSE k[i - 1]
  <2>1. 0 \in 0..Len(s) /\ \A i \in 1..Len(s) : i \in 0..Len(s) /\ i # 0
    BY <1>3
  <2> QED BY <1>6, <2>1, Zenon
<1> DEFINE first(i) == {s[j] : j \in 1..i}
           T == {i \in Nat : i <= Len(s) => /\ k[i] \in Seq(X) /\ Range(k[i]) = first(i) \cap S
                                            /\ IsInjective(s) => IsInjective(k[i])}
<1>8. 0 \in T
  <2>1. k[0] \in Seq(X) /\ Range(k[0]) = {} /\ IsInjective(k[0]) /\ first(0) = {}
    BY <1>7 DEF Range, IsInjective
  <2> QED BY <2>1
<1>9. ASSUME NEW i \in Nat, i \in T PROVE i + 1 \in T
  <2> SUFFICES ASSUME i + 1 <= Len(s)
               PROVE  /\ k[i + 1] \in Seq(X) /\ Range(k[i + 1]) = first(i + 1) \cap S
                      /\ IsInjective(s) => IsInjective(k[i + 1])
    OBVIOUS
  <2>1. /\ i + 1 \in 1..Len(s) /\ (i + 1) - 1 = i /\ s[i + 1] \in X
        /\ k[i + 1] = IF s[i + 1] \in S THEN Append(k[i], s[i + 1]) ELSE k[i]
    BY <1>3, <1>7
  <2>2. first(i + 1) = first(i) \cup {s[i + 1]}
    <3>1. \A j \in 1..(i + 1) : j \in 1..i \/ j = i + 1
      OBVIOUS
    <3>2. \A j \in 1..i : j \in 1..(i + 1)
      OBVIOUS
    <3>3. i + 1 \in 1..(i + 1)
      OBVIOUS
    <3> QED BY <3>1, <3>2, <3>3
  <2>3. IsInjective(s) => s[i + 1] \notin first(i)
    BY <1>3, <2>1 DEF IsInjective
  <2>4. k[i] \in Seq(X) /\ Range(k[i]) = first(i) \cap S /\ (IsInjective(s) => IsInjective(k[i]))
    BY <1>3, <1>9
  <2> HIDE DEF first
  <2>5. CASE s[i + 1] \in S
    BY <2>1, <2>2, <2>3, <2>4, <2>5, AppendRange
  <2>6. CASE s[i + 1] \notin S
    BY <2>1, <2>2, <2>4, <2>6
  <2> QED BY <2>5, <2>6
<1>10. Nat \subseteq T
  <2> HIDE DEF T
  <2> QED BY <1>8, <1>9, NatSetInduction
<1>11. first(Len(s)) = Range(s)
  BY <1>3 DEF Range
<1>12. Len(s) \in T /\ Len(s) <= Len(s)
  <2> HIDE DEF T
  <2> QED BY <1>3, <1>10
<1> QED BY <1>6, <1>11, <1>12

\* A sequence without repetitions is no longer than one that has its elements.
LEMMA SeqFits ==
  ASSUME NEW X, NEW q \in Seq(X), NEW r \in Seq(X), IsInjective(q), IsInjective(r),
         Range(q) \subseteq Range(r)
  PROVE  Len(q) <= Len(r) /\ (Len(q) = Len(r) => Range(q) = Range(r))
<1>1. ASSUME NEW s \in Seq(X), IsInjective(s)
      PROVE  IsFiniteSet(Range(s)) /\ Cardinality(Range(s)) = Len(s) /\ Len(s) \in Nat
  <2>1. Len(s) \in Nat /\ DOMAIN s = 1..Len(s) /\ s \in [1..Len(s) -> X]
    OBVIOUS
  <2>2. s \in [1..Len(s) -> Range(s)]
    BY <2>1 DEF Range
  <2>3. \A x \in Range(s) : \E i \in 1..Len(s) : s[i] = x
    BY <2>1 DEF Range
  <2>4. ExistsBijection(1..Len(s), Range(s))
    <3>1. s \in Injection(1..Len(s), Range(s))
      BY <1>1, <2>1, <2>2 DEF Injection
    <3>2. s \in Surjection(1..Len(s), Range(s))
      BY <2>2, <2>3 DEF Surjection
    <3> QED BY <3>1, <3>2 DEF ExistsBijection, Bijection
  <2>5. IsFiniteSet(1..Len(s)) /\ Cardinality(1..Len(s)) = Len(s)
    <3>1. 1 \in Int /\ Len(s) \in Int
      BY <2>1
    <3>2. /\ IsFiniteSet(1..Len(s))
          /\ Cardinality(1..Len(s)) = IF 1 > Len(s) THEN 0 ELSE Len(s) - 1 + 1
      BY <3>1, FS_Interval, Zenon
    <3> QED BY <2>1, <3>2
  <2> QED BY <2>1, <2>4, <2>5, FS_Bijection
<1>2. /\ Cardinality(Range(q)) <= Cardinality(Range(r))
      /\ Cardinality(Range(r)) = Cardinality(Range(q)) => Range(r) = Range(q)
  BY <1>1, FS_Subset
<1> QED BY <1>1, <1>2

-----------------------------------------------------------------------------
\* nHeight counts the ancestors.
LEMMA HeightFacts ==
  /\ \A b \in Blocks : Height[b] \in Nat
  /\ Height[Genesis] = 0
  /\ \A b \in Blocks \ {Genesis} : Height[b] = Height[Parent[b]] + 1
<1> DEFINE up(b, h) == IF b = Genesis THEN 0 ELSE h + 1
           step == [b \in Blocks |-> [h \in Nat |-> up(b, h)]]
<1>1. step \in TreeSteps(Nat)
  BY DEF TreeSteps
<1>2. PICK f : TreeSolution(f, Nat, 0, step)
  <2> HIDE DEF step
  <2> QED BY <1>1, TreeRecursion
<1> DEFINE g == [b \in Blocks |-> f[b]]
<1>3. ASSUME NEW b \in Blocks PROVE g[b] = up(b, g[Parent[b]])
  <2>1. f[Parent[b]] \in Nat /\ f[b] = step[b][f[Parent[b]]]
    BY <1>2, TreeAssumption DEF TreeSolution
  <2>2. b = Genesis \/ Parent[b] \in Blocks
    BY TreeAssumption
  <2> QED BY <2>1, <2>2
<1>4. g = [b \in Blocks |-> up(b, g[Parent[b]])]
  <2>1. g = [b \in Blocks |-> g[b]]
    OBVIOUS
  <2> HIDE DEF g, up
  <2> QED BY <1>3, <2>1, ZenonT(30)
<1>5. Height = [b \in Blocks |-> up(b, Height[Parent[b]])]
  <2>1. Height = CHOOSE h : h = [b \in Blocks |-> up(b, h[Parent[b]])]
    BY ZenonT(30) DEF Height
  <2> HIDE DEF g, up
  <2> QED BY <1>4, <2>1, ZenonT(30)
<1>6. \A b \in Blocks : Height[b] = up(b, Height[Parent[b]])
  <2> HIDE DEF up
  <2> QED BY <1>5, ZenonT(30)
<1> DEFINE T == {b \in Blocks : Height[b] \in Nat}
<1>7. ASSUME NEW b \in Blocks, b = Genesis \/ Parent[b] \in T PROVE b \in T
  BY <1>6, <1>7
<1>8. Blocks \subseteq T
  <2> HIDE DEF T
  <2> QED BY <1>7, TreeInduction
<1> QED BY <1>6, <1>8, TreeAssumption

\* A proper ancestor is lower.
LEMMA HeightOrder ==
  ASSUME NEW b \in Blocks, NEW a \in Path[b]
  PROVE  Height[a] <= Height[b] /\ (Height[a] = Height[b] => a = b)
<1> DEFINE T == {x \in Blocks : \A y \in Path[x] : y = x \/ Height[y] < Height[x]}
<1>1. ASSUME NEW x \in Blocks, x = Genesis \/ Parent[x] \in T PROVE x \in T
  <2> SUFFICES ASSUME NEW y \in Path[x], y # x PROVE Height[y] < Height[x]
    OBVIOUS
  <2>1. y \in Path[Parent[x]]
    BY PathStep
  <2>2. x # Genesis
    BY <2>1, PathStep, TreeAssumption
  <2>3. Parent[x] \in Blocks /\ Height[x] = Height[Parent[x]] + 1 /\ Height[Parent[x]] \in Nat
    BY <2>2, HeightFacts, TreeAssumption
  <2>4. y \in Blocks /\ Height[y] \in Nat
    BY PathInBlocks, HeightFacts
  <2> QED BY <1>1, <2>1, <2>2, <2>3, <2>4
<1>2. Blocks \subseteq T
  <2> HIDE DEF T
  <2> QED BY <1>1, TreeInduction
<1>3. a \in Blocks /\ Height[a] \in Nat /\ Height[b] \in Nat
  BY PathInBlocks, HeightFacts
<1> QED BY <1>2, <1>3

\* A walk down pprev from a block, as far as an ancestor is below it.
LEMMA WalkDown ==
  ASSUME NEW b \in Blocks, NEW a \in Path[b], NEW n \in Nat, n = Height[b] - Height[a],
         NEW k, k[0] = b, \A i \in 1..n : k[i - 1] \in Blocks => k[i] = Parent[k[i - 1]]
  PROVE  /\ \A i \in 0..n : k[i] \in Path[b] /\ k[i] \in Blocks /\ a \in Path[k[i]]
         /\ \A i \in 1..n : k[i - 1] # Genesis /\ k[i] = Parent[k[i - 1]]
         /\ k[n] = a
<1> DEFINE T == {i \in Nat : i \in 0..n => k[i] \in Path[b] /\ a \in Path[k[i]] /\ Height[k[i]] = Height[b] - i}
<1>0. a \in Blocks /\ Height[a] \in Nat /\ Height[b] \in Nat /\ b \in Path[b] /\ Path[b] \subseteq Blocks
  BY PathInBlocks, PathHasSelf, HeightFacts
<1>1. 0 \in T
  BY <1>0
<1>2. ASSUME NEW i \in 1..n, k[i - 1] \in Path[b], a \in Path[k[i - 1]], Height[k[i - 1]] = Height[b] - (i - 1)
      PROVE  /\ k[i - 1] # Genesis /\ k[i] = Parent[k[i - 1]]
             /\ k[i] \in Path[b] /\ a \in Path[k[i]] /\ Height[k[i]] = Height[b] - i
  <2> DEFINE x == k[i - 1]
  <2>1. x \in Blocks /\ k[i] = Parent[x]
    BY <1>0, <1>2
  <2>2. x # a
    BY <1>0, <1>2
  <2> HIDE DEF x
  <2>3. a \in Path[Parent[x]]
    BY <1>2, <2>1, <2>2, PathStep DEF x
  <2>4. x # Genesis /\ Parent[x] \in Blocks
    BY <2>1, <2>3, PathStep, TreeAssumption
  <2>5. Parent[x] \in Path[b]
    BY <1>2, <2>4, PathParent, TreeAssumption DEF x
  <2>6. Height[x] = Height[Parent[x]] + 1 /\ Height[Parent[x]] \in Nat
    BY <2>1, <2>4, HeightFacts
  <2>7. Height[Parent[x]] = Height[b] - i
    BY <1>0, <1>2, <2>6 DEF x
  <2> QED BY <2>1, <2>3, <2>4, <2>5, <2>7 DEF x
<1>3. ASSUME NEW i \in Nat, i \in T PROVE i + 1 \in T
  <2> SUFFICES ASSUME i + 1 \in 0..n
               PROVE  k[i + 1] \in Path[b] /\ a \in Path[k[i + 1]] /\ Height[k[i + 1]] = Height[b] - (i + 1)
    OBVIOUS
  <2>1. i + 1 \in 1..n /\ (i + 1) - 1 = i /\ i \in 0..n
    OBVIOUS
  <2>2. k[i] \in Path[b] /\ a \in Path[k[i]] /\ Height[k[i]] = Height[b] - i
    BY <1>3, <2>1
  <2> QED BY <1>2, <2>1, <2>2
<1>4. \A i \in 0..n : k[i] \in Path[b] /\ a \in Path[k[i]] /\ Height[k[i]] = Height[b] - i
  <2> HIDE DEF T
  <2>1. Nat \subseteq T
    BY <1>1, <1>3, NatSetInduction
  <2> QED BY <2>1 DEF T
<1>5. ASSUME NEW i \in 1..n PROVE k[i - 1] # Genesis /\ k[i] = Parent[k[i - 1]]
  <2>1. i - 1 \in 0..n
    OBVIOUS
  <2> QED BY <1>2, <1>4, <2>1
<1>6. k[n] = a
  <2>1. k[n] \in Blocks /\ a \in Path[k[n]] /\ Height[k[n]] = Height[a]
    BY <1>0, <1>4
  <2> QED BY <2>1, HeightOrder
<1> QED BY <1>0, <1>4, <1>5, <1>6

\* g is defined by recursion from 0 to n.
Iterates(g, V, n, c, step) ==
    g \in [0..n -> V] /\ g[0] = c /\ \A i \in 1..n : g[i] = step[i][g[i - 1]]

\* A function defined by recursion from 0 to n exists.
LEMMA Iteration ==
  ASSUME NEW V, NEW n \in Nat, NEW c \in V, NEW step \in [1..n -> [V -> V]]
  PROVE  \E g : Iterates(g, V, n, c, step)
<1> DEFINE st == [m \in Nat |-> IF m + 1 \in 1..n THEN step[m + 1] ELSE [v \in V |-> v]]
<1>1. st \in NatSteps(V)
  <2>1. ASSUME NEW m \in Nat PROVE st[m] \in [V -> V]
    OBVIOUS
  <2> QED BY <2>1 DEF NatSteps
<1>2. PICK f : NatSolution(f, V, c, st)
  <2> HIDE DEF st
  <2> QED BY <1>1, NatRecursion
<1>3. f[0] = c /\ \A m \in Nat : f[m] \in V /\ f[m + 1] = st[m][f[m]]
  BY <1>2, ZenonT(30) DEF NatSolution
<1> DEFINE g == [i \in 0..n |-> f[i]]
<1>4. ASSUME NEW i \in 1..n PROVE g[i] = step[i][g[i - 1]]
  <2>1. i - 1 \in Nat /\ (i - 1) + 1 = i /\ i \in 0..n /\ i - 1 \in 0..n
    OBVIOUS
  <2>2. f[i] = st[i - 1][f[i - 1]]
    BY <1>3, <2>1, ZenonT(30)
  <2>3. st[i - 1] = step[i]
    BY <2>1
  <2>4. g[i] = f[i] /\ g[i - 1] = f[i - 1]
    BY <2>1
  <2> QED BY <2>2, <2>3, <2>4
<1>5. g \in [0..n -> V] /\ g[0] = c
  <2>1. 0 \in 0..n /\ \A i \in 0..n : i \in Nat
    OBVIOUS
  <2>2. \A i \in 0..n : f[i] \in V
    BY <1>3, <2>1, ZenonT(30)
  <2> QED BY <1>3, <2>1, <2>2
<1> HIDE DEF g
<1> QED BY <1>4, <1>5 DEF Iterates

\* The values of such a recursion are in V.
LEMMA IteratesIn ==
  ASSUME NEW V, NEW n \in Nat, NEW k, k[0] \in V, \A i \in 1..n : k[i - 1] \in V => k[i] \in V
  PROVE  \A i \in 0..n : k[i] \in V
<1> DEFINE T == {i \in Nat : i <= n => k[i] \in V}
<1>1. 0 \in T
  OBVIOUS
<1>2. ASSUME NEW i \in Nat, i \in T PROVE i + 1 \in T
  <2> SUFFICES ASSUME i + 1 <= n PROVE k[i + 1] \in V
    OBVIOUS
  <2>1. i + 1 \in 1..n /\ (i + 1) - 1 = i /\ k[i] \in V
    BY <1>2
  <2> QED BY <2>1
<1>3. Nat \subseteq T
  <2> HIDE DEF T
  <2> QED BY <1>1, <1>2, NatSetInduction
<1> QED BY <1>3
=============================================================================
