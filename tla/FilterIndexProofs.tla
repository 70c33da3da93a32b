------------------------- MODULE FilterIndexProofs --------------------------
(***************************************************************************)
(* The block filter index for every tree of blocks, and any number of      *)
(* moves of the chain, crashes and filters: it never gives up, it serves   *)
(* every block it has taken in, and it has caught up once the queue is     *)
(* empty.                                                                  *)
(***************************************************************************)
EXTENDS FilterIndex, BlockPathProofs

\* Leaves that name no prover: SMT, then Zenon, with time to spare.
USE SMTT(20), ZenonT(30)

------------------------------------------------------------------------------
\* A block has one ancestor at every height up to its own.
LEMMA AncestorAt ==
  ASSUME NEW b \in Blocks, NEW h \in Nat, h <= Height[b]
  PROVE  \E a \in Path[b] : Height[a] = h
<1> DEFINE T == {x \in Blocks : \A n \in Nat : n <= Height[x] => \E a \in Path[x] : Height[a] = n}
<1>1. ASSUME NEW x \in Blocks, x = Genesis \/ Parent[x] \in T PROVE x \in T
  <2> SUFFICES ASSUME NEW n \in Nat, n <= Height[x] PROVE \E a \in Path[x] : Height[a] = n
    OBVIOUS
  <2>1. x \in Path[x] /\ Path[Parent[x]] \subseteq Path[x] /\ Height[x] \in Nat
    BY PathStep, HeightFacts, ZenonT(30)
  <2>2. CASE n = Height[x]
    BY <2>1, <2>2
  <2>3. CASE n # Height[x] /\ x = Genesis
    BY <2>3, HeightFacts
  <2>4. CASE n # Height[x] /\ x # Genesis
    <3>1. Parent[x] \in T /\ Parent[x] \in Blocks
      BY <1>1, <2>4
    <3>2. Height[x] = Height[Parent[x]] + 1 /\ Height[Parent[x]] \in Nat
      BY <2>4, <3>1, HeightFacts, ZenonT(30)
    <3>3. n <= Height[Parent[x]]
      BY <2>1, <2>4, <3>2
    <3> QED BY <2>1, <3>1, <3>3
  <2> QED BY <2>2, <2>3, <2>4
<1>2. Blocks \subseteq T
  BY <1>1, TreeInduction, ZenonT(30)
<1> QED BY <1>2

\* A chain has one block at each height.
LEMMA AncestorUnique ==
  ASSUME NEW b \in Blocks \cup {None}, NEW a \in Path[b], NEW c \in Path[b], Height[a] = Height[c]
  PROVE  a = c
<1>1. a \in Blocks /\ c \in Blocks
  BY PathInBlocks, ZenonT(30)
<1>2. a \in Path[c] \/ c \in Path[a]
  BY PathLinear, ZenonT(30)
<1> QED BY <1>1, <1>2, HeightOrder, ZenonT(30)

\* GetAncestor finds the ancestor there is, and nothing else.
LEMMA GetAncestorFacts ==
  ASSUME NEW b \in Blocks \cup {None}
  PROVE  /\ \A h : GetAncestor(b, h) \in Path[b] \cup {None}
         /\ \A a \in Path[b] : GetAncestor(b, Height[a]) = a
         /\ b # None => \A h \in Nat : h <= Height[b] =>
              GetAncestor(b, h) \in Path[b] /\ Height[GetAncestor(b, h)] = h
<1>1. \A h : GetAncestor(b, h) \in Path[b] \cup {None}
  BY ZenonT(30) DEF GetAncestor
<1>2. ASSUME NEW a \in Path[b] PROVE GetAncestor(b, Height[a]) = a
  <2>1. GetAncestor(b, Height[a]) = CHOOSE c \in Path[b] : Height[c] = Height[a]
    BY ZenonT(30) DEF GetAncestor
  <2>2. GetAncestor(b, Height[a]) \in Path[b] /\ Height[GetAncestor(b, Height[a])] = Height[a]
    BY <2>1, ZenonT(30)
  <2> QED BY <2>2, AncestorUnique, ZenonT(30)
<1>3. ASSUME b # None, NEW h \in Nat, h <= Height[b]
      PROVE  GetAncestor(b, h) \in Path[b] /\ Height[GetAncestor(b, h)] = h
  <2>1. b \in Blocks
    BY <1>3, ZenonT(30)
  <2>2. PICK a \in Path[b] : Height[a] = h
    BY <1>3, <2>1, AncestorAt, ZenonT(30)
  <2> QED BY <1>2, <2>2, ZenonT(30)
<1> QED BY <1>1, <1>2, <1>3, ZenonT(30)

\* BlockConnected takes a block whose parent the index has on its chain.
LEMMA ConnectsMeans ==
  ASSUME best \in Blocks, NEW b \in Blocks, b # Genesis
  PROVE  Connects(b) <=> Parent[b] \in Path[best]
<1>1. Parent[b] \in Blocks /\ Parent[b] # None
  BY TreeAssumption
<1>2. Height[b] - 1 = Height[Parent[b]]
  BY <1>1, HeightFacts
<1>3. Connects(b) <=> GetAncestor(best, Height[Parent[b]]) = Parent[b]
  BY <1>2, ZenonT(30) DEF Connects
<1>4. GetAncestor(best, Height[Parent[b]]) \in Path[best] \cup {None}
  BY GetAncestorFacts, ZenonT(30)
<1>5. Parent[b] \in Path[best] => GetAncestor(best, Height[Parent[b]]) = Parent[b]
  BY GetAncestorFacts, ZenonT(30)
<1> QED BY <1>1, <1>3, <1>4, <1>5, ZenonT(30)

\* FindFork finds the last common block.
LEMMA ForkFacts ==
  ASSUME NEW a \in Blocks \cup {None}, NEW b \in Blocks \cup {None}
  PROVE  /\ a = None \/ b = None => FindFork(a, b) = None
         /\ a # None /\ b # None =>
              /\ FindFork(a, b) \in Path[a] /\ FindFork(a, b) \in Path[b] /\ FindFork(a, b) \in Blocks
              /\ Path[a] \cap Path[b] \subseteq Path[FindFork(a, b)]
<1>1. CASE a = None \/ b = None
  <2>1. Path[a] \cap Path[b] = {}
    BY <1>1, PathStep, ZenonT(30)
  <2> QED BY <1>1, <2>1, ZenonT(30) DEF FindFork
<1>2. CASE a # None /\ b # None
  <2>1. a \in Blocks /\ b \in Blocks
    BY <1>2, ZenonT(30)
  <2>2. Genesis \in Path[a] /\ Genesis \in Path[b]
    BY <2>1, PathHasSelf, ZenonT(30)
  <2>3. \E c \in Path[a] \cap Path[b] : Path[a] \cap Path[b] \subseteq Path[c]
    <3> DEFINE S == Path[a] \cap Path[b]
    <3>1. S \subseteq Path[a] /\ S # {}
      BY <2>2, ZenonT(30)
    <3> HIDE DEF S
    <3>2. \E c \in S : S \subseteq Path[c]
      BY <3>1, PathLast
    <3> QED BY <3>2 DEF S
  <2>4. FindFork(a, b) = CHOOSE c \in Path[a] \cap Path[b] : Path[a] \cap Path[b] \subseteq Path[c]
    BY <2>2, ZenonT(30) DEF FindFork, LastCommonAncestor
  <2>5. /\ FindFork(a, b) \in Path[a] \cap Path[b]
        /\ Path[a] \cap Path[b] \subseteq Path[FindFork(a, b)]
    BY <2>3, <2>4, ZenonT(30)
  <2> QED BY <1>2, <2>1, <2>5, PathInBlocks, ZenonT(30)
<1> QED BY <1>1, <1>2, ZenonT(30)

\* NextSyncBlock is the next block of the chain after the fork, and there is none
\* only if the whole chain is below b.
LEMMA NextSyncFacts ==
  ASSUME NEW b \in Blocks \cup {None}, tip \in Blocks \cup {None}
  PROVE  /\ NextSyncBlock(b) # None =>
              /\ NextSyncBlock(b) \in Path[tip] /\ NextSyncBlock(b) \in Blocks
              /\ Parent[NextSyncBlock(b)] = FindFork(b, tip)
              /\ FindFork(b, tip) \in Path[b] \cup {None}
              /\ b # None => FindFork(b, tip) \in Path[b] /\ FindFork(b, tip) \in Blocks
              /\ b = None => FindFork(b, tip) = None
         /\ NextSyncBlock(b) = None => Path[tip] \subseteq Path[b]
<1> DEFINE next == {a \in Path[tip] : Parent[a] = FindFork(b, tip)}
<1>0. next \subseteq Blocks /\ None \notin next
  BY PathInBlocks, TreeAssumption, ZenonT(30)
<1>1. next = {} => NextSyncBlock(b) = None
  BY ZenonT(30) DEF NextSyncBlock
<1>2. next # {} => NextSyncBlock(b) \in next
  <2>1. next # {} => NextSyncBlock(b) = CHOOSE a \in next : TRUE
    BY ZenonT(30) DEF NextSyncBlock
  <2> HIDE DEF next
  <2> QED BY <2>1, ZenonT(30)
<1>3. ASSUME NextSyncBlock(b) # None
      PROVE  /\ NextSyncBlock(b) \in Path[tip] /\ NextSyncBlock(b) \in Blocks
             /\ Parent[NextSyncBlock(b)] = FindFork(b, tip)
             /\ FindFork(b, tip) \in Path[b] \cup {None}
             /\ b # None => FindFork(b, tip) \in Path[b] /\ FindFork(b, tip) \in Blocks
             /\ b = None => FindFork(b, tip) = None
  <2>1. NextSyncBlock(b) \in next
    BY <1>1, <1>2, <1>3, ZenonT(30)
  <2>2. tip # None
    BY <2>1, PathStep, ZenonT(30)
  <2> QED BY <1>0, <2>1, <2>2, ForkFacts, ZenonT(30)
<1>4. ASSUME NextSyncBlock(b) = None PROVE Path[tip] \subseteq Path[b]
  <2>1. next = {}
    BY <1>0, <1>2, <1>4, ZenonT(30)
  <2>2. CASE tip = None
    BY <2>2, PathStep, ZenonT(30)
  <2>3. CASE tip # None
    <3>1. tip \in Blocks /\ Genesis \in Path[tip] /\ Parent[Genesis] = None
      BY <2>3, PathHasSelf, TreeAssumption, ZenonT(30)
    <3>2. FindFork(b, tip) # None
      BY <2>1, <3>1, ZenonT(30)
    <3>3. b # None /\ FindFork(b, tip) \in Path[b] /\ FindFork(b, tip) \in Path[tip]
      BY <2>3, <3>2, ForkFacts, ZenonT(30)
    <3>4. FindFork(b, tip) = tip
      BY <2>1, <3>1, <3>3, PathChild, ZenonT(30)
    <3> QED BY <3>3, <3>4, PathTransitive, ZenonT(30)
  <2> QED BY <2>2, <2>3, ZenonT(30)
<1> QED BY <1>3, <1>4, ZenonT(30)

\* c holds the n blocks above f up to b, where f is the last common block of the
\* chains of t and b.
Branch(c, n, f, t, b) ==
    /\ c \in [1..n -> Blocks] /\ c[n] = b /\ Parent[c[1]] = f
    /\ \A i \in 1..n : i # 1 => Parent[c[i]] = c[i - 1]
    /\ t = None => f = None
    /\ t # None => f \in Path[t] /\ f \in Path[b]
    /\ Path[t] \cap Path[b] \subseteq Path[f]
    /\ \A i \in 1..n : c[i] = Genesis => i = 1 /\ t = None

\* The blocks that a move of the chain connects: one on top of the other, from
\* the fork to the new tip.
LEMMA BetweenFacts ==
  ASSUME NEW t \in Blocks \cup {None}, NEW b \in Blocks, b \notin Path[t]
  PROVE  \E n \in Nat \ {0}, f \in Blocks \cup {None} : Branch(Between(t, b), n, f, t, b)
<1> DEFINE f == FindFork(b, t)
           below == IF f = None THEN -1 ELSE Height[f]
           n == Height[b] - below
           E == Between(t, b)
<1>0. b # None /\ b \in Path[b] /\ Height[b] \in Nat
  BY PathHasSelf, HeightFacts, TreeAssumption, ZenonT(30)
<1>1. /\ t = None => f = None /\ Path[t] = {}
      /\ t # None => f \in Path[t] /\ f \in Path[b] /\ f \in Blocks /\ f # None
      /\ Path[t] \cap Path[b] \subseteq Path[f]
  BY <1>0, ForkFacts, PathStep, TreeAssumption, ZenonT(30)
<1> HIDE DEF f
<1>2. below \in Int /\ -1 <= below /\ below < Height[b] /\ (t = None => below = -1)
  <2>1. CASE t = None
    BY <1>0, <1>1, <2>1
  <2>2. CASE t # None
    <3>1. below = Height[f] /\ Height[f] \in Nat
      BY <1>1, <2>2, HeightFacts, ZenonT(30)
    <3>2. f # b
      BY <1>1, <2>2, ZenonT(30)
    <3>3. Height[f] <= Height[b] /\ Height[f] # Height[b]
      BY <1>1, <2>2, <3>2, HeightOrder, ZenonT(30)
    <3> QED BY <1>0, <2>2, <3>1, <3>3
  <2> QED BY <2>1, <2>2
<1>3. E = [i \in 1..n |-> GetAncestor(b, below + i)]
  BY ZenonT(30) DEF Between, f
<1> HIDE DEF below
<1>4. n \in Nat \ {0} /\ n = Height[b] - below
  BY <1>0, <1>2
<1>n. \A i \in 1..n : below + i \in Nat /\ below + i <= Height[b]
  BY <1>0, <1>2, <1>4
<1> HIDE DEF n, E
<1>5. ASSUME NEW i \in 1..n PROVE E[i] \in Path[b] /\ Height[E[i]] = below + i /\ E[i] \in Blocks
  <2>1. E[i] = GetAncestor(b, below + i)
    BY <1>3, ZenonT(30)
  <2>2. b \in Blocks \cup {None} /\ below + i \in Nat /\ below + i <= Height[b]
    BY <1>n, ZenonT(30)
  <2>3. GetAncestor(b, below + i) \in Path[b] /\ Height[GetAncestor(b, below + i)] = below + i
    BY <1>0, <2>2, GetAncestorFacts, ZenonT(30)
  <2>4. E[i] \in Path[b] /\ Height[E[i]] = below + i
    BY <2>1, <2>3, ZenonT(30)
  <2> QED BY <2>2, <2>4, PathInBlocks, ZenonT(30)
<1>6. E \in [1..n -> Blocks]
  BY <1>3, <1>5, ZenonT(30)
<1>7. E[n] = b
  <2>1. n \in 1..n /\ below + n = Height[b]
    BY <1>0, <1>2, <1>4
  <2> QED BY <1>0, <1>5, <2>1, AncestorUnique, ZenonT(30)
<1>8. ASSUME NEW i \in 1..n PROVE (E[i] = Genesis => i = 1 /\ t = None) /\ (t = None /\ i = 1 => E[i] = Genesis)
  <2>1. Height[E[i]] = below + i /\ E[i] \in Blocks /\ Height[Genesis] = 0 /\ Genesis \in Path[b] /\ E[i] \in Path[b]
    BY <1>5, HeightFacts, PathHasSelf, ZenonT(30)
  <2>2. E[i] = Genesis => below = -1 /\ i = 1
    BY <1>2, <1>4, <2>1
  <2>3. below = -1 => t = None
    <3>1. t # None => below = Height[f] /\ Height[f] \in Nat
      BY <1>1, HeightFacts, ZenonT(30) DEF below
    <3> QED BY <3>1
  <2>4. t = None /\ i = 1 => Height[E[i]] = 0
    BY <1>2, <2>1
  <2>5. Height[E[i]] = 0 => E[i] = Genesis
    BY <2>1, AncestorUnique, ZenonT(30)
  <2> QED BY <2>2, <2>3, <2>4, <2>5, ZenonT(30)
<1>9. ASSUME NEW i \in 1..n, E[i] # Genesis
      PROVE  Parent[E[i]] \in Path[b] /\ Height[Parent[E[i]]] = below + i - 1 /\ Parent[E[i]] \in Blocks
  <2>1. Parent[E[i]] \in Blocks /\ Parent[E[i]] # None
    BY <1>5, <1>9, TreeAssumption
  <2>2. Parent[E[i]] \in Path[b]
    BY <1>5, <2>1, PathParent, ZenonT(30)
  <2>3. Height[E[i]] = Height[Parent[E[i]]] + 1 /\ Height[Parent[E[i]]] \in Nat
    BY <1>5, <1>9, <2>1, HeightFacts, ZenonT(30)
  <2> QED BY <1>2, <1>5, <2>1, <2>2, <2>3
<1>10. \A i \in 1..n : i # 1 => Parent[E[i]] = E[i - 1]
  <2> SUFFICES ASSUME NEW i \in 1..n, i # 1 PROVE Parent[E[i]] = E[i - 1]
    OBVIOUS
  <2>1. i - 1 \in 1..n /\ below + i - 1 = below + (i - 1)
    BY <1>2, <1>4
  <2>2. E[i - 1] \in Path[b] /\ Height[E[i - 1]] = below + i - 1
    BY <1>5, <2>1
  <2> QED BY <1>8, <1>9, <2>2, AncestorUnique, ZenonT(30)
<1>11. Parent[E[1]] = f
  <2>0. 1 \in 1..n
    BY <1>4
  <2>1. CASE t = None
    BY <1>1, <1>8, <2>0, <2>1, TreeAssumption, ZenonT(30)
  <2>2. CASE t # None
    <3>1. Parent[E[1]] \in Path[b] /\ Height[Parent[E[1]]] = below + 1 - 1 /\ below + 1 - 1 = below
      BY <1>2, <1>8, <1>9, <2>0, <2>2
    <3>2. below = Height[f]
      BY <1>1, <2>2, ZenonT(30) DEF below
    <3> QED BY <1>1, <2>2, <3>1, <3>2, AncestorUnique, ZenonT(30)
  <2> QED BY <2>1, <2>2, ZenonT(30)
<1>12. f \in Blocks \cup {None}
  BY <1>1, ZenonT(30)
<1>13. Branch(E, n, f, t, b)
  BY <1>1, <1>6, <1>7, <1>8, <1>10, <1>11, ZenonT(30) DEF Branch
<1> QED BY <1>4, <1>12, <1>13, ZenonT(30) DEF E

------------------------------------------------------------------------------
\* What the scheduler thread will make of the queue.  Move is where an event
\* takes an index whose best block is p; a run follows the queue from its k-th
\* event on.
Events == [kind : {"connected", "flushed"}, block : Blocks]
Maybe == Blocks \cup {None}

Move(p, e) ==
  IF e.kind = "connected" /\ (Parent[e.block] \in Path[p] \/ e.block = Genesis) THEN e.block ELSE p

Run(r, q, k) ==
  /\ r \in [k..Len(q) -> Maybe]
  /\ \A i \in k..Len(q) : i # k => r[i] = Move(r[i - 1], q[i])

\* From wherever the index is, the events lose nothing of the tip's chain.
Keeps(q, t) ==
  \A k \in 0..Len(q) : \A r : Run(r, q, k) => Path[r[k]] \cap Path[t] \subseteq Path[r[Len(q)]]

\* From p, the events lead to the tip t, or above it.
Leads(q, p, t) == \A r : Run(r, q, 0) /\ r[0] = p => Path[t] \subseteq Path[r[Len(q)]]

\* The block an event takes the index to is a block or none.
LEMMA MoveType ==
  ASSUME NEW p \in Maybe, NEW e \in Events
  PROVE  Move(p, e) \in Maybe
BY DEF Move, Maybe, Events

\* The first event is taken off the queue.
LEMMA TailRuns ==
  ASSUME NEW q \in Seq(Events), q # <<>>, NEW t
  PROVE  /\ Keeps(q, t) => Keeps(Tail(q), t)
         /\ \A p \in Maybe : Leads(q, p, t) => Leads(Tail(q), Move(p, Head(q)), t)
<1> DEFINE n == Len(q)
           q2 == Tail(q)
           back(r, k) == [i \in k + 1..n |-> r[i - 1]]
<1>1. n \in Nat \ {0} /\ q2 \in Seq(Events) /\ Len(q2) = n - 1 /\ \A i \in 1..n - 1 : q2[i] = q[i + 1]
  OBVIOUS
<1>h. Head(q) = q[1] /\ q[1] \in Events
  BY <1>1
<1> HIDE DEF n, q2
<1>2. ASSUME NEW k \in 0..Len(q2), NEW r, Run(r, q2, k) PROVE Run(back(r, k), q, k + 1)
  <2>1. k \in Nat /\ k <= n - 1 /\ r \in [k..n - 1 -> Maybe]
        /\ \A i \in k..n - 1 : i # k => r[i] = Move(r[i - 1], q2[i])
    BY <1>1, <1>2 DEF Run
  <2>2. back(r, k) \in [k + 1..n -> Maybe]
    BY <1>1, <2>1
  <2>3. ASSUME NEW i \in k + 1..n, i # k + 1
        PROVE  back(r, k)[i] = Move(back(r, k)[i - 1], q[i])
    <3>1. i - 1 \in k..n - 1 /\ i - 1 # k /\ i - 1 \in 1..n - 1 /\ i - 1 \in k + 1..n /\ i - 1 + 1 = i
      BY <1>1, <2>1, <2>3
    <3>2. r[i - 1] = Move(r[i - 1 - 1], q2[i - 1]) /\ q2[i - 1] = q[i]
      BY <1>1, <2>1, <3>1
    <3>3. back(r, k)[i] = r[i - 1] /\ back(r, k)[i - 1] = r[i - 1 - 1]
      BY <3>1
    <3> QED BY <3>2, <3>3, ZenonT(30)
  <2> QED BY <2>2, <2>3 DEF Run, n
<1>3. ASSUME Keeps(q, t) PROVE Keeps(q2, t)
  <2> SUFFICES ASSUME NEW k \in 0..Len(q2), NEW r, Run(r, q2, k)
               PROVE  Path[r[k]] \cap Path[t] \subseteq Path[r[Len(q2)]]
    BY ZenonT(30) DEF Keeps
  <2>1. k + 1 \in 0..n /\ k + 1 \in k + 1..n /\ n \in k + 1..n /\ k + 1 - 1 = k
    BY <1>1
  <2>2. Run(back(r, k), q, k + 1)
    BY <1>2, ZenonT(30)
  <2>3. back(r, k)[k + 1] = r[k] /\ back(r, k)[n] = r[n - 1]
    BY <2>1
  <2> HIDE DEF back
  <2>4. Path[back(r, k)[k + 1]] \cap Path[t] \subseteq Path[back(r, k)[n]]
    BY <1>3, <2>1, <2>2, ZenonT(30) DEF Keeps, n
  <2> QED BY <1>1, <2>3, <2>4, ZenonT(30)
<1>4. ASSUME NEW p \in Maybe, Leads(q, p, t) PROVE Leads(q2, Move(p, Head(q)), t)
  <2> SUFFICES ASSUME NEW r, Run(r, q2, 0), r[0] = Move(p, Head(q)) PROVE Path[t] \subseteq Path[r[Len(q2)]]
    BY ZenonT(30) DEF Leads
  <2> DEFINE s == [i \in 0..n |-> IF i = 0 THEN p ELSE r[i - 1]]
  <2>0. 0 \in 0..Len(q2) /\ 0 + 1 = 1
    BY <1>1
  <2>1. Run(back(r, 0), q, 1)
    BY <1>2, <2>0
  <2>2. /\ back(r, 0) \in [1..n -> Maybe]
        /\ \A i \in 1..n : i # 1 => back(r, 0)[i] = Move(back(r, 0)[i - 1], q[i])
    BY <2>1, ZenonT(30) DEF Run, n
  <2>3. \A i \in 1..n : back(r, 0)[i] = r[i - 1] /\ s[i] = r[i - 1] /\ s[i] \in Maybe
    BY <1>1, <2>2
  <2>4. s \in [0..n -> Maybe] /\ s[0] = p
    <3>1. 0 \in 0..n /\ \A i \in 0..n : i = 0 \/ i \in 1..n
      BY <1>1
    <3>2. ASSUME NEW i \in 0..n PROVE (IF i = 0 THEN p ELSE r[i - 1]) \in Maybe
      BY <2>3, <3>1, ZenonT(30)
    <3> QED BY <3>1, <3>2, ZenonT(30)
  <2>5. ASSUME NEW i \in 0..n, i # 0 PROVE s[i] = Move(s[i - 1], q[i])
    <3>1. CASE i = 1
      BY <1>1, <1>h, <2>3, <2>4, <3>1
    <3>2. CASE i # 1
      <4>1. i \in 1..n /\ i - 1 \in 1..n
        BY <1>1, <2>5, <3>2
      <4> QED BY <2>2, <2>3, <3>2, <4>1, ZenonT(30)
    <3> QED BY <3>1, <3>2
  <2>6. Run(s, q, 0)
    BY <2>4, <2>5 DEF Run, n
  <2>7. s[n] = r[n - 1] /\ n - 1 = Len(q2)
    BY <1>1, <2>3
  <2> HIDE DEF s
  <2>8. Path[t] \subseteq Path[s[n]]
    BY <1>4, <2>4, <2>6 DEF Leads, n
  <2> QED BY <2>7, <2>8
<1> QED BY <1>3, <1>4 DEF q2

\* The tip moves down its chain, and an event that moves nothing is added.
LEMMA DownRuns ==
  ASSUME NEW q, NEW t, NEW u, Path[u] \subseteq Path[t]
  PROVE  /\ Keeps(q, t) => Keeps(q, u)
         /\ \A p : Leads(q, p, t) => Leads(q, p, u)
BY ZenonT(30) DEF Keeps, Leads

\* A run of a longer queue is a run of the shorter one up to its end.
LEMMA Shorter ==
  ASSUME NEW q \in Seq(Events), NEW e \in Seq(Events), NEW k \in 0..Len(q), NEW r, Run(r, q \o e, k)
  PROVE  Run([i \in k..Len(q) |-> r[i]], q, k)
<1>1. /\ Len(q \o e) = Len(q) + Len(e) /\ Len(q) \in Nat /\ Len(e) \in Nat
      /\ \A i \in 1..Len(q) : (q \o e)[i] = q[i]
  OBVIOUS
<1>2. /\ k..Len(q) \subseteq k..Len(q \o e)
      /\ \A i \in k..Len(q) : i # k => i \in 1..Len(q) /\ i - 1 \in k..Len(q)
  BY <1>1
<1>3. /\ r \in [k..Len(q \o e) -> Maybe]
      /\ \A i \in k..Len(q \o e) : i # k => r[i] = Move(r[i - 1], (q \o e)[i])
  BY ZenonT(30) DEF Run
<1> DEFINE s == [i \in k..Len(q) |-> r[i]]
<1>4. s \in [k..Len(q) -> Maybe]
  BY <1>2, <1>3, ZenonT(30)
<1>5. ASSUME NEW i \in k..Len(q), i # k PROVE s[i] = Move(s[i - 1], q[i])
  <2>1. r[i] = Move(r[i - 1], (q \o e)[i]) /\ (q \o e)[i] = q[i] /\ i - 1 \in k..Len(q)
    BY <1>1, <1>2, <1>3, <1>5, ZenonT(30)
  <2> QED BY <2>1, ZenonT(30)
<1> QED BY <1>4, <1>5, ZenonT(30) DEF Run

\* The events e of a move of the chain, through the blocks c, each on top of the
\* one before.
Climbs(e, c, n) ==
  /\ n \in Nat \ {0} /\ c \in [1..n -> Blocks]
  /\ \A i \in 1..n : i # 1 => Parent[c[i]] = c[i - 1]
  /\ \A i \in 1..n : c[i] = Genesis => i = 1
  /\ e \in Seq(Events) /\ Len(e) = n /\ \A i \in 1..n : e[i] = Connected(c[i])

\* They take an index that has the fork to the new tip, and leave any other where
\* it is.
LEMMA Climb ==
  ASSUME NEW q \in Seq(Events), NEW e, NEW c, NEW n, Climbs(e, c, n),
         NEW k \in 0..Len(q) + n, NEW r, Run(r, q \o e, k), NEW m \in k..Len(q) + n, Len(q) <= m
  PROVE  \/ r[Len(q) + n] = c[n]
         \/ /\ r[Len(q) + n] = r[m]
            /\ m < Len(q) + n => Parent[c[m - Len(q) + 1]] \notin Path[r[m]]
                                 /\ c[m - Len(q) + 1] # Genesis
<1> DEFINE L == Len(q)
<1>1. n \in Nat \ {0} /\ c \in [1..n -> Blocks] /\ e \in Seq(Events) /\ Len(e) = n
  BY ZenonT(30) DEF Climbs
<1>p. \A i \in 1..n : i # 1 => Parent[c[i]] = c[i - 1]
  BY ZenonT(30) DEF Climbs
<1>g. \A i \in 1..n : c[i] = Genesis => i = 1
  BY ZenonT(30) DEF Climbs
<1>e. \A i \in 1..n : e[i] = Connected(c[i])
  BY ZenonT(30) DEF Climbs
<1>2. L \in Nat /\ Len(q \o e) = L + n /\ \A i \in 1..n : (q \o e)[L + i] = e[i]
  BY <1>1
<1>m. m \in Int /\ k \in Nat /\ k <= m /\ m <= L + n /\ L <= m
  BY <1>1, <1>2
<1> HIDE DEF L
<1>3. ASSUME NEW i \in Nat, i \in m..L + n, i # m
      PROVE  /\ i - L \in 1..n /\ i - 1 \in Nat /\ i - 1 \in m..L + n
             /\ r[i] = Move(r[i - 1], Connected(c[i - L])) /\ r[i - 1] \in Maybe
  <2>1. i - L \in 1..n /\ i \in k..L + n /\ i # k /\ i - 1 \in k..L + n /\ i = L + (i - L)
        /\ i - 1 \in Nat /\ i - 1 \in m..L + n
    BY <1>1, <1>2, <1>m, <1>3
  <2>2. r[i] = Move(r[i - 1], (q \o e)[i]) /\ r[i - 1] \in Maybe
    BY <1>2, <2>1, ZenonT(30) DEF Run
  <2>3. (q \o e)[i] = e[i - L] /\ e[i - L] = Connected(c[i - L])
    BY <1>1, <1>2, <1>e, <2>1
  <2> QED BY <2>1, <2>2, <2>3, ZenonT(30)
<1>4. ASSUME NEW p \in Maybe, NEW i \in 1..n
      PROVE  Move(p, Connected(c[i])) = IF Parent[c[i]] \in Path[p] \/ c[i] = Genesis THEN c[i] ELSE p
  BY <1>1 DEF Move, Connected
<1>5. CASE m = L + n
  <2>1. ~(m < L + n)
    BY <1>1, <1>2, <1>5
  <2> QED BY <1>5, <2>1, ZenonT(30) DEF L
<1>6. CASE m < L + n /\ (Parent[c[m - L + 1]] \in Path[r[m]] \/ c[m - L + 1] = Genesis)
  <2> DEFINE T == {i \in Nat : i \in m + 1..L + n => r[i] = c[i - L]}
  <2>1. 0 \in T
    BY <1>1, <1>2, <1>m
  <2>2. ASSUME NEW i \in Nat, i \in T PROVE i + 1 \in T
    <3>0. i + 1 \in Nat
      OBVIOUS
    <3> SUFFICES ASSUME i + 1 \in m + 1..L + n PROVE r[i + 1] = c[i + 1 - L]
      BY <1>1, <1>2, <1>m, <3>0
    <3>1. i + 1 \in Nat /\ i + 1 \in m..L + n /\ i + 1 # m /\ i + 1 - 1 = i
      BY <1>1, <1>2, <1>m
    <3>2. /\ i + 1 - L \in 1..n /\ r[i] \in Maybe
          /\ r[i + 1] = Move(r[i], Connected(c[i + 1 - L]))
      <4>1. /\ i + 1 - L \in 1..n /\ r[i + 1 - 1] \in Maybe
            /\ r[i + 1] = Move(r[i + 1 - 1], Connected(c[i + 1 - L]))
        BY <1>1, <1>2, <1>m, <1>3, <3>1
      <4> QED BY <3>1, <4>1, ZenonT(30)
    <3>3. Parent[c[i + 1 - L]] \in Path[r[i]] \/ c[i + 1 - L] = Genesis
      <4>1. CASE i = m
        <5>1. m - L + 1 = i + 1 - L
          BY <1>2, <4>1
        <5> QED BY <1>6, <4>1, <5>1, ZenonT(30)
      <4>2. CASE i # m
        <5>0. L \in Nat /\ m \in Int /\ L <= m /\ i + 1 \in m..L + n /\ i + 1 # m
          BY <1>2, <1>m, <3>1, ZenonT(30)
        <5>1. i \in m + 1..L + n /\ i + 1 - L # 1 /\ i + 1 - L - 1 = i - L /\ i - L \in 1..n
          BY <1>1, <4>2, <5>0
        <5>2. r[i] = c[i - L] /\ Parent[c[i + 1 - L]] = c[i - L]
          <6>1. i \in T
            BY <2>2
          <6>2. r[i] = c[i - L]
            BY <5>1, <6>1, ZenonT(30)
          <6> DEFINE j == i + 1 - L
          <6>3. j \in 1..n /\ j # 1
            BY <3>2, <5>1, ZenonT(30)
          <6>4. Parent[c[j]] = c[j - 1]
            <7> HIDE DEF j, T
            <7> QED BY <1>p, <6>3, ZenonT(30)
          <6>5. j - 1 = i - L
            BY <5>0
          <6> QED BY <6>2, <6>4, <6>5, ZenonT(30)
        <5> QED BY <1>1, <5>1, <5>2, PathHasSelf
      <4> QED BY <4>1, <4>2, ZenonT(30)
    <3> QED BY <1>4, <3>2, <3>3, ZenonT(30)
  <2>3. L + n \in T
    <3> HIDE DEF T
    <3>1. Nat \subseteq T
      BY <2>1, <2>2, NatSetInduction, ZenonT(30)
    <3> QED BY <1>1, <1>2, <3>1
  <2>4. L + n \in m + 1..L + n /\ L + n - L = n
    BY <1>1, <1>2, <1>6, <1>m
  <2>5. r[L + n] = c[L + n - L]
    BY <1>1, <1>2, <1>m, <2>3, <2>4
  <2> QED BY <2>4, <2>5, ZenonT(30) DEF L
<1>7. CASE m < L + n /\ Parent[c[m - L + 1]] \notin Path[r[m]] /\ c[m - L + 1] # Genesis
  <2> DEFINE j == m - L + 1
             p == r[m]
  <2>0. j \in 1..n /\ m \in k..L + n /\ p \in Maybe
    <3>1. j \in 1..n /\ m \in k..L + n
      BY <1>1, <1>2, <1>7, <1>m
    <3> QED BY <1>2, <3>1, ZenonT(30) DEF Run
  <2>1. \A i \in 1..n : j <= i => c[i] \notin Path[p] /\ Parent[c[i]] \notin Path[p] /\ c[i] # Genesis
    <3> DEFINE T == {i \in Nat : i \in j..n => c[i] \notin Path[p] /\ Parent[c[i]] \notin Path[p] /\ c[i] # Genesis}
    <3>0. ASSUME NEW i \in 1..n, Parent[c[i]] \notin Path[p], c[i] # Genesis PROVE c[i] \notin Path[p]
      <4>1. c[i] \in Blocks /\ Parent[c[i]] # None
        BY <1>1, <3>0, TreeAssumption
      <4> QED BY <2>0, <3>0, <4>1, PathParent, ZenonT(30) DEF Maybe
    <3>1. 0 \in T
      BY <2>0
    <3>2. ASSUME NEW i \in Nat, i \in T PROVE i + 1 \in T
      <4> SUFFICES ASSUME i + 1 \in j..n
                   PROVE  c[i + 1] \notin Path[p] /\ Parent[c[i + 1]] \notin Path[p] /\ c[i + 1] # Genesis
        OBVIOUS
      <4>1. CASE i + 1 = j
        BY <1>7, <2>0, <3>0, <4>1, ZenonT(30)
      <4>2. CASE i + 1 # j
        <5>1. i \in j..n /\ i + 1 \in 1..n /\ i + 1 # 1 /\ i + 1 - 1 = i
          <6> HIDE DEF j
          <6>1. j \in Nat /\ 1 <= j /\ j <= i /\ i + 1 <= n
            BY <1>1, <2>0, <4>2
          <6> QED BY <1>1, <6>1
        <5>2. Parent[c[i + 1]] = c[i] /\ c[i] \notin Path[p] /\ c[i + 1] # Genesis
          BY <1>p, <1>g, <3>2, <5>1
        <5> QED BY <3>0, <5>1, <5>2
      <4> QED BY <4>1, <4>2
    <3>3. Nat \subseteq T
      <4> HIDE DEF T
      <4> QED BY <3>1, <3>2, NatSetInduction, ZenonT(30)
    <3>4. \A i \in 1..n : j <= i => i \in Nat /\ i \in j..n
      BY <1>1, <2>0
    <3> QED BY <3>3, <3>4, ZenonT(30)
  <2> DEFINE T == {i \in Nat : i \in m..L + n => r[i] = p}
  <2>2. 0 \in T
    BY <1>1, <1>2, <1>m
  <2>3. ASSUME NEW i \in Nat, i \in T PROVE i + 1 \in T
    <3> SUFFICES ASSUME i + 1 \in m..L + n, i + 1 # m PROVE r[i + 1] = p
      OBVIOUS
    <3>1. i + 1 \in Nat /\ i + 1 - 1 = i /\ i \in m..L + n /\ j <= i + 1 - L
      BY <1>1, <1>2, <1>m, <2>0
    <3>2. /\ i + 1 - L \in 1..n
          /\ r[i + 1] = Move(r[i], Connected(c[i + 1 - L]))
      <4>1. /\ i + 1 - L \in 1..n
            /\ r[i + 1] = Move(r[i + 1 - 1], Connected(c[i + 1 - L]))
        BY <1>1, <1>2, <1>m, <1>3, <3>1
      <4> QED BY <3>1, <4>1, ZenonT(30)
    <3>3. r[i] = p
      BY <2>3, <3>1, ZenonT(30)
    <3> QED BY <1>4, <2>0, <2>1, <3>1, <3>2, <3>3, ZenonT(30)
  <2>4. Nat \subseteq T
    <3> HIDE DEF T
    <3> QED BY <2>2, <2>3, NatSetInduction, ZenonT(30)
  <2>5. L + n \in Nat /\ L + n \in m..L + n
    BY <1>1, <1>2, <1>m
  <2>6. r[L + n] = p
    BY <2>4, <2>5, ZenonT(30)
  <2> QED BY <1>7, <2>6, ZenonT(30) DEF L
<1>8. m = L + n \/ m < L + n
  BY <1>1, <1>2, <1>m
<1> QED BY <1>5, <1>6, <1>7, <1>8, ZenonT(30) DEF L

\* The chain moves from t to b, which is not in the chain of t.
LEMMA ActivateRuns ==
  ASSUME NEW q \in Seq(Events), NEW t \in Maybe, NEW b \in Blocks, b \notin Path[t],
         NEW e, e = [i \in DOMAIN Between(t, b) |-> Connected(Between(t, b)[i])]
  PROVE  /\ e \in Seq(Events) /\ e # <<>>
         /\ t = None => e[1] = Connected(Genesis)
         /\ \A i \in 1..Len(e) : e[i].block = Genesis => i = 1 /\ t = None
         /\ Keeps(q, t) => Keeps(q \o e, b)
         /\ \A p : Leads(q, p, t) => Leads(q \o e, p, b)
<1> DEFINE c == Between(t, b)
           L == Len(q)
<1>0. PICK n \in Nat \ {0}, f \in Blocks \cup {None} : Branch(c, n, f, t, b)
  <2>1. t \in Blocks \cup {None}
    BY DEF Maybe
  <2> QED BY <2>1, BetweenFacts, ZenonT(30)
<1>1. /\ n \in Nat \ {0} /\ f \in Blocks \cup {None}
      /\ c \in [1..n -> Blocks] /\ c[n] = b /\ Parent[c[1]] = f
      /\ \A i \in 1..n : i # 1 => Parent[c[i]] = c[i - 1]
      /\ t = None => f = None
      /\ t # None => f \in Path[t] /\ f \in Path[b]
      /\ Path[t] \cap Path[b] \subseteq Path[f]
      /\ \A i \in 1..n : c[i] = Genesis => i = 1 /\ t = None
  BY <1>0, ZenonT(30) DEF Branch
<1>2. 1 \in 1..n /\ DOMAIN c = 1..n /\ e = [i \in 1..n |-> Connected(c[i])]
  BY <1>1
<1> HIDE DEF c
<1>3. e \in Seq(Events) /\ Len(e) = n /\ \A i \in 1..n : e[i] = Connected(c[i])
  <2>1. \A i \in 1..n : Connected(c[i]) \in Events
    BY <1>1 DEF Connected, Events
  <2> QED BY <1>2, <2>1
<1>4. L \in Nat /\ Len(q \o e) = L + n /\ L + n \in Nat
  BY <1>3
<1>5. t = None => c[1] = Genesis
  <2>1. c[1] \in Blocks
    BY <1>1, <1>2, ZenonT(30)
  <2> QED BY <1>1, <2>1, TreeAssumption, ZenonT(30)
<1>6. ASSUME NEW k \in 0..L + n, NEW r, Run(r, q \o e, k), NEW m \in k..L + n, L <= m
      PROVE  \/ r[L + n] = b
             \/ /\ r[L + n] = r[m]
                /\ m = L => t # None /\ f \notin Path[r[m]]
  <2>1. Climbs(e, c, n)
    BY <1>1, <1>3, ZenonT(30) DEF Climbs
  <2>2. k \in 0..Len(q) + n /\ m \in k..Len(q) + n /\ Len(q) <= m
    BY <1>6
  <2>3. \/ r[Len(q) + n] = c[n]
        \/ /\ r[Len(q) + n] = r[m]
           /\ m < Len(q) + n => Parent[c[m - Len(q) + 1]] \notin Path[r[m]]
                                /\ c[m - Len(q) + 1] # Genesis
    BY <1>6, <2>1, <2>2, Climb
  <2>4. m = L => m < L + n /\ m - L + 1 = 1
    BY <1>4
  <2>5. m = L /\ r[L + n] # b => f \notin Path[r[m]] /\ c[1] # Genesis
    BY <1>1, <2>3, <2>4, ZenonT(30)
  <2> QED BY <1>1, <1>5, <2>3, <2>5, ZenonT(30)
<1>7. ASSUME NEW k \in 0..L, NEW r, Run(r, q \o e, k)
      PROVE  /\ L \in k..L + n /\ L <= L /\ k \in 0..L + n /\ k \in k..L /\ L \in k..L
             /\ \E s : Run(s, q, k) /\ s[k] = r[k] /\ s[L] = r[L]
  <2>1. L \in k..L + n /\ L <= L /\ k \in 0..L + n /\ k \in k..L /\ L \in k..L
    BY <1>4
  <2>2. Run([i \in k..L |-> r[i]], q, k)
    BY <1>3, <1>7, Shorter, ZenonT(30)
  <2>3. [i \in k..L |-> r[i]][k] = r[k] /\ [i \in k..L |-> r[i]][L] = r[L]
    BY <2>1, ZenonT(30)
  <2> QED BY <2>1, <2>2, <2>3, ZenonT(30)
<1> HIDE DEF L
<1>8. ASSUME Keeps(q, t), NEW k \in 0..L + n, NEW r, Run(r, q \o e, k)
      PROVE  Path[r[k]] \cap Path[b] \subseteq Path[r[L + n]]
  <2>1. CASE L <= k
    <3>1. k \in k..L + n
      BY <1>4
    <3>2. r[L + n] = b \/ r[L + n] = r[k]
      BY <1>6, <1>8, <2>1, <3>1, ZenonT(30)
    <3> QED BY <3>2, ZenonT(30)
  <2>2. CASE k < L
    <3>0. k \in 0..L
      BY <1>4, <2>2
    <3>1. /\ L \in k..L + n /\ L <= L
          /\ \E s : Run(s, q, k) /\ s[k] = r[k] /\ s[L] = r[L]
      BY <1>7, <1>8, <3>0, ZenonT(30)
    <3>2. Path[r[k]] \cap Path[t] \subseteq Path[r[L]]
      BY <1>8, <3>0, <3>1, ZenonT(30) DEF Keeps, L
    <3>3. CASE r[L + n] = r[L] /\ t # None /\ f \notin Path[r[L]]
      <4> SUFFICES ASSUME NEW x, x \in Path[r[k]], x \in Path[b] PROVE x \in Path[r[L]]
        BY <3>3, ZenonT(30)
      <4>1. f \in Path[t] /\ f \in Path[b] /\ f \notin Path[r[k]]
        BY <1>1, <3>2, <3>3, ZenonT(30)
      <4>2. r[k] \in Blocks \cup {None} /\ b \in Blocks \cup {None} /\ t \in Blocks \cup {None}
        <5>1. k \in k..L + n
          BY <1>4
        <5> QED BY <1>4, <1>8, <5>1, ZenonT(30) DEF Run, Maybe
      <4>3. x \in Path[f] \/ f \in Path[x]
        BY <4>1, <4>2, PathLinear, ZenonT(30)
      <4>4. Path[x] \subseteq Path[r[k]] /\ Path[f] \subseteq Path[t]
        BY <4>1, <4>2, PathTransitive, ZenonT(30)
      <4> QED BY <3>2, <4>1, <4>3, <4>4, ZenonT(30)
    <3>4. r[L + n] = b \/ (r[L + n] = r[L] /\ t # None /\ f \notin Path[r[L]])
      BY <1>6, <1>8, <3>1, ZenonT(30)
    <3> QED BY <3>3, <3>4, ZenonT(30)
  <2>3. L <= k \/ k < L
    BY <1>4
  <2> QED BY <2>1, <2>2, <2>3, ZenonT(30)
<1>9. ASSUME NEW p, Leads(q, p, t), NEW r, Run(r, q \o e, 0), r[0] = p
      PROVE  Path[b] \subseteq Path[r[L + n]]
  <2>0. 0 \in 0..L
    BY <1>4
  <2>1. /\ L \in 0..L + n /\ L <= L /\ 0 \in 0..L + n
        /\ \E s : Run(s, q, 0) /\ s[0] = r[0] /\ s[L] = r[L]
    BY <1>7, <1>9, <2>0, ZenonT(30)
  <2>2. Path[t] \subseteq Path[r[L]]
    BY <1>9, <2>1, ZenonT(30) DEF Leads, L
  <2>3. r[L + n] = b
    BY <1>1, <1>6, <1>9, <2>1, <2>2, ZenonT(30)
  <2> QED BY <2>3, ZenonT(30)
<1>10. /\ \A i \in 1..Len(e) : e[i].block = Genesis => i = 1 /\ t = None
       /\ t = None => e[1] = Connected(Genesis)
  <2>1. \A i \in 1..n : e[i].block = c[i]
    <3>1. \A x : Connected(x).block = x
      BY DEF Connected
    <3> QED BY <1>3, <3>1, ZenonT(30)
  <2> QED BY <1>1, <1>2, <1>3, <1>5, <2>1, ZenonT(30)
<1>11. e # <<>>
  BY <1>3
<1>12. Keeps(q, t) => Keeps(q \o e, b)
  BY <1>4, <1>8, ZenonT(30) DEF Keeps, L
<1>13. \A p : Leads(q, p, t) => Leads(q \o e, p, b)
  BY <1>4, <1>9, ZenonT(30) DEF Leads, L
<1> QED BY <1>3, <1>10, <1>11, <1>12, <1>13, ZenonT(30)

\* An event that says the chainstate was flushed moves nothing.
LEMMA FlushRuns ==
  ASSUME NEW q \in Seq(Events), NEW t, NEW b \in Blocks,
         NEW e, e = [kind |-> "flushed", block |-> b]
  PROVE  /\ Append(q, e) \in Seq(Events)
         /\ Keeps(q, t) => Keeps(Append(q, e), t)
         /\ \A p : Leads(q, p, t) => Leads(Append(q, e), p, t)
<1> DEFINE L == Len(q)
<1>1. e \in Events /\ \A p : Move(p, e) = p
  BY DEF Events, Move
<1>2. /\ Append(q, e) = q \o <<e>> /\ Append(q, e) \in Seq(Events) /\ <<e>> \in Seq(Events)
      /\ L \in Nat /\ Len(Append(q, e)) = L + 1 /\ Append(q, e)[L + 1] = e
  BY <1>1
<1>3. ASSUME NEW k \in 0..L, NEW r, Run(r, Append(q, e), k)
      PROVE  r[L + 1] = r[L] /\ \E s : Run(s, q, k) /\ s[k] = r[k] /\ s[L] = r[L]
  <2>1. k \in k..L /\ L \in k..L /\ L + 1 \in k..L + 1 /\ L + 1 # k /\ L + 1 - 1 = L
    BY <1>2
  <2>2. Run([i \in k..L |-> r[i]], q, k)
    BY <1>2, <1>3, Shorter, ZenonT(30)
  <2>3. [i \in k..L |-> r[i]][k] = r[k] /\ [i \in k..L |-> r[i]][L] = r[L]
    BY <2>1, ZenonT(30)
  <2>4. L + 1 \in k..Len(Append(q, e)) /\ Append(q, e)[L + 1] = e
    BY <1>2, <2>1, ZenonT(30)
  <2>5. r[L + 1] = Move(r[L + 1 - 1], Append(q, e)[L + 1])
    BY <1>3, <2>1, <2>4 DEF Run
  <2>6. r[L + 1] = Move(r[L], e)
    BY <2>1, <2>4, <2>5, ZenonT(30)
  <2> QED BY <1>1, <2>2, <2>3, <2>6, ZenonT(30)
<1>4. \A k \in 0..L + 1 : k \in 0..L \/ k = L + 1
  BY <1>2
<1>5. Keeps(q, t) => Keeps(Append(q, e), t)
  <2> SUFFICES ASSUME Keeps(q, t), NEW k \in 0..L + 1, NEW r, Run(r, Append(q, e), k)
               PROVE  Path[r[k]] \cap Path[t] \subseteq Path[r[L + 1]]
    BY <1>2, ZenonT(30) DEF Keeps
  <2>1. CASE k = L + 1
    BY <2>1, ZenonT(30)
  <2>2. CASE k \in 0..L
    <3>1. r[L + 1] = r[L] /\ \E s : Run(s, q, k) /\ s[k] = r[k] /\ s[L] = r[L]
      BY <1>3, <2>2
    <3>2. Path[r[k]] \cap Path[t] \subseteq Path[r[L]]
      BY <2>2, <3>1, ZenonT(30) DEF Keeps
    <3> QED BY <3>1, <3>2, ZenonT(30)
  <2> QED BY <1>4, <2>1, <2>2, ZenonT(30)
<1>6. \A p : Leads(q, p, t) => Leads(Append(q, e), p, t)
  <2>1. 0 \in 0..L
    BY <1>2
  <2> SUFFICES ASSUME NEW p, Leads(q, p, t), NEW r, Run(r, Append(q, e), 0), r[0] = p
               PROVE  Path[t] \subseteq Path[r[L + 1]]
    BY <1>2, ZenonT(30) DEF Leads
  <2>2. r[L + 1] = r[L] /\ \E s : Run(s, q, 0) /\ s[0] = r[0] /\ s[L] = r[L]
    BY <1>3, <2>1
  <2>3. Path[t] \subseteq Path[r[L]]
    BY <2>2, ZenonT(30) DEF Leads
  <2> QED BY <2>2, <2>3, ZenonT(30)
<1> QED BY <1>2, <1>5, <1>6, ZenonT(30)

\* An empty queue.
LEMMA EmptyRuns ==
  ASSUME NEW t \in Maybe
  PROVE  /\ Keeps(<<>>, t)
         /\ \A p : Path[t] \subseteq Path[p] => Leads(<<>>, p, t)
         /\ \A p \in Maybe : Leads(<<>>, p, t) => Path[t] \subseteq Path[p]
<1>1. Len(<<>>) = 0 /\ \A k \in 0..0 : k = 0
  OBVIOUS
<1>2. ASSUME NEW p \in Maybe PROVE Run([i \in 0..0 |-> p], <<>>, 0) /\ [i \in 0..0 |-> p][0] = p
  <2>1. 0 \in 0..0
    OBVIOUS
  <2>2. [i \in 0..0 |-> p] \in [0..0 -> Maybe] /\ [i \in 0..0 |-> p][0] = p
    BY <2>1, ZenonT(30)
  <2> QED BY <1>1, <2>2, ZenonT(30) DEF Run
<1>3. Keeps(<<>>, t)
  BY <1>1, ZenonT(30) DEF Keeps
<1>4. \A p : Path[t] \subseteq Path[p] => Leads(<<>>, p, t)
  BY <1>1, ZenonT(30) DEF Leads
<1>5. \A p \in Maybe : Leads(<<>>, p, t) => Path[t] \subseteq Path[p]
  <2> SUFFICES ASSUME NEW p \in Maybe, Leads(<<>>, p, t) PROVE Path[t] \subseteq Path[p]
    OBVIOUS
  <2>1. Run([i \in 0..0 |-> p], <<>>, 0) /\ [i \in 0..0 |-> p][0] = p
    BY <1>2
  <2> QED BY <1>1, <2>1, ZenonT(30) DEF Leads
<1> QED BY <1>3, <1>4, <1>5, ZenonT(30)

\* Whoever has the tip's chain is led to it.
LEMMA KeepsLeads ==
  ASSUME NEW q \in Seq(Events), NEW t, Keeps(q, t), NEW p, Path[t] \subseteq Path[p]
  PROVE  Leads(q, p, t)
<1>1. 0 \in 0..Len(q)
  OBVIOUS
<1> QED BY <1>1, ZenonT(30) DEF Keeps, Leads

------------------------------------------------------------------------------
(* The inductive invariant, while the database was sound at every start.     *)

SyncStates == {"loop", "commit", "write", "entry", "final", "locator", "done"}

Types ==
  /\ tip \in Maybe /\ flushed \in Maybe /\ best \in Maybe /\ locator \in Maybe
  /\ queue \in Seq(Events) /\ synced \in BOOLEAN /\ ~fatal
  /\ sync \in [pc : SyncStates, pindex : Maybe, pos : Positions]
  /\ cb \in [pc : {"idle", "write", "entry"}, block : Maybe]
  /\ heightIndex \in [Heights -> Entries] /\ hashIndex \in [Blocks -> Entries]
  /\ file \in [Positions -> Maybe] /\ nextPos \in Positions /\ diskPos \in Positions
  /\ indexed \subseteq Blocks

\* Where the two threads are.  Only one of them writes, and what it has put into
\* the file is what it is about to enter.
Control ==
  /\ sync.pc \in {"loop", "commit", "write", "entry"} => ~synced
  /\ sync.pc \in {"final", "locator"} => synced
  /\ sync.pc \in {"commit", "write", "entry"} => sync.pindex \in Blocks
  /\ sync.pc = "entry" => nextPos < MaxPos /\ file[nextPos] = sync.pindex
  /\ cb.pc # "idle" => synced /\ cb.block \in Blocks /\ Parent[cb.block] = best
  /\ cb.pc = "entry" => nextPos < MaxPos /\ file[nextPos] = cb.block

\* The genesis block, in a queue q with the tip at t: it is the first event, for
\* an index in sync that has nothing.
First(q, t, s, b, idle) ==
  /\ \A i \in 1..Len(q) : q[i] = Connected(Genesis) => i = 1 /\ s /\ b = None /\ idle
  /\ s /\ b = None /\ idle => (q = <<>> /\ t = None) \/ (q # <<>> /\ Head(q) = Connected(Genesis))
  /\ ~s => t # None
  /\ t = None => s /\ b = None /\ idle /\ q = <<>>

\* An entry for b whose filter is in the file f before n.
Good(e, b, f, n) ==
  e \in Entry /\ e.block = b /\ e.header = Path[b] /\ e.pos < n /\ f[e.pos] = b

\* The chain of last is in the height index, and every block that was indexed is
\* there or, when another block has its height or is about to, in the hash index.
Indexes(last, hi, ha, f, n, ix) ==
  /\ \A b \in Path[last] : Good(hi[Height[b]], b, f, n)
  /\ \A b \in ix : /\ hi[Height[b]] \in Entry
                   /\ hi[Height[b]].block = b => Good(hi[Height[b]], b, f, n)
                   /\ hi[Height[b]].block # b => Good(ha[b], b, f, n)
  /\ \A b \in ix : b \notin Path[last] => Good(ha[b], b, f, n)

\* The best block after the event the scheduler thread is at.
Reached == IF cb.pc = "idle" THEN best ELSE cb.block

Body ==
  /\ Types /\ Control
  /\ First(queue, tip, synced, best, cb.pc = "idle")
  /\ Indexes(LastIndexed, heightIndex, hashIndex, file, nextPos, indexed)
  /\ Keeps(queue, tip) /\ (synced => Leads(queue, Reached, tip))

IInv == ~gap => Body

------------------------------------------------------------------------------
\* Entries stay good when the file grows behind them.
LEMMA GoodGrows ==
  ASSUME NEW e, NEW b, NEW f \in [Positions -> Maybe], NEW n \in Positions, NEW c, Good(e, b, f, n)
  PROVE  Good(e, b, [f EXCEPT ![n] = c], n) /\ Good(e, b, f, n + 1)
<1>1. e \in Entry /\ e.block = b /\ e.header = Path[b] /\ e.pos < n /\ f[e.pos] = b
  BY ZenonT(30) DEF Good
<1>2. e.pos \in Positions /\ MaxPos \in Nat
  BY <1>1, FilterIndexAssumption DEF Entry
<1>3. e.pos # n /\ e.pos < n + 1
  BY <1>1, <1>2 DEF Positions
<1>4. [f EXCEPT ![n] = c][e.pos] = f[e.pos]
  BY <1>2, <1>3, ZenonT(30)
<1> QED BY <1>1, <1>3, <1>4, ZenonT(30) DEF Good

\* WriteFilterToDisk.
LEMMA IndexFilter ==
  ASSUME NEW last, NEW hi, NEW ha, NEW f \in [Positions -> Maybe], NEW n \in Positions, NEW c, NEW ix,
         Indexes(last, hi, ha, f, n, ix)
  PROVE  Indexes(last, hi, ha, [f EXCEPT ![n] = c], n, ix)
<1>1. \A e, b : Good(e, b, f, n) => Good(e, b, [f EXCEPT ![n] = c], n)
  BY GoodGrows, ZenonT(30)
<1> QED BY <1>1, ZenonT(30) DEF Indexes

\* The height of a block has a place in the height index, and the one below it is
\* its parent's.
LEMMA HeightPlaces ==
  ASSUME NEW b \in Blocks
  PROVE  /\ Height[b] \in Heights /\ Height[b] \in Nat
         /\ Height[b] = 0 => b = Genesis
         /\ Height[b] # 0 => Parent[b] \in Blocks /\ Height[b] - 1 = Height[Parent[b]]
<1>1. Height[b] \in Nat /\ Height[b] \in Heights
  BY HeightFacts, ZenonT(30) DEF Heights
<1>2. CASE b = Genesis
  BY <1>1, <1>2, HeightFacts, ZenonT(30)
<1>3. CASE b # Genesis
  <2>1. Parent[b] \in Blocks
    BY <1>3, TreeAssumption
  <2>2. Height[b] = Height[Parent[b]] + 1 /\ Height[Parent[b]] \in Nat
    BY <1>3, <2>1, HeightFacts, ZenonT(30)
  <2> QED BY <1>1, <2>1, <2>2
<1> QED BY <1>2, <1>3

\* WriteBlock's entry, on top of the last block.
LEMMA IndexEntry ==
  ASSUME NEW b \in Blocks, NEW last, Parent[b] = last, NEW hi \in [Heights -> Entries], NEW ha,
         NEW f \in [Positions -> Maybe], NEW n \in Positions, n < MaxPos, f[n] = b,
         NEW ix, ix \subseteq Blocks, Indexes(last, hi, ha, f, n, ix), NEW prev,
         prev = IF Height[b] = 0 THEN {} ELSE hi[Height[b] - 1].header,
         NEW hi2, hi2 = [hi EXCEPT ![Height[b]] = [block |-> b, header |-> prev \cup {b}, pos |-> n]]
  PROVE  /\ hi2 \in [Heights -> Entries]
         /\ Indexes(b, hi2, ha, f, n + 1, ix \cup {b})
<1> DEFINE e == [block |-> b, header |-> prev \cup {b}, pos |-> n]
<1>0. Height[b] \in Heights /\ Height[b] \in Nat
  BY HeightPlaces, ZenonT(30)
<1>1. prev = Path[last]
  <2>1. CASE Height[b] = 0
    BY <2>1, HeightPlaces, PathStep, TreeAssumption, ZenonT(30)
  <2>2. CASE Height[b] # 0
    <3>1. last \in Blocks /\ Height[b] - 1 = Height[last]
      BY <2>2, HeightPlaces, ZenonT(30)
    <3>2. Good(hi[Height[last]], last, f, n)
      BY <3>1, PathHasSelf, ZenonT(30) DEF Indexes
    <3> QED BY <2>2, <3>1, <3>2, ZenonT(30) DEF Good
  <2> QED BY <2>1, <2>2, ZenonT(30)
<1>2. Path[b] = {b} \cup Path[last] /\ Path[b] \subseteq Blocks
  BY PathStep, PathInBlocks, ZenonT(30)
<1>3. n \in Nat /\ n + 1 \in Positions /\ n < n + 1
  BY FilterIndexAssumption DEF Positions
<1>4. e \in Entry /\ e.block = b /\ e.header = Path[b] /\ e.pos = n
  BY <1>1, <1>2, ZenonT(30) DEF Entry
<1>5. Good(e, b, f, n + 1)
  BY <1>3, <1>4, ZenonT(30) DEF Good
<1> HIDE DEF e
<1>6. /\ hi2[Height[b]] = e
      /\ \A a \in Blocks : Height[a] # Height[b] => hi2[Height[a]] = hi[Height[a]]
      /\ hi2 \in [Heights -> Entries]
  <2>1. hi2 = [hi EXCEPT ![Height[b]] = e]
    BY DEF e
  <2>2. \A a \in Blocks : Height[a] \in Heights
    BY HeightPlaces, ZenonT(30)
  <2>3. e \in Entries
    BY <1>4, ZenonT(30) DEF Entries
  <2> QED BY <1>0, <2>1, <2>2, <2>3
<1>7. \A x, a : Good(x, a, f, n) => Good(x, a, f, n + 1)
  BY GoodGrows, ZenonT(30)
<1>8. ASSUME NEW a \in Path[last] PROVE a \in Blocks /\ Height[a] # Height[b] /\ a # b
  <2>1. a \in Path[b] /\ a \in Blocks /\ b \notin Path[last]
    BY <1>2, PathAcyclic, ZenonT(30)
  <2> QED BY <2>1, HeightOrder, ZenonT(30)
<1>9. \A a \in Path[b] : Good(hi2[Height[a]], a, f, n + 1)
  BY <1>2, <1>5, <1>6, <1>7, <1>8, ZenonT(30) DEF Indexes
<1>10. ASSUME NEW a \in ix \cup {b}
       PROVE  /\ hi2[Height[a]] \in Entry
              /\ hi2[Height[a]].block = a => Good(hi2[Height[a]], a, f, n + 1)
              /\ hi2[Height[a]].block # a => Good(ha[a], a, f, n + 1)
  <2>1. CASE a = b
    BY <1>4, <1>5, <1>6, <2>1, ZenonT(30)
  <2>2. CASE a # b /\ Height[a] = Height[b]
    <3>1. a \in ix /\ a \notin Path[last] /\ hi2[Height[a]] = e
      BY <1>6, <1>8, <2>2, ZenonT(30)
    <3>2. Good(ha[a], a, f, n + 1)
      BY <1>7, <3>1, ZenonT(30) DEF Indexes
    <3> QED BY <1>4, <2>2, <3>1, <3>2, ZenonT(30)
  <2>3. CASE Height[a] # Height[b]
    <3>1. a \in ix /\ a \in Blocks /\ hi2[Height[a]] = hi[Height[a]]
      BY <1>6, <2>3, ZenonT(30)
    <3>2. /\ hi[Height[a]] \in Entry
          /\ hi[Height[a]].block = a => Good(hi[Height[a]], a, f, n)
          /\ hi[Height[a]].block # a => Good(ha[a], a, f, n)
      BY <3>1, ZenonT(30) DEF Indexes
    <3> QED BY <1>7, <3>1, <3>2, ZenonT(30)
  <2> QED BY <2>1, <2>2, <2>3, ZenonT(30)
<1>11. ASSUME NEW a \in ix \cup {b}, a \notin Path[b] PROVE Good(ha[a], a, f, n + 1)
  <2>1. a \in ix /\ a \notin Path[last]
    BY <1>2, <1>11, ZenonT(30)
  <2> QED BY <1>7, <2>1, ZenonT(30) DEF Indexes
<1> QED BY <1>6, <1>9, <1>10, <1>11, ZenonT(30) DEF Indexes

\* CopyHeightIndexToHashIndex, down the chain of the last block.
LEMMA IndexCopy ==
  ASSUME NEW old \in Blocks, NEW new \in Path[old],
         heightIndex \in [Heights -> Entries], hashIndex \in [Blocks -> Entries],
         NEW f, NEW n, NEW ix, ix \subseteq Blocks, Indexes(old, heightIndex, hashIndex, f, n, ix)
  PROVE  /\ CopySucceeds(old, new)
         /\ Copy(old, new) => /\ hashIndex' \in [Blocks -> Entries]
                              /\ Indexes(old, heightIndex, hashIndex', f, n, ix)
                              /\ Indexes(new, heightIndex, hashIndex', f, n, ix)
<1> DEFINE H == Copied(old, new)
<1>0. new \in Blocks /\ Path[new] \subseteq Path[old] /\ Path[old] \subseteq Blocks
      /\ old \in Blocks \cup {None} /\ Height[old] \in Nat /\ Height[new] \in Nat
  BY PathTransitive, PathInBlocks, HeightFacts, ZenonT(30)
<1>1. \A b \in Path[old] : Good(heightIndex[Height[b]], b, f, n)
  BY ZenonT(30) DEF Indexes
<1>2. ASSUME NEW h \in H PROVE \E a \in Path[old] : Height[a] = h
  <2>1. h \in Nat /\ h <= Height[old]
    BY <1>0 DEF Copied
  <2> QED BY <2>1, AncestorAt, ZenonT(30)
<1>3. ASSUME NEW h \in H
      PROVE  /\ heightIndex[h] \in Entry /\ heightIndex[h].block \in Path[old]
             /\ Height[heightIndex[h].block] = h /\ Good(heightIndex[h], heightIndex[h].block, f, n)
  <2>1. PICK a \in Path[old] : Height[a] = h
    BY <1>2
  <2>2. Good(heightIndex[h], a, f, n)
    BY <1>1, <2>1, ZenonT(30)
  <2>3. heightIndex[h] \in Entry /\ heightIndex[h].block = a
    BY <2>2, ZenonT(30) DEF Good
  <2> QED BY <2>1, <2>2, <2>3, ZenonT(30)
<1>4. CopySucceeds(old, new)
  BY <1>3, FilterIndexAssumption, ZenonT(30) DEF CopySucceeds
<1> SUFFICES ASSUME Copy(old, new)
             PROVE  /\ hashIndex' \in [Blocks -> Entries]
                    /\ Indexes(old, heightIndex, hashIndex', f, n, ix)
                    /\ Indexes(new, heightIndex, hashIndex', f, n, ix)
  BY <1>4, ZenonT(30)
<1>5. hashIndex' = [b \in Blocks |->
        IF \E h \in H : heightIndex[h].block = b
        THEN heightIndex[CHOOSE h \in H : heightIndex[h].block = b]
        ELSE hashIndex[b]]
  BY ZenonT(30) DEF Copy
<1> HIDE DEF H
<1>6. ASSUME NEW b \in Blocks, NEW h \in H, heightIndex[h].block = b
      PROVE  hashIndex'[b] \in Entry /\ Good(hashIndex'[b], b, f, n)
  <2>1. /\ hashIndex'[b] = heightIndex[CHOOSE g \in H : heightIndex[g].block = b]
        /\ (CHOOSE g \in H : heightIndex[g].block = b) \in H
        /\ heightIndex[CHOOSE g \in H : heightIndex[g].block = b].block = b
    BY <1>5, <1>6, ZenonT(30)
  <2> QED BY <1>3, <2>1, ZenonT(30)
<1>7. ASSUME NEW b \in Blocks, \A h \in H : heightIndex[h].block # b PROVE hashIndex'[b] = hashIndex[b]
  BY <1>5, <1>7, ZenonT(30)
<1>8. hashIndex' \in [Blocks -> Entries]
  <2>1. ASSUME NEW b \in Blocks PROVE hashIndex'[b] \in Entries
    <3>1. CASE \E h \in H : heightIndex[h].block = b
      BY <1>6, <3>1, ZenonT(30) DEF Entries
    <3>2. CASE \A h \in H : heightIndex[h].block # b
      BY <1>7, <3>2, ZenonT(30)
    <3> QED BY <3>1, <3>2, ZenonT(30)
  <2> QED BY <1>5, <2>1, ZenonT(30)
<1>9. ASSUME NEW b \in Blocks, Good(hashIndex[b], b, f, n) PROVE Good(hashIndex'[b], b, f, n)
  <2>1. CASE \E h \in H : heightIndex[h].block = b
    BY <1>6, <2>1, ZenonT(30)
  <2>2. CASE \A h \in H : heightIndex[h].block # b
    BY <1>7, <1>9, <2>2, ZenonT(30)
  <2> QED BY <2>1, <2>2, ZenonT(30)
<1>10. ASSUME NEW b \in Path[old], b \notin Path[new] PROVE Good(hashIndex'[b], b, f, n)
  <2>1. new \in Path[b] /\ b \in Blocks
    BY <1>0, <1>10, PathLinear, ZenonT(30)
  <2>2. Height[new] <= Height[b] /\ Height[b] <= Height[old] /\ Height[b] \in Nat
    BY <2>1, HeightOrder, HeightFacts, ZenonT(30)
  <2>3. Height[b] \in H
    BY <1>0, <2>2 DEF Copied, H
  <2>4. heightIndex[Height[b]].block = b
    BY <1>1, ZenonT(30) DEF Good
  <2> QED BY <1>6, <2>1, <2>3, <2>4, ZenonT(30)
<1>11. /\ \A b \in Path[new] : Good(heightIndex[Height[b]], b, f, n)
       /\ \A b \in ix : /\ heightIndex[Height[b]] \in Entry
                        /\ heightIndex[Height[b]].block = b => Good(heightIndex[Height[b]], b, f, n)
                        /\ heightIndex[Height[b]].block # b => Good(hashIndex'[b], b, f, n)
       /\ \A b \in ix : b \notin Path[old] => Good(hashIndex'[b], b, f, n)
  <2>1. \A b \in Path[new] : Good(heightIndex[Height[b]], b, f, n)
    BY <1>0, <1>1, ZenonT(30)
  <2>2. ASSUME NEW b \in ix
        PROVE  /\ heightIndex[Height[b]] \in Entry
               /\ heightIndex[Height[b]].block = b => Good(heightIndex[Height[b]], b, f, n)
               /\ heightIndex[Height[b]].block # b => Good(hashIndex'[b], b, f, n)
               /\ b \notin Path[old] => Good(hashIndex'[b], b, f, n)
    <3>1. /\ heightIndex[Height[b]] \in Entry
          /\ heightIndex[Height[b]].block = b => Good(heightIndex[Height[b]], b, f, n)
          /\ heightIndex[Height[b]].block # b => Good(hashIndex[b], b, f, n)
          /\ b \notin Path[old] => Good(hashIndex[b], b, f, n)
      BY ZenonT(30) DEF Indexes
    <3> QED BY <1>9, <3>1, ZenonT(30)
  <2> QED BY <2>1, <2>2, ZenonT(30)
<1> QED BY <1>1, <1>8, <1>10, <1>11, ZenonT(30) DEF Indexes

\* WriteBlock finds the entry of the block before.
LEMMA IndexPrevious ==
  ASSUME NEW b \in Blocks, NEW ha, NEW f, NEW n, NEW ix, Indexes(Parent[b], heightIndex, ha, f, n, ix)
  PROVE  CanWrite(b)
<1> SUFFICES ASSUME Height[b] > 0
             PROVE  heightIndex[Height[b] - 1] # None /\ heightIndex[Height[b] - 1].block = Parent[b]
  BY ZenonT(30) DEF CanWrite
<1>0. Height[b] # 0
  BY HeightFacts
<1>1. Parent[b] \in Blocks /\ Height[b] - 1 = Height[Parent[b]]
  BY <1>0, HeightPlaces, ZenonT(30)
<1>2. Good(heightIndex[Height[Parent[b]]], Parent[b], f, n)
  BY <1>1, PathHasSelf, ZenonT(30) DEF Indexes
<1> QED BY <1>1, <1>2, FilterIndexAssumption, ZenonT(30) DEF Good

------------------------------------------------------------------------------
\* A queue without the genesis block.
NoGenesis(q) == \A i \in 1..Len(q) : q[i] # Connected(Genesis)

\* When the genesis notification can be outstanding: only while the index waits
\* for it.
LEMMA FirstFacts ==
  ASSUME NEW q \in Seq(Events), NEW t, NEW s, NEW b, NEW idle
  PROVE  /\ t # None /\ NoGenesis(q) /\ ~(s /\ b = None /\ idle) => First(q, t, s, b, idle)
         /\ First(q, t, s, b, idle) /\ ~(s /\ b = None /\ idle) => t # None /\ NoGenesis(q)
         /\ First(q, t, s, b, idle) /\ q # <<>> => t # None /\ NoGenesis(Tail(q))
<1>1. t # None /\ NoGenesis(q) /\ ~(s /\ b = None /\ idle) => First(q, t, s, b, idle)
  BY ZenonT(30) DEF First, NoGenesis
<1>2. First(q, t, s, b, idle) /\ ~(s /\ b = None /\ idle) => t # None /\ NoGenesis(q)
  BY ZenonT(30) DEF First, NoGenesis
<1>3. ASSUME First(q, t, s, b, idle), q # <<>> PROVE t # None /\ NoGenesis(Tail(q))
  <2>1. t # None
    BY <1>3, ZenonT(30) DEF First
  <2>2. ASSUME NEW i \in 1..Len(Tail(q)) PROVE Tail(q)[i] # Connected(Genesis)
    <3>1. Tail(q)[i] = q[i + 1] /\ i + 1 \in 1..Len(q) /\ i + 1 # 1
      BY <1>3
    <3> QED BY <1>3, <3>1, ZenonT(30) DEF First
  <2> QED BY <2>1, <2>2, ZenonT(30) DEF NoGenesis
<1> QED BY <1>1, <1>2, <1>3, ZenonT(30)

\* Events are added, the genesis block only to an empty queue before the first block.
LEMMA FirstAdds ==
  ASSUME NEW q \in Seq(Events), NEW t, NEW s, NEW b, NEW idle, First(q, t, s, b, idle),
         NEW e \in Seq(Events), e # <<>>, t = None => e[1] = Connected(Genesis),
         \A i \in 1..Len(e) : e[i] = Connected(Genesis) => i = 1 /\ t = None,
         NEW u, u # None
  PROVE  First(q \o e, u, s, b, idle)
<1>1. /\ Len(q) \in Nat /\ Len(e) \in Nat \ {0} /\ Len(q \o e) = Len(q) + Len(e)
      /\ q \o e # <<>> /\ Head(q \o e) = (q \o e)[1]
      /\ q # <<>> => 1 \in 1..Len(q) /\ Head(q) = q[1]
      /\ \A i \in 1..Len(q) : (q \o e)[i] = q[i]
      /\ \A i \in 1..Len(e) : (q \o e)[Len(q) + i] = e[i]
  OBVIOUS
<1>2. ASSUME NEW i \in 1..Len(q \o e), (q \o e)[i] = Connected(Genesis)
      PROVE  i = 1 /\ s /\ b = None /\ idle
  <2>1. CASE i \in 1..Len(q)
    BY <1>1, <1>2, <2>1, ZenonT(30) DEF First
  <2>2. CASE i \notin 1..Len(q)
    <3>1. i - Len(q) \in 1..Len(e) /\ i = Len(q) + (i - Len(q))
      BY <1>1, <2>2
    <3>2. e[i - Len(q)] = Connected(Genesis)
      BY <1>1, <1>2, <3>1, ZenonT(30)
    <3>3. i - Len(q) = 1 /\ t = None
      BY <3>1, <3>2, ZenonT(30)
    <3>4. s /\ b = None /\ idle /\ q = <<>>
      BY <3>3, ZenonT(30) DEF First
    <3>5. Len(q) = 0
      BY <3>4
    <3> QED BY <3>3, <3>4, <3>5, <1>2
  <2> QED BY <2>1, <2>2, ZenonT(30)
<1>3. ASSUME s, b = None, idle PROVE Head(q \o e) = Connected(Genesis)
  <2>1. CASE t = None
    <3>1. q = <<>>
      BY <2>1, ZenonT(30) DEF First
    <3>2. Len(q) = 0 /\ 1 \in 1..Len(e)
      BY <1>1, <3>1
    <3>3. (q \o e)[1] = e[1]
      BY <1>1, <3>2
    <3> QED BY <1>1, <2>1, <3>3, ZenonT(30)
  <2>2. CASE t # None
    <3>1. q # <<>> /\ Head(q) = Connected(Genesis)
      BY <1>3, <2>2, ZenonT(30) DEF First
    <3>2. (q \o e)[1] = q[1]
      BY <1>1, <3>1, ZenonT(30)
    <3> QED BY <1>1, <3>1, <3>2, ZenonT(30)
  <2> QED BY <2>1, <2>2, ZenonT(30)
<1> QED BY <1>1, <1>2, <1>3, ZenonT(30) DEF First

\* A step of the chain leaves the index alone.
LEMMA ChainStep ==
  ASSUME Body, UNCHANGED <<memory, disk, sync, cb, history>>, tip' \in Maybe, flushed' \in Maybe,
         queue' \in Seq(Events), First(queue', tip', synced, best, cb.pc = "idle"),
         Keeps(queue', tip'), synced => Leads(queue', Reached, tip')
  PROVE  Body'
<1>1. UNCHANGED <<best, synced, nextPos, heightIndex, hashIndex, file, diskPos, locator, sync, cb,
                  fatal, gap, indexed>>
  BY DEF memory, disk, history
<1>2. Types'
  BY <1>1, ZenonT(30) DEF Body, Types
<1>3. Control'
  BY <1>1, ZenonT(30) DEF Body, Control
<1>4. LastIndexed' = LastIndexed /\ Reached' = Reached
  BY <1>1, ZenonT(30) DEF LastIndexed, Reached
<1> QED BY <1>1, <1>2, <1>3, <1>4, ZenonT(30) DEF Body

\* A step that leaves the chain, the queue and the index as they are.
LEMMA SameStep ==
  ASSUME Body, UNCHANGED <<tip, queue, best, synced, cb, heightIndex, hashIndex, file, nextPos, indexed>>,
         Types', Control', LastIndexed' = LastIndexed
  PROVE  Body'
<1>1. Reached' = Reached
  BY ZenonT(30) DEF Reached
<1> QED BY <1>1, ZenonT(30) DEF Body

\* A step of the sync thread before the index is in sync.
LEMMA ThreadStep ==
  ASSUME Body, ~synced, UNCHANGED <<tip, queue, synced, cb>>, Types', Control',
         Indexes(LastIndexed', heightIndex', hashIndex', file', nextPos', indexed')
  PROVE  Body'
<1>1. First(queue', tip', synced', best', cb'.pc = "idle")
  <2>1. queue \in Seq(Events) /\ First(queue, tip, synced, best, cb.pc = "idle")
    BY ZenonT(30) DEF Body, Types
  <2>2. tip # None /\ NoGenesis(queue)
    BY <2>1, FirstFacts, ZenonT(30)
  <2>3. First(queue, tip, synced, best', cb'.pc = "idle")
    BY <2>1, <2>2, FirstFacts, ZenonT(30)
  <2> QED BY <2>3, ZenonT(30)
<1> QED BY <1>1, ZenonT(30) DEF Body

------------------------------------------------------------------------------
\* New blocks on the chain are announced in order, so the queue still leads from
\* the index to the tip.
LEMMA ActivateStep ==
  ASSUME Body, NEW b \in Blocks, ActivateBestChain(b)
  PROVE  Body'
<1> DEFINE e == [i \in DOMAIN Between(tip, b) |-> Connected(Between(tip, b)[i])]
<1>1. /\ tip \in Maybe /\ flushed \in Maybe /\ queue \in Seq(Events)
      /\ First(queue, tip, synced, best, cb.pc = "idle") /\ Keeps(queue, tip)
      /\ synced => Leads(queue, Reached, tip)
  BY ZenonT(30) DEF Body, Types
<1>2. /\ b # tip /\ Height[b] >= IF tip = None THEN 0 ELSE Height[tip]
      /\ tip' = b /\ queue' = queue \o e
      /\ UNCHANGED <<flushed, memory, disk, sync, cb, history>>
  BY ZenonT(30) DEF ActivateBestChain
<1> HIDE DEF e
<1>3. b \notin Path[tip]
  <2>1. CASE tip = None
    BY <2>1, PathStep, ZenonT(30)
  <2>2. CASE tip # None
    <3>1. tip \in Blocks /\ Height[tip] \in Nat /\ Height[b] \in Nat /\ Height[b] >= Height[tip]
      BY <1>1, <1>2, <2>2, HeightFacts, ZenonT(30) DEF Maybe
    <3>2. b \in Path[tip] => Height[b] <= Height[tip] /\ Height[b] # Height[tip]
      BY <1>2, <3>1, HeightOrder, ZenonT(30)
    <3> QED BY <3>1, <3>2
  <2> QED BY <2>1, <2>2, ZenonT(30)
<1>4. /\ e \in Seq(Events) /\ e # <<>>
      /\ tip = None => e[1] = Connected(Genesis)
      /\ \A i \in 1..Len(e) : e[i].block = Genesis => i = 1 /\ tip = None
      /\ Keeps(queue, tip) => Keeps(queue \o e, b)
      /\ \A p : Leads(queue, p, tip) => Leads(queue \o e, p, b)
  BY <1>1, <1>3, ActivateRuns DEF e
<1>5. \A i \in 1..Len(e) : e[i] = Connected(Genesis) => i = 1 /\ tip = None
  <2>1. Connected(Genesis).block = Genesis
    BY DEF Connected
  <2> QED BY <1>4, <2>1, ZenonT(30)
<1>6. b # None /\ b \in Maybe
  BY TreeAssumption, ZenonT(30) DEF Maybe
<1>7. First(queue \o e, b, synced, best, cb.pc = "idle")
  BY <1>1, <1>4, <1>5, <1>6, FirstAdds, ZenonT(30)
<1>8. queue \o e \in Seq(Events)
  BY <1>1, <1>4
<1>9. UNCHANGED <<memory, disk, sync, cb, history>> /\ flushed' \in Maybe
  BY <1>1, <1>2, ZenonT(30)
<1>10. Keeps(queue \o e, b) /\ (synced => Leads(queue \o e, Reached, b))
  BY <1>1, <1>4, ZenonT(30)
<1>11. /\ First(queue', tip', synced, best, cb.pc = "idle") /\ queue' \in Seq(Events) /\ tip' \in Maybe
       /\ Keeps(queue', tip') /\ (synced => Leads(queue', Reached, tip'))
  BY <1>2, <1>6, <1>7, <1>8, <1>10, ZenonT(30)
<1> QED BY <1>9, <1>11, ChainStep, ZenonT(30)

\* A disconnected tip announces nothing, and what the queue led to is still above
\* the new tip.
LEMMA DisconnectStep ==
  ASSUME Body, DisconnectTip
  PROVE  Body'
<1>1. /\ tip \in Maybe /\ flushed \in Maybe /\ queue \in Seq(Events)
      /\ First(queue, tip, synced, best, cb.pc = "idle") /\ Keeps(queue, tip)
      /\ synced => Leads(queue, Reached, tip)
  BY ZenonT(30) DEF Body, Types
<1>2. /\ tip # None /\ tip # Genesis /\ tip' = Parent[tip] /\ queue' = queue /\ flushed' = flushed
      /\ UNCHANGED <<memory, disk, sync, cb, history>>
  BY ZenonT(30) DEF DisconnectTip
<1>3. tip \in Blocks /\ Parent[tip] \in Blocks /\ Parent[tip] # None
  BY <1>1, <1>2, TreeAssumption DEF Maybe
<1>4. Path[Parent[tip]] \subseteq Path[tip]
  BY <1>3, PathStep, ZenonT(30)
<1>5. Keeps(queue, Parent[tip]) /\ (synced => Leads(queue, Reached, Parent[tip]))
  BY <1>1, <1>4, DownRuns, ZenonT(30)
<1>6. First(queue, Parent[tip], synced, best, cb.pc = "idle")
  BY <1>1, <1>2, <1>3, ZenonT(30) DEF First
<1>7. tip' \in Maybe
  BY <1>2, <1>3, ZenonT(30) DEF Maybe
<1>8. /\ First(queue', tip', synced, best, cb.pc = "idle") /\ queue' \in Seq(Events)
      /\ Keeps(queue', tip') /\ (synced => Leads(queue', Reached, tip')) /\ flushed' \in Maybe
  BY <1>1, <1>2, <1>5, <1>6, ZenonT(30)
<1> QED BY <1>2, <1>7, <1>8, ChainStep, ZenonT(30)

\* A flush announces the tip as the locator.
LEMMA FlushStep ==
  ASSUME Body, FlushStateToDisk
  PROVE  Body'
<1> DEFINE e == [kind |-> "flushed", block |-> tip]
<1>1. /\ tip \in Maybe /\ flushed \in Maybe /\ queue \in Seq(Events)
      /\ First(queue, tip, synced, best, cb.pc = "idle") /\ Keeps(queue, tip)
      /\ synced => Leads(queue, Reached, tip)
  BY ZenonT(30) DEF Body, Types
<1>2. /\ tip # None /\ tip' = tip /\ queue' = Append(queue, e) /\ flushed' = tip
      /\ UNCHANGED <<memory, disk, sync, cb, history>>
  BY ZenonT(30) DEF FlushStateToDisk
<1>3. tip \in Blocks
  BY <1>1, <1>2, ZenonT(30) DEF Maybe
<1>4. e \in Events /\ e # Connected(Genesis)
  BY <1>3 DEF Events, Connected
<1>5. /\ Append(queue, e) \in Seq(Events)
      /\ Keeps(queue, tip) => Keeps(Append(queue, e), tip)
      /\ \A p : Leads(queue, p, tip) => Leads(Append(queue, e), p, tip)
  BY <1>1, <1>3, FlushRuns, ZenonT(30)
<1> HIDE DEF e
<1>6. /\ <<e>> \in Seq(Events) /\ <<e>> # <<>> /\ Append(queue, e) = queue \o <<e>>
      /\ \A i \in 1..Len(<<e>>) : <<e>>[i] = e
  BY <1>1, <1>4
<1>7. /\ tip = None => <<e>>[1] = Connected(Genesis)
      /\ \A i \in 1..Len(<<e>>) : <<e>>[i] = Connected(Genesis) => i = 1 /\ tip = None
  BY <1>2, <1>4, <1>6, ZenonT(30)
<1>8. First(queue \o <<e>>, tip, synced, best, cb.pc = "idle")
  BY <1>1, <1>2, <1>6, <1>7, FirstAdds, ZenonT(30)
<1>9. /\ First(queue', tip', synced, best, cb.pc = "idle") /\ queue' \in Seq(Events)
      /\ Keeps(queue', tip') /\ (synced => Leads(queue', Reached, tip'))
      /\ tip' \in Maybe /\ flushed' \in Maybe
  BY <1>1, <1>2, <1>5, <1>6, <1>8, ZenonT(30)
<1> QED BY <1>2, <1>9, ChainStep, ZenonT(30)

\* The sync thread.
LEMMA InterruptedStep ==
  ASSUME Body, SyncInterrupted
  PROVE  Body'
<1>1. /\ sync.pc = "loop" /\ best' = sync.pindex /\ locator' = GetLocator(sync.pindex) /\ diskPos' = nextPos
      /\ sync' = [sync EXCEPT !.pc = "done"]
      /\ UNCHANGED <<tip, flushed, queue, synced, nextPos, heightIndex, hashIndex, file, cb, fatal, indexed>>
  BY ZenonT(30) DEF SyncInterrupted, Commit, chain, history
<1>2. Types /\ Control /\ Indexes(LastIndexed, heightIndex, hashIndex, file, nextPos, indexed)
  BY ZenonT(30) DEF Body
<1>3. sync.pindex \in Maybe /\ tip \in Maybe
  BY <1>2 DEF Types
<1>4. /\ sync' \in [pc : SyncStates, pindex : Maybe, pos : Positions]
      /\ sync'.pc = "done" /\ sync'.pindex = sync.pindex
  BY <1>1, <1>2 DEF Types, SyncStates
<1>5. locator' \in Maybe
  BY <1>1, <1>3, ZenonT(30) DEF GetLocator
<1>6. Types'
  BY <1>1, <1>2, <1>3, <1>4, <1>5, ZenonT(30) DEF Types
<1>7. ~synced
  BY <1>1, <1>2, ZenonT(30) DEF Control
<1>8. Control'
  BY <1>1, <1>2, <1>4, <1>7, ZenonT(30) DEF Control
<1>9. LastIndexed' = LastIndexed
  BY <1>1, <1>4, <1>7, ZenonT(30) DEF LastIndexed
<1>10. Indexes(LastIndexed', heightIndex', hashIndex', file', nextPos', indexed')
  BY <1>1, <1>2, <1>9, ZenonT(30)
<1>11. UNCHANGED <<tip, queue, synced, cb>>
  BY <1>1, ZenonT(30)
<1> QED BY <1>6, <1>7, <1>8, <1>10, <1>11, ThreadStep, ZenonT(30)

\* The hand-over: the thread has the chain of the tip, and the events in the queue
\* lose nothing of it.
LEMMA CaughtUpStep ==
  ASSUME Body, SyncCaughtUp
  PROVE  Body'
<1>1. /\ sync.pc = "loop" /\ NextSyncBlock(sync.pindex) = None
      /\ best' = sync.pindex /\ synced' = TRUE /\ sync' = [sync EXCEPT !.pc = "final"]
      /\ UNCHANGED <<tip, flushed, queue, nextPos, heightIndex, hashIndex, file, diskPos, locator, cb,
                     fatal, indexed>>
  BY ZenonT(30) DEF SyncCaughtUp, chain, history, disk
<1>2. Types /\ Control /\ Indexes(LastIndexed, heightIndex, hashIndex, file, nextPos, indexed)
      /\ First(queue, tip, synced, best, cb.pc = "idle") /\ Keeps(queue, tip)
  BY ZenonT(30) DEF Body
<1>3. sync.pindex \in Maybe /\ tip \in Maybe /\ queue \in Seq(Events)
  BY <1>2 DEF Types
<1>4. /\ sync' \in [pc : SyncStates, pindex : Maybe, pos : Positions]
      /\ sync'.pc = "final" /\ sync'.pindex = sync.pindex
  BY <1>1, <1>2 DEF Types, SyncStates
<1>5. Types'
  BY <1>1, <1>2, <1>3, <1>4, ZenonT(30) DEF Types
<1>6. ~synced /\ cb.pc = "idle"
  BY <1>1, <1>2 DEF Control
<1>7. Control'
  BY <1>1, <1>2, <1>4, <1>6, ZenonT(30) DEF Control
<1>8. LastIndexed' = LastIndexed
  BY <1>1, <1>4, <1>6 DEF LastIndexed
<1>9. Indexes(LastIndexed', heightIndex', hashIndex', file', nextPos', indexed')
  BY <1>1, <1>2, <1>8, ZenonT(30)
<1>10. tip # None /\ NoGenesis(queue)
  BY <1>2, <1>3, <1>6, FirstFacts, ZenonT(30)
<1>11. Path[tip] \subseteq Path[sync.pindex]
  BY <1>1, <1>3, NextSyncFacts, ZenonT(30) DEF Maybe
<1>12. sync.pindex # None
  <2>1. tip \in Path[tip]
    BY <1>3, <1>10, PathHasSelf, ZenonT(30) DEF Maybe
  <2> QED BY <1>11, <2>1, PathStep, ZenonT(30)
<1>13. First(queue, tip, TRUE, sync.pindex, cb.pc = "idle")
  BY <1>3, <1>10, <1>12, FirstFacts, ZenonT(30)
<1>14. Leads(queue, sync.pindex, tip)
  BY <1>2, <1>3, <1>11, KeepsLeads, ZenonT(30)
<1>15. Reached' = sync.pindex
  BY <1>1, <1>6, ZenonT(30) DEF Reached
<1>16. /\ First(queue', tip', synced', best', cb'.pc = "idle") /\ Keeps(queue', tip')
       /\ Leads(queue', Reached', tip')
  BY <1>1, <1>2, <1>13, <1>14, <1>15, ZenonT(30)
<1> QED BY <1>5, <1>7, <1>9, <1>16, ZenonT(30) DEF Body

\* The final Commit of the sync thread reads the file position.
LEMMA ReadPositionStep ==
  ASSUME Body, SyncReadPosition
  PROVE  Body'
<1>1. /\ sync.pc = "final" /\ sync' = [sync EXCEPT !.pc = "locator", !.pos = nextPos]
      /\ UNCHANGED <<tip, flushed, queue, best, synced, nextPos, heightIndex, hashIndex, file, diskPos,
                     locator, cb, fatal, indexed>>
  BY ZenonT(30) DEF SyncReadPosition, chain, memory, disk, history
<1>2. Types /\ Control
  BY ZenonT(30) DEF Body
<1>3. /\ sync' \in [pc : SyncStates, pindex : Maybe, pos : Positions]
      /\ sync'.pc = "locator" /\ sync'.pindex = sync.pindex
  BY <1>1, <1>2, ZenonT(30) DEF Types, SyncStates
<1>4. Types'
  BY <1>1, <1>2, <1>3, ZenonT(30) DEF Types
<1>5. synced
  BY <1>1, <1>2 DEF Control
<1>6. Control'
  BY <1>1, <1>2, <1>3, <1>5, ZenonT(30) DEF Control
<1>7. LastIndexed' = LastIndexed
  BY <1>1, <1>5, ZenonT(30) DEF LastIndexed
<1>8. UNCHANGED <<tip, queue, best, synced, cb, heightIndex, hashIndex, file, nextPos, indexed>>
  BY <1>1, ZenonT(30)
<1> QED BY <1>4, <1>6, <1>7, <1>8, SameStep, ZenonT(30)

\* The final Commit of the sync thread writes locator and position.
LEMMA CommitLocatorStep ==
  ASSUME Body, SyncCommitLocator
  PROVE  Body'
<1>1. /\ sync.pc = "locator" /\ sync' = [sync EXCEPT !.pc = "done"]
      /\ locator' = GetLocator(best) /\ diskPos' = sync.pos
      /\ UNCHANGED <<tip, flushed, queue, best, synced, nextPos, heightIndex, hashIndex, file, cb,
                     fatal, indexed>>
  BY ZenonT(30) DEF SyncCommitLocator, chain, memory, history
<1>2. Types /\ Control
  BY ZenonT(30) DEF Body
<1>3. /\ sync' \in [pc : SyncStates, pindex : Maybe, pos : Positions]
      /\ sync'.pc = "done" /\ sync.pos \in Positions
  BY <1>1, <1>2, ZenonT(30) DEF Types, SyncStates
<1>4. GetLocator(best) \in Maybe
  BY <1>2, ZenonT(30) DEF Types, GetLocator
<1>5. Types'
  BY <1>1, <1>2, <1>3, <1>4, ZenonT(30) DEF Types
<1>6. synced
  BY <1>1, <1>2 DEF Control
<1>7. Control'
  BY <1>1, <1>2, <1>3, <1>6, ZenonT(30) DEF Control
<1>8. LastIndexed' = LastIndexed
  BY <1>1, <1>6, ZenonT(30) DEF LastIndexed
<1>9. UNCHANGED <<tip, queue, best, synced, cb, heightIndex, hashIndex, file, nextPos, indexed>>
  BY <1>1, ZenonT(30)
<1> QED BY <1>5, <1>7, <1>8, <1>9, SameStep, ZenonT(30)

\* The next block is on top of the last one, or the thread rewinds to the fork.
LEMMA SyncNextStep ==
  ASSUME Body, SyncNext
  PROVE  Body'
<1> DEFINE next == NextSyncBlock(sync.pindex)
<1>1. /\ sync.pc = "loop" /\ next # None /\ Parent[next] = sync.pindex
      /\ sync' = [sync EXCEPT !.pc = "commit", !.pindex = next]
      /\ UNCHANGED <<tip, flushed, queue, best, synced, nextPos, heightIndex, hashIndex, file, diskPos,
                     locator, cb, fatal, indexed>>
  BY ZenonT(30) DEF SyncNext, chain, memory, disk, history
<1>2. Types /\ Control
  BY ZenonT(30) DEF Body
<1>3. sync.pindex \in Blocks \cup {None} /\ tip \in Blocks \cup {None}
  BY <1>2 DEF Types, Maybe
<1>4. next \in Blocks
  BY <1>1, <1>3, NextSyncFacts, ZenonT(30)
<1> HIDE DEF next
<1>5. /\ sync' \in [pc : SyncStates, pindex : Maybe, pos : Positions]
      /\ sync'.pc = "commit" /\ sync'.pindex = next
  BY <1>1, <1>2, <1>4, ZenonT(30) DEF Types, SyncStates, Maybe
<1>6. Types'
  BY <1>1, <1>2, <1>5, ZenonT(30) DEF Types
<1>7. ~synced
  BY <1>1, <1>2 DEF Control
<1>8. Control'
  BY <1>1, <1>2, <1>4, <1>5, <1>7, ZenonT(30) DEF Control
<1>9. LastIndexed' = LastIndexed
  BY <1>1, <1>5, <1>7 DEF LastIndexed
<1>10. UNCHANGED <<tip, queue, best, synced, cb, heightIndex, hashIndex, file, nextPos, indexed>>
  BY <1>1, ZenonT(30)
<1> QED BY <1>6, <1>8, <1>9, <1>10, SameStep, ZenonT(30)

\* The sync thread leaves a stale branch: the entries above the fork are copied to
\* the hash index before they are overwritten.
LEMMA SyncRewindStep ==
  ASSUME Body, SyncRewind
  PROVE  Body'
<1> DEFINE next == NextSyncBlock(sync.pindex)
<1>1. /\ sync.pc = "loop" /\ next # None /\ Parent[next] # sync.pindex
      /\ UNCHANGED <<tip, flushed, queue, synced, nextPos, cb>>
  BY ZenonT(30) DEF SyncRewind, chain
<1>2. Types /\ Control /\ Indexes(LastIndexed, heightIndex, hashIndex, file, nextPos, indexed)
  BY ZenonT(30) DEF Body
<1>3. /\ sync.pindex \in Blocks \cup {None} /\ tip \in Blocks \cup {None}
      /\ heightIndex \in [Heights -> Entries] /\ hashIndex \in [Blocks -> Entries] /\ indexed \subseteq Blocks
  BY <1>2 DEF Types, Maybe
<1>4. next \in Blocks /\ sync.pindex \in Blocks /\ Parent[next] \in Path[sync.pindex] /\ Parent[next] \in Blocks
  BY <1>1, <1>3, NextSyncFacts, ZenonT(30)
<1>5. ~synced /\ LastIndexed = sync.pindex
  BY <1>1, <1>2 DEF Control, LastIndexed
<1>6. /\ CopySucceeds(sync.pindex, Parent[next])
      /\ Copy(sync.pindex, Parent[next]) =>
           /\ hashIndex' \in [Blocks -> Entries]
           /\ Indexes(sync.pindex, heightIndex, hashIndex', file, nextPos, indexed)
           /\ Indexes(Parent[next], heightIndex, hashIndex', file, nextPos, indexed)
  BY <1>2, <1>3, <1>4, <1>5, IndexCopy, ZenonT(30)
<1>7. /\ Copy(sync.pindex, Parent[next]) /\ UNCHANGED <<heightIndex, file, fatal, indexed>>
      /\ \/ /\ sync.pindex = best /\ best' = Parent[next] /\ Commit(Parent[next])
            /\ sync' = [sync EXCEPT !.pc = "commit", !.pindex = next]
         \/ diskPos' = nextPos /\ UNCHANGED <<best, locator, sync>>
  BY <1>6, ZenonT(30) DEF SyncRewind
<1> HIDE DEF next
<1>8. UNCHANGED <<tip, queue, synced, cb>>
  BY <1>1, ZenonT(30)
<1>9. CASE /\ sync.pindex = best /\ best' = Parent[next] /\ Commit(Parent[next])
           /\ sync' = [sync EXCEPT !.pc = "commit", !.pindex = next]
  <2>1. /\ sync' \in [pc : SyncStates, pindex : Maybe, pos : Positions]
        /\ sync'.pc = "commit" /\ sync'.pindex = next
    BY <1>2, <1>4, <1>9, ZenonT(30) DEF Types, SyncStates, Maybe
  <2>2. locator' \in Maybe /\ diskPos' = nextPos /\ best' \in Maybe
    BY <1>2, <1>4, <1>9, ZenonT(30) DEF Types, Commit, GetLocator, Maybe
  <2>3. Types'
    BY <1>1, <1>2, <1>6, <1>7, <2>1, <2>2, ZenonT(30) DEF Types
  <2>4. Control'
    BY <1>1, <1>2, <1>4, <1>5, <2>1, ZenonT(30) DEF Control
  <2>5. LastIndexed' = Parent[next]
    BY <1>1, <1>5, <2>1 DEF LastIndexed
  <2>6. Indexes(LastIndexed', heightIndex', hashIndex', file', nextPos', indexed')
    BY <1>1, <1>6, <1>7, <2>5, ZenonT(30)
  <2> QED BY <1>5, <1>8, <2>3, <2>4, <2>6, ThreadStep, ZenonT(30)
<1>10. CASE diskPos' = nextPos /\ UNCHANGED <<best, locator, sync>>
  <2>1. Types'
    BY <1>1, <1>2, <1>6, <1>7, <1>10, ZenonT(30) DEF Types
  <2>2. Control'
    BY <1>1, <1>2, <1>7, <1>10, ZenonT(30) DEF Control
  <2>3. LastIndexed' = LastIndexed
    BY <1>1, <1>10, ZenonT(30) DEF LastIndexed
  <2>4. Indexes(LastIndexed', heightIndex', hashIndex', file', nextPos', indexed')
    BY <1>1, <1>5, <1>6, <1>7, <2>3, ZenonT(30)
  <2> QED BY <1>5, <1>8, <2>1, <2>2, <2>4, ThreadStep, ZenonT(30)
<1> QED BY <1>7, <1>9, <1>10, ZenonT(30)

\* The periodic Commit of the sync thread.
LEMMA SyncLocatorStep ==
  ASSUME Body, SyncLocator
  PROVE  Body'
<1>1. /\ sync.pc = "commit" /\ best' = sync.pindex /\ locator' = GetLocator(sync.pindex) /\ diskPos' = nextPos
      /\ sync' = [sync EXCEPT !.pc = "write"]
      /\ UNCHANGED <<tip, flushed, queue, synced, nextPos, heightIndex, hashIndex, file, cb, fatal, indexed>>
  BY ZenonT(30) DEF SyncLocator, Commit, chain, history
<1>2. Types /\ Control /\ Indexes(LastIndexed, heightIndex, hashIndex, file, nextPos, indexed)
  BY ZenonT(30) DEF Body
<1>3. sync.pindex \in Maybe /\ tip \in Maybe
  BY <1>2 DEF Types
<1>4. /\ sync' \in [pc : SyncStates, pindex : Maybe, pos : Positions]
      /\ sync'.pc = "write" /\ sync'.pindex = sync.pindex
  BY <1>1, <1>2 DEF Types, SyncStates
<1>5. locator' \in Maybe
  BY <1>1, <1>3, ZenonT(30) DEF GetLocator
<1>6. Types'
  BY <1>1, <1>2, <1>3, <1>4, <1>5, ZenonT(30) DEF Types
<1>7. ~synced /\ sync.pindex \in Blocks
  BY <1>1, <1>2, ZenonT(30) DEF Control
<1>8. Control'
  BY <1>1, <1>2, <1>4, <1>7, ZenonT(30) DEF Control
<1>9. LastIndexed' = LastIndexed
  BY <1>1, <1>4, <1>7 DEF LastIndexed
<1>10. Indexes(LastIndexed', heightIndex', hashIndex', file', nextPos', indexed')
  BY <1>1, <1>2, <1>9, ZenonT(30)
<1>11. UNCHANGED <<tip, queue, synced, cb>>
  BY <1>1, ZenonT(30)
<1> QED BY <1>6, <1>7, <1>8, <1>10, <1>11, ThreadStep, ZenonT(30)

\* The sync thread writes a filter to the file.
LEMMA SyncWriteFilterStep ==
  ASSUME Body, SyncWriteFilter
  PROVE  Body'
<1>1. /\ sync.pc \in {"commit", "write"} /\ nextPos < MaxPos
      /\ UNCHANGED <<tip, flushed, queue, best, synced, nextPos, heightIndex, hashIndex, diskPos, locator,
                     cb, indexed>>
  BY ZenonT(30) DEF SyncWriteFilter, chain, memory
<1>2. Types /\ Control /\ Indexes(LastIndexed, heightIndex, hashIndex, file, nextPos, indexed)
  BY ZenonT(30) DEF Body
<1>3. ~synced /\ sync.pindex \in Blocks /\ LastIndexed = Parent[sync.pindex]
  BY <1>1, <1>2 DEF Control, LastIndexed
<1>4. CanWrite(sync.pindex)
  BY <1>2, <1>3, IndexPrevious, ZenonT(30)
<1>5. /\ file' = [file EXCEPT ![nextPos] = sync.pindex] /\ fatal' = fatal
      /\ sync' = [sync EXCEPT !.pc = "entry"]
  BY <1>4, ZenonT(30) DEF SyncWriteFilter, WriteFilter
<1>6. file \in [Positions -> Maybe] /\ nextPos \in Positions
  BY <1>2, ZenonT(30) DEF Types
<1>7. file' \in [Positions -> Maybe] /\ file'[nextPos] = sync.pindex
  BY <1>3, <1>5, <1>6 DEF Maybe
<1>8. /\ sync' \in [pc : SyncStates, pindex : Maybe, pos : Positions]
      /\ sync'.pc = "entry" /\ sync'.pindex = sync.pindex
  BY <1>2, <1>5 DEF Types, SyncStates
<1>9. Types'
  BY <1>1, <1>2, <1>5, <1>7, <1>8, ZenonT(30) DEF Types
<1>10. cb.pc = "idle"
  BY <1>2, <1>3, ZenonT(30) DEF Control
<1>11. Control'
  BY <1>1, <1>3, <1>7, <1>8, <1>10, ZenonT(30) DEF Control
<1>12. LastIndexed' = LastIndexed
  BY <1>1, <1>3, <1>8 DEF LastIndexed
<1>13. Indexes(LastIndexed, heightIndex, hashIndex, [file EXCEPT ![nextPos] = sync.pindex], nextPos, indexed)
  BY <1>2, <1>6, IndexFilter, ZenonT(30)
<1>14. Indexes(LastIndexed', heightIndex', hashIndex', file', nextPos', indexed')
  BY <1>1, <1>5, <1>12, <1>13, ZenonT(30)
<1>15. UNCHANGED <<tip, queue, synced, cb>>
  BY <1>1, ZenonT(30)
<1> QED BY <1>3, <1>9, <1>11, <1>14, <1>15, ThreadStep, ZenonT(30)

\* The sync thread writes the height entry, on the header of the one below.
LEMMA SyncWriteEntryStep ==
  ASSUME Body, SyncWriteEntry
  PROVE  Body'
<1> DEFINE b == sync.pindex
           prev == IF Height[b] = 0 THEN {} ELSE heightIndex[Height[b] - 1].header
<1>1. /\ sync.pc = "entry" /\ sync' = [sync EXCEPT !.pc = "loop"]
      /\ heightIndex' = [heightIndex EXCEPT ![Height[b]] =
                           [block |-> b, header |-> prev \cup {b}, pos |-> nextPos]]
      /\ nextPos' = nextPos + 1 /\ indexed' = indexed \cup {b}
      /\ UNCHANGED <<tip, flushed, queue, best, synced, hashIndex, file, diskPos, locator, cb, fatal>>
  BY ZenonT(30) DEF SyncWriteEntry, WriteEntry, chain
<1>2. Types /\ Control /\ Indexes(LastIndexed, heightIndex, hashIndex, file, nextPos, indexed)
  BY ZenonT(30) DEF Body
<1>3. /\ ~synced /\ b \in Blocks /\ LastIndexed = Parent[b] /\ nextPos < MaxPos /\ file[nextPos] = b
  BY <1>1, <1>2 DEF Control, LastIndexed
<1>4. /\ file \in [Positions -> Maybe] /\ nextPos \in Positions /\ heightIndex \in [Heights -> Entries]
      /\ indexed \subseteq Blocks
  BY <1>2, ZenonT(30) DEF Types
<1>5. /\ heightIndex' \in [Heights -> Entries]
      /\ Indexes(b, heightIndex', hashIndex, file, nextPos + 1, indexed \cup {b})
  <2> HIDE DEF b, prev
  <2>1. prev = IF Height[b] = 0 THEN {} ELSE heightIndex[Height[b] - 1].header
    BY ZenonT(30) DEF prev
  <2> QED BY <1>1, <1>2, <1>3, <1>4, <2>1, IndexEntry, ZenonT(30)
<1>6. /\ sync' \in [pc : SyncStates, pindex : Maybe, pos : Positions]
      /\ sync'.pc = "loop" /\ sync'.pindex = b
  BY <1>1, <1>2 DEF Types, SyncStates
<1>7. nextPos' \in Positions /\ indexed' \subseteq Blocks
  BY <1>1, <1>3, <1>4, FilterIndexAssumption DEF Positions
<1>8. Types'
  BY <1>1, <1>2, <1>5, <1>6, <1>7, ZenonT(30) DEF Types
<1>9. cb.pc = "idle"
  BY <1>2, <1>3, ZenonT(30) DEF Control
<1>10. Control'
  BY <1>1, <1>3, <1>6, <1>9 DEF Control
<1>11. LastIndexed' = b
  BY <1>1, <1>3, <1>6 DEF LastIndexed
<1>12. Indexes(LastIndexed', heightIndex', hashIndex', file', nextPos', indexed')
  BY <1>1, <1>5, <1>11, ZenonT(30)
<1>13. UNCHANGED <<tip, queue, synced, cb>>
  BY <1>1, ZenonT(30)
<1> QED BY <1>3, <1>8, <1>10, <1>12, <1>13, ThreadStep, ZenonT(30)

------------------------------------------------------------------------------
\* The scheduler thread takes an event off the queue: the index goes where the
\* event takes it.
LEMMA PopStep ==
  ASSUME Body, cb.pc = "idle", queue # <<>>, queue' = Tail(queue), UNCHANGED <<tip, synced>>,
         Types', Control', Indexes(LastIndexed', heightIndex', hashIndex', file', nextPos', indexed'),
         ~(synced /\ best' = None /\ cb'.pc = "idle"),
         synced => Reached' = Move(best, Head(queue))
  PROVE  Body'
<1>1. /\ queue \in Seq(Events) /\ First(queue, tip, synced, best, cb.pc = "idle") /\ best \in Maybe
      /\ Keeps(queue, tip) /\ (synced => Leads(queue, Reached, tip))
  BY ZenonT(30) DEF Body, Types
<1>2. tip # None /\ NoGenesis(Tail(queue)) /\ Tail(queue) \in Seq(Events)
  <2>1. Tail(queue) \in Seq(Events)
    BY <1>1
  <2> QED BY <1>1, <2>1, FirstFacts, ZenonT(30)
<1>3. First(Tail(queue), tip, synced, best', cb'.pc = "idle")
  BY <1>2, FirstFacts, ZenonT(30)
<1>4. Reached = best
  BY ZenonT(30) DEF Reached
<1>5. Keeps(Tail(queue), tip) /\ (synced => Leads(Tail(queue), Reached', tip))
  BY <1>1, <1>4, TailRuns, ZenonT(30)
<1>6. /\ First(queue', tip', synced', best', cb'.pc = "idle") /\ Keeps(queue', tip')
      /\ synced' => Leads(queue', Reached', tip')
  BY <1>3, <1>5, ZenonT(30)
<1> QED BY <1>6, ZenonT(30) DEF Body

\* The events of a queue, and what the first one tells about the best block.
LEMMA HeadFacts ==
  ASSUME Body, cb.pc = "idle", queue # <<>>
  PROVE  /\ Head(queue) \in Events /\ Head(queue).block \in Blocks
         /\ synced /\ best = None => Head(queue) = Connected(Genesis)
         /\ Head(queue) = Connected(Genesis) => synced /\ best = None
<1>1. queue \in Seq(Events) /\ First(queue, tip, synced, best, cb.pc = "idle")
  BY ZenonT(30) DEF Body, Types
<1>2. Head(queue) = queue[1] /\ 1 \in 1..Len(queue) /\ Head(queue) \in Events
  BY <1>1
<1>3. Head(queue).block \in Blocks
  BY <1>2 DEF Events
<1> QED BY <1>1, <1>2, <1>3, ZenonT(30) DEF First

\* A notification that is ignored: not synced yet, or not on the best block's
\* chain.
LEMMA SkipStep ==
  ASSUME Body, SkipBlock
  PROVE  Body'
<1>1. /\ cb.pc = "idle" /\ queue # <<>> /\ Head(queue).kind = "connected" /\ queue' = Tail(queue)
      /\ ~synced \/ (best # None /\ ~Connects(Head(queue).block))
      /\ UNCHANGED <<tip, flushed, best, synced, nextPos, heightIndex, hashIndex, file, diskPos, locator,
                     sync, cb, fatal, indexed>>
  BY ZenonT(30) DEF SkipBlock, Event, Pop, memory, disk, history
<1>2. /\ Types /\ Control /\ Indexes(LastIndexed, heightIndex, hashIndex, file, nextPos, indexed)
      /\ best \in Maybe /\ queue \in Seq(Events)
  BY ZenonT(30) DEF Body, Types
<1>3. Tail(queue) \in Seq(Events)
  BY <1>1, <1>2
<1>4. Types'
  BY <1>1, <1>2, <1>3, ZenonT(30) DEF Types
<1>5. Control'
  BY <1>1, <1>2, ZenonT(30) DEF Control
<1>6. LastIndexed' = LastIndexed /\ Reached' = best
  BY <1>1, ZenonT(30) DEF LastIndexed, Reached
<1>7. Indexes(LastIndexed', heightIndex', hashIndex', file', nextPos', indexed')
  BY <1>1, <1>2, <1>6, ZenonT(30)
<1>8. synced => best = Move(best, Head(queue))
  <2> SUFFICES ASSUME synced PROVE best = Move(best, Head(queue))
    OBVIOUS
  <2>1. best \in Blocks /\ best # None /\ ~Connects(Head(queue).block)
    BY <1>1, <1>2, ZenonT(30) DEF Maybe
  <2>2. Head(queue).block \in Blocks /\ Head(queue) # Connected(Genesis) /\ Head(queue) \in Events
    BY <1>1, <2>1, HeadFacts, ZenonT(30)
  <2>3. Head(queue).block # Genesis
    BY <1>1, <2>2 DEF Events, Connected
  <2>4. Parent[Head(queue).block] \notin Path[best]
    BY <2>1, <2>2, <2>3, ConnectsMeans, ZenonT(30)
  <2> QED BY <2>3, <2>4, ZenonT(30) DEF Move
<1>9. UNCHANGED <<tip, synced>> /\ ~(synced /\ best' = None /\ cb'.pc = "idle")
  BY <1>1, ZenonT(30)
<1>10. synced => Reached' = Move(best, Head(queue))
  BY <1>6, <1>8, ZenonT(30)
<1> QED BY <1>1, <1>4, <1>5, <1>7, <1>9, <1>10, PopStep, ZenonT(30)

\* The branches of BlockConnected that an index with a sound database takes.
LEMMA BlockConnectedFacts ==
  ASSUME Body, BlockConnected, NEW b, b = Head(queue).block
  PROVE  /\ b \in Blocks /\ synced /\ cb.pc = "idle" /\ queue # <<>> /\ Head(queue) = Connected(b)
         /\ (best = None) = (b = Genesis)
         /\ best = Parent[b] \/ (best \in Blocks /\ Parent[b] \in Path[best] /\ CopySucceeds(best, Parent[b]))
<1>1. /\ cb.pc = "idle" /\ queue # <<>> /\ Head(queue).kind = "connected" /\ synced
      /\ best # None => Connects(b)
  BY ZenonT(30) DEF BlockConnected, Event
<1>2. /\ Types /\ Control /\ Indexes(LastIndexed, heightIndex, hashIndex, file, nextPos, indexed)
      /\ best \in Maybe
  BY ZenonT(30) DEF Body, Types
<1>3. /\ Head(queue) \in Events /\ b \in Blocks
      /\ best = None => Head(queue) = Connected(Genesis)
      /\ Head(queue) = Connected(Genesis) => best = None
  BY <1>1, HeadFacts, ZenonT(30)
<1>4. Head(queue) = Connected(b) /\ Connected(Genesis).block = Genesis
  BY <1>1, <1>3 DEF Events, Connected
<1>5. (best = None) = (b = Genesis)
  BY <1>3, <1>4, ZenonT(30)
<1>6. ASSUME best # Parent[b] PROVE best \in Blocks /\ Parent[b] \in Path[best] /\ CopySucceeds(best, Parent[b])
  <2>1. best # None /\ b # Genesis
    BY <1>5, <1>6, TreeAssumption, ZenonT(30)
  <2>2. best \in Blocks
    BY <1>2, <2>1, ZenonT(30) DEF Maybe
  <2>3. Parent[b] \in Path[best]
    BY <1>1, <1>3, <2>1, <2>2, ConnectsMeans, ZenonT(30)
  <2>4. LastIndexed = best
    BY <1>1, ZenonT(30) DEF LastIndexed
  <2>5. /\ heightIndex \in [Heights -> Entries] /\ hashIndex \in [Blocks -> Entries] /\ indexed \subseteq Blocks
        /\ Indexes(best, heightIndex, hashIndex, file, nextPos, indexed)
    BY <1>2, <2>4, ZenonT(30) DEF Types
  <2>6. CopySucceeds(best, Parent[b])
    BY <2>2, <2>3, <2>5, IndexCopy, ZenonT(30)
  <2> QED BY <2>2, <2>3, <2>6
<1> QED BY <1>1, <1>3, <1>4, <1>5, <1>6, ZenonT(30)

\* A notification that is taken: it connects to the best block or rewinds to its
\* parent.
LEMMA BlockConnectedStep ==
  ASSUME Body, BlockConnected
  PROVE  Body'
<1> DEFINE b == Head(queue).block
<1>1. /\ b \in Blocks /\ synced /\ cb.pc = "idle" /\ queue # <<>> /\ Head(queue) = Connected(b)
      /\ (best = None) = (b = Genesis)
      /\ best = Parent[b] \/ (best \in Blocks /\ Parent[b] \in Path[best] /\ CopySucceeds(best, Parent[b]))
  BY BlockConnectedFacts, ZenonT(30)
<1>2. /\ Types /\ Control /\ Indexes(LastIndexed, heightIndex, hashIndex, file, nextPos, indexed)
      /\ queue \in Seq(Events)
  BY ZenonT(30) DEF Body, Types
<1>3. /\ queue' = Tail(queue) /\ UNCHANGED <<tip, flushed, synced, nextPos, sync>>
      /\ cb' = [pc |-> "write", block |-> b] /\ UNCHANGED <<heightIndex, file, fatal, indexed>>
      /\ \/ best = Parent[b] /\ UNCHANGED <<best, hashIndex, diskPos, locator>>
         \/ best # Parent[b] /\ Copy(best, Parent[b]) /\ best' = Parent[b] /\ Commit(Parent[b])
  BY <1>1, ZenonT(30) DEF BlockConnected, Pop, disk
<1> HIDE DEF b
<1>4. Tail(queue) \in Seq(Events) /\ LastIndexed = best /\ LastIndexed' = best'
  BY <1>1, <1>2, <1>3 DEF LastIndexed
<1>5. cb' \in [pc : {"idle", "write", "entry"}, block : Maybe] /\ cb'.pc = "write" /\ cb'.block = b
  BY <1>1, <1>3 DEF Maybe
<1>6. best' = Parent[b]
  BY <1>3, ZenonT(30)
<1>7. /\ hashIndex' \in [Blocks -> Entries]
      /\ Indexes(best', heightIndex, hashIndex', file, nextPos, indexed)
  <2>1. CASE best = Parent[b] /\ UNCHANGED <<best, hashIndex, diskPos, locator>>
    BY <1>2, <1>4, <2>1, ZenonT(30) DEF Types
  <2>2. CASE best # Parent[b] /\ Copy(best, Parent[b])
    <3>1. /\ heightIndex \in [Heights -> Entries] /\ hashIndex \in [Blocks -> Entries] /\ indexed \subseteq Blocks
          /\ Indexes(best, heightIndex, hashIndex, file, nextPos, indexed)
          /\ best \in Blocks /\ Parent[b] \in Path[best]
      BY <1>1, <1>2, <1>4, <2>2, ZenonT(30) DEF Types
    <3> QED BY <1>6, <2>2, <3>1, IndexCopy, ZenonT(30)
  <2> QED BY <1>3, <2>1, <2>2, ZenonT(30)
<1>8. locator' \in Maybe /\ diskPos' \in Positions /\ best' \in Maybe
  <2>1. Parent[b] \in Maybe
    BY <1>1, TreeAssumption DEF Maybe
  <2> QED BY <1>2, <1>3, <1>6, <2>1, ZenonT(30) DEF Types, Commit, GetLocator
<1>9. Types'
  BY <1>2, <1>3, <1>4, <1>5, <1>7, <1>8, ZenonT(30) DEF Types
<1>10. Control'
  BY <1>1, <1>2, <1>3, <1>5, <1>6, ZenonT(30) DEF Control
<1>11. Indexes(LastIndexed', heightIndex', hashIndex', file', nextPos', indexed')
  BY <1>3, <1>4, <1>7, ZenonT(30)
<1>12. Reached' = Move(best, Head(queue))
  <2>1. Reached' = b
    BY <1>5, ZenonT(30) DEF Reached
  <2>2. Head(queue).kind = "connected" /\ Head(queue).block = b
    BY <1>1 DEF Connected
  <2>3. Parent[b] \in Path[best] \/ b = Genesis
    <3>1. CASE best = Parent[b] /\ best # None
      <4>1. best \in Blocks
        BY <1>2, <3>1, ZenonT(30) DEF Types, Maybe
      <4> QED BY <3>1, <4>1, PathHasSelf, ZenonT(30)
    <3> QED BY <1>1, <3>1, ZenonT(30)
  <2> QED BY <2>1, <2>2, <2>3, ZenonT(30) DEF Move
<1>13. cb'.pc # "idle"
  BY <1>5
<1>14. UNCHANGED <<tip, synced>> /\ queue' = Tail(queue)
  BY <1>3, ZenonT(30)
<1> QED BY <1>1, <1>9, <1>10, <1>11, <1>12, <1>13, <1>14, PopStep, ZenonT(30)

\* The notification of a flush commits the best block or is ignored.
LEMMA FlushedStep ==
  ASSUME Body, ChainStateFlushed
  PROVE  Body'
<1>1. /\ cb.pc = "idle" /\ queue # <<>> /\ Head(queue).kind = "flushed" /\ queue' = Tail(queue)
      /\ Commit(best) \/ UNCHANGED <<locator, diskPos>>
      /\ fatal' = (fatal \/ (synced /\ best = None))
      /\ UNCHANGED <<tip, flushed, best, synced, nextPos, heightIndex, hashIndex, file, sync, cb, indexed>>
  BY ZenonT(30) DEF ChainStateFlushed, Event, Pop, memory
<1>2. /\ Types /\ Control /\ Indexes(LastIndexed, heightIndex, hashIndex, file, nextPos, indexed)
      /\ best \in Maybe /\ queue \in Seq(Events)
  BY ZenonT(30) DEF Body, Types
<1>3. Tail(queue) \in Seq(Events)
  BY <1>1, <1>2
<1>4. ~(synced /\ best = None)
  <2>1. Head(queue) # Connected(Genesis)
    BY <1>1 DEF Connected
  <2> QED BY <1>1, <2>1, HeadFacts, ZenonT(30)
<1>5. locator' \in Maybe /\ diskPos' \in Positions
  BY <1>1, <1>2, ZenonT(30) DEF Types, Commit, GetLocator
<1>6. Types'
  BY <1>1, <1>2, <1>3, <1>4, <1>5, ZenonT(30) DEF Types
<1>7. Control'
  BY <1>1, <1>2, ZenonT(30) DEF Control
<1>8. LastIndexed' = LastIndexed /\ Reached' = best
  BY <1>1, ZenonT(30) DEF LastIndexed, Reached
<1>9. Indexes(LastIndexed', heightIndex', hashIndex', file', nextPos', indexed')
  BY <1>1, <1>2, <1>8, ZenonT(30)
<1>10. Reached' = Move(best, Head(queue))
  BY <1>1, <1>8 DEF Move
<1>11. UNCHANGED <<tip, synced>> /\ ~(synced /\ best' = None /\ cb'.pc = "idle")
  BY <1>1, <1>4, ZenonT(30)
<1> QED BY <1>1, <1>6, <1>7, <1>9, <1>10, <1>11, PopStep, ZenonT(30)

\* The callback writes a filter to the file.
LEMMA WriteBlockFilterStep ==
  ASSUME Body, WriteBlockFilter
  PROVE  Body'
<1> DEFINE b == cb.block
<1>1. /\ cb.pc = "write" /\ nextPos < MaxPos
      /\ UNCHANGED <<tip, flushed, queue, best, synced, nextPos, heightIndex, hashIndex, diskPos, locator,
                     sync, indexed>>
  BY ZenonT(30) DEF WriteBlockFilter, chain, memory
<1>2. /\ Types /\ Control /\ Indexes(LastIndexed, heightIndex, hashIndex, file, nextPos, indexed)
      /\ First(queue, tip, synced, best, cb.pc = "idle") /\ Keeps(queue, tip)
      /\ synced => Leads(queue, Reached, tip)
  BY ZenonT(30) DEF Body
<1>3. synced /\ b \in Blocks /\ Parent[b] = best /\ LastIndexed = best
  BY <1>1, <1>2 DEF Control, LastIndexed
<1>4. CanWrite(b)
  BY <1>2, <1>3, IndexPrevious, ZenonT(30)
<1>5. file' = [file EXCEPT ![nextPos] = b] /\ fatal' = fatal /\ cb' = [cb EXCEPT !.pc = "entry"]
  BY <1>4, ZenonT(30) DEF WriteBlockFilter, WriteFilter
<1>6. file \in [Positions -> Maybe] /\ nextPos \in Positions
  BY <1>2, ZenonT(30) DEF Types
<1>7. file' \in [Positions -> Maybe] /\ file'[nextPos] = b
  BY <1>3, <1>5, <1>6 DEF Maybe
<1>8. cb' \in [pc : {"idle", "write", "entry"}, block : Maybe] /\ cb'.pc = "entry" /\ cb'.block = b
  BY <1>2, <1>5 DEF Types
<1>9. Types'
  BY <1>1, <1>2, <1>5, <1>7, <1>8, ZenonT(30) DEF Types
<1>10. sync.pc \notin {"loop", "commit", "write", "entry"}
  BY <1>2, <1>3, ZenonT(30) DEF Control
<1>11. Control'
  BY <1>1, <1>3, <1>7, <1>8, <1>10, ZenonT(30) DEF Control
<1>12. LastIndexed' = LastIndexed /\ Reached' = Reached
  BY <1>1, <1>3, <1>8 DEF LastIndexed, Reached
<1>13. Indexes(LastIndexed, heightIndex, hashIndex, [file EXCEPT ![nextPos] = b], nextPos, indexed)
  BY <1>2, <1>6, IndexFilter, ZenonT(30)
<1>14. Indexes(LastIndexed', heightIndex', hashIndex', file', nextPos', indexed')
  BY <1>1, <1>5, <1>12, <1>13, ZenonT(30)
<1>15. First(queue', tip', synced', best', cb'.pc = "idle")
  <2>1. (cb'.pc = "idle") = (cb.pc = "idle")
    BY <1>1, <1>8
  <2> QED BY <1>1, <1>2, <2>1, ZenonT(30)
<1>16. Keeps(queue', tip') /\ (synced' => Leads(queue', Reached', tip'))
  BY <1>1, <1>2, <1>12, ZenonT(30)
<1> QED BY <1>9, <1>11, <1>14, <1>15, <1>16, ZenonT(30) DEF Body

\* The callback writes the height entry and advances the best block.
LEMMA WriteBlockEntryStep ==
  ASSUME Body, WriteBlockEntry
  PROVE  Body'
<1> DEFINE b == cb.block
           prev == IF Height[b] = 0 THEN {} ELSE heightIndex[Height[b] - 1].header
<1>1. /\ cb.pc = "entry" /\ cb' = [cb EXCEPT !.pc = "idle"] /\ best' = b
      /\ heightIndex' = [heightIndex EXCEPT ![Height[b]] =
                           [block |-> b, header |-> prev \cup {b}, pos |-> nextPos]]
      /\ nextPos' = nextPos + 1 /\ indexed' = indexed \cup {b}
      /\ UNCHANGED <<tip, flushed, queue, synced, hashIndex, file, diskPos, locator, sync, fatal>>
  BY ZenonT(30) DEF WriteBlockEntry, WriteEntry, chain
<1>2. /\ Types /\ Control /\ Indexes(LastIndexed, heightIndex, hashIndex, file, nextPos, indexed)
      /\ First(queue, tip, synced, best, cb.pc = "idle") /\ Keeps(queue, tip)
      /\ synced => Leads(queue, Reached, tip)
  BY ZenonT(30) DEF Body
<1>3. /\ synced /\ b \in Blocks /\ LastIndexed = Parent[b] /\ nextPos < MaxPos /\ file[nextPos] = b
      /\ Reached = b
  BY <1>1, <1>2 DEF Control, LastIndexed, Reached
<1>4. /\ file \in [Positions -> Maybe] /\ nextPos \in Positions /\ heightIndex \in [Heights -> Entries]
      /\ indexed \subseteq Blocks /\ queue \in Seq(Events)
  BY <1>2, ZenonT(30) DEF Types
<1>5. /\ heightIndex' \in [Heights -> Entries]
      /\ Indexes(b, heightIndex', hashIndex, file, nextPos + 1, indexed \cup {b})
  <2> HIDE DEF b, prev
  <2>1. prev = IF Height[b] = 0 THEN {} ELSE heightIndex[Height[b] - 1].header
    BY ZenonT(30) DEF prev
  <2> QED BY <1>1, <1>2, <1>3, <1>4, <2>1, IndexEntry, ZenonT(30)
<1>6. cb' \in [pc : {"idle", "write", "entry"}, block : Maybe] /\ cb'.pc = "idle"
  BY <1>1, <1>2 DEF Types
<1>7. nextPos' \in Positions /\ indexed' \subseteq Blocks /\ best' \in Maybe /\ b # None
  BY <1>1, <1>3, <1>4, FilterIndexAssumption, TreeAssumption DEF Positions, Maybe
<1>8. Types'
  BY <1>1, <1>2, <1>5, <1>6, <1>7, ZenonT(30) DEF Types
<1>9. sync.pc \notin {"loop", "commit", "write", "entry"}
  BY <1>2, <1>3, ZenonT(30) DEF Control
<1>10. Control'
  BY <1>1, <1>3, <1>6, <1>9 DEF Control
<1>11. LastIndexed' = b /\ Reached' = b
  BY <1>1, <1>3, <1>6, ZenonT(30) DEF LastIndexed, Reached
<1>12. Indexes(LastIndexed', heightIndex', hashIndex', file', nextPos', indexed')
  BY <1>1, <1>5, <1>11, ZenonT(30)
<1>13. First(queue', tip', synced', best', cb'.pc = "idle")
  <2>1. cb.pc # "idle"
    BY <1>1
  <2>2. tip # None /\ NoGenesis(queue)
    BY <1>2, <1>4, <2>1, FirstFacts, ZenonT(30)
  <2>3. First(queue, tip, synced, b, cb'.pc = "idle")
    BY <1>4, <1>7, <2>2, FirstFacts, ZenonT(30)
  <2> QED BY <1>1, <2>3, ZenonT(30)
<1>14. Keeps(queue', tip') /\ (synced' => Leads(queue', Reached', tip'))
  BY <1>1, <1>2, <1>3, <1>11, ZenonT(30)
<1> QED BY <1>8, <1>10, <1>12, <1>13, <1>14, ZenonT(30) DEF Body

\* Interrupt, the end of the process, and steps that change nothing.
LEMMA EndStep ==
  ASSUME Body, Interrupt \/ Crash \/ UNCHANGED vars
  PROVE  Body'
<1>1. UNCHANGED <<tip, flushed, queue, best, synced, nextPos, heightIndex, hashIndex, file, diskPos, locator,
                  sync, cb, fatal, indexed>>
  <2>1. CASE Interrupt
    BY <2>1, ZenonT(30) DEF Interrupt, chain, disk, history
  <2>2. CASE Crash
    BY <2>2, ZenonT(30) DEF Crash, chain, memory, disk, history
  <2>3. CASE UNCHANGED vars
    BY <2>3, ZenonT(30) DEF vars, chain, memory, disk, history
  <2> QED BY <2>1, <2>2, <2>3, ZenonT(30)
<1>2. Types'
  BY <1>1, ZenonT(30) DEF Body, Types
<1>3. Control'
  BY <1>1, ZenonT(30) DEF Body, Control
<1>4. LastIndexed' = LastIndexed
  BY <1>1, ZenonT(30) DEF LastIndexed
<1>5. UNCHANGED <<tip, queue, best, synced, cb, heightIndex, hashIndex, file, nextPos, indexed>>
  BY <1>1, ZenonT(30)
<1> QED BY <1>2, <1>3, <1>4, <1>5, SameStep, ZenonT(30)

\* A good entry is served.
LEMMA GoodServed ==
  ASSUME NEW b, heightIndex[Height[b]].block = b, NEW n, Good(heightIndex[Height[b]], b, file, n)
  PROVE  Served(b) /\ LookupOne(b) = heightIndex[Height[b]]
<1>1. LookupOne(b) = heightIndex[Height[b]]
  BY ZenonT(30) DEF LookupOne
<1> QED BY <1>1, FilterIndexAssumption, ZenonT(30) DEF Served, Good

\* Started from a sound database.
LEMMA RestartStep ==
  ASSUME Body, Restart, DiskSound
  PROVE  Body'
<1> DEFINE fork == FindFork(locator, flushed)
<1>1. /\ tip' = flushed /\ queue' = <<>> /\ flushed' = flushed /\ nextPos' = diskPos
      /\ best' = fork /\ synced' = (fork = flushed)
      /\ sync' = [pc |-> IF fork = flushed THEN "done" ELSE "loop", pindex |-> fork, pos |-> 0]
      /\ cb' = [pc |-> "idle", block |-> None] /\ indexed' = {}
      /\ UNCHANGED <<heightIndex, hashIndex, file, diskPos, locator, fatal>>
  BY ZenonT(30) DEF Restart, disk
<1>2. /\ Types /\ locator \in Blocks \cup {None} /\ flushed \in Blocks \cup {None}
      /\ heightIndex \in [Heights -> Entries] /\ diskPos \in Positions
  BY ZenonT(30) DEF Body, Types, Maybe
<1>3. /\ locator = None \/ flushed = None => fork = None
      /\ fork # None => fork \in Path[locator]
      /\ fork \in Maybe
  BY <1>2, ForkFacts, ZenonT(30) DEF Maybe
<1> HIDE DEF fork
<1>4. /\ sync' \in [pc : SyncStates, pindex : Maybe, pos : Positions]
      /\ fork = flushed => sync'.pc = "done"
      /\ fork # flushed => sync'.pc = "loop"
      /\ sync'.pindex = fork
  BY <1>1, <1>3, FilterIndexAssumption DEF SyncStates, Positions
<1>5. cb' \in [pc : {"idle", "write", "entry"}, block : Maybe] /\ cb'.pc = "idle"
  BY <1>1 DEF Maybe
<1>6. queue' \in Seq(Events) /\ synced' \in BOOLEAN /\ indexed' \subseteq Blocks
  BY <1>1
<1>7. Types'
  BY <1>1, <1>2, <1>3, <1>4, <1>5, <1>6, ZenonT(30) DEF Types
<1>8. Control'
  BY <1>1, <1>4, <1>5, ZenonT(30) DEF Control
<1>9. LastIndexed' = fork /\ Reached' = fork
  BY <1>1, <1>4, <1>5 DEF LastIndexed, Reached
<1>10. ASSUME NEW b \in Path[fork] PROVE Good(heightIndex[Height[b]], b, file, diskPos)
  <2>1. b \in Path[locator] /\ b \in Blocks
    <3>1. fork \in Path[locator]
      BY <1>3, PathStep, ZenonT(30)
    <3>2. Path[fork] \subseteq Path[locator] /\ Path[locator] \subseteq Blocks
      BY <1>2, <3>1, PathTransitive, PathInBlocks, ZenonT(30)
    <3> QED BY <3>2
  <2>2. Served(b) /\ heightIndex[Height[b]].block = b /\ heightIndex[Height[b]].pos < diskPos
    BY <2>1, ZenonT(30) DEF DiskSound
  <2>3. /\ heightIndex[Height[b]] # None /\ heightIndex[Height[b]].header = Path[b]
        /\ file[heightIndex[Height[b]].pos] = b
    BY <2>2, ZenonT(30) DEF Served, LookupOne
  <2>4. heightIndex[Height[b]] \in Entry
    <3>1. Height[b] \in Heights
      BY <2>1, HeightPlaces, ZenonT(30)
    <3> QED BY <1>2, <2>3, <3>1 DEF Entries
  <2> QED BY <2>2, <2>3, <2>4, ZenonT(30) DEF Good
<1>11. Indexes(LastIndexed', heightIndex', hashIndex', file', nextPos', indexed')
  <2>1. Indexes(fork, heightIndex, hashIndex, file, diskPos, {})
    BY <1>10, ZenonT(30) DEF Indexes
  <2> QED BY <1>1, <1>9, <2>1, ZenonT(30)
<1>12. First(queue', tip', synced', best', cb'.pc = "idle")
  <2>1. \A i \in 1..Len(queue') : FALSE
    BY <1>1
  <2>2. flushed = None => fork = None
    BY <1>3
  <2> QED BY <1>1, <1>5, <2>1, <2>2, ZenonT(30) DEF First
<1>13. Keeps(queue', tip') /\ (synced' => Leads(queue', Reached', tip'))
  <2>1. flushed \in Maybe
    BY <1>2 DEF Maybe
  <2>2. Keeps(<<>>, flushed) /\ (fork = flushed => Leads(<<>>, fork, flushed))
    BY <2>1, EmptyRuns, ZenonT(30)
  <2> QED BY <1>1, <1>9, <2>2, ZenonT(30)
<1> QED BY <1>7, <1>8, <1>11, <1>12, <1>13, ZenonT(30) DEF Body

------------------------------------------------------------------------------
\* A new index has nothing to get wrong.
LEMMA InitBody == Init => IInv
<1> SUFFICES ASSUME Init PROVE Body
  BY ZenonT(30) DEF IInv
<1>1. /\ tip \in Maybe /\ flushed = tip /\ queue = <<>> /\ best = None /\ synced = (tip = None)
      /\ nextPos = 0 /\ diskPos = 0 /\ locator = None /\ indexed = {} /\ fatal = FALSE
      /\ heightIndex = [h \in Heights |-> None] /\ hashIndex = [b \in Blocks |-> None]
      /\ file = [p \in Positions |-> None]
      /\ sync = [pc |-> IF tip = None THEN "done" ELSE "loop", pindex |-> None, pos |-> 0]
      /\ cb = [pc |-> "idle", block |-> None]
  BY ZenonT(30) DEF Init, Maybe
<1>2. None \in Maybe /\ 0 \in Positions /\ None \in Entries
  BY FilterIndexAssumption DEF Maybe, Positions, Entries
<1>3. /\ sync \in [pc : SyncStates, pindex : Maybe, pos : Positions] /\ sync.pindex = None
      /\ tip = None => sync.pc = "done"
      /\ tip # None => sync.pc = "loop"
  BY <1>1, <1>2, ZenonT(30) DEF SyncStates
<1>4. cb \in [pc : {"idle", "write", "entry"}, block : Maybe] /\ cb.pc = "idle"
  BY <1>1, <1>2
<1>5. /\ heightIndex \in [Heights -> Entries] /\ hashIndex \in [Blocks -> Entries]
      /\ file \in [Positions -> Maybe]
  BY <1>1, <1>2, ZenonT(30)
<1>6. queue \in Seq(Events) /\ Len(queue) = 0 /\ \A i \in 1..Len(queue) : FALSE
  BY <1>1
<1>7. Types
  <2>1. synced \in BOOLEAN /\ indexed \subseteq Blocks
    BY <1>1, ZenonT(30)
  <2> QED BY <1>1, <1>2, <1>3, <1>4, <1>5, <1>6, <2>1, ZenonT(30) DEF Types
<1>8. Control
  BY <1>1, <1>3, <1>4, ZenonT(30) DEF Control
<1>9. First(queue, tip, synced, best, cb.pc = "idle")
  BY <1>1, <1>4, <1>6, ZenonT(30) DEF First
<1>10. LastIndexed = None /\ Reached = None
  BY <1>1, <1>3, <1>4, ZenonT(30) DEF LastIndexed, Reached
<1>11. Indexes(LastIndexed, heightIndex, hashIndex, file, nextPos, indexed)
  BY <1>1, <1>10, PathStep, ZenonT(30) DEF Indexes
<1>12. Keeps(queue, tip) /\ (synced => Leads(queue, Reached, tip))
  <2>1. Keeps(<<>>, tip) /\ (tip = None => Leads(<<>>, None, tip))
    BY <1>1, EmptyRuns, ZenonT(30)
  <2> QED BY <1>1, <1>10, <2>1, ZenonT(30)
<1> QED BY <1>7, <1>8, <1>9, <1>11, <1>12, ZenonT(30) DEF Body

\* Every step, a restart over a sound database included, keeps the invariant.
LEMMA NextBody == IInv /\ [Next]_vars => IInv'
<1> SUFFICES ASSUME IInv, [Next]_vars, ~gap' PROVE Body'
  BY ZenonT(30) DEF IInv
<1>1. CASE Restart
  <2>1. ~gap /\ DiskSound
    BY <1>1, ZenonT(30) DEF Restart
  <2> QED BY <1>1, <2>1, RestartStep, ZenonT(30) DEF IInv
<1>2. CASE \E b \in Blocks : ActivateBestChain(b)
  <2>1. gap' = gap
    BY <1>2, ZenonT(30) DEF ActivateBestChain, history
  <2> QED BY <1>2, <2>1, ActivateStep, ZenonT(30) DEF IInv
<1>3. CASE DisconnectTip
  <2>1. gap' = gap
    BY <1>3, ZenonT(30) DEF DisconnectTip, history
  <2> QED BY <1>3, <2>1, DisconnectStep, ZenonT(30) DEF IInv
<1>4. CASE FlushStateToDisk
  <2>1. gap' = gap
    BY <1>4, ZenonT(30) DEF FlushStateToDisk, history
  <2> QED BY <1>4, <2>1, FlushStep, ZenonT(30) DEF IInv
<1>5. CASE SyncInterrupted
  <2>1. gap' = gap
    BY <1>5, ZenonT(30) DEF SyncInterrupted, history
  <2> QED BY <1>5, <2>1, InterruptedStep, ZenonT(30) DEF IInv
<1>6. CASE SyncCaughtUp
  <2>1. gap' = gap
    BY <1>6, ZenonT(30) DEF SyncCaughtUp, history
  <2> QED BY <1>6, <2>1, CaughtUpStep, ZenonT(30) DEF IInv
<1>7. CASE SyncReadPosition
  <2>1. gap' = gap
    BY <1>7, ZenonT(30) DEF SyncReadPosition, history
  <2> QED BY <1>7, <2>1, ReadPositionStep, ZenonT(30) DEF IInv
<1>8. CASE SyncCommitLocator
  <2>1. gap' = gap
    BY <1>8, ZenonT(30) DEF SyncCommitLocator, history
  <2> QED BY <1>8, <2>1, CommitLocatorStep, ZenonT(30) DEF IInv
<1>9. CASE SyncNext
  <2>1. gap' = gap
    BY <1>9, ZenonT(30) DEF SyncNext, history
  <2> QED BY <1>9, <2>1, SyncNextStep, ZenonT(30) DEF IInv
<1>10. CASE SyncRewind
  <2>1. gap' = gap
    BY <1>10, ZenonT(30) DEF SyncRewind
  <2> QED BY <1>10, <2>1, SyncRewindStep, ZenonT(30) DEF IInv
<1>11. CASE SyncLocator
  <2>1. gap' = gap
    BY <1>11, ZenonT(30) DEF SyncLocator, history
  <2> QED BY <1>11, <2>1, SyncLocatorStep, ZenonT(30) DEF IInv
<1>12. CASE SyncWriteFilter
  <2>1. gap' = gap
    BY <1>12, ZenonT(30) DEF SyncWriteFilter
  <2> QED BY <1>12, <2>1, SyncWriteFilterStep, ZenonT(30) DEF IInv
<1>13. CASE SyncWriteEntry
  <2>1. gap' = gap
    BY <1>13, ZenonT(30) DEF SyncWriteEntry
  <2> QED BY <1>13, <2>1, SyncWriteEntryStep, ZenonT(30) DEF IInv
<1>14. CASE SkipBlock
  <2>1. gap' = gap
    BY <1>14, ZenonT(30) DEF SkipBlock, history
  <2> QED BY <1>14, <2>1, SkipStep, ZenonT(30) DEF IInv
<1>15. CASE BlockConnected
  <2>1. gap' = gap
    BY <1>15, ZenonT(30) DEF BlockConnected
  <2> QED BY <1>15, <2>1, BlockConnectedStep, ZenonT(30) DEF IInv
<1>16. CASE WriteBlockFilter
  <2>1. gap' = gap
    BY <1>16, ZenonT(30) DEF WriteBlockFilter
  <2> QED BY <1>16, <2>1, WriteBlockFilterStep, ZenonT(30) DEF IInv
<1>17. CASE WriteBlockEntry
  <2>1. gap' = gap
    BY <1>17, ZenonT(30) DEF WriteBlockEntry
  <2> QED BY <1>17, <2>1, WriteBlockEntryStep, ZenonT(30) DEF IInv
<1>18. CASE ChainStateFlushed
  <2>1. gap' = gap
    BY <1>18, ZenonT(30) DEF ChainStateFlushed
  <2> QED BY <1>18, <2>1, FlushedStep, ZenonT(30) DEF IInv
<1>19. CASE Interrupt \/ Crash \/ UNCHANGED vars
  <2>1. gap' = gap
    BY <1>19, ZenonT(30) DEF Interrupt, Crash, vars, history
  <2> QED BY <1>19, <2>1, EndStep, ZenonT(30) DEF IInv
<1> QED BY <1>1, <1>2, <1>3, <1>4, <1>5, <1>6, <1>7, <1>8, <1>9, <1>10, <1>11, <1>12, <1>13, <1>14,
           <1>15, <1>16, <1>17, <1>18, <1>19, ZenonT(30) DEF Next

\* The inductive invariant holds as long as no start found an unsound database.
LEMMA FilterInvariant == Spec => []IInv
BY InitBody, NextBody, PTL DEF Spec

\* blockfilterindex.cpp:15: as long as every start finds a sound database, the
\* filter and the header of every block that was indexed, in the chain or
\* reorganised out of it, can be retrieved, and the index never gives up.
THEOREM FilterIndexServesChain == Spec => []IndexServesChain
<1>1. ASSUME IInv PROVE IndexServesChain
  <2> SUFFICES ASSUME ~gap PROVE ~fatal /\ \A b \in Path[LastIndexed] \cup indexed : Served(b)
    BY ZenonT(30) DEF IndexServesChain
  <2>1. /\ ~fatal /\ Indexes(LastIndexed, heightIndex, hashIndex, file, nextPos, indexed)
    BY <1>1, ZenonT(30) DEF IInv, Body, Types
  <2>2. ASSUME NEW b \in Path[LastIndexed] PROVE Served(b)
    <3>1. Good(heightIndex[Height[b]], b, file, nextPos)
      BY <2>1, ZenonT(30) DEF Indexes
    <3> QED BY <3>1, GoodServed, ZenonT(30) DEF Good
  <2>3. ASSUME NEW b \in indexed PROVE Served(b)
    <3>1. /\ heightIndex[Height[b]] \in Entry
          /\ heightIndex[Height[b]].block = b => Good(heightIndex[Height[b]], b, file, nextPos)
          /\ heightIndex[Height[b]].block # b => Good(hashIndex[b], b, file, nextPos)
      BY <2>1, ZenonT(30) DEF Indexes
    <3>2. CASE heightIndex[Height[b]].block = b
      BY <3>1, <3>2, GoodServed, ZenonT(30)
    <3>3. CASE heightIndex[Height[b]].block # b
      <4>1. LookupOne(b) = hashIndex[b]
        BY <3>1, <3>3, FilterIndexAssumption, ZenonT(30) DEF LookupOne
      <4> QED BY <3>1, <3>3, <4>1, FilterIndexAssumption, ZenonT(30) DEF Served, Good
    <3> QED BY <3>2, <3>3, ZenonT(30)
  <2> QED BY <2>1, <2>2, <2>3, ZenonT(30)
<1> QED BY <1>1, FilterInvariant, PTL

\* base.h:109: once the index has been in sync, a thread that waits for the queue
\* to drain finds every block of the chain indexed.
THEOREM FilterIndexSyncedWhenDrained == Spec => []SyncedWhenDrained
<1>1. ASSUME IInv PROVE SyncedWhenDrained
  <2> SUFFICES ASSUME synced, ~gap, queue = <<>>, cb.pc = "idle" PROVE Path[tip] \subseteq Path[best]
    BY ZenonT(30) DEF SyncedWhenDrained
  <2>1. tip \in Maybe /\ best \in Maybe /\ Leads(queue, Reached, tip)
    BY <1>1, ZenonT(30) DEF IInv, Body, Types
  <2>2. Leads(<<>>, best, tip)
    BY <2>1, ZenonT(30) DEF Reached
  <2> QED BY <2>1, <2>2, EmptyRuns, ZenonT(30)
<1> QED BY <1>1, FilterInvariant, PTL

\* The database is sound when its locator is the last block indexed, or below it,
\* and its position is the next one.
LEMMA CommitSound ==
  ASSUME Body', synced', locator' \in Path[best'], diskPos' = nextPos'
  PROVE  DiskSound'
<1> SUFFICES ASSUME NEW b \in Path[locator']
             PROVE  (Served(b) /\ heightIndex[Height[b]].block = b /\ heightIndex[Height[b]].pos < diskPos)'
  BY ZenonT(30) DEF DiskSound
<1>1. Indexes(LastIndexed', heightIndex', hashIndex', file', nextPos', indexed') /\ best' \in Maybe
  BY ZenonT(30) DEF Body, Types
<1>2. LastIndexed' = best'
  BY ZenonT(30) DEF LastIndexed
<1>3. b \in Path[best']
  BY <1>1, PathTransitive, ZenonT(30) DEF Maybe
<1>4. Good(heightIndex'[Height[b]], b, file', nextPos')
  BY <1>1, <1>2, <1>3, ZenonT(30) DEF Indexes
<1>5. /\ heightIndex'[Height[b]] \in Entry /\ heightIndex'[Height[b]].block = b
      /\ heightIndex'[Height[b]].header = Path[b] /\ heightIndex'[Height[b]].pos < nextPos'
      /\ file'[heightIndex'[Height[b]].pos] = b
  BY <1>4, ZenonT(30) DEF Good
<1>6. LookupOne(b)' = heightIndex'[Height[b]]
  BY <1>5, ZenonT(30) DEF LookupOne
<1>7. Served(b)'
  BY <1>5, <1>6, FilterIndexAssumption, ZenonT(30) DEF Served
<1> QED BY <1>5, <1>7, ZenonT(30)

\* base.cpp:179: what the scheduler thread commits covers only blocks the index
\* on disk can serve, whatever crash comes next.
THEOREM FilterIndexCommitsAreSound == Spec => CommitsAreSound
<1>1. ASSUME IInv, IInv', [Next]_vars PROVE [SchedulerCommits /\ ~gap => DiskSound']_vars
  <2> SUFFICES ASSUME Next, SchedulerCommits, ~gap PROVE DiskSound'
    BY <1>1, ZenonT(30) DEF SchedulerCommits, vars, disk
  <2>1. sync' = sync /\ up /\ up' /\ ~(locator' = locator /\ diskPos' = diskPos) /\ Body
    BY <1>1 DEF SchedulerCommits, IInv
  <2>2. sync \in [pc : SyncStates, pindex : Maybe, pos : Positions]
    BY <2>1, ZenonT(30) DEF Body, Types
  <2>3. \A p \in SyncStates : p # sync.pc => sync # [sync EXCEPT !.pc = p]
    BY <2>2
  <2>4. BlockConnected \/ ChainStateFlushed
    <3>1. ~SyncInterrupted /\ ~SyncCommitLocator /\ ~SyncLocator
      BY <2>1, <2>3 DEF SyncInterrupted, SyncCommitLocator, SyncLocator, SyncStates
    <3>2. ~SyncRewind
      BY <2>1, <2>2, ZenonT(30) DEF SyncRewind, FatalError, disk, SyncStates
    <3>3. ~Restart
      BY <2>1, ZenonT(30) DEF Restart, disk
    <3>4. ~(\E b \in Blocks : ActivateBestChain(b)) /\ ~DisconnectTip /\ ~FlushStateToDisk
      BY <2>1, ZenonT(30) DEF ActivateBestChain, DisconnectTip, FlushStateToDisk, disk
    <3>5. ~SyncCaughtUp /\ ~SyncReadPosition /\ ~SyncNext
      BY <2>1, ZenonT(30) DEF SyncCaughtUp, SyncReadPosition, SyncNext, disk
    <3>6. ~SyncWriteFilter /\ ~SyncWriteEntry /\ ~SkipBlock /\ ~WriteBlockFilter /\ ~WriteBlockEntry
      BY <2>1, ZenonT(30) DEF SyncWriteFilter, SyncWriteEntry, SkipBlock, WriteBlockFilter, WriteBlockEntry, disk
    <3>7. ~Interrupt /\ ~Crash
      BY <2>1, ZenonT(30) DEF Interrupt, Crash, disk
    <3> QED BY <3>1, <3>2, <3>3, <3>4, <3>5, <3>6, <3>7, ZenonT(30) DEF Next
  <2>5. gap' = gap
    BY <2>4, ZenonT(30) DEF BlockConnected, ChainStateFlushed
  <2>6. Body'
    BY <1>1, <2>5, ZenonT(30) DEF IInv
  <2>7. CASE BlockConnected
    <3> DEFINE b == Head(queue).block
    <3>1. /\ b \in Blocks /\ synced /\ (best = None) = (b = Genesis)
          /\ best = Parent[b] \/ (best \in Blocks /\ Parent[b] \in Path[best] /\ CopySucceeds(best, Parent[b]))
      BY <2>1, <2>7, BlockConnectedFacts, ZenonT(30)
    <3>2. best # Parent[b]
      BY <2>1, <2>7, <3>1, ZenonT(30) DEF BlockConnected, disk
    <3>3. best' = Parent[b] /\ Commit(Parent[b]) /\ synced' /\ nextPos' = nextPos
      BY <2>7, <3>1, <3>2, ZenonT(30) DEF BlockConnected
    <3>4. Parent[b] \in Blocks /\ Parent[b] # None
      BY <3>1, <3>2, TreeAssumption, ZenonT(30)
    <3>5. locator' = best' /\ diskPos' = nextPos'
      BY <3>3, <3>4, ZenonT(30) DEF Commit, GetLocator
    <3>6. locator' \in Path[best']
      BY <3>3, <3>4, <3>5, PathHasSelf, ZenonT(30)
    <3> QED BY <2>6, <3>3, <3>5, <3>6, CommitSound, ZenonT(30)
  <2>8. CASE ChainStateFlushed
    <3>1. synced /\ best # None /\ Commit(best) /\ UNCHANGED <<best, synced, nextPos>>
      BY <2>1, <2>8, ZenonT(30) DEF ChainStateFlushed, memory
    <3>2. best \in Blocks
      BY <2>1, <3>1, ZenonT(30) DEF Body, Types, Maybe
    <3>3. locator' = best' /\ diskPos' = nextPos' /\ synced'
      BY <3>1, ZenonT(30) DEF Commit, GetLocator
    <3>4. locator' \in Path[best']
      BY <3>1, <3>2, <3>3, PathHasSelf, ZenonT(30)
    <3> QED BY <2>6, <3>3, <3>4, CommitSound, ZenonT(30)
  <2> QED BY <2>4, <2>7, <2>8
<1> QED BY <1>1, FilterInvariant, PTL DEF Spec, CommitsAreSound
=============================================================================
