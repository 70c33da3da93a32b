----------------------------- MODULE BlockPaths -----------------------------
(***************************************************************************)
(* The tree that the block index is (chain.h): pprev, and what its readers *)
(* make of it.                                                             *)
(***************************************************************************)
EXTENDS Integers, Sequences

CONSTANTS Blocks, Genesis, None,
          Parent   \* pprev, None for Genesis

\* Every block but Genesis has a parent that was in the index before it.
ASSUME TreeAssumption ==
    /\ Genesis \in Blocks /\ None \notin Blocks
    /\ Parent \in [Blocks -> Blocks \cup {None}]
    /\ \A b \in Blocks : Parent[b] = None <=> b = Genesis
    /\ \A S \in SUBSET Blocks : S # {} => \E b \in S : Parent[b] \notin S

\* A block and its ancestors, the blocks that GetAncestor can answer.
Path[b \in Blocks \cup {None}] == IF b = None THEN {} ELSE {b} \cup Path[Parent[b]]

Descendants(b) == {d \in Blocks : b \in Path[d]}

\* CBlockIndex::nHeight.
Height[b \in Blocks] == IF b = Genesis THEN 0 ELSE Height[Parent[b]] + 1

LastCommonAncestor(a, b) ==
    CHOOSE c \in Path[a] \cap Path[b] : Path[a] \cap Path[b] \subseteq Path[c]

\* The elements of a sequence that are in S, in their order.
Kept(s, S) ==
    LET kept[i \in 0..Len(s)] ==
          IF i = 0 THEN <<>> ELSE IF s[i] \in S THEN Append(kept[i - 1], s[i]) ELSE kept[i - 1]
    IN  kept[Len(s)]
=============================================================================
