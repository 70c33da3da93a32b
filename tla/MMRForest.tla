----------------------------- MODULE MMRForest -----------------------------
(***************************************************************************)
(* An MMR that grows and is rewound (MemMMR), beside a forest that is      *)
(* built the way MMRs are defined: a leaf is a tree of its own, and two    *)
(* trees of equal height at the right end become one.                      *)
(***************************************************************************)
EXTENDS MMR

CONSTANT MaxLeaves    \* bound on the number of leaves

VARIABLES numLeaves,  \* m_leaves.size(): leaf i holds the number i
          hashes,     \* m_hashes
          forests     \* reference: element n + 1 is the forest with n leaves,
                      \* its trees listed from the right end

forestVars == <<numLeaves, hashes, forests>>

\* A tree of the reference, with the position, height and number of leaves of
\* its root, and its hash.
Merge(l, r) ==
    [pos |-> r.pos + 1, height |-> r.height + 1,
     hash |-> CalcParentHash(r.pos + 1, l.hash, r.hash)]

\* Merges the two rightmost trees while their heights agree.
Merged(f) ==
    FoldLeft(LAMBDA g, i : IF Len(g) > 1 /\ g[1].height = g[2].height
                           THEN <<Merge(g[2], g[1])>> \o SubSeq(g, 3, Len(g)) ELSE g,
             f, [i \in 1..Len(f) |-> i])

NextPos(f) == IF f = <<>> THEN 0 ELSE f[1].pos + 1

Plant(f, data) ==
    Merged(<<[pos |-> NextPos(f), height |-> 0, hash |-> LeafHash(NextPos(f), data)]>> \o f)

forest == Last(forests)

ForestInit == numLeaves = 0 /\ hashes = <<>> /\ forests = << <<>> >>

Add ==
    /\ numLeaves < MaxLeaves
    /\ hashes' = AddLeaf(hashes, numLeaves, numLeaves)
    /\ numLeaves' = numLeaves + 1
    /\ forests' = Append(forests, Plant(forest, numLeaves))

\* MemMMR::Rewind.
Rewind(n) ==
    /\ n \in 0..numLeaves - 1
    /\ numLeaves' = n
    /\ hashes' = SubSeq(hashes, 1, LeafPosition(n))
    /\ forests' = SubSeq(forests, 1, n + 1)

-----------------------------------------------------------------------------
num_nodes == LeafPosition(numLeaves)

\* CalcPeakIndices, CalculateHeight and AddLeaf agree with the definition of an
\* MMR: after any adds and rewinds the computed peaks are the trees of the
\* forest, at their positions, of their heights and with their hashes, and the
\* assertion numLeft == 0 of CalcPeakIndices holds.
PeaksAreTrees ==
    LET peaks == CalcPeakIndices(num_nodes) IN
    /\ PeaksExhaust(num_nodes)
    /\ Reverse(forest) = [i \in DOMAIN peaks |->
          [pos |-> peaks[i], height |-> CalculateHeight(peaks[i]), hash |-> GetHash(hashes, peaks[i])]]

\* Moving through the MMR never loses its way.  The steps of the tree
\* (GetParent, GetSibling, GetLeftChild, GetRightChild) are inverses of each
\* other and follow the hashes AddLeaf wrote: every node with a parent in the
\* MMR is the child the parent hashes.  Leaf numbers and positions are converted
\* without loss, and the number of leaves can be read off the number of hashes,
\* which is how PMMR::GetNumLeaves learns it from the size of a file.
NavigationFollowsHashes ==
    /\ CalculateLeafIndex(Len(hashes)) = numLeaves
    /\ \A i \in 0..numLeaves - 1 :
          /\ IsLeaf(LeafPosition(i)) /\ CalculateLeafIndex(LeafPosition(i)) = i
          /\ GetHash(hashes, LeafPosition(i)) = LeafHash(LeafPosition(i), i)
    /\ \A p \in 0..num_nodes - 1 :
          LET h == CalculateHeight(p)
              q == GetParent(p, h)
              s == GetSibling(p, h) IN
          q < num_nodes =>
             /\ GetSibling(s, CalculateHeight(s)) = p /\ GetParent(s, CalculateHeight(s)) = q
             /\ {p, s} = {GetLeftChild(q, CalculateHeight(q)), GetRightChild(q)}
             /\ GetHash(hashes, q) = CalcParentHash(q, GetHash(hashes, IF p < s THEN p ELSE s),
                                                   GetHash(hashes, IF p < s THEN s ELSE p))
=============================================================================
