----------------------------- MODULE MMRSegment -----------------------------
(***************************************************************************)
(* Segment.cpp and the pruning operators of MMRUtil.cpp, over an MMR whose *)
(* leaves are spent one by one.  A segment is what a full node sends to a  *)
(* light client: some unspent leaves, and the hashes from which, with      *)
(* those leaves, the root of the output MMR can be computed.               *)
(***************************************************************************)
EXTENDS MMRForest

CONSTANT MaxSegment  \* bound on the leaves of an MMR with spent leaves

VARIABLE unspent     \* the leaves the leaf set contains, of numLeaves

vars == <<forestVars, unspent>>

TypeOK ==
    /\ numLeaves \in 0..MaxLeaves /\ Len(hashes) = LeafPosition(numLeaves)
    /\ unspent \subseteq 0..numLeaves - 1

Init == ForestInit /\ unspent = {}

\* The larger MMRs of the model have no spent leaf.
Small == numLeaves <= MaxSegment
AllUnspent == unspent = 0..numLeaves - 1

AddOutput ==
    /\ numLeaves < MaxSegment \/ AllUnspent
    /\ Add
    /\ unspent' = unspent \cup {numLeaves}

SpendOutput(leaf) ==
    /\ Small /\ leaf \in unspent
    /\ unspent' = unspent \ {leaf}
    /\ UNCHANGED forestVars

\* UndoBlock on the MMR and on its leaf set, with the leaves the undone block
\* had spent.
RewindOutputs(n, leavesToAdd) ==
    /\ Small \/ leavesToAdd = {}
    /\ leavesToAdd \subseteq (0..n - 1) \ unspent
    /\ Rewind(n)
    /\ unspent' = (unspent \cup leavesToAdd) \cap (0..n - 1)

Next ==
    \/ AddOutput
    \/ \E leaf \in unspent : SpendOutput(leaf)
    \/ \E n \in {numLeaves - 1, numLeaves \div 2}, leaf \in 0..MaxSegment :
          RewindOutputs(n, {}) \/ RewindOutputs(n, {leaf})

Spec == Init /\ [][Next]_vars

-----------------------------------------------------------------------------
\* The positions SiblingIter(height, last_node) yields, in order.
SiblingIter(height, last_node) ==
    LET baseInc == 2^(height + 1) - 1
        next[k \in Nat] == IF k = 0 THEN baseInc - 1
                           ELSE next[k - 1] + baseInc + CountRightmostZeros(k)
        count == Cardinality({k \in 0..last_node : next[k] <= last_node})
    IN  [i \in 1..count |-> next[i - 1]]

\* The heights of the loops over SiblingIter.
Heights(last_node) ==
    LET top == Cardinality({h \in 1..last_node + 1 : 2^(h + 1) - 2 <= last_node}) IN
    [h \in 1..top |-> h]

SpentPositions(n, leaves) == {LeafPosition(i) : i \in (0..n - 1) \ leaves}

\* Mutant: the children are dropped and the parent's bit is not set.
PruneParentUnset(ret, p) ==
    LET l == GetLeftChild(p, CalculateHeight(p))
        r == GetRightChild(p) IN
    IF {l, r} \subseteq ret THEN ret \ {l, r} ELSE ret

\* The body of CalcPrunedParents' loop: two pruned children are replaced by
\* their parent.
PruneParent(ret, p) ==
    LET l == GetLeftChild(p, CalculateHeight(p))
        r == GetRightChild(p) IN
    IF {l, r} \subseteq ret THEN (ret \ {l, r}) \cup {p} ELSE ret

CalcPrunedParents(n, leaves) ==
    LET last_node == LeafPosition(n) IN
    FoldLeft(LAMBDA ret, h : FoldLeft(PruneParent, ret, SiblingIter(h, last_node)),
             SpentPositions(n, leaves), Heights(last_node))

\* The body of BuildCompactBitSet's loop, on <<prunable_nodes, compactable>>.
CompactParent(acc, p) ==
    LET l == GetLeftChild(p, CalculateHeight(p))
        r == GetRightChild(p) IN
    IF {l, r} \subseteq acc[1] THEN <<acc[1] \cup {p}, acc[2] \cup {l, r}>> ELSE acc

\* Here last_node is the last node of the MMR, and the heights are bounded by
\* the position of the next leaf.
BuildCompactBitSet(n, leaves) ==
    FoldLeft(LAMBDA acc, h : FoldLeft(CompactParent, acc, SiblingIter(h, LeafPosition(n) - 1)),
             <<SpentPositions(n, leaves), {}>>, Heights(LeafPosition(n)))[2]

\* The climb to the left edge of the mountain that holds the first leaf.
\* adjustment is the position of the mountain's leftmost leaf.
OnLeftEdge(position, adjustment) ==
    position + 2 - adjustment = 2^(CalculateHeight(position) + 1)

OnRightEdge(position, peak) == position >= peak - CalculateHeight(peak)

\* The nodes the loops of CalcHashIndices visit from a node on, before
\* they come to the edge of its mountain.
Climb(position, peak, edge) ==
    LET visit[k \in 0..CalculateHeight(peak)] ==
            IF k = 0 THEN position
            ELSE IF visit[k - 1] \in edge THEN visit[k - 1]
            ELSE GetParent(visit[k - 1], CalculateHeight(visit[k - 1]))
    IN  {visit[k] : k \in 0..CalculateHeight(peak)} \ edge

Sibling(position) == GetSibling(position, CalculateHeight(position))

\* The peak of the mountain that holds a leaf.
PeakOver(peaks, leaf) == SelectSeq(peaks, LAMBDA p : p >= LeafPosition(leaf))[1]

PeaksBefore(peaks, leaf) == {p \in Range(peaks) : p < LeafPosition(leaf)}

\* Mutant: the pruned parents between the first and the last leaf forgotten.
CalcHashIndicesUnpruned(n, leaves, first, last) ==
    LET peaks == CalcPeakIndices(LeafPosition(n))
        before == PeaksBefore(peaks, first)
        adjustment == IF before = {} THEN 0 ELSE Max(before) + 1
        leftEdge == {p \in 0..LeafPosition(n) : OnLeftEdge(p, adjustment)}
        rightEdge == {p \in 0..LeafPosition(n) : OnRightEdge(p, PeakOver(peaks, last))}
        leftOf == Climb(LeafPosition(first), PeakOver(peaks, first), leftEdge)
        rightOf == Climb(LeafPosition(last), PeakOver(peaks, last), rightEdge)
    IN  before \cup {Sibling(p) : p \in {q \in leftOf : Sibling(q) < q}}
               \cup {Sibling(p) : p \in {q \in rightOf : Sibling(q) > q}}

CalcHashIndices(n, leaves, first, last) ==
    LET peaks == CalcPeakIndices(LeafPosition(n))
        before == PeaksBefore(peaks, first)
        adjustment == IF before = {} THEN 0 ELSE Max(before) + 1
        leftEdge == {p \in 0..LeafPosition(n) : OnLeftEdge(p, adjustment)}
        rightEdge == {p \in 0..LeafPosition(n) : OnRightEdge(p, PeakOver(peaks, last))}
        leftOf == Climb(LeafPosition(first), PeakOver(peaks, first), leftEdge)
        rightOf == Climb(LeafPosition(last), PeakOver(peaks, last), rightEdge)
        between == LeafPosition(first)..LeafPosition(last) - 1
    IN  before \cup {Sibling(p) : p \in {q \in leftOf : Sibling(q) < q}}
               \cup (CalcPrunedParents(n, leaves) \cap between)
               \cup {Sibling(p) : p \in {q \in rightOf : Sibling(q) > q}}

\* SegmentFactory::Assemble for a first leaf in the leaf set: the positions of
\* the leaves it sends, of the hashes it sends, and the next lower peak.
SegmentLeaves(n, leaves, first, num_leaves) ==
    {i \in leaves : i \in first..n - 1 /\ Cardinality(leaves \cap (first..i - 1)) < num_leaves}

Assemble(n, leaves, first, num_leaves) ==
    LET sent == SegmentLeaves(n, leaves, first, num_leaves)
        last == IF sent = {} THEN first ELSE Max(sent)
        peaks == CalcPeakIndices(LeafPosition(n))
        lower == SelectSeq(peaks, LAMBDA p : p > PeakOver(peaks, last))
    IN  [leaves |-> {LeafPosition(i) : i \in sent},
         hashes |-> CalcHashIndices(n, leaves, first, last),
         lower |-> lower]

-----------------------------------------------------------------------------
\* What a receiver can compute from the hashes at the given positions: parents
\* of two known children, height by height.
Derivable(n, known) ==
    FoldLeft(LAMBDA k, h : k \cup {p \in 0..LeafPosition(n) - 1 :
                                    /\ CalculateHeight(p) = h
                                    /\ {GetLeftChild(p, h), GetRightChild(p)} \subseteq k},
             known, [h \in 1..BitLength(n) |-> h])

\* The peaks that the root needs and the lower_peak hash does not stand for.
PeaksNeeded(n, seg) == {p \in Range(CalcPeakIndices(LeafPosition(n))) : p \notin Range(seg.lower)}

Requests == IF Small THEN unspent \X (1..Cardinality(unspent)) ELSE {}

\* Segment.h: a segment has "all hashes necessary" to prove membership.
\* Whatever is spent, and whichever leaf a request starts at, the receiver can
\* compute every peak up to the last leaf's mountain from the leaves and the
\* hashes, and with lower_peak the root.  There is no hash it could do without,
\* and none of a node that BuildCompactBitSet lets the sender forget.
SegmentIsExact ==
    \A r \in Requests :
       LET seg == Assemble(numLeaves, unspent, r[1], r[2])
           Proves(hashes_) ==
              PeaksNeeded(numLeaves, seg) \subseteq Derivable(numLeaves, seg.leaves \cup hashes_)
       IN  /\ Proves(seg.hashes)
           /\ \A p \in seg.hashes : ~Proves(seg.hashes \ {p})
           /\ seg.hashes \cap BuildCompactBitSet(numLeaves, unspent) = {}

\* MMRUtil.cpp:126-131: "An MMR can be rebuilt from the leaves and a small set
\* of carefully chosen parent hashes."  The unspent leaves and the parents of
\* CalcPrunedParents determine every peak.
PrunedParentsRebuild ==
    Small => Range(CalcPeakIndices(LeafPosition(numLeaves))) \subseteq
       Derivable(numLeaves, {LeafPosition(i) : i \in unspent} \cup CalcPrunedParents(numLeaves, unspent))
=============================================================================
