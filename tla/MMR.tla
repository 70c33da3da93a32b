-------------------------------- MODULE MMR --------------------------------
(***************************************************************************)
(* The arithmetic of a Merkle Mountain Range (libmw/src/mmr): nodes are    *)
(* numbered in postorder from 0, a peak is the root of a perfect tree, and *)
(* everything else is computed from positions by subtracting peak sizes.   *)
(*                                                                         *)
(* A hash is the tuple of what is hashed, so two hashes are equal exactly  *)
(* when their preimages are.  A list of node hashes is a sequence whose    *)
(* element i + 1 is the hash of the node at position i.                    *)
(***************************************************************************)
EXTENDS Naturals, Sequences, SequencesExt

\* BitUtil on numbers below 2^BitLength(n), the smallest power of two above n.
BitLength(n) == CHOOSE k \in 0..n : 2^k > n /\ \A j \in 0..k - 1 : 2^j <= n

Bit(n, i) == (n \div 2^i) % 2

CountBitsSet(n) == Cardinality({i \in 0..BitLength(n) : Bit(n, i) = 1})

CountRightmostZeros(n) == CHOOSE i \in 0..n : Bit(n, i) = 1 /\ \A j \in 0..i - 1 : Bit(n, j) = 0

\* FillOnesToRight(n), then the same shifted right again and again to 1: the
\* sizes of perfect trees that the loops below try to subtract, largest first.
PeakSizes(n) == [i \in 1..BitLength(n) |-> 2^(BitLength(n) + 1 - i) - 1]

\* LeafIndex::At(leafIdx).GetPosition(): also the number of nodes of an MMR
\* with leafIdx leaves.
LeafPosition(leafIdx) == 2 * leafIdx - CountBitsSet(leafIdx)

CalculateHeight(position) ==
    FoldLeft(LAMBDA height, peak : IF height >= peak THEN height - peak ELSE height,
             position, PeakSizes(position))

\* One iteration of CalculateLeafIndex, on the pair <<numLeft, leafIndex>>.
CountPeakLeaves(acc, peak) ==
    IF acc[1] >= peak THEN <<acc[1] - peak, acc[2] + (peak + 1) \div 2>> ELSE acc

CalculateLeafIndex(position) ==
    FoldLeft(CountPeakLeaves, <<position, 0>>, PeakSizes(position))[2]

IsLeaf(position) == CalculateHeight(position) = 0

IsRightSibling(position, height) == CalculateHeight(position + 1) = height + 1

GetParent(position, height) ==
    IF IsRightSibling(position, height) THEN position + 1 ELSE position + 2^(height + 1)

\* Mutant: the left sibling one position too far to the right.
GetSiblingOff(position, height) ==
    IF IsRightSibling(position, height)
    THEN position + 2 - 2^(height + 1)
    ELSE position + 2^(height + 1) - 1

GetSibling(position, height) ==
    IF IsRightSibling(position, height)
    THEN position + 1 - 2^(height + 1)
    ELSE position + 2^(height + 1) - 1

GetLeftChild(position, height) == position - 2^height

GetRightChild(position) == position - 1

\* One iteration of CalcPeakIndices, on <<numLeft, sumPrevPeaks, peak_indices>>.
TakePeak(acc, peak) ==
    IF acc[1] >= peak
    THEN <<acc[1] - peak, acc[2] + peak, Append(acc[3], acc[2] + peak - 1)>>
    ELSE acc

\* Mutant: the peaks' positions are relative to their own mountain.
CalcPeakIndicesUnshifted(num_nodes) ==
    LET acc == FoldLeft(TakePeak, <<num_nodes, 0, <<>>>>, PeakSizes(num_nodes)) IN
    [i \in DOMAIN acc[3] |-> acc[3][i] - (IF i = 1 THEN 0 ELSE acc[3][i - 1])]

CalcPeakIndices(num_nodes) ==
    FoldLeft(TakePeak, <<num_nodes, 0, <<>>>>, PeakSizes(num_nodes))[3]

\* The assertion at the end of CalcPeakIndices.
PeaksExhaust(num_nodes) ==
    FoldLeft(TakePeak, <<num_nodes, 0, <<>>>>, PeakSizes(num_nodes))[1] = 0

LeafHash(position, data) == <<position, data>>

CalcParentHash(position, left, right) == <<position, left, right>>

GetHash(nodes, position) == nodes[position + 1]

\* The hashes AddLeaf pushes above leaf leafIdx: one for each position after
\* the leaf that is not a leaf itself.  up[i] is the i-th of them.
AddLeaf(nodes, leafIdx, data) ==
    LET pos == LeafPosition(leafIdx)
        last == CHOOSE k \in 0..leafIdx : IsLeaf(pos + k + 1) /\ \A j \in 1..k : ~IsLeaf(pos + j)
        up[i \in 0..last] ==
            IF i = 0 THEN LeafHash(pos, data)
            ELSE CalcParentHash(pos + i, GetHash(nodes, GetLeftChild(pos + i, CalculateHeight(pos + i))),
                                up[i - 1])
    IN  nodes \o [i \in 1..last + 1 |-> up[i - 1]]

\* The given peaks bagged from the right, the loop of IMMR::Root.
Bag(nodes, num_nodes, peaks) ==
    FoldLeft(LAMBDA hash, peak : IF hash = <<>> THEN GetHash(nodes, peak)
                                 ELSE CalcParentHash(num_nodes, GetHash(nodes, peak), hash),
             <<>>, Reverse(peaks))

Root(nodes, numLeaves) ==
    LET num_nodes == LeafPosition(numLeaves) IN
    Bag(nodes, num_nodes, CalcPeakIndices(num_nodes))
=============================================================================
