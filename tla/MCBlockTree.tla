----------------------------- MODULE MCBlockTree -----------------------------
EXTENDS BlockTree
CONSTANTS G, A1, A2, B1, B2

\* Two branches on G of equal work.
MCOrder == <<G, A1, B2, B1, A2>>
MCParent == [b \in {G, A1, A2, B1, B2} |->
               CASE b = G -> None [] b \in {A1, B1} -> G [] b = A2 -> A1 [] b = B2 -> B1]

\* A long branch, G - A1 - A2 - B2, and a short one, G - B1, that has as much
\* work as its first two blocks.
MCLongParent == [MCParent EXCEPT ![B2] = A2]
MCLongProof == [b \in {G, A1, A2, B1, B2} |-> IF b = B1 THEN 2 ELSE 1]

MCProof == [b \in {G, A1, A2, B1, B2} |-> 1]
==============================================================================
