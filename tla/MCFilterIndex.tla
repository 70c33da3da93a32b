---------------------------- MODULE MCFilterIndex ----------------------------
EXTENDS FilterIndex
CONSTANTS G, A1, A2, B1

\* A branch of two blocks and one of one block.
MCParent == [b \in {G, A1, A2, B1} |->
               CASE b = G -> None [] b \in {A1, B1} -> G [] b = A2 -> A1]
==============================================================================
