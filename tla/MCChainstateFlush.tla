------------------------- MODULE MCChainstateFlush -------------------------
(***************************************************************************)
(* Two branches over a common block P.  The transaction that spends p and  *)
(* makes t is in A1 on one branch and in B2 on the other, so that its coin *)
(* has two heights; B2 spends it again in the same block, A2 in the next.  *)
(***************************************************************************)
EXTENDS ChainstateFlush
CONSTANTS G, P, A1, A2, B1, B2, p, t, u, c

MCBlocks == {G, P, A1, A2, B1, B2}
MCOutPoints == {p, t, u, c}
MCParent == [b \in MCBlocks |->
    CASE b = G -> None [] b = P -> G [] b \in {A1, B1} -> P [] b = A2 -> A1 [] b = B2 -> B1]

Coinbase(outs) == [ins |-> {}, outs |-> outs]
TxT == [ins |-> {p}, outs |-> {t}]
TxU == [ins |-> {t}, outs |-> {u}]

MCTxs == [b \in MCBlocks |->
    CASE b = G -> <<>>
      [] b = P -> <<Coinbase({p})>>
      [] b = A1 -> <<Coinbase({}), TxT>>
      [] b = A2 -> <<Coinbase({}), TxU>>
      [] b = B1 -> <<Coinbase({c})>>
      [] b = B2 -> <<Coinbase({}), TxT, TxU>>]
MCNone == {}
MCHasMweb == MCBlocks \ {G}
=============================================================================
