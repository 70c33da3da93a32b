---------------------------- MODULE MCTxRequest ----------------------------
(***************************************************************************)
(* Three peers: P1 is preferred and relays by wtxid, P2 and P3 do neither. *)
(* H1 is announced by all of them; H2, the txid of a parent of H1, in the  *)
(* name of P1 when it sends H1 as an orphan.                               *)
(***************************************************************************)
EXTENDS TxRequest

CONSTANTS P1, P2, P3, H1, H2

MCPeer == {P1, P2, P3}
MCTxHash == {H1, H2}
MCTxs == {<<H1, H1>>, <<H2, H2>>}
MCMissing == [tx \in MCTxs |-> IF tx[1] = H1 THEN {H2} ELSE {}]
MCAnnouncers == [h \in MCTxHash |-> IF h = H1 THEN MCPeer ELSE {}]
MCLowBits == [h \in MCTxHash |-> [p \in MCPeer |-> IF p = P3 THEN 1 ELSE 0]]
=============================================================================
