----------------------------- MODULE MCMempool -----------------------------
(***************************************************************************)
(* Ten transactions: A, its child B, and D that conflicts with A; a        *)
(* coinbase K; a peg-in P with three transparent outputs, which C (with    *)
(* outputs of A and B: a diamond), E, and U (with the coinbase's) spend;   *)
(* and Q and R that both spend the peg-in's extension block output.  R     *)
(* spends A's input besides.                                               *)
(***************************************************************************)
EXTENDS Mempool

CONSTANTS tA, tB, tC, tD, tE, tK, tP, tQ, tR, tU

MCCoins == {"g1", "g2", "a1", "a2", "b1", "k0", "p1", "p2", "p3", "m1"}

MCGenesis == {"g1", "g2"}

Plain(vin, vout, fee) ==
  [vin |-> vin, vout |-> vout, mwin |-> {}, mwout |-> {}, kernel |-> FALSE, generated |-> FALSE,
   standard |-> TRUE, signals |-> TRUE, fee |-> fee, lock |-> 0]

MCTx ==
  (tA :> Plain({"g1"}, {"a1", "a2"}, 2)) @@
  (tB :> Plain({"a1"}, {"b1"}, 0)) @@
  (tC :> [Plain({"a2", "b1", "p2"}, {}, 2) EXCEPT !.lock = 2]) @@
  (tD :> Plain({"g1"}, {}, 5)) @@
  (tE :> Plain({"p3"}, {}, 1)) @@
  (tK :> [Plain({}, {"k0"}, 0) EXCEPT !.generated = TRUE]) @@
  (tP :> [Plain({"g2"}, {"p1", "p2", "p3"}, 2) EXCEPT !.mwout = {"m1"}, !.kernel = TRUE, !.signals = FALSE]) @@
  (tQ :> [Plain({}, {}, 1) EXCEPT !.mwin = {"m1"}, !.kernel = TRUE]) @@
  (tR :> [Plain({"g1"}, {}, 6) EXCEPT !.mwin = {"m1"}, !.kernel = TRUE]) @@
  (tU :> Plain({"p1", "k0"}, {}, 1))

Body(vtx, kernels) == [vtx |-> vtx, kernels |-> kernels]

MCBodies == {Body(<<>>, {}), Body(<<tK, tA, tB>>, {}), Body(<<tA>>, {}),
             Body(<<tP, tB, tC>>, {tP}), Body(<<tK, tP>>, {tP, tQ}), Body(<<tP, tR>>, {tP, tR})}

=============================================================================
