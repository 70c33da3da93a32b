------------------------------ MODULE UtxoView ------------------------------
(***************************************************************************)
(* What a stack of coins views promises to validation.cpp, without caches, *)
(* flags or fetches: three UTXO maps, the one on disk, the one at the tip  *)
(* and the one a block is being applied to, and whole-map copies between   *)
(* neighbours.                                                             *)
(***************************************************************************)
CONSTANTS OutPoints, Coins, Spent

VARIABLES disk, utxo, work

vars == <<disk, utxo, work>>

Maps == [OutPoints -> Coins \cup {Spent}]

Init == disk \in Maps /\ utxo = disk /\ work = disk

\* A coin is added to, or spent from, the working map.
Set(o, c) == work' = [work EXCEPT ![o] = c] /\ UNCHANGED <<disk, utxo>>

\* The working map becomes the tip's map, or is thrown away.
Commit == utxo' = work /\ UNCHANGED <<disk, work>>

Discard == work' = utxo /\ UNCHANGED <<disk, utxo>>

\* The tip's map becomes the map on disk.
Persist == disk' = utxo /\ UNCHANGED <<utxo, work>>

Next ==
    \/ \E o \in OutPoints, c \in Coins \cup {Spent} : Set(o, c)
    \/ Commit
    \/ Discard
    \/ Persist

Spec == Init /\ [][Next]_vars
=============================================================================
