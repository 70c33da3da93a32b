----------------------------- MODULE CheckRounds -----------------------------
(***************************************************************************)
(* What a CCheckQueueControl promises its owner: one owner at a time adds  *)
(* checks, then learns whether all of them pass, whatever threads evaluate *)
(* them, and learns it eventually.                                         *)
(***************************************************************************)
CONSTANTS Masters,  \* the threads that own a control, one after the other
          None      \* no owner; no verdict yet

VARIABLES owner,    \* the thread whose control exists
          failing,  \* some check added in this round does not pass
          verdict   \* what Wait returned in this round

vars == <<owner, failing, verdict>>

Init == owner = None /\ failing = FALSE /\ verdict = None

Begin(m) == owner = None /\ owner' = m /\ failing' = FALSE /\ verdict' = None

Add == /\ owner # None /\ verdict = None
       /\ failing' \in {failing, TRUE}
       /\ UNCHANGED <<owner, verdict>>

Finish == /\ owner # None /\ verdict = None
          /\ verdict' = ~failing
          /\ UNCHANGED <<owner, failing>>

End == owner # None /\ verdict # None /\ owner' = None /\ UNCHANGED <<failing, verdict>>

Next == (\E m \in Masters : Begin(m)) \/ Add \/ Finish \/ End

Spec == Init /\ [][Next]_vars /\ WF_vars(Finish) /\ WF_vars(End)
==============================================================================
