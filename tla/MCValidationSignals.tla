------------------------ MODULE MCValidationSignals ------------------------
(***************************************************************************)
(* Two threads of the scheduler, the import thread, one subscriber that    *)
(* comes and goes, two blocks and a shutdown.  With MaxPending = 0 the     *)
(* import thread waits for the queue whenever it finds an event in it.     *)
(***************************************************************************)
EXTENDS ValidationSignals
=============================================================================
