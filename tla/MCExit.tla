------------------------------- MODULE MCExit -------------------------------
(* One session, and two callers of quit that may ask again after a failure. *)
EXTENDS Exit
=============================================================================
