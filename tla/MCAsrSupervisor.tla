--------------------------- MODULE MCAsrSupervisor ---------------------------
(* Two transcriptions of which one has a deadline, and every other command. *)
EXTENDS AsrSupervisor
=============================================================================
