--------------------------- MODULE MCOrchestrator ---------------------------
(* Two session ids: the second start meets every state the first left. *)
EXTENDS Orchestrator
=============================================================================
