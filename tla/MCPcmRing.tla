------------------------------ MODULE MCPcmRing ------------------------------
(* PcmRing with the sizes that MCPcmRing.cfg gives. *)
EXTENDS PcmRing
=============================================================================
