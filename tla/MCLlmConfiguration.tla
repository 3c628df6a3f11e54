------------------------- MODULE MCLlmConfiguration -------------------------
(* LlmConfiguration with the one choice of a settings file that matters    *)
(* here, the endpoint of the LLM.                                          *)
EXTENDS LlmConfiguration, TLC

MCValues == [llm : Endpoints \cup {None}]
MCDefault == [llm |-> None]
Symmetry == Permutations(Endpoints)
=============================================================================
