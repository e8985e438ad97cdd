--------------------------- MODULE MCAgentActions ---------------------------
(* Instances of AgentActions for TLC. *)
EXTENDS AgentActions, TLC

Symmetry == Permutations(Requests)
=============================================================================
