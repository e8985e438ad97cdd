--------------------------- MODULE MCDialogSession ---------------------------
(* Instances of DialogSession for TLC. *)
EXTENDS DialogSession, TLC

Symmetry == Permutations(Requests) \cup Permutations(Orders)
=============================================================================
