---------------------------- MODULE MCShiftFocus ----------------------------
(* Small instances of ShiftFocus for TLC. *)
EXTENDS ShiftFocus, TLC

\* Operators and requests are interchangeable; items are ordered.
Symmetry == Permutations(Operators) \cup Permutations(Requests)
=============================================================================
