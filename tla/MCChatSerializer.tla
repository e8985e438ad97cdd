-------------------------- MODULE MCChatSerializer --------------------------
(* Small instances of ChatSerializer for TLC. *)
EXTENDS ChatSerializer, TLC

\* Jobs and messages are interchangeable.  Only for runs without liveness.
Symmetry == Permutations(Jobs) \cup Permutations(Messages)
=============================================================================
