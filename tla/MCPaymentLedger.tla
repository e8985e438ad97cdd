-------------------------- MODULE MCPaymentLedger --------------------------
(* Small instances of PaymentLedger for TLC. *)
EXTENDS PaymentLedger, TLC

\* Requests and payment ids are interchangeable.
Symmetry == Permutations(Requests) \cup Permutations(Payments)
=============================================================================
