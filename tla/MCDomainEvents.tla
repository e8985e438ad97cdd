--------------------------- MODULE MCDomainEvents ---------------------------
(* Instances of DomainEvents for TLC. *)
EXTENDS DomainEvents, TLC

Symmetry == Permutations(Txs) \cup Permutations(Keys)
=============================================================================
