----------------------------- MODULE MCBookings -----------------------------
(* Instances of Bookings for TLC. *)
EXTENDS Bookings, TLC

Symmetry == Permutations(Bookings)
=============================================================================
