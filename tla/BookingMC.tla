----------------------------- MODULE BookingMC -----------------------------
(* TLC instances of Booking. *)
EXTENDS Booking, Integers, TLC

\* Slots on a line; the buffers of one reach their neighbours.
MCClash == {<<s, t>> \in Slots \X Slots : s - t \in {0, 1, 0 - 1}}

Symmetry == Permutations(Bookings) \cup Permutations(Visitors) \cup Permutations(Sessions)
=============================================================================
