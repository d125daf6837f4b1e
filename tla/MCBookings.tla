----------------------------- MODULE MCBookings -----------------------------
(***************************************************************************)
(* Small instances of BookingsProperties for TLC.                          *)
(***************************************************************************)
EXTENDS BookingsProperties, TLC

\* Requests and bookings are interchangeable names; gift cards are too as long as
\* PaidCards holds all of them or none.
Symmetry == Permutations(Req) \cup Permutations(Booking)
=============================================================================
