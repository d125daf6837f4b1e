------------------------------ MODULE MCSeats ------------------------------
(***************************************************************************)
(* A small instance of Seats for TLC.                                      *)
(***************************************************************************)
EXTENDS Seats, TLC

CONSTANTS v1, v2, m1, b1, b2

Offer(v, p, d) == [vendor |-> v, price |-> p, dur |-> d, active |-> TRUE]
\* A vendor with a short and a long service, and one further away with a short one.
TwoVendors == <<Offer(v1, 2, 1), Offer(v1, 2, 2), Offer(v2, 4, 1)>>

Chair(n, s) == [vendor |-> v1, capacity |-> n, only |-> s, staff |-> None, active |-> TRUE]
\* No seat, one for both services, one with two places, one for the short service only.
SomeSeats == {<<>>, <<Chair(1, {})>>, <<Chair(2, {})>>, <<Chair(1, {1})>>}

\* A length, a price that rounds up with a length for a new service, one that is too long,
\* a service that is switched off.
Offers == {[dur |-> 1], [price |-> 3, dur |-> 1], [price |-> 3, dur |-> 3], [active |-> FALSE]}

\* A seat of the short service only or with two places, of the member, gone.
Chairs == {[only |-> {1}], [capacity |-> 2], [staff |-> m1],
           [active |-> FALSE]}

\* Nobody, or one who has the short or the long service, on no seat.
Placement(s, e) == [service |-> s, start |-> 0, end |-> e, seat |-> None, staff |-> None,
                    price |-> 2, active |-> TRUE, shown |-> TRUE, fits |-> TRUE]
SomeBookings == {[b \in Booking |-> None]}
                  \cup {[b \in Booking |-> IF b = b1 THEN Placement(s, s) ELSE None] : s \in {1, 2}}

Symmetry == Permutations(Req)
Near == [v \in Vendor |-> IF v = v1 THEN 1 ELSE 2]
Reach == [v \in Vendor |-> IF v = v1 THEN 0 ELSE 2]
=============================================================================
