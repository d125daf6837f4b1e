\* Liveness, so no symmetry.  Two bookings, two slots and a seat that comes and goes; two
\* requests in progress, three in all, and a gift card that is bought in the run.
SPECIFICATION FairSpec
CONSTANTS
  Booking = {b1, b2}
  Card = {c1}
  Req = {r1, r2}
  Slot = {1, 2}
  Seat = {s1}
  Capacity = 1
  Price = 3
  Deposit = 1
  CardValue = 2
  PaidCards = {}
  SeatsAtStart = {}
  Notice = 1
  MaxNow = 1
  MaxCalls = 3
  Nobody = Nobody
  NoCard = NoCard
  NoSeat = NoSeat
CHECK_DEADLOCK FALSE
INVARIANTS
  OverbookedOnlyUnchecked
  OnlyPaidCardsSpent
PROPERTIES
  RequestsEnd
