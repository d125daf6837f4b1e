\* Two redemptions of one gift card that overlap.
SPECIFICATION Spec
CONSTANTS
  Booking = {b1, b2}
  Card = {c1}
  Req = {r1, r2}
  Slot = {1, 2}
  Seat = {}
  Capacity = 1
  Price = 3
  Deposit = 1
  CardValue = 2
  PaidCards = {c1}
  SeatsAtStart = {}
  Notice = 0
  MaxNow = 0
  MaxCalls = 2
  Nobody = Nobody
  NoCard = NoCard
  NoSeat = NoSeat

CHECK_DEADLOCK FALSE
INVARIANTS
  CardValueConserved
