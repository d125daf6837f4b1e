\* One gift card, two bookings, three requests in progress, four in all; no seats.  The
\* first booking leaves a unit on the card, which then covers half of a deposit.
SPECIFICATION Spec
CONSTANTS
  Booking = {b1, b2}
  Card = {c1}
  Req = {r1, r2, r3}
  Slot = {1}
  Seat = {}
  Capacity = 1
  Price = 3
  Deposit = 2
  CardValue = 4
  PaidCards = {c1}
  SeatsAtStart = {}
  Notice = 0
  MaxNow = 0
  MaxCalls = 4
  Nobody = Nobody
  NoCard = NoCard
  NoSeat = NoSeat
SYMMETRY Symmetry
CHECK_DEADLOCK FALSE
PROPERTIES
  DeskImplemented
INVARIANTS
  TypeOK
  ConfirmedOnlyAfterPayment
  BookingMoneyAddsUp
  CardStatusMatchesBalance
  RefundAtMostOnce
  UnrefundedOnlyByFailedPayment
  NoDeadlock
