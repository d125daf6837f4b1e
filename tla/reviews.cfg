\* One booking and its vendor, two customers, a device that changes hands; two requests at
\* a time, five in all.
SPECIFICATION Spec
CONSTANTS
  Booking = {b1}
  Req = {r1, r2}
  Vendor = v1
  Customer = {c1, c2}
  Device = {d1}
  MaxCalls = 5
  None = None
SYMMETRY Symmetry
CHECK_DEADLOCK FALSE
INVARIANTS
  OneReviewAfterCompletion
  RepliedOnceUnlessTogether
  PushedOnceToItsUsers
  MissedOnlyIfMoved
