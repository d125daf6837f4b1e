\* Two vendors with three services and up to one more; two requests, two bookings; a day
\* of two units.
SPECIFICATION Spec
CONSTANTS
  v1 = v1
  v2 = v2
  m1 = m1
  b1 = b1
  b2 = b2
  Vendor = {v1, v2}
  Staff = {m1}
  FirstServices <- TwoVendors
  FirstSeats <- SomeSeats
  ServiceInputs <- Offers
  SeatInputs <- Chairs
  MaxServices = 4
  MaxSeats = 2
  MaxDuration = 2
  Markups = {9000}
  Distance <- Near
  ServiceRadius <- Reach
  Radius = 2
  ScanLimit = 2
  ShowLimit = 1
  MaxCalls = 3
  None = None
  Booking = {b1, b2}
  Req = {r1, r2}
  Day = 2
  FirstBookings <- SomeBookings
SYMMETRY Symmetry
CHECK_DEADLOCK FALSE
INVARIANTS
  CrowdedOnlyUnchecked
  ListedAsBookable
  ChargedWasShown
  BookedForASlot
  NearbyMissesOnlyCut
  VendorsApart
