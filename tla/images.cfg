\* Three images of three allowed, two requests at a time, six in all.
SPECIFICATION ImagesSpec
CONSTANTS
  Image = {i1, i2, i3, i4, i5}
  Req = {r1, r2}
  MaxImages = 3
  Positions = {0}
  Existing = 3
  MaxCalls = 6
  None = None
SYMMETRY Symmetry
CHECK_DEADLOCK FALSE
INVARIANTS
  LimitMissedOnlyTogether
  NumberedUnlessDisturbed
