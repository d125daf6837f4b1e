\* Two products whose prices change and may be nothing, with and without a delivery fee;
\* two requests at a time, four in all.
SPECIFICATION Spec
CONSTANTS
  Product = {p1, p2}
  Order = {o1, o2}
  Req = {r1, r2}
  Price = {0, 3}
  Fee = {0, 1}
  Quantity = {2}
  MaxCalls = 4
  None = None
SYMMETRY Symmetry
CHECK_DEADLOCK FALSE
INVARIANTS
  ItemsAddUpToCharge
  OrderFollowsIntent
  PaidCancelledOnlyTogether
