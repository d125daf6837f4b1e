\* Two customers, two times, reminder runs of one or two units ahead, two requests at a
\* time, three in all beside the creation.
SPECIFICATION Spec
CONSTANTS
  Customer = {c1, c2}
  Req = {r1, r2}
  Start = {2, 3}
  Notice = 1
  Aheads = {1, 2}
  MaxNow = 2
  MaxCalls = 3
  None = None
SYMMETRY Symmetry
CHECK_DEADLOCK FALSE
INVARIANTS
  CalendarsSettle
  ClaimedOnceUnlessTogether
  RemindedOnceUnlessTogether
