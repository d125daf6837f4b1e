\* Two days; three requests, of which two replace the weekly schedule at a time and two
\* overrides of any type can be there, in any order.
SPECIFICATION Spec
CONSTANTS
  Week = 2
  Days = 2
  DayLength = 6
  Duration = 2
  Buffer = 1
  MaxOverride = 8
  Req = {r1, r2}
  Override = {o1, o2}
  Schedules <- WeekSchedules
  Spans <- SomeSpans
  MaxCalls = 3
  None = None
SYMMETRY Symmetry
CHECK_DEADLOCK FALSE
INVARIANTS
  OpenAsMeant
  BufferMissedOnlyAtSeams
  OverlapOnlyByExtension
  ScheduleFromOneUpdate
