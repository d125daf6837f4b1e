------------------------------- MODULE Slots -------------------------------
(***************************************************************************)
(* A vendor's opening hours, the overrides of single dates, and the slots  *)
(* of one service that are generated from them (ServicesService).  Time is *)
(* counted in units from the start of the range that a client asks for.    *)
(* The weekly schedule is replaced by a transaction of two statements,     *)
(* deleteMany and createMany, which another replacement can overlap; every *)
(* other operation is a single statement.                                  *)
(***************************************************************************)
EXTENDS Services, Integers, FiniteSets, SequencesExt

CONSTANTS
  Week,       \* days of the week, 7 in the code
  Days,       \* days in the range asked for
  DayLength,  \* units in a day
  Duration, Buffer, \* of the service, in units
  MaxOverride, \* longest override, 7 days in the code
  Override,   \* identities an override can get
  Schedules,  \* the weekly schedules that are asked for: sets of windows
  Spans       \* the spans of time that overrides are asked for

ASSUME SlotsAssumption ==
  /\ {Week, Days, DayLength, Duration, MaxOverride} \subseteq Nat \ {0}
  /\ Buffer \in Nat /\ MaxCalls \in Nat
  /\ Schedules \subseteq SUBSET [day : 0 .. Week - 1, start : 0 .. DayLength, end : 0 .. DayLength]
  /\ Spans \subseteq [start : Int, end : Int]

VARIABLES
  weekly,     \* WeeklyAvailability: rows, each with the update that wrote it
  overrides,  \* AvailabilityOverride: a span and a type, or None
  pc, asked, seen, doomed, \* a replacement: its stage, windows, snapshot and locked rows
  together    \* history: pairs of updates that were in progress at the same time

tableVars == <<weekly, overrides>>
replaceVars == <<pc, asked, seen, doomed, together>>
vars == <<tableVars, replaceVars, calls>>

Overlap(x, y) == x.start < y.end /\ y.start < x.end

-----------------------------------------------------------------------------
(***************************************************************************)
(* From opening hours to slots.  A window carries what it comes from: a    *)
(* row of the weekly schedule or an override.                              *)
(***************************************************************************)

DayStart(d) == d * DayLength
DayEnd(d) == DayStart(d) + DayLength

\* windowToDateRange on the rows of the day.
BaseWindows(d) ==
  {[from |-> row, start |-> DayStart(d) + row.start, end |-> DayStart(d) + row.end] :
     row \in {x \in weekly : x.day = d % Week}}

\* The part of override o that lies in day d.
Clipped(o, d) ==
  LET x == overrides[o]
  IN [from |-> o, start |-> IF x.start > DayStart(d) THEN x.start ELSE DayStart(d),
                  end |-> IF x.end < DayEnd(d) THEN x.end ELSE DayEnd(d)]

\* Faulty variant: a block that starts where the window starts takes all of it.
SubtractAllAtStart(w, block) ==
  IF block.end <= w.start \/ block.start >= w.end THEN {w}
  ELSE IF block.start <= w.start THEN {}
  ELSE IF block.end >= w.end THEN {[w EXCEPT !.end = block.start]}
  ELSE {[w EXCEPT !.end = block.start], [w EXCEPT !.start = block.end]}

\* subtractWindow: what a block leaves of a window.
Subtract(w, block) ==
  IF block.end <= w.start \/ block.start >= w.end THEN {w}
  ELSE IF block.start <= w.start
    THEN IF block.end >= w.end THEN {} ELSE {[w EXCEPT !.start = block.end]}
  ELSE IF block.end >= w.end THEN {[w EXCEPT !.end = block.start]}
  ELSE {[w EXCEPT !.end = block.start], [w EXCEPT !.start = block.end]}

\* applyOverrides, with the overrides in the order in which the query returns them.
Overridden(d, order) ==
  LET apply(ws, o) ==
        LET c == Clipped(o, d)
        IN IF c.start >= c.end THEN ws
           ELSE IF overrides[o].type = "EXTEND" THEN ws \cup {c}
           ELSE UNION {Subtract(w, c) : w \in ws}
  IN FoldLeft(apply, BaseWindows(d), order)

\* Both queries for slots return at once when the vendor has no weekly windows at all.
WindowsOf(d, order) == IF weekly = {} THEN {} ELSE Overridden(d, order)

\* Faulty variant: slots follow one another without the buffer.
SlotsBackToBack(w) ==
  {[window |-> w, start |-> t, end |-> t + Duration] :
     t \in {u \in w.start .. (w.end - Duration) : (u - w.start) % Duration = 0}}

\* generateSlotsWithinWindows: slots one after the other, a buffer between them, for
\* as long as they fit in the window.
SlotsIn(w) ==
  {[window |-> w, start |-> t, end |-> t + Duration] :
     t \in {u \in w.start .. (w.end - Duration) : (u - w.start) % (Duration + Buffer) = 0}}

\* generateSlots, for one day of the range.
DaySlots(d, order) == UNION {SlotsIn(w) : w \in WindowsOf(d, order)}

-----------------------------------------------------------------------------
(***************************************************************************)
(* The vendor's operations.                                                *)
(***************************************************************************)

\* validateWeeklyWindows drops empty windows and refuses windows that overlap.
Kept(windows) == {w \in windows : w.start < w.end}

\* Faulty variant: only windows with the same start are refused.
ValidIfStartsDiffer(windows) ==
  \A x, y \in Kept(windows) : x # y /\ x.day = y.day => x.start # y.start
Valid(windows) ==
  \A x, y \in Kept(windows) : x # y /\ x.day = y.day => ~Overlap(x, y)

\* setWeeklyAvailability opens its transaction; its DELETE sees what is committed.
SetWeekly(r, windows) ==
  /\ pc[r] = "idle" /\ calls < MaxCalls
  /\ Valid(windows)
  /\ calls' = calls + 1
  /\ pc' = [pc EXCEPT ![r] = "delete"]
  /\ asked' = [asked EXCEPT ![r] = {[by |-> calls + 1, day |-> w.day, start |-> w.start,
                                     end |-> w.end] : w \in Kept(windows)}]
  /\ seen' = [seen EXCEPT ![r] = weekly]
  /\ together' = together \cup
       UNION {{<<calls + 1, x.by>>, <<x.by, calls + 1>>} :
                x \in UNION {asked[q] : q \in {p \in Req : pc[p] # "idle"}}}
  /\ UNCHANGED <<tableVars, doomed>>

\* Faulty variant: only the days that the new schedule names are replaced.
SeenOnNamedDays(r) ==
  {x \in seen[r] : \E w \in asked[r] : w.day = x.day}
Seen(r) == seen[r]

\* The DELETE waits for rows that another replacement has deleted; when that one
\* commits, they are gone, and the rows it has inserted are not seen.
DeleteRows(r) ==
  /\ pc[r] = "delete"
  /\ \A q \in Req \ {r} : doomed[q] \cap Seen(r) = {}
  /\ doomed' = [doomed EXCEPT ![r] = Seen(r) \cap weekly]
  /\ pc' = [pc EXCEPT ![r] = "insert"]
  /\ UNCHANGED <<tableVars, asked, seen, calls, together>>

Finished(r) ==
  /\ pc' = [pc EXCEPT ![r] = "idle"]
  /\ asked' = [asked EXCEPT ![r] = {}]
  /\ seen' = [seen EXCEPT ![r] = {}]
  /\ doomed' = [doomed EXCEPT ![r] = {}]
  /\ UNCHANGED <<calls, together>>

\* The INSERT and the commit.
CommitWeekly(r) ==
  /\ pc[r] = "insert"
  /\ weekly' = (weekly \ doomed[r]) \cup asked[r]
  /\ Finished(r)
  /\ UNCHANGED overrides

\* The connection is lost or the process stops: the transaction is rolled back.
AbortWeekly(r) ==
  /\ pc[r] # "idle"
  /\ Finished(r)
  /\ UNCHANGED tableVars

CreateOverride(o, span, type) ==
  /\ overrides[o] = None /\ calls < MaxCalls
  /\ span.start < span.end /\ span.end - span.start <= MaxOverride
  /\ overrides' = [overrides EXCEPT ![o] =
                     [start |-> span.start, end |-> span.end, type |-> type]]
  /\ calls' = calls + 1
  /\ UNCHANGED <<weekly, replaceVars>>

DeleteOverride(o) ==
  /\ overrides[o] # None /\ calls < MaxCalls
  /\ overrides' = [overrides EXCEPT ![o] = None]
  /\ calls' = calls + 1
  /\ UNCHANGED <<weekly, replaceVars>>

Init ==
  /\ weekly = {} /\ overrides = [o \in Override |-> None]
  /\ pc = [r \in Req |-> "idle"] /\ asked = [r \in Req |-> {}]
  /\ seen = [r \in Req |-> {}] /\ doomed = [r \in Req |-> {}]
  /\ calls = 0 /\ together = {}

Next ==
  \/ \E r \in Req : \/ \E windows \in Schedules : SetWeekly(r, windows)
                    \/ DeleteRows(r) \/ CommitWeekly(r) \/ AbortWeekly(r)
  \/ \E o \in Override : \/ \E span \in Spans, type \in {"EXTEND", "BLOCK"} :
                              CreateOverride(o, span, type)
                         \/ DeleteOverride(o)

Spec == Init /\ [][Next]_vars

-----------------------------------------------------------------------------
(***************************************************************************)
(* Properties.                                                             *)
(***************************************************************************)

\* The overrides come from a query without ORDER BY: any order.
Orders == SetToSeqs({o \in Override : overrides[o] # None})
Day == 0 .. Days - 1
Units(w) == w.start .. (w.end - 1)

\* What the vendor means: a unit of time is open as the last override that covers it
\* says, and as the weekly schedule says when none does.
MeantOpen(d, order) ==
  LET covering(u) == {i \in DOMAIN order : u \in Units(overrides[order[i]])}
  IN {u \in DayStart(d) .. DayEnd(d) - 1 :
        IF covering(u) = {} THEN \E w \in BaseWindows(d) : u \in Units(w)
        ELSE overrides[order[Max(covering(u))]].type = "EXTEND"}

\* Clipping, extending and cutting windows opens exactly the hours that are meant,
\* for overrides in any order, across midnight and across several windows; and nothing
\* at all for a vendor who has set no weekly hours, whatever the overrides are (although
\* docs/prd.md:150 has extended hours among the exceptions).
OpenAsMeant ==
  \A d \in Day, order \in Orders :
    UNION {Units(w) : w \in WindowsOf(d, order)} =
      IF weekly = {} THEN {} ELSE MeantOpen(d, order)

\* A slot that starts less than a buffer after another ends is of another window, which
\* starts less than a buffer after the first one's end: at a seam of two windows of the
\* schedule, an extension or a short block (docs/prd.md:151, "respects buffers between
\* services").
BufferMissedOnlyAtSeams ==
  \A d \in Day, order \in Orders : \A s, t \in DaySlots(d, order) :
    s # t /\ s.start <= t.start /\ t.start < s.end + Buffer =>
      s.window # t.window /\ t.window.start < s.window.end + Buffer

\* Two slots of a day overlap only where an EXTEND override was laid over open hours,
\* or where two replacements of the weekly schedule have both left their windows.
OverlapOnlyByExtension ==
  \A d \in Day, order \in Orders : \A s, t \in DaySlots(d, order) :
    s # t /\ Overlap(s, t) =>
      \/ s.window.from \in Override \/ t.window.from \in Override
      \/ s.window.from.by # t.window.from.by

\* A replacement leaves nothing of the schedule before it, unless the two overlapped.
ScheduleFromOneUpdate ==
  \A x, y \in weekly : x.by # y.by => <<x.by, y.by>> \in together
=============================================================================
