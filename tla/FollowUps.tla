----------------------------- MODULE FollowUps -----------------------------
(***************************************************************************)
(* What follows a change of a booking: the calendar entries of the vendor  *)
(* and of the customer (CalendarService), the reminders                    *)
(* (BookingRemindersService), and the customers who claim bookings made    *)
(* without an account.  A handler reads the booking, commits its change,   *)
(* and only then, outside the transaction, writes the calendar entries,    *)
(* from the row that its UPDATE returned or from one that it reads anew.   *)
(* How the changes themselves are decided is the subject of Bookings; here *)
(* each is its status check and its UPDATE.  Bookings are independent of   *)
(* each other: there is one.                                               *)
(***************************************************************************)
EXTENDS Integers, FiniteSets

CONSTANTS
  Customer,    \* customer users
  Req,         \* requests in progress
  Start,       \* times that the booking can be moved to
  Notice,      \* MIN_MODIFICATION_NOTICE_HOURS, in units of time
  Aheads,      \* the windows that a reminder run is asked for, hoursAhead
  MaxNow, MaxCalls, \* bounds: the clock, requests started
  None

Owner == {"VENDOR", "CUSTOMER"}
Status == {"AWAITING_PAYMENT", "CONFIRMED", "CANCELLED", "COMPLETED", "NO_SHOW"}
Row == [status : Status, start : Start, customer : Customer \cup {None}]

\* The handlers that change a booking, and the other stages that a request can be at.
Ops == {"cancel", "reschedule", "complete", "noshow", "paid", "charged", "failed"}
Stages == Ops \cup {"create", "sync", "claim", "reread", "remind"}
Task == [op : Stages, row : Row, to : Start \cup Customer \cup {None}, todo : SUBSET Owner,
         alone : BOOLEAN, begun : Nat]

ASSUME FollowUpsAssumption ==
  /\ {Notice, MaxNow, MaxCalls} \subseteq Nat
  /\ Start \subseteq Nat /\ Aheads \subseteq Nat
  /\ None \notin Customer \cup Row \cup Task

VARIABLES
  booking,     \* Booking: status, start, customer; or None before it is created
  reminded,    \* reminderSentAt is set
  entry,       \* BookingCalendarEntry of each owner, or None
  now, task, calls,
  \* history:
  notices,     \* reminders sent: for which start, and between which requests
  claims,      \* claims that took the booking
  left         \* how the calendars were left: "settled" by a request on its own,
               \* "overlapped", or "stopped" short of them

dbVars == <<booking, reminded, entry>>
histVars == <<notices, claims, left>>
vars == <<dbVars, now, task, calls, histVars>>

Busy == {r \in Req : task[r] # None}
Doing(r, op) == task[r] # None /\ task[r].op = op

\* A request begins; it is alone until another one is in progress beside it.
Begin(r, t) ==
  /\ task[r] = None /\ calls < MaxCalls
  /\ calls' = calls + 1
  /\ task' = [q \in Req |->
       IF q = r THEN [op |-> t.op, row |-> t.row, to |-> t.to, todo |-> {},
                      alone |-> Busy = {}, begun |-> calls + 1]
       ELSE IF task[q] = None THEN None ELSE [task[q] EXCEPT !.alone = FALSE]]
  /\ UNCHANGED now

End(r) == task' = [task EXCEPT ![r] = None] /\ UNCHANGED <<now, calls>>

-----------------------------------------------------------------------------
(***************************************************************************)
(* Changes of the booking.                                                 *)
(***************************************************************************)

\* The statuses in which each handler goes on; the webhook in all of them.
Accepts(op, row) ==
  CASE op = "cancel" -> row.status # "CANCELLED" /\ row.start - now >= Notice
    [] op = "reschedule" -> /\ row.status \in {"CONFIRMED", "AWAITING_PAYMENT"}
                            /\ row.start - now >= Notice
    [] op \in {"complete", "noshow"} -> row.status = "CONFIRMED"
    [] op = "paid" -> row.status = "AWAITING_PAYMENT"
    [] op \in {"charged", "failed"} -> TRUE

\* The fields that each UPDATE sets.
After(op, to, row) ==
  CASE op = "cancel" -> [row EXCEPT !.status = "CANCELLED"]
    [] op = "reschedule" -> [row EXCEPT !.start = to]
    [] op = "complete" -> [row EXCEPT !.status = "COMPLETED"]
    [] op = "noshow" -> [row EXCEPT !.status = "NO_SHOW"]
    [] op \in {"paid", "charged"} -> [row EXCEPT !.status = "CONFIRMED"]
    [] op = "failed" -> [row EXCEPT !.status = "CANCELLED"]

\* The row that an UPDATE returns is what the calendars are written from.
Updated(r, row) ==
  /\ booking' = row
  /\ task' = [task EXCEPT ![r].row = row, ![r].op = "sync", ![r].todo = Owner]
  /\ UNCHANGED <<now, calls>>

Create(r, start, customer, status) ==
  /\ booking = None /\ start > now
  /\ Begin(r, [op |-> "create", to |-> None,
               row |-> [status |-> status, start |-> start, customer |-> customer]])
  /\ UNCHANGED <<dbVars, histVars>>

CreateCommit(r) ==
  /\ Doing(r, "create") /\ booking = None
  /\ booking' = task[r].row
  /\ task' = [task EXCEPT ![r].op = "reread"]
  /\ UNCHANGED <<reminded, entry, now, calls, notices, claims, left>>

\* A created or claimed booking is read again, and handed on as it then is.
Reread(r) ==
  /\ Doing(r, "reread")
  /\ task' = [task EXCEPT ![r].op = "sync", ![r].row = booking, ![r].todo = Owner]
  /\ UNCHANGED <<dbVars, now, calls, histVars>>

Decide(r, op, to) ==
  /\ booking # None /\ Accepts(op, booking)
  /\ op = "reschedule" => to > now
  /\ Begin(r, [op |-> op, to |-> to, row |-> booking])
  /\ UNCHANGED <<dbVars, histVars>>

\* A failed payment releases only a booking that was read awaiting it; any other it
\* hands on as it was read.
Change(r) ==
  /\ task[r] # None /\ task[r].op \in Ops
  /\ IF task[r].op = "failed" /\ task[r].row.status # "AWAITING_PAYMENT"
       THEN /\ task' = [task EXCEPT ![r].op = "sync", ![r].todo = Owner]
            /\ UNCHANGED <<booking, now, calls>>
       ELSE Updated(r, After(task[r].op, task[r].to, booking))
  /\ UNCHANGED <<reminded, entry, notices, claims, left>>

-----------------------------------------------------------------------------
(***************************************************************************)
(* The calendars.                                                          *)
(***************************************************************************)

\* buildEntryPayload; the customer's entry goes when the row has no customer.
EntryOf(owner, row) ==
  IF owner = "CUSTOMER" /\ row.customer = None THEN None
  ELSE [status |-> row.status, start |-> row.start,
        customer |-> IF owner = "VENDOR" THEN None ELSE row.customer]

\* Faulty variant: an update leaves the time of the entry as it is.
WrittenKeepingStart(owner, row) ==
  LET new == EntryOf(owner, row)
  IN IF None \in {new, entry[owner]} THEN new ELSE [new EXCEPT !.start = entry[owner].start]

\* What an upsert leaves: its update and create branches set the same fields.
Written(owner, row) == EntryOf(owner, row)

\* One of the two upserts of syncEntriesForBooking, which run side by side.
Sync(r, owner) ==
  /\ Doing(r, "sync") /\ owner \in task[r].todo
  /\ entry' = [entry EXCEPT ![owner] = Written(owner, task[r].row)]
  /\ task' = [task EXCEPT ![r].todo = @ \ {owner}]
  /\ UNCHANGED <<booking, reminded, now, calls, histVars>>

Answer(r) ==
  /\ Doing(r, "sync") /\ task[r].todo = {}
  /\ left' = IF task[r].alone THEN "settled"
             ELSE IF left = "stopped" THEN "stopped" ELSE "overlapped"
  /\ End(r)
  /\ UNCHANGED <<dbVars, notices, claims>>

\* A refusal, a failing upsert or a process that stops: what is committed stays.
Stop(r) ==
  /\ task[r] # None
  /\ left' = IF task[r].op \in {"sync", "reread"} THEN "stopped" ELSE left
  /\ End(r)
  /\ UNCHANGED <<dbVars, notices, claims>>

-----------------------------------------------------------------------------
(***************************************************************************)
(* Claims and reminders.                                                   *)
(***************************************************************************)

\* Faulty variant: bookings that have a customer are found, too.
ClaimableAlways(row) == TRUE

Claimable(row) == row.customer = None

ClaimRead(r, c) ==
  /\ booking # None /\ Claimable(booking)
  /\ Begin(r, [op |-> "claim", to |-> c, row |-> booking])
  /\ UNCHANGED <<dbVars, histVars>>

\* updateMany by id; Reread comes next.
ClaimCommit(r) ==
  /\ Doing(r, "claim")
  /\ booking' = [booking EXCEPT !.customer = task[r].to]
  /\ claims' = claims \cup {[customer |-> task[r].to, begun |-> task[r].begun, ended |-> calls]}
  /\ task' = [task EXCEPT ![r].op = "reread"]
  /\ UNCHANGED <<reminded, entry, now, calls, notices, left>>

\* Faulty variant: bookings that were reminded of are found, too.
DueAlways(row, ahead) == row.status = "CONFIRMED" /\ row.start \in now .. now + ahead

Due(row, ahead) ==
  row.status = "CONFIRMED" /\ ~reminded /\ row.start \in now .. now + ahead

RemindRead(r, ahead) ==
  /\ booking # None /\ Due(booking, ahead)
  /\ Begin(r, [op |-> "remind", to |-> None, row |-> booking])
  /\ UNCHANGED <<dbVars, histVars>>

\* The UPDATE sets reminderSentAt; the reminder is for the row that it returns.
RemindCommit(r) ==
  /\ Doing(r, "remind")
  /\ reminded' = TRUE
  /\ notices' = notices \cup
       {[start |-> booking.start, begun |-> task[r].begun, ended |-> calls]}
  /\ End(r)
  /\ UNCHANGED <<booking, entry, claims, left>>

Tick ==
  /\ now < MaxNow
  /\ now' = now + 1
  /\ UNCHANGED <<dbVars, task, calls, histVars>>

\* There is no booking yet, or one that has been created and is in the calendars.
Init ==
  /\ \/ booking = None /\ entry = [o \in Owner |-> None]
     \/ /\ booking \in {row \in Row : row.status \in {"AWAITING_PAYMENT", "CONFIRMED"}}
        /\ entry = [o \in Owner |-> EntryOf(o, booking)]
  /\ reminded = FALSE /\ now = 0 /\ task = [r \in Req |-> None] /\ calls = 0
  /\ notices = {} /\ claims = {} /\ left = "settled"

Next ==
  \/ \E r \in Req :
       \/ \E start \in Start, c \in Customer \cup {None}, s \in {"AWAITING_PAYMENT", "CONFIRMED"} :
            Create(r, start, c, s)
       \/ \E op \in Ops \ {"reschedule"} : Decide(r, op, None)
       \/ \E to \in Start : Decide(r, "reschedule", to)
       \/ \E c \in Customer : ClaimRead(r, c)
       \/ \E ahead \in Aheads : RemindRead(r, ahead)
       \/ \E owner \in Owner : Sync(r, owner)
       \/ CreateCommit(r) \/ Change(r) \/ Reread(r) \/ Answer(r) \/ Stop(r)
       \/ ClaimCommit(r) \/ RemindCommit(r)
  \/ Tick

Spec == Init /\ [][Next]_vars

-----------------------------------------------------------------------------
(***************************************************************************)
(* Properties.                                                             *)
(***************************************************************************)

Together(x, y) == x.begun <= y.ended /\ y.begun <= x.ended

\* When the last change was made by a request on its own, to its end, both calendars
\* show the booking as it is, whatever had happened before.
CalendarsSettle ==
  left = "settled" /\ Busy = {} /\ booking # None =>
    \A o \in Owner : entry[o] = EntryOf(o, booking)

\* A booking goes from one customer to another only when both claimed it at once.
ClaimedOnceUnlessTogether ==
  \A x, y \in claims : x.customer # y.customer => Together(x, y)

\* A second reminder is sent only by a run that overlapped the first.
RemindedOnceUnlessTogether ==
  \A x, y \in notices : x # y => Together(x, y)
=============================================================================
