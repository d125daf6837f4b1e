-------------------------------- MODULE Seats --------------------------------
(***************************************************************************)
(* Who sits where: bookings of services of different lengths on seats of   *)
(* different capacity, the slots that are listed for a service, and the    *)
(* price that is charged, while vendors and admins change the catalogue.   *)
(* Module Bookings has the payments; here a booking holds its place or has *)
(* released it.  A day is open from 0 to Day and has no buffers: windows,  *)
(* overrides and buffers are the subject of Slots.                         *)
(***************************************************************************)
EXTENDS Catalogue

CONSTANTS
  Booking, \* identities a booking can get
  Req,     \* requests in progress
  Day,     \* the end of the day, in units of time
  FirstBookings \* bound: the bookings there may be at the start

BookingRow == [service : Nat, start : Nat, end : Nat, seat : Nat \cup {None},
               staff : Staff \cup {None}, price : Nat, active : BOOLEAN,
               shown : BOOLEAN, fits : BOOLEAN]

\* generateSlots: where the slots of a service of that length start.
Starts(dur) == {t \in 0 .. Day - 1 : t % dur = 0 /\ t + dur <= Day}

ASSUME SeatsAssumption ==
  /\ Day \in Nat \ {0} /\ IsFiniteSet(Booking) /\ None \notin BookingRow
  \* Bookings at the start are on no seat, each for a slot that no other one touches.
  /\ \A f \in FirstBookings :
       /\ f \in [Booking -> BookingRow \cup {None}]
       /\ \A b \in Booking : f[b] # None =>
            /\ f[b].service \in DOMAIN FirstServices /\ f[b].seat = None /\ f[b].staff = None
            /\ f[b].shown /\ f[b].start \in Starts(f[b].end - f[b].start)
            /\ \A c \in Booking \ {b} : f[c] # None =>
                 f[c].end <= f[b].start \/ f[b].end <= f[c].start

VARIABLES
  booking, \* Booking: service, start, end, seat, staff, price, active; None before.  History:
           \* the price was shown; the length of the service stood still during a move
  task,    \* requests in progress, with what they have read
  \* history:
  unchecked, \* bookings whose place was not checked against all that was committed
  stale,     \* requests whose check has become outdated
  widest     \* the largest capacity each seat has had

history == <<unchecked, stale, widest>>
deskVars == <<booking, task>>
vars == <<catalogueVars, calls, deskVars, history>>

-----------------------------------------------------------------------------
(***************************************************************************)
(* Occupancy, as the desk sees it and as it is listed.                     *)
(***************************************************************************)

Held == {b \in Booking : booking[b] # None /\ booking[b].active}
VendorOf(b) == services[booking[b].service].vendor

\* The bookings of v that overlap the time between from and to.
Overlapping(v, from, to) ==
  {b \in Held : VendorOf(b) = v /\ booking[b].start < to /\ booking[b].end > from}

\* Bookings among bs on seat k; None is no seat.
On(bs, k) == {b \in bs : booking[b].seat = k}

Room(bs, k) == Cardinality(On(bs, k)) < seats[k].capacity

\* resolveSeatAssignment and assertNoOverlap: the seats that a booking of s can get.
Places(s, from, to) ==
  LET bs == Overlapping(services[s].vendor, from, to)
  IN IF SeatsFor(s) = {} THEN IF bs = {} THEN {None} ELSE {}
     ELSE IF On(bs, None) # {} THEN {} ELSE {k \in SeatsFor(s) : Room(bs, k)}

\* The seat that the client has asked for or else the oldest with room.
Assigned(places, asked) ==
  IF asked # None THEN places \cap {asked}
  ELSE IF places = {None} THEN places ELSE {k \in places : \A j \in places : k <= j}

\* Faulty variant: a booking that ends when the slot starts is counted.
ListedRowsTouching(s, from, to) ==
  {b \in Held : booking[b].service = s /\ booking[b].start <= to /\ booking[b].end >= from}

\* buildSlotAvailability counts only bookings of the same service.
ListedRows(s, from, to) ==
  {b \in Held : booking[b].service = s /\ booking[b].start < to /\ booking[b].end > from}

\* The seats that a slot is listed with.
ListedSeats(s, from, to) ==
  LET bs == ListedRows(s, from, to)
  IN IF SeatsFor(s) = {} THEN IF On(bs, None) = {} THEN {None} ELSE {}
     ELSE {k \in SeatsFor(s) : Room(bs, k)}

-----------------------------------------------------------------------------
(***************************************************************************)
(* Requests.                                                               *)
(***************************************************************************)

Begin(r, t) ==
  /\ task[r] = None /\ Counted
  /\ task' = [task EXCEPT ![r] = t]
  /\ UNCHANGED <<catalogueVars, booking, history>>

At(r, op) == task[r] # None /\ task[r].op = op
GoOn(r, t) ==
  /\ task' = [task EXCEPT ![r] = t]
  /\ UNCHANGED <<catalogueVars, calls, booking, history>>
End(r) ==
  /\ task' = [task EXCEPT ![r] = None]
  /\ UNCHANGED <<catalogueVars, calls, widest>>

\* A refusal, a lost connection, a stopped process.
Stop(r) ==
  /\ task[r] # None
  /\ End(r) /\ stale' = stale \ {r}
  /\ UNCHANGED <<booking, unchecked>>

\* History.  The place from, to of vendor v is taken: checks in progress are outdated.
Taken(v, from, to) ==
  {q \in Req : /\ task[q] # None /\ task[q].op \in {"insert", "move"}
               /\ services[task[q].service].vendor = v
               /\ task[q].start < to /\ task[q].end > from}
Placed(r, b) ==
  /\ unchecked' = IF r \in stale THEN unchecked \cup {b} ELSE unchecked \ {b}
  /\ stale' = (stale \cup Taken(services[task[r].service].vendor,
                                task[r].start, task[r].end)) \ {r}

\* createBookingWithOptions: findServiceAndVendor.
CreateRead(r, s, t, asked) ==
  /\ services[s].active /\ services[s].vendor \in verified
  /\ Begin(r, [op |-> "list", service |-> s, start |-> t, end |-> t + services[s].dur,
               row |-> services[s], asked |-> asked, saw |-> {},
               shown |-> {Displayed(services[s].price, markup)}])

\* Faulty variant: the length of the slot is not compared with the service.
FitsStart(t, end, dur) == t \in Starts(dur)

\* The slot is found in the list, and its end is the one expected.
Fits(t, end, dur) == t \in Starts(dur) /\ t + dur = end

\* ensureSlotIsAvailable, which reads the service again, and the markup.  History: the
\* price was shown while the request ran, or cannot have been as both of its factors
\* changed between the reads.
CreateList(r) ==
  /\ At(r, "list")
  /\ services[task[r].service].active
  /\ Fits(task[r].start, task[r].end, services[task[r].service].dur)
  /\ LET price == Charged(task[r].row.price, markup)
     IN GoOn(r, [op |-> "seat", service |-> task[r].service, start |-> task[r].start,
                 end |-> task[r].end, asked |-> task[r].asked, price |-> price,
                 shown |-> price \in task[r].shown \/ {"price", "markup"} \subseteq task[r].saw])

\* The transaction: the choice of a seat.
CreateSeatCheck(r) ==
  /\ At(r, "seat")
  /\ LET t == task[r]
     IN \E k \in Assigned(Places(t.service, t.start, t.end), t.asked) :
          GoOn(r, [op |-> "insert", service |-> t.service, start |-> t.start,
                   end |-> t.end, seat |-> k, price |-> t.price, shown |-> t.shown,
                   staff |-> IF k = None THEN None ELSE seats[k].staff])

CreateCommit(r) ==
  /\ At(r, "insert")
  /\ \E b \in Booking :
       /\ booking[b] = None
       /\ LET t == task[r]
          IN booking' = [booking EXCEPT ![b] =
               [service |-> t.service, start |-> t.start, end |-> t.end, seat |-> t.seat,
                staff |-> t.staff, price |-> t.price, active |-> TRUE,
                shown |-> t.shown, fits |-> TRUE]]
       /\ Placed(r, b)
  /\ End(r)

\* rescheduleBooking reads the booking with its service.
MoveRead(r, b, t) ==
  /\ b \in Held
  /\ LET s == booking[b].service
     IN Begin(r, [op |-> "relist", booking |-> b, service |-> s, start |-> t,
                  end |-> t + services[s].dur, saw |-> {}, shown |-> {}])

MoveList(r) ==
  /\ At(r, "relist")
  /\ services[task[r].service].active
  /\ task[r].start \in Starts(services[task[r].service].dur)
  /\ GoOn(r, [op |-> "recheck", booking |-> task[r].booking, service |-> task[r].service,
              start |-> task[r].start, end |-> task[r].end, fits |-> ~ "dur" \in task[r].saw])

\* Faulty variant: only bookings on the same seat are in the way.
BlockersOnSeat(b, v, from, to) == On(Overlapping(v, from, to), booking[b].seat) \ {b}

\* assertNoOverlap without the booking itself, whatever its seat.
Blockers(b, v, from, to) == Overlapping(v, from, to) \ {b}

MoveCheck(r) ==
  /\ At(r, "recheck")
  /\ Blockers(task[r].booking, services[task[r].service].vendor,
              task[r].start, task[r].end) = {}
  /\ GoOn(r, [task[r] EXCEPT !.op = "move"])

MoveCommit(r) ==
  /\ At(r, "move")
  /\ LET b == task[r].booking
     IN /\ booking' = [booking EXCEPT ![b].start = task[r].start, ![b].end = task[r].end,
                                      ![b].fits = task[r].fits]
        /\ Placed(r, b)
  /\ End(r)

\* A cancellation, a failed payment, an appointment that is over.
Release(b) ==
  /\ b \in Held /\ Counted
  /\ booking' = [booking EXCEPT ![b].active = FALSE]
  /\ UNCHANGED <<catalogueVars, task, history>>

\* A late payment: no check at all.
Revive(b) ==
  /\ booking[b] # None /\ ~booking[b].active /\ Counted
  /\ booking' = [booking EXCEPT ![b].active = TRUE]
  /\ unchecked' = unchecked \cup {b}
  /\ stale' = stale \cup Taken(VendorOf(b), booking[b].start, booking[b].end)
  /\ UNCHANGED <<catalogueVars, task, widest>>

\* A change of the catalogue.  History: requests that have read a service note the prices
\* it is shown with and what changes before they have read all they need.
ChangeCatalogue ==
  /\ Change
  /\ task' = [r \in Req |->
       IF task[r] = None \/ ~ task[r].op \in {"list", "relist"} THEN task[r]
       ELSE LET s == task[r].service
            IN [task[r] EXCEPT
                  !.shown = @ \cup {Displayed(services'[s].price, markup')},
                  !.saw = @ \cup {f \in {"price", "dur"} : services'[s][f] # services[s][f]}
                            \cup (IF markup' # markup THEN {"markup"} ELSE {})]]
  /\ widest' = [k \in DOMAIN seats' |->
       Max({seats'[k].capacity, IF k \in DOMAIN widest THEN widest[k] ELSE 0})]
  /\ UNCHANGED <<booking, unchecked, stale>>

Init ==
  /\ CatalogueInit
  /\ booking \in FirstBookings
  /\ task = [r \in Req |-> None]
  /\ unchecked = {} /\ stale = {} /\ widest = [k \in DOMAIN seats |-> seats[k].capacity]

Next ==
  \/ ChangeCatalogue
  \/ \E r \in Req :
       \/ \E s \in Service, t \in 0 .. Day - 1, k \in Seat \cup {None} : CreateRead(r, s, t, k)
       \/ \E b \in Booking, t \in 0 .. Day - 1 : MoveRead(r, b, t)
       \/ CreateList(r) \/ CreateSeatCheck(r) \/ CreateCommit(r)
       \/ MoveList(r) \/ MoveCheck(r) \/ MoveCommit(r) \/ Stop(r)
  \/ \E b \in Booking : Release(b) \/ Revive(b)

Spec == Init /\ [][Next]_vars

-----------------------------------------------------------------------------
(***************************************************************************)
(* Properties.                                                             *)
(***************************************************************************)

\* The bookings of v at time t.
Present(v, t) == Overlapping(v, t, t + 1)

\* More bookings on a seat than it has ever had room for, or one without a seat that is
\* not alone.
Crowded(v, t) ==
  \/ \E k \in Seat : Cardinality(On(Present(v, t), k)) > widest[k]
  \/ On(Present(v, t), None) # {} /\ Cardinality(Present(v, t)) > 1

\* A seat takes more bookings than it has room for, or a booking without a seat shares
\* its time, only through a booking that took its place unchecked: checks that overlapped
\* or a late payment.  Lengths that change, seats that come and go or change what they
\* serve, and moves do not (docs/prd.md:151, "System prevents double-booking").
CrowdedOnlyUnchecked ==
  \A v \in Vendor, t \in 0 .. 2 * Day :
    Crowded(v, t) => Present(v, t) \cap unchecked # {}

\* All bookings of the slot are of service s and on a seat that now serves it, or on
\* none when none does.
OwnOnly(s, from, to) ==
  \A b \in Overlapping(services[s].vendor, from, to) :
    /\ booking[b].service = s
    /\ IF SeatsFor(s) = {} THEN booking[b].seat = None ELSE booking[b].seat \in SeatsFor(s)

\* A slot that the desk accepts is never listed as full, and the seats it is listed with
\* are those the desk accepts, unless a booking of another service or on another seat is
\* in the way, which the list leaves out (docs/prd.md:152, "slots reflect rules and
\* exceptions").
ListedAsBookable ==
  \A s \in Service : \A t \in Starts(services[s].dur) :
    LET end == t + services[s].dur
    IN /\ Places(s, t, end) \subseteq ListedSeats(s, t, end)
       /\ OwnOnly(s, t, end) => ListedSeats(s, t, end) = Places(s, t, end)

\* A customer is charged a price that the public page showed while the request ran,
\* unless both the price and the markup changed between its read of the one and its read
\* of the other (docs/prd.md:146, "customers always see current pricing").
ChargedWasShown ==
  \A b \in Booking : booking[b] # None =>
    booking[b].shown

\* A booking fills a slot of the open day, unless it was moved while the length of its
\* service changed.
BookedForASlot ==
  \A b \in Booking : booking[b] # None =>
    LET x == booking[b]
    IN x.fits => x.start \in Starts(x.end - x.start)

\* A service in range is missing from a nearby search only when as many services as are
\* read were updated after it, or as many as are shown are at most as far.
NearbyMissesOnlyCut ==
  LET shown == Nearby
  IN \A s \in Service :
       Offered(s) /\ InRange(s) =>
         \/ s \in ToSet(shown)
         \/ Cardinality({q \in Service : Located(q) /\ After(q, s)}) >= ScanLimit
         \/ /\ Len(shown) = ShowLimit
            /\ \A q \in ToSet(shown) :
                 Distance[services[q].vendor] <= Distance[services[s].vendor]

\* The staff member and the services of a seat, and the seat and the staff member of a
\* booking, are the vendor's own, whoever creates and moves them (vendors.service.ts:672-704).
VendorsApart ==
  /\ \A k \in Seat :
       /\ seats[k].staff # None => staff[seats[k].staff].vendor = seats[k].vendor
       /\ \A s \in seats[k].only : services[s].vendor = seats[k].vendor
  /\ \A b \in Booking : booking[b] # None =>
       /\ booking[b].seat # None => seats[booking[b].seat].vendor = VendorOf(b)
       /\ booking[b].staff # None => staff[booking[b].staff].vendor = VendorOf(b)
=============================================================================
