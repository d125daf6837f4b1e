------------------------------ MODULE Catalogue ------------------------------
(***************************************************************************)
(* What vendors offer and what the public finds: services, staff members,  *)
(* seats, the vendors' verification, the platform's markup, and the        *)
(* queries of PublicCatalogService.  Rows are never deleted, and each      *)
(* operation is a check of ownership, which no later step can undo,        *)
(* followed by one statement; so each is one step.                         *)
(***************************************************************************)
EXTENDS Integers, Sequences, FiniteSets, SequencesExt, FiniteSetsExt

CONSTANTS
  Vendor,       \* vendors, each with an account
  Staff,        \* identities a staff member can get
  FirstServices, \* bound: the services there are at the start, a sequence of rows
  FirstSeats,   \* bound: the sequences of seats there may be at the start
  ServiceInputs, \* bound: what vendors type for a service: records of the fields given
  SeatInputs,   \* bound: what vendors type for a seat: records of the fields given
  MaxServices, MaxSeats, \* bounds: rows
  MaxDuration,  \* the longest service, 480 minutes in units of time
  Markups,      \* bound: the basis points that admins type
  Distance,     \* of each vendor from the customer who looks for services nearby
  ServiceRadius, \* of each vendor; 0 when there is none
  Radius,       \* what the customer asks for
  ScanLimit, ShowLimit, \* services a nearby query reads and shows
  MaxCalls,     \* bound: changes made and requests started
  None

ServiceRow == [vendor : Vendor, price : Nat \ {0}, dur : 1 .. MaxDuration, active : BOOLEAN]
SeatRow == [vendor : Vendor, capacity : Nat \ {0}, only : SUBSET Nat, staff : Staff \cup {None},
            active : BOOLEAN]
StaffRow == [vendor : Vendor, active : BOOLEAN]

ASSUME CatalogueAssumption ==
  /\ None \notin Nat \cup Staff \cup Vendor \cup StaffRow
  /\ MaxCalls \in Nat /\ MaxDuration \in Nat \ {0} /\ Markups \subseteq Int
  /\ FirstServices \in Seq(ServiceRow)
  /\ \A q \in FirstSeats :
       /\ q \in Seq(SeatRow)
       /\ \A k \in DOMAIN q : /\ q[k].staff = None
                             /\ \A s \in q[k].only : /\ s \in DOMAIN FirstServices
                                                    /\ FirstServices[s].vendor = q[k].vendor
  \* What the DTOs let through.
  /\ \A x \in ServiceInputs :
       /\ DOMAIN x \subseteq {"price", "dur", "active"}
       /\ "price" \in DOMAIN x => x.price \in Nat \ {0}
       /\ "dur" \in DOMAIN x => x.dur \in Nat
       /\ "active" \in DOMAIN x => x.active \in BOOLEAN
  /\ \A x \in SeatInputs :
       /\ DOMAIN x \subseteq {"capacity", "only", "staff", "active"}
       /\ "capacity" \in DOMAIN x => x.capacity \in Nat \ {0}
       /\ "only" \in DOMAIN x => x.only \in SUBSET Nat
       /\ "staff" \in DOMAIN x => x.staff \in Staff
       /\ "active" \in DOMAIN x => x.active \in BOOLEAN
  /\ Distance \in [Vendor -> Nat \cup {None}] /\ ServiceRadius \in [Vendor -> Nat]
  /\ {ScanLimit, ShowLimit} \subseteq Nat \ {0}

VARIABLES
  services, \* Service, in the order of creation: vendor, price, dur, active
  recent,   \* the services, most recently updated first
  seats,    \* ServiceSeat, in the order of creation
  staff,    \* StaffMember: whose, and active or not; None before it is created
  verified, \* the vendors that are VERIFIED
  markup,   \* PlatformSetting SERVICE_MARKUP_BPS
  calls

catalogueVars == <<services, recent, seats, staff, verified, markup>>

Service == DOMAIN services
Seat == DOMAIN seats

\* What a round and a floor of zero make of a price with the markup on it.
Rounded(p, m) == (p * (10000 + m) + 5000) \div 10000
\* Faulty variant: rounded down.
ChargedFloor(p, m) == Max({1, (p * (10000 + m)) \div 10000})
\* applyServiceMarkup, for the booking desk.
Charged(p, m) == Max({1, Rounded(p, m)})
\* applyMarkup, for public pages.
Displayed(p, m) == IF Rounded(p, m) > 0 THEN Rounded(p, m) ELSE p

-----------------------------------------------------------------------------
(***************************************************************************)
(* Changes by vendors and admins.                                          *)
(***************************************************************************)

Counted == calls < MaxCalls /\ calls' = calls + 1

\* A row with the fields that are given, the others as they were.
Given(x, row) ==
  [f \in DOMAIN x \cup DOMAIN row |-> IF f \in DOMAIN x THEN x[f] ELSE row[f]]

\* assertDuration.
ValidLength(x) == "dur" \in DOMAIN x => x.dur \in 1 .. MaxDuration

\* createServiceForVendor: the DTO requires a price and a length.
CreateService(v, x) ==
  /\ Counted /\ Len(services) < MaxServices
  /\ {"price", "dur"} \subseteq DOMAIN x /\ ValidLength(x)
  /\ services' = Append(services, Given(x, [vendor |-> v, active |-> TRUE]))
  /\ recent' = <<Len(services) + 1>> \o recent
  /\ UNCHANGED <<seats, staff, verified, markup>>

\* updateServiceForVendor and setServiceActiveState: the fields that are given, and
\* updatedAt.
UpdateService(s, x) ==
  /\ Counted
  /\ ValidLength(x)
  /\ services' = [services EXCEPT ![s] = Given(x, @)]
  /\ recent' = <<s>> \o RemoveAt(recent, CHOOSE n \in DOMAIN recent : recent[n] = s)
  /\ UNCHANGED <<seats, staff, verified, markup>>

\* createStaffMember, and updateStaffMember or archiveStaffMember with isActive: the
\* seats keep an archived member.
SetStaff(m, v, active) ==
  /\ Counted
  /\ staff[m] # None => staff[m].vendor = v
  /\ staff' = [staff EXCEPT ![m] = [vendor |-> v, active |-> active]]
  /\ UNCHANGED <<services, recent, seats, verified, markup>>

\* Faulty variant: whose the staff member is is not looked at.
OwnsServices(v, x) ==
  /\ "staff" \in DOMAIN x => staff[x.staff] # None
  /\ "only" \in DOMAIN x => \A s \in x.only : s \in Service /\ services[s].vendor = v

\* ensureStaffBelongsToVendor and ensureServicesBelongToVendor.
Owns(v, x) ==
  /\ "staff" \in DOMAIN x => staff[x.staff] # None /\ staff[x.staff].vendor = v
  /\ "only" \in DOMAIN x => \A s \in x.only : s \in Service /\ services[s].vendor = v

CreateSeat(v, x) ==
  /\ Counted /\ Len(seats) < MaxSeats
  /\ Owns(v, x)
  /\ seats' = Append(seats, Given(x, [vendor |-> v, capacity |-> 1, only |-> {},
                                      staff |-> None, active |-> TRUE]))
  /\ UNCHANGED <<services, recent, staff, verified, markup>>

\* updateSeat, which replaces the services of the seat when any are given, and archiveSeat.
UpdateSeat(k, x) ==
  /\ Counted
  /\ Owns(seats[k].vendor, x)
  /\ seats' = [seats EXCEPT ![k] = Given(x, @)]
  /\ UNCHANGED <<services, recent, staff, verified, markup>>

\* upsertServiceMarkupBps.
SetMarkup(b) ==
  /\ Counted
  /\ markup' = Max({0, Min({b, 5000})})
  /\ UNCHANGED <<services, recent, seats, staff, verified>>

\* The review of vendors, in Vendors, verifies or rejects v.
Judge(v) ==
  /\ Counted
  /\ verified' = IF v \in verified THEN verified \ {v} ELSE verified \cup {v}
  /\ UNCHANGED <<services, recent, seats, staff, markup>>

Change ==
  \/ \E v \in Vendor : \/ Judge(v)
                       \/ \E x \in ServiceInputs : CreateService(v, x)
                       \/ \E x \in SeatInputs : CreateSeat(v, x)
                       \/ \E m \in Staff, active \in BOOLEAN : SetStaff(m, v, active)
  \/ \E s \in Service, x \in ServiceInputs : UpdateService(s, x)
  \/ \E k \in Seat, x \in SeatInputs : UpdateSeat(k, x)
  \/ \E b \in Markups : SetMarkup(b)

CatalogueInit ==
  /\ services = FirstServices /\ seats \in FirstSeats
  /\ recent = Reverse([s \in DOMAIN FirstServices |-> s])
  /\ staff = [m \in Staff |-> None] /\ verified = Vendor /\ markup = 0 /\ calls = 0

-----------------------------------------------------------------------------
(***************************************************************************)
(* Public queries.                                                         *)
(***************************************************************************)

\* What highlightVendors, searchVendorsByHandle, discoverServices and getServiceById show.
Offered(s) == services[s].active /\ services[s].vendor \in verified

\* The active seats that serve s: those that name it and those that name no service.
Serves(k, s) ==
  /\ seats[k].active /\ seats[k].vendor = services[s].vendor
  /\ seats[k].only = {} \/ s \in seats[k].only

\* listSeatsForService, and the queries of the desk and of the slot listing.
SeatsFor(s) == {k \in Seat : Serves(k, s)}

\* A service is in range of the customer and the customer in range of its vendor.
InRange(s) ==
  LET v == services[s].vendor
  IN /\ Distance[v] # None /\ Distance[v] <= Radius
     /\ ServiceRadius[v] > 0 => Distance[v] <= ServiceRadius[v]

Located(s) == Offered(s) /\ Distance[services[s].vendor] # None
FirstOf(seq, n) == SubSeq(seq, 1, Min({n, Len(seq)}))

\* q was updated after s.
After(q, s) == \E i, j \in DOMAIN recent : i < j /\ recent[i] = q /\ recent[j] = s

\* ORDER BY updatedAt DESC.
ByUpdate(S) == CHOOSE a \in SetToSeqs(S) : \A i, j \in DOMAIN a : i < j => After(a[i], a[j])

\* The sort by distance, which leaves services that are as far in the order of the query.
Nearer(q, s) ==
  LET far(x) == Distance[services[x].vendor]
  IN far(q) < far(s) \/ (far(q) = far(s) /\ After(q, s))
ByDistance(S) == CHOOSE a \in SetToSeqs(S) : \A i, j \in DOMAIN a : i < j => Nearer(a[i], a[j])

\* Faulty variant: what is shown is cut before it is sorted.
NearestCutFirst(S) == ByDistance(ToSet(FirstOf(ByUpdate(S), ShowLimit)))

\* The nearest of the services in range.
Nearest(S) == FirstOf(ByDistance(S), ShowLimit)

\* discoverNearbyServices: the most recently updated services are read, then filtered by
\* range, sorted by distance and cut.
Nearby ==
  LET read == ToSet(FirstOf(ByUpdate({s \in Service : Located(s)}), ScanLimit))
  IN Nearest({s \in read : InRange(s)})
=============================================================================
