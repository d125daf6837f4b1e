----------------------------- MODULE SeatsProofs -----------------------------
(***************************************************************************)
(* Safety of seats and of the catalogue, for every number of vendors,      *)
(* services, seats, staff members, bookings and requests, whatever is      *)
(* changed between the reads of a request.                                 *)
(***************************************************************************)
EXTENDS Seats, TLAPS, SequenceTheorems, FiniteSetTheorems

-----------------------------------------------------------------------------
(***************************************************************************)
(* The catalogue: its types, and that it grows.                            *)
(***************************************************************************)

CatalogueType ==
  /\ services \in Seq(ServiceRow) /\ seats \in Seq(SeatRow)
  /\ staff \in [Staff -> StaffRow \cup {None}]
  /\ markup \in Nat /\ calls \in Nat

\* A seat's staff member and services are of its vendor.
SeatsApart ==
  \A k \in Seat :
    /\ seats[k].staff # None =>
         staff[seats[k].staff] # None /\ staff[seats[k].staff].vendor = seats[k].vendor
    /\ \A s \in seats[k].only : s \in Service /\ services[s].vendor = seats[k].vendor

\* What there is stays, and stays its vendor's own.
Grows ==
  /\ \A s \in Service : s \in Service' /\ services'[s].vendor = services[s].vendor
  /\ \A k \in Seat : k \in Seat' /\ seats'[k].vendor = seats[k].vendor
  /\ \A m \in Staff : staff[m] # None => staff'[m] # None /\ staff'[m].vendor = staff[m].vendor

\* What the assumptions say of the names and of the inputs.
LEMMA Names ==
  /\ None \notin Nat /\ None \notin Staff /\ None \notin Vendor /\ None \notin StaffRow
  /\ None \notin BookingRow /\ MaxDuration \in Nat /\ Day \in Nat \ {0}
  BY CatalogueAssumption, SeatsAssumption
LEMMA ServiceInput ==
  ASSUME NEW x \in ServiceInputs
  PROVE  /\ DOMAIN x \subseteq {"price", "dur", "active"}
         /\ "price" \in DOMAIN x => x.price \in Nat \ {0}
         /\ "dur" \in DOMAIN x => x.dur \in Nat
         /\ "active" \in DOMAIN x => x.active \in BOOLEAN
  BY CatalogueAssumption
LEMMA SeatInput ==
  ASSUME NEW x \in SeatInputs
  PROVE  /\ DOMAIN x \subseteq {"capacity", "only", "staff", "active"}
         /\ "capacity" \in DOMAIN x => x.capacity \in Nat \ {0}
         /\ "only" \in DOMAIN x => x.only \in SUBSET Nat
         /\ "staff" \in DOMAIN x => x.staff \in Staff
         /\ "active" \in DOMAIN x => x.active \in BOOLEAN
  BY CatalogueAssumption

\* What the given fields make of a row.
LEMMA GivenService ==
  ASSUME NEW x \in ServiceInputs, NEW row \in ServiceRow, ValidLength(x)
  PROVE  Given(x, row) \in ServiceRow /\ Given(x, row).vendor = row.vendor
  BY ServiceInput DEF Given, ServiceRow, ValidLength
LEMMA GivenSeat ==
  ASSUME NEW x \in SeatInputs, NEW row \in SeatRow
  PROVE  /\ Given(x, row) \in SeatRow /\ Given(x, row).vendor = row.vendor
         /\ Given(x, row).staff = IF "staff" \in DOMAIN x THEN x.staff ELSE row.staff
         /\ Given(x, row).only = IF "only" \in DOMAIN x THEN x.only ELSE row.only
  BY SeatInput DEF Given, SeatRow

\* A service or a seat is added at the end, or one is replaced.
LEMMA Longer ==
  ASSUME NEW S, NEW q \in Seq(S), NEW x \in S
  PROVE  /\ Append(q, x) \in Seq(S) /\ DOMAIN q \subseteq DOMAIN Append(q, x)
         /\ \A i \in DOMAIN q : Append(q, x)[i] = q[i]
         /\ \A i \in DOMAIN Append(q, x) \ DOMAIN q : Append(q, x)[i] = x
  <1>1. /\ DOMAIN q = 1 .. Len(q) /\ Len(q) \in Nat
        /\ Append(q, x) \in Seq(S) /\ Len(Append(q, x)) = Len(q) + 1
        /\ DOMAIN Append(q, x) = 1 .. (Len(q) + 1)
        /\ Append(q, x)[Len(q) + 1] = x
        /\ \A i \in 1 .. Len(q) : Append(q, x)[i] = q[i]
    BY AppendProperties
  <1>2. QED BY <1>1
LEMMA Replaced ==
  ASSUME NEW S, NEW q \in Seq(S), NEW i \in DOMAIN q, NEW x \in S
  PROVE  /\ [q EXCEPT ![i] = x] \in Seq(S) /\ DOMAIN [q EXCEPT ![i] = x] = DOMAIN q
         /\ [q EXCEPT ![i] = x][i] = x
         /\ \A j \in DOMAIN q \ {i} : [q EXCEPT ![i] = x][j] = q[j]
  BY ExceptSeq
LEMMA RowsTyped ==
  ASSUME CatalogueType
  PROVE  /\ \A s \in Service : services[s] \in ServiceRow
         /\ \A k \in Seat : seats[k] \in SeatRow
         /\ Service \subseteq Nat \ {0} /\ Seat \subseteq Nat \ {0}
         /\ \A m \in Staff : staff[m] # None => staff[m] \in StaffRow
  BY ElementOfSeq DEF CatalogueType, Service, Seat

LEMMA CatalogueChanges ==
  ASSUME CatalogueType, SeatsApart, Change
  PROVE  CatalogueType' /\ SeatsApart' /\ Grows
  <1> DEFINE Goal == CatalogueType' /\ SeatsApart' /\ Grows
  <1>1. calls \in Nat /\ calls' = calls + 1 /\ calls' \in Nat
    <2>1. Counted
      <3>1. CASE \E v \in Vendor : \/ Judge(v)
                                   \/ \E x \in ServiceInputs : CreateService(v, x)
                                   \/ \E x \in SeatInputs : CreateSeat(v, x)
                                   \/ \E m \in Staff, active \in BOOLEAN : SetStaff(m, v, active)
        BY <3>1, Zenon DEF Judge, CreateService, CreateSeat, SetStaff
      <3>2. CASE \E s \in Service, x \in ServiceInputs : UpdateService(s, x)
        BY <3>2, Zenon DEF UpdateService
      <3>3. CASE \E k \in Seat, x \in SeatInputs : UpdateSeat(k, x)
        BY <3>3, Zenon DEF UpdateSeat
      <3>4. CASE \E b \in Markups : SetMarkup(b)
        BY <3>4 DEF SetMarkup
      <3>5. QED BY <3>1, <3>2, <3>3, <3>4 DEF Change
    <2>2. QED BY <2>1 DEF Counted, CatalogueType
  <1>2. ASSUME UNCHANGED <<services, seats, staff>>, markup' \in Nat
        PROVE  Goal
    BY <1>1, <1>2 DEF CatalogueType, SeatsApart, Grows, Service, Seat
  <1>3. ASSUME NEW v \in Vendor, NEW x \in ServiceInputs, CreateService(v, x)
        PROVE  Goal
    <2> DEFINE row == Given(x, [vendor |-> v, active |-> TRUE])
    <2>1. row \in ServiceRow
      BY <1>3, ServiceInput DEF CreateService, ValidLength, Given, ServiceRow
    <2>2. services' = Append(services, row) /\ UNCHANGED <<seats, staff, markup>>
      BY <1>3 DEF CreateService
    <2> HIDE DEF row
    <2>3. services' \in Seq(ServiceRow)
          /\ \A s \in Service : s \in Service' /\ services'[s] = services[s]
      BY <2>1, <2>2, Longer DEF CatalogueType, Service
    <2>4. SeatsApart'
      <3>1. UNCHANGED Seat
        BY <2>2 DEF Seat
      <3>2. ASSUME NEW k \in Seat, NEW s \in seats[k].only
            PROVE  s \in Service' /\ services'[s].vendor = seats[k].vendor
        <4>1. s \in Service /\ services[s].vendor = seats[k].vendor
          BY DEF SeatsApart
        <4>2. QED BY <2>3, <4>1
      <3>3. QED BY <2>2, <3>1, <3>2 DEF SeatsApart
    <2>5. Grows
      BY <2>2, <2>3 DEF Grows, Seat
    <2>6. QED BY <1>1, <2>2, <2>3, <2>4, <2>5 DEF CatalogueType
  <1>4. ASSUME NEW s \in Service, NEW x \in ServiceInputs, UpdateService(s, x)
        PROVE  Goal
    <2> DEFINE row == Given(x, services[s])
    <2>1. row \in ServiceRow /\ row.vendor = services[s].vendor
      BY <1>4, GivenService, RowsTyped DEF UpdateService
    <2>2. services' = [services EXCEPT ![s] = row] /\ UNCHANGED <<seats, staff, markup>>
      BY <1>4 DEF UpdateService
    <2> HIDE DEF row
    <2>3. /\ services' \in Seq(ServiceRow) /\ Service' = Service
          /\ services'[s] = row /\ \A q \in Service \ {s} : services'[q] = services[q]
      BY <2>1, <2>2, Replaced DEF CatalogueType, Service
    <2>4. \A q \in Service : q \in Service' /\ services'[q].vendor = services[q].vendor
      BY <2>1, <2>3
    <2>5. QED BY <1>1, <2>2, <2>3, <2>4 DEF CatalogueType, SeatsApart, Grows, Seat
  <1>5. ASSUME NEW m \in Staff, NEW v \in Vendor, NEW active \in BOOLEAN, SetStaff(m, v, active)
        PROVE  Goal
    <2> DEFINE row == [vendor |-> v, active |-> active]
    <2>1. row \in StaffRow /\ row.vendor = v
      BY DEF StaffRow
    <2>2. /\ staff' = [staff EXCEPT ![m] = row] /\ UNCHANGED <<services, seats, markup>>
          /\ staff[m] # None => staff[m].vendor = v
      BY <1>5 DEF SetStaff
    <2> HIDE DEF row
    <2>3. /\ staff' \in [Staff -> StaffRow \cup {None}]
          /\ \A n \in Staff : staff[n] # None =>
               staff'[n] # None /\ staff'[n].vendor = staff[n].vendor
      BY <2>1, <2>2, Names DEF CatalogueType
    <2>4. \A k \in Seat : seats[k].staff \in Staff \cup {None}
      BY RowsTyped DEF SeatRow
    <2>5. QED BY <1>1, <2>2, <2>3, <2>4 DEF CatalogueType, SeatsApart, Grows, Seat, Service
  <1>6. ASSUME NEW v \in Vendor, NEW x \in SeatInputs, CreateSeat(v, x)
        PROVE  Goal
    <2> DEFINE new == [vendor |-> v, capacity |-> 1, only |-> {}, staff |-> None, active |-> TRUE]
               row == Given(x, new)
    <2>1. /\ row \in SeatRow /\ row.vendor = v
          /\ row.staff = IF "staff" \in DOMAIN x THEN x.staff ELSE None
          /\ row.only = IF "only" \in DOMAIN x THEN x.only ELSE {}
      <3>1. new \in SeatRow /\ new.vendor = v /\ new.staff = None /\ new.only = {}
        BY DEF SeatRow
      <3> HIDE DEF new
      <3>2. QED BY <3>1, GivenSeat
    <2>2. seats' = Append(seats, row) /\ UNCHANGED <<services, staff, markup>> /\ Owns(v, x)
      BY <1>6 DEF CreateSeat
    <2> HIDE DEF new, row
    <2>3. /\ seats' \in Seq(SeatRow)
          /\ \A k \in Seat : k \in Seat' /\ seats'[k] = seats[k]
          /\ \A k \in Seat' \ Seat : seats'[k] = row
      BY <2>1, <2>2, Longer DEF CatalogueType, Seat
    <2>4. /\ row.staff # None => staff[row.staff] # None /\ staff[row.staff].vendor = v
          /\ \A s \in row.only : s \in Service /\ services[s].vendor = v
      BY <2>1, <2>2 DEF Owns
    <2>5. UNCHANGED Service
      BY <2>2 DEF Service
    <2>6. ASSUME NEW k \in Seat'
          PROVE  /\ seats'[k].staff # None => /\ staff'[seats'[k].staff] # None
                                             /\ staff'[seats'[k].staff].vendor = seats'[k].vendor
                 /\ \A s \in seats'[k].only : s \in Service' /\ services'[s].vendor = seats'[k].vendor
      <3>1. CASE k \in Seat
        BY <2>2, <2>3, <2>5, <3>1 DEF SeatsApart
      <3>2. CASE k \notin Seat
        BY <2>1, <2>2, <2>3, <2>4, <2>5, <3>2
      <3>3. QED BY <3>1, <3>2
    <2>7. SeatsApart'
      BY <2>6 DEF SeatsApart
    <2>8. QED BY <1>1, <2>2, <2>3, <2>7 DEF CatalogueType, Grows, Service
  <1>7. ASSUME NEW k \in Seat, NEW x \in SeatInputs, UpdateSeat(k, x)
        PROVE  Goal
    <2> DEFINE row == Given(x, seats[k])
    <2>1. /\ row \in SeatRow /\ row.vendor = seats[k].vendor
          /\ row.staff = IF "staff" \in DOMAIN x THEN x.staff ELSE seats[k].staff
          /\ row.only = IF "only" \in DOMAIN x THEN x.only ELSE seats[k].only
      BY GivenSeat, RowsTyped
    <2>2. /\ seats' = [seats EXCEPT ![k] = row] /\ UNCHANGED <<services, staff, markup>>
          /\ Owns(seats[k].vendor, x)
      BY <1>7 DEF UpdateSeat
    <2> HIDE DEF row
    <2>3. /\ seats' \in Seq(SeatRow) /\ Seat' = Seat
          /\ seats'[k] = row /\ \A j \in Seat \ {k} : seats'[j] = seats[j]
      BY <2>1, <2>2, Replaced DEF CatalogueType, Seat
    <2>4. /\ row.staff # None => staff[row.staff] # None /\ staff[row.staff].vendor = row.vendor
          /\ \A s \in row.only : s \in Service /\ services[s].vendor = row.vendor
      BY <2>1, <2>2 DEF Owns, SeatsApart
    <2>5. SeatsApart'
      BY <2>2, <2>3, <2>4 DEF SeatsApart, Service
    <2>6. QED BY <1>1, <2>1, <2>2, <2>3, <2>5 DEF CatalogueType, Grows, Service
  <1>8. ASSUME NEW b \in Markups, SetMarkup(b)
        PROVE  Goal
    <2>1. Min({b, 5000}) = IF b <= 5000 THEN b ELSE 5000
      <3>1. b \in Int
        BY CatalogueAssumption
      <3>2. QED BY <3>1 DEF Min
    <2> b \in Int /\ Min({b, 5000}) \in Int
      BY <2>1, CatalogueAssumption
    <2>2. Max({0, Min({b, 5000})}) \in Nat
      BY <2>1 DEF Max
    <2>3. QED BY <1>2, <1>8, <2>2 DEF SetMarkup
  <1>9. ASSUME NEW v \in Vendor, Judge(v)
        PROVE  Goal
    BY <1>2, <1>9 DEF Judge, CatalogueType
  <1>10. QED
    <2> HIDE DEF Goal
    <2>1. Goal
      BY <1>3, <1>4, <1>5, <1>6, <1>7, <1>8, <1>9 DEF Change
    <2>2. QED BY <2>1 DEF Goal

-----------------------------------------------------------------------------
(***************************************************************************)
(* Types of bookings and requests, and what each request has read.         *)
(***************************************************************************)

Times == 0 .. Day - 1
ListTask == [op : {"list"}, service : Nat, start : Times, end : Nat, row : ServiceRow,
             asked : Nat \cup {None}, saw : SUBSET {"price", "dur", "markup"}, shown : SUBSET Nat]
SeatTask == [op : {"seat"}, service : Nat, start : Times, end : Nat,
             asked : Nat \cup {None}, price : Nat, shown : BOOLEAN]
InsertTask == [op : {"insert"}, service : Nat, start : Times, end : Nat,
               seat : Nat \cup {None}, price : Nat, shown : BOOLEAN, staff : Staff \cup {None}]
RelistTask == [op : {"relist"}, booking : Booking, service : Nat, start : Times, end : Nat,
               saw : SUBSET {"price", "dur", "markup"}, shown : SUBSET Nat]
CheckTask == [op : {"recheck", "move"}, booking : Booking, service : Nat, start : Times,
              end : Nat, fits : BOOLEAN]
Task == ListTask \cup SeatTask \cup InsertTask \cup RelistTask \cup CheckTask

TypeInv ==
  /\ CatalogueType
  /\ booking \in [Booking -> BookingRow \cup {None}]
  /\ task \in [Req -> Task \cup {None}]

\* The seat k and the staff member m are of the vendor of service s.
Own(s, k, m) ==
  /\ s \in Service
  /\ k # None => k \in Seat /\ seats[k].vendor = services[s].vendor
  /\ m # None => m \in Staff /\ staff[m] # None /\ staff[m].vendor = services[s].vendor

\* A move is of a booking of the service it has read.
Moves(r) == At(r, "relist") \/ At(r, "recheck") \/ At(r, "move")

FitBooking(y) == y # None => Own(y.service, y.seat, y.staff)
FitTask(t) == t # None =>
  /\ t.service \in Service
  /\ t.op = "insert" => Own(t.service, t.seat, t.staff)
  /\ t.op \in {"relist", "recheck", "move"} =>
       booking[t.booking] # None /\ booking[t.booking].service = t.service

ApartInv ==
  /\ SeatsApart
  /\ \A b \in Booking : FitBooking(booking[b])
  /\ \A r \in Req : FitTask(task[r])

\* A request that is at a stage has the data of that stage.
LEMMA TaskOf ==
  ASSUME TypeInv, NEW r \in Req
  PROVE  /\ At(r, "list") => task[r] \in ListTask
         /\ At(r, "seat") => task[r] \in SeatTask
         /\ At(r, "insert") => task[r] \in InsertTask
         /\ At(r, "relist") => task[r] \in RelistTask
         /\ At(r, "recheck") \/ At(r, "move") => task[r] \in CheckTask
         /\ task[r] # None => \/ At(r, "list") \/ At(r, "seat") \/ At(r, "insert") \/ Moves(r)
  BY DEF TypeInv, At, Moves, Task, ListTask, SeatTask, InsertTask, RelistTask, CheckTask

\* Prices stay prices.
LEMMA Prices ==
  ASSUME NEW p \in Nat \ {0}, NEW m \in Nat
  PROVE  /\ Rounded(p, m) \in Nat \ {0}
         /\ Charged(p, m) = Rounded(p, m) /\ Displayed(p, m) = Rounded(p, m)
  <1>1. p * (10000 + m) = p * 10000 + p * m
    BY SMT
  <1>2. p * m \in Nat
    OBVIOUS
  <1>3. PICK q \in Nat : q = p * m
    BY <1>2
  <1>4. (p * 10000 + q + 5000) \div 10000 \in Nat \ {0}
    BY SMT
  <1>5. Rounded(p, m) \in Nat \ {0}
    BY <1>1, <1>3, <1>4 DEF Rounded
  <1>6. PICK n \in Nat \ {0} : n = Rounded(p, m)
    BY <1>5
  <1>7. Max({1, n}) = n
    BY DEF Max
  <1>8. QED BY <1>5, <1>6, <1>7 DEF Charged, Displayed

\* What a request has after each of its stages.
LEMMA CreateReadDone ==
  ASSUME TypeInv, NEW r \in Req, NEW s \in Service, NEW i \in Times, NEW k \in Seat \cup {None},
         CreateRead(r, s, i, k)
  PROVE  \E t \in ListTask :
           /\ task' = [task EXCEPT ![r] = t]
           /\ t.service = s /\ t.row = services[s]
           /\ t.saw = {} /\ t.shown = {Displayed(services[s].price, markup)}
           /\ UNCHANGED <<catalogueVars, booking, history>> /\ calls' = calls + 1
  <1>1. /\ services[s] \in ServiceRow /\ s \in Nat /\ k \in Nat \cup {None} /\ markup \in Nat
        /\ i \in Nat
    BY RowsTyped, Names DEF TypeInv, CatalogueType, Times
  <1>2. services[s].dur \in Nat /\ services[s].price \in Nat \ {0}
    BY <1>1, Names DEF ServiceRow
  <1>3. Displayed(services[s].price, markup) \in Nat
    BY <1>1, <1>2, Prices
  <1> DEFINE t == [op |-> "list", service |-> s, start |-> i, end |-> i + services[s].dur,
                   row |-> services[s], asked |-> k, saw |-> {},
                   shown |-> {Displayed(services[s].price, markup)}]
  <1>4. /\ t \in ListTask /\ t.service = s /\ t.row = services[s] /\ t.saw = {}
        /\ t.shown = {Displayed(services[s].price, markup)}
    BY <1>1, <1>2, <1>3 DEF ListTask
  <1>5. /\ task' = [task EXCEPT ![r] = t] /\ UNCHANGED <<catalogueVars, booking, history>>
        /\ calls' = calls + 1
    BY DEF CreateRead, Begin, Counted
  <1> HIDE DEF t
  <1>6. QED BY <1>4, <1>5
LEMMA CreateListDone ==
  ASSUME TypeInv, ApartInv, NEW r \in Req, CreateList(r)
  PROVE  \E t \in SeatTask :
           /\ At(r, "list") /\ task' = [task EXCEPT ![r] = t] /\ t.service = task[r].service
           /\ t.end - t.start = services[t.service].dur
           /\ t.start \in Starts(services[t.service].dur)
           /\ t.shown = (\/ Charged(task[r].row.price, markup) \in task[r].shown
                         \/ {"price", "markup"} \subseteq task[r].saw)
           /\ UNCHANGED <<catalogueVars, calls, booking, history>>
  <1>1. PICK u \in ListTask : u = task[r]
    BY TaskOf DEF CreateList
  <1>2. /\ u.service \in Nat /\ u.start \in Times /\ u.end \in Nat /\ u.asked \in Nat \cup {None}
        /\ u.row \in ServiceRow /\ u.start \in Nat
    BY Names DEF ListTask, Times
  <1>3. u.service \in Service /\ services[u.service] \in ServiceRow /\ markup \in Nat
    BY <1>1, RowsTyped DEF ApartInv, FitBooking, FitTask, TypeInv, CatalogueType, CreateList, At
  <1>4. services[u.service].dur \in Nat /\ u.row.price \in Nat \ {0}
    BY <1>2, <1>3, Names DEF ServiceRow
  <1>5. Charged(u.row.price, markup) \in Nat
    BY <1>3, <1>4, Prices
  <1> DEFINE shown == \/ Charged(u.row.price, markup) \in u.shown
                      \/ {"price", "markup"} \subseteq u.saw
             t == [op |-> "seat", service |-> u.service, start |-> u.start, end |-> u.end,
                   asked |-> u.asked, price |-> Charged(u.row.price, markup), shown |-> shown]
  <1>6. (shown \in BOOLEAN)
    OBVIOUS
  <1>7. /\ task' = [task EXCEPT ![r] = t] /\ At(r, "list")
        /\ UNCHANGED <<catalogueVars, calls, booking, history>>
        /\ Fits(u.start, u.end, services[u.service].dur)
    BY <1>1 DEF CreateList, GoOn
  <1> HIDE DEF shown
  <1>8. /\ t \in SeatTask /\ t.service = u.service /\ t.start = u.start /\ t.end = u.end
        /\ t.shown = shown
    BY <1>2, <1>5, <1>6 DEF SeatTask
  <1> HIDE DEF t
  <1>9. u.start \in Starts(services[u.service].dur) /\ u.end - u.start = services[u.service].dur
    BY <1>2, <1>4, <1>7 DEF Fits
  <1>10. QED BY <1>1, <1>7, <1>8, <1>9 DEF shown
LEMMA CreateSeatChecked ==
  ASSUME TypeInv, ApartInv, NEW r \in Req, CreateSeatCheck(r)
  PROVE  \E t \in InsertTask :
           /\ At(r, "seat") /\ task' = [task EXCEPT ![r] = t] /\ t.service = task[r].service
           /\ t.start = task[r].start /\ t.end = task[r].end /\ t.shown = task[r].shown
           /\ t.seat \in Places(t.service, t.start, t.end)
           /\ t.staff = IF t.seat = None THEN None ELSE seats[t.seat].staff
           /\ UNCHANGED <<catalogueVars, calls, booking, history>>
  <1>1. PICK u \in SeatTask : u = task[r]
    BY TaskOf DEF CreateSeatCheck
  <1>2. PICK k \in Assigned(Places(u.service, u.start, u.end), u.asked) :
          /\ At(r, "seat")
          /\ GoOn(r, [op |-> "insert", service |-> u.service, start |-> u.start,
                      end |-> u.end, seat |-> k, price |-> u.price, shown |-> u.shown,
                      staff |-> IF k = None THEN None ELSE seats[k].staff])
    BY <1>1 DEF CreateSeatCheck
  <1>3. k \in Places(u.service, u.start, u.end)
    BY <1>2 DEF Assigned
  <1>4. k = None \/ k \in Seat
    BY <1>3 DEF Places, SeatsFor
  <1>5. k \in Nat \cup {None} /\ (IF k = None THEN None ELSE seats[k].staff) \in Staff \cup {None}
    BY <1>4, RowsTyped DEF SeatRow, TypeInv
  <1> DEFINE t == [op |-> "insert", service |-> u.service, start |-> u.start,
                   end |-> u.end, seat |-> k, price |-> u.price, shown |-> u.shown,
                   staff |-> IF k = None THEN None ELSE seats[k].staff]
  <1>6. /\ u.service \in Nat /\ u.start \in Times /\ u.end \in Nat
        /\ u.price \in Nat /\ u.shown \in BOOLEAN
    BY DEF SeatTask
  <1>7. /\ t \in InsertTask /\ t.service = u.service /\ t.start = u.start /\ t.end = u.end
        /\ t.shown = u.shown /\ t.seat = k
        /\ t.staff = IF k = None THEN None ELSE seats[k].staff
    BY <1>5, <1>6 DEF InsertTask
  <1>8. /\ task' = [task EXCEPT ![r] = t] /\ UNCHANGED <<catalogueVars, calls, booking, history>>
    BY <1>2 DEF GoOn
  <1> HIDE DEF t
  <1>9. QED BY <1>1, <1>2, <1>3, <1>7, <1>8
LEMMA MoveReadDone ==
  ASSUME TypeInv, ApartInv, NEW r \in Req, NEW b \in Booking, NEW i \in Times, MoveRead(r, b, i)
  PROVE  \E t \in RelistTask :
           /\ task' = [task EXCEPT ![r] = t] /\ booking[b] # None
           /\ t.booking = b /\ t.service = booking[b].service /\ t.saw = {}
           /\ t.end - t.start = services[t.service].dur
           /\ UNCHANGED <<catalogueVars, booking, history>> /\ calls' = calls + 1
  <1>1. booking[b] # None /\ booking[b] \in BookingRow
    BY DEF MoveRead, Held, TypeInv
  <1>2. PICK s \in Service : s = booking[b].service
    BY <1>1 DEF ApartInv, FitBooking, FitTask, At, Own
  <1>3. services[s] \in ServiceRow /\ s \in Nat /\ i \in Nat
    BY RowsTyped, Names DEF TypeInv, Times
  <1>4. services[s].dur \in Nat
    BY <1>3, Names DEF ServiceRow
  <1> DEFINE t == [op |-> "relist", booking |-> b, service |-> s, start |-> i,
                   end |-> i + services[s].dur, saw |-> {}, shown |-> {}]
  <1>5. /\ t \in RelistTask /\ t.booking = b /\ t.service = s /\ t.saw = {}
        /\ t.end = i + services[s].dur /\ t.start = i
    BY <1>3, <1>4 DEF RelistTask
  <1>6. /\ task' = [task EXCEPT ![r] = t] /\ UNCHANGED <<catalogueVars, booking, history>>
        /\ calls' = calls + 1
    BY <1>2 DEF MoveRead, Begin, Counted
  <1> HIDE DEF t
  <1>7. t.end - t.start = services[s].dur
    BY <1>3, <1>4, <1>5
  <1>8. QED BY <1>1, <1>2, <1>5, <1>6, <1>7
LEMMA MoveListDone ==
  ASSUME TypeInv, NEW r \in Req, MoveList(r)
  PROVE  \E t \in CheckTask :
           /\ At(r, "relist") /\ task' = [task EXCEPT ![r] = t] /\ t.op = "recheck"
           /\ t.booking = task[r].booking /\ t.service = task[r].service
           /\ t.start = task[r].start /\ t.end = task[r].end
           /\ t.start \in Starts(services[t.service].dur)
           /\ t.fits = ("dur" \notin task[r].saw)
           /\ UNCHANGED <<catalogueVars, calls, booking, history>>
  <1>1. PICK u \in RelistTask : u = task[r]
    BY TaskOf DEF MoveList
  <1>2. /\ u.booking \in Booking /\ u.service \in Nat /\ u.start \in Times /\ u.end \in Nat
    BY DEF RelistTask
  <1> DEFINE fits == ~ "dur" \in u.saw
             t == [op |-> "recheck", booking |-> u.booking, service |-> u.service,
                   start |-> u.start, end |-> u.end, fits |-> fits]
  <1>3. (fits \in BOOLEAN)
    OBVIOUS
  <1>4. /\ task' = [task EXCEPT ![r] = t] /\ At(r, "relist")
        /\ u.start \in Starts(services[u.service].dur)
        /\ UNCHANGED <<catalogueVars, calls, booking, history>>
    BY <1>1 DEF MoveList, GoOn
  <1> HIDE DEF fits
  <1>5. /\ t \in CheckTask /\ t.op = "recheck" /\ t.booking = u.booking /\ t.service = u.service
        /\ t.start = u.start /\ t.end = u.end /\ t.fits = fits
    BY <1>2, <1>3 DEF CheckTask
  <1> HIDE DEF t
  <1>6. QED BY <1>1, <1>4, <1>5 DEF fits
LEMMA MoveChecked ==
  ASSUME TypeInv, NEW r \in Req, MoveCheck(r)
  PROVE  \E t \in CheckTask :
           /\ At(r, "recheck") /\ task' = [task EXCEPT ![r] = t] /\ t.op = "move"
           /\ t.booking = task[r].booking /\ t.service = task[r].service
           /\ t.start = task[r].start /\ t.end = task[r].end /\ t.fits = task[r].fits
           /\ Blockers(t.booking, services[t.service].vendor, t.start, t.end) = {}
           /\ UNCHANGED <<catalogueVars, calls, booking, history>>
  <1>1. PICK u \in CheckTask : u = task[r]
    BY TaskOf DEF MoveCheck
  <1>2. /\ u.booking \in Booking /\ u.service \in Nat /\ u.start \in Times /\ u.end \in Nat
        /\ u.fits \in BOOLEAN
    BY DEF CheckTask
  <1> DEFINE t == [op |-> "move", booking |-> u.booking, service |-> u.service,
                   start |-> u.start, end |-> u.end, fits |-> u.fits]
  <1>3. /\ t \in CheckTask /\ t.op = "move" /\ t.booking = u.booking /\ t.service = u.service
        /\ t.start = u.start /\ t.end = u.end /\ t.fits = u.fits
    BY <1>2 DEF CheckTask
  <1>4. [u EXCEPT !.op = "move"] = t
    BY DEF CheckTask
  <1> HIDE DEF t
  <1>5. /\ task' = [task EXCEPT ![r] = t] /\ At(r, "recheck")
        /\ Blockers(u.booking, services[u.service].vendor, u.start, u.end) = {}
        /\ UNCHANGED <<catalogueVars, calls, booking, history>>
    BY <1>1, <1>4 DEF MoveCheck, GoOn
  <1>6. QED BY <1>1, <1>3, <1>5

\* What a commit writes.
LEMMA CreateDone ==
  ASSUME TypeInv, NEW r \in Req, CreateCommit(r)
  PROVE  \E b \in Booking, y \in BookingRow :
           /\ At(r, "insert") /\ booking[b] = None /\ booking' = [booking EXCEPT ![b] = y]
           /\ y.service = task[r].service /\ y.seat = task[r].seat /\ y.staff = task[r].staff
           /\ y.start = task[r].start /\ y.end = task[r].end
           /\ y.active /\ y.fits /\ y.shown = task[r].shown
           /\ task' = [task EXCEPT ![r] = None] /\ Placed(r, b)
           /\ UNCHANGED <<catalogueVars, calls, widest>>
  <1>1. PICK u \in InsertTask : u = task[r]
    BY TaskOf DEF CreateCommit
  <1>2. /\ u.service \in Nat /\ u.start \in Nat /\ u.end \in Nat /\ u.seat \in Nat \cup {None}
        /\ u.staff \in Staff \cup {None} /\ u.price \in Nat /\ u.shown \in BOOLEAN
    BY Names DEF InsertTask, Times
  <1> DEFINE y == [service |-> u.service, start |-> u.start, end |-> u.end, seat |-> u.seat,
                   staff |-> u.staff, price |-> u.price, active |-> TRUE,
                   shown |-> u.shown, fits |-> TRUE]
  <1>3. /\ y \in BookingRow /\ y.service = u.service /\ y.seat = u.seat /\ y.staff = u.staff
        /\ y.start = u.start /\ y.end = u.end /\ y.active /\ y.fits /\ y.shown = u.shown
    BY <1>2 DEF BookingRow
  <1>4. PICK b \in Booking : /\ booking[b] = None /\ booking' = [booking EXCEPT ![b] = y]
                             /\ Placed(r, b)
    BY <1>1 DEF CreateCommit
  <1>5. /\ At(r, "insert") /\ task' = [task EXCEPT ![r] = None]
        /\ UNCHANGED <<catalogueVars, calls, widest>>
    BY DEF CreateCommit, End
  <1> HIDE DEF y
  <1>6. QED BY <1>1, <1>3, <1>4, <1>5
LEMMA MoveDone ==
  ASSUME TypeInv, ApartInv, NEW r \in Req, MoveCommit(r)
  PROVE  \E b \in Booking, y \in BookingRow :
           /\ At(r, "move") /\ b = task[r].booking /\ booking[b] \in BookingRow
           /\ booking[b] # None /\ booking' = [booking EXCEPT ![b] = y]
           /\ y.service = booking[b].service /\ y.seat = booking[b].seat
           /\ y.staff = booking[b].staff /\ y.shown = booking[b].shown
           /\ y.start = task[r].start /\ y.end = task[r].end /\ y.fits = task[r].fits
           /\ task' = [task EXCEPT ![r] = None] /\ Placed(r, b)
           /\ UNCHANGED <<catalogueVars, calls, widest>>
  <1>1. PICK u \in CheckTask : u = task[r] /\ At(r, "move")
    BY TaskOf DEF MoveCommit
  <1>2. /\ u.booking \in Booking /\ u.start \in Nat /\ u.end \in Nat /\ u.fits \in BOOLEAN
    BY Names DEF CheckTask, Times
  <1>3. PICK b \in Booking : b = u.booking
    BY <1>2
  <1>4. booking[b] # None
    BY <1>1, <1>3 DEF ApartInv, FitBooking, FitTask, At, Moves
  <1>5. PICK x \in BookingRow : x = booking[b]
    BY <1>4 DEF TypeInv
  <1> DEFINE y == [service |-> x.service, start |-> u.start, end |-> u.end, seat |-> x.seat,
                   staff |-> x.staff, price |-> x.price, active |-> x.active,
                   shown |-> x.shown, fits |-> u.fits]
             x1 == [x EXCEPT !.start = u.start]
             x2 == [x1 EXCEPT !.end = u.end]
  <1>6. /\ y \in BookingRow /\ y.service = x.service /\ y.seat = x.seat /\ y.staff = x.staff
        /\ y.start = u.start /\ y.end = u.end /\ y.fits = u.fits /\ y.shown = x.shown
    BY <1>2 DEF BookingRow
  <1>7. [x2 EXCEPT !.fits = u.fits] = y
    <2>1. x1 = [service |-> x.service, start |-> u.start, end |-> x.end, seat |-> x.seat,
                staff |-> x.staff, price |-> x.price, active |-> x.active,
                shown |-> x.shown, fits |-> x.fits]
      BY DEF BookingRow
    <2>2. x2 = [service |-> x.service, start |-> u.start, end |-> u.end, seat |-> x.seat,
                staff |-> x.staff, price |-> x.price, active |-> x.active,
                shown |-> x.shown, fits |-> x.fits]
      <3> HIDE DEF x1
      <3>1. QED BY <2>1
    <2> HIDE DEF x2
    <2>3. QED BY <2>2
  <1>8. booking' = [booking EXCEPT ![b].start = u.start, ![b].end = u.end, ![b].fits = u.fits]
    BY <1>1, <1>3 DEF MoveCommit
  <1>9. /\ Placed(r, b) /\ task' = [task EXCEPT ![r] = None]
        /\ UNCHANGED <<catalogueVars, calls, widest>>
    BY <1>1, <1>3 DEF MoveCommit, End
  <1>10. booking' = [booking EXCEPT ![b] = [x2 EXCEPT !.fits = u.fits]]
    BY <1>5, <1>8 DEF TypeInv
  <1> HIDE DEF y, x1, x2
  <1>11. booking' = [booking EXCEPT ![b] = y]
    BY <1>7, <1>10
  <1>12. b = task[r].booking /\ booking[b] \in BookingRow
    BY <1>1, <1>3, <1>5
  <1>13. QED BY <1>1, <1>4, <1>5, <1>6, <1>9, <1>11, <1>12

\* A booking that releases its place or gets it back changes in nothing else.
LEMMA Switched ==
  ASSUME TypeInv, NEW b \in Booking, Release(b) \/ Revive(b)
  PROVE  \E y \in BookingRow :
           /\ booking[b] # None /\ booking[b] \in BookingRow /\ booking' = [booking EXCEPT ![b] = y]
           /\ y.service = booking[b].service /\ y.seat = booking[b].seat
           /\ y.staff = booking[b].staff /\ y.shown = booking[b].shown
           /\ y.start = booking[b].start /\ y.end = booking[b].end /\ y.fits = booking[b].fits
           /\ UNCHANGED <<catalogueVars, task, widest>> /\ calls' = calls + 1
           /\ Release(b) => ~y.active /\ UNCHANGED history
  <1>1. /\ booking[b] # None /\ UNCHANGED <<catalogueVars, task, widest>> /\ calls' = calls + 1
    BY DEF Release, Revive, Held, Counted, history
  <1>2. PICK x \in BookingRow : x = booking[b]
    BY <1>1 DEF TypeInv
  <1> DEFINE y(a) == [service |-> x.service, start |-> x.start, end |-> x.end, seat |-> x.seat,
                      staff |-> x.staff, price |-> x.price, active |-> a,
                      shown |-> x.shown, fits |-> x.fits]
  <1>3. ASSUME NEW a \in BOOLEAN
        PROVE  /\ y(a) \in BookingRow /\ [x EXCEPT !.active = a] = y(a)
               /\ y(a).service = x.service /\ y(a).seat = x.seat /\ y(a).staff = x.staff
               /\ y(a).start = x.start /\ y(a).end = x.end /\ y(a).fits = x.fits
               /\ y(a).shown = x.shown /\ y(a).active = a
    BY DEF BookingRow
  <1> HIDE DEF y
  <1>4. CASE Release(b)
    <2>1. booking' = [booking EXCEPT ![b].active = FALSE] /\ UNCHANGED history
      BY <1>4 DEF Release
    <2>2. booking' = [booking EXCEPT ![b] = y(FALSE)]
      BY <1>2, <1>3, <2>1
    <2>3. QED BY <1>1, <1>2, <1>3, <2>1, <2>2
  <1>5. CASE Revive(b)
    <2>1. booking' = [booking EXCEPT ![b].active = TRUE] /\ ~Release(b)
      BY <1>5 DEF Revive, Release, Held
    <2>2. booking' = [booking EXCEPT ![b] = y(TRUE)]
      BY <1>2, <1>3, <2>1
    <2>3. QED BY <1>1, <1>2, <1>3, <1>5, <2>1, <2>2
  <1>6. QED BY <1>4, <1>5

\* What requests note of a change.
Noted(t, u, s) ==
  /\ Displayed(services'[s].price, markup') \in u.shown
  /\ t.shown \subseteq u.shown /\ t.saw \subseteq u.saw
  /\ services'[s].price # services[s].price => "price" \in u.saw
  /\ services'[s].dur # services[s].dur => "dur" \in u.saw
  /\ markup' # markup => "markup" \in u.saw
LEMMA ChangeNoted ==
  ASSUME TypeInv, ApartInv, ChangeCatalogue
  PROVE  /\ CatalogueType' /\ SeatsApart' /\ Grows /\ UNCHANGED <<booking, unchecked, stale>>
         /\ DOMAIN task' = Req /\ task' = [r \in Req |-> task'[r]]
         /\ \A r \in Req :
              /\ ~At(r, "list") /\ ~At(r, "relist") => task'[r] = task[r]
              /\ At(r, "list") => \E u \in ListTask :
                   /\ u = task'[r] /\ u.service = task[r].service /\ u.row = task[r].row
                   /\ u.op = "list" /\ Noted(task[r], u, u.service)
              /\ At(r, "relist") => \E u \in RelistTask :
                   /\ u = task'[r] /\ u.service = task[r].service /\ u.booking = task[r].booking
                   /\ u.start = task[r].start /\ u.end = task[r].end
                   /\ u.op = "relist" /\ Noted(task[r], u, u.service)
  <1>1. CatalogueType' /\ SeatsApart' /\ Grows /\ UNCHANGED <<booking, unchecked, stale>>
    BY CatalogueChanges DEF ChangeCatalogue, TypeInv, ApartInv
  <1>2. task' = [r \in Req |->
       IF task[r] = None \/ ~ task[r].op \in {"list", "relist"} THEN task[r]
       ELSE LET s == task[r].service
            IN [task[r] EXCEPT
                  !.shown = @ \cup {Displayed(services'[s].price, markup')},
                  !.saw = @ \cup {f \in {"price", "dur"} : services'[s][f] # services[s][f]}
                            \cup (IF markup' # markup THEN {"markup"} ELSE {})]]
    BY DEF ChangeCatalogue
  <1>3. DOMAIN task' = Req /\ task' = [r \in Req |-> task'[r]]
    BY <1>2
  <1>4. ASSUME NEW r \in Req, ~At(r, "list"), ~At(r, "relist")
        PROVE  task'[r] = task[r]
    BY <1>2, <1>4 DEF At
  <1> DEFINE price(s) == Displayed(services'[s].price, markup')
             seen(s) == {f \in {"price", "dur"} : services'[s][f] # services[s][f]}
                            \cup (IF markup' # markup THEN {"markup"} ELSE {})
  <1>5. ASSUME NEW s \in Service
        PROVE  price(s) \in Nat
    <2>1. services'[s] \in ServiceRow /\ markup' \in Nat
      <3>1. s \in Service'
        BY <1>1 DEF Grows
      <3>2. QED BY <1>1, <3>1, ElementOfSeq DEF CatalogueType, Service
    <2>2. services'[s].price \in Nat \ {0}
      BY <2>1 DEF ServiceRow
    <2>3. QED BY <2>1, <2>2, Prices
  <1>6. ASSUME NEW s
        PROVE  /\ seen(s) \subseteq {"price", "dur", "markup"}
               /\ services'[s].price # services[s].price => "price" \in seen(s)
               /\ services'[s].dur # services[s].dur => "dur" \in seen(s)
               /\ markup' # markup => "markup" \in seen(s)
    OBVIOUS
  <1>7. ASSUME NEW r \in Req, At(r, "list") \/ At(r, "relist")
        PROVE  /\ task[r].service \in Service
               /\ task'[r] = [task[r] EXCEPT !.shown = @ \cup {price(task[r].service)},
                                            !.saw = @ \cup seen(task[r].service)]
    <2>1. task[r] # None /\ task[r].op \in {"list", "relist"}
      BY <1>7 DEF At
    <2>2. QED BY <1>2, <2>1, Zenon DEF ApartInv, FitTask
  <1> HIDE DEF price, seen
  <1>8. ASSUME NEW r \in Req, At(r, "list")
        PROVE  \E u \in ListTask :
                 /\ u = task'[r] /\ u.service = task[r].service /\ u.row = task[r].row
                 /\ u.op = "list" /\ Noted(task[r], u, u.service)
    <2>1. PICK t \in ListTask : t = task[r]
      BY <1>8, TaskOf
    <2>2. PICK s \in Service : s = t.service
      BY <1>7, <1>8, <2>1
    <2> DEFINE u == [op |-> "list", service |-> s, start |-> t.start, end |-> t.end,
                     row |-> t.row, asked |-> t.asked, saw |-> t.saw \cup seen(s),
                     shown |-> t.shown \cup {price(s)}]
    <2>3. u = task'[r]
      <3>1. task'[r] = [t EXCEPT !.shown = t.shown \cup {price(s)}, !.saw = t.saw \cup seen(s)]
        BY <1>7, <1>8, <2>1, <2>2
      <3>2. QED BY <2>2, <3>1 DEF ListTask
    <2>4. /\ u \in ListTask /\ u.service = s /\ u.row = t.row /\ u.op = "list"
          /\ u.saw = t.saw \cup seen(s) /\ u.shown = t.shown \cup {price(s)}
      BY <1>5, <1>6, <2>2 DEF ListTask
    <2> HIDE DEF u
    <2>5. Noted(t, u, s)
      BY <1>6, <2>4 DEF Noted, price
    <2>6. QED BY <2>1, <2>2, <2>3, <2>4, <2>5
  <1>9. ASSUME NEW r \in Req, At(r, "relist")
        PROVE  \E u \in RelistTask :
                 /\ u = task'[r] /\ u.service = task[r].service /\ u.booking = task[r].booking
                 /\ u.start = task[r].start /\ u.end = task[r].end
                 /\ u.op = "relist" /\ Noted(task[r], u, u.service)
    <2>1. PICK t \in RelistTask : t = task[r]
      BY <1>9, TaskOf
    <2>2. PICK s \in Service : s = t.service
      BY <1>7, <1>9, <2>1
    <2> DEFINE u == [op |-> "relist", booking |-> t.booking, service |-> s, start |-> t.start,
                     end |-> t.end, saw |-> t.saw \cup seen(s), shown |-> t.shown \cup {price(s)}]
    <2>3. u = task'[r]
      <3>1. task'[r] = [t EXCEPT !.shown = t.shown \cup {price(s)}, !.saw = t.saw \cup seen(s)]
        BY <1>7, <1>9, <2>1, <2>2
      <3>2. QED BY <2>2, <3>1 DEF RelistTask
    <2>4. /\ u \in RelistTask /\ u.service = s /\ u.booking = t.booking /\ u.op = "relist"
          /\ u.start = t.start /\ u.end = t.end
          /\ u.saw = t.saw \cup seen(s) /\ u.shown = t.shown \cup {price(s)}
      BY <1>5, <1>6, <2>2 DEF RelistTask
    <2> HIDE DEF u
    <2>5. Noted(t, u, s)
      BY <1>6, <2>4 DEF Noted, price
    <2>6. QED BY <2>1, <2>2, <2>3, <2>4, <2>5
  <1>10. QED BY <1>1, <1>3, <1>4, <1>8, <1>9

\* What fitted the catalogue and the bookings fits them when they have grown.
LEMMA ApartKept ==
  ASSUME TypeInv, ApartInv, CatalogueType', SeatsApart', Grows,
         booking' \in [Booking -> BookingRow \cup {None}], task' \in [Req -> Task \cup {None}],
         \A b \in Booking : booking[b] # None =>
           booking'[b] # None /\ booking'[b].service = booking[b].service,
         \A b \in Booking : \E y : y = booking'[b] /\ FitBooking(y),
         \A r \in Req : \E t : t = task'[r] /\ FitTask(t)
  PROVE  TypeInv' /\ ApartInv'
  <1>1. TypeInv'
    BY DEF TypeInv
  <1>2. ASSUME NEW s, NEW k, NEW m, Own(s, k, m)
        PROVE  Own(s, k, m)'
    BY <1>2 DEF Own, Grows
  <1>3. ASSUME NEW b \in Booking
        PROVE  FitBooking(booking[b])'
    <2>1. PICK y : y = booking'[b] /\ FitBooking(y)
      OBVIOUS
    <2>2. y # None => Own(y.service, y.seat, y.staff)'
      BY <1>2, <2>1 DEF FitBooking
    <2>3. QED BY <2>1, <2>2 DEF FitBooking
  <1>4. ASSUME NEW r \in Req
        PROVE  FitTask(task[r])'
    <2>1. PICK t : t = task'[r] /\ FitTask(t)
      OBVIOUS
    <2>2. t \in Task \cup {None}
      BY <2>1
    <2>3. ASSUME t # None
          PROVE  /\ t.service \in Service'
                 /\ t.op = "insert" => Own(t.service, t.seat, t.staff)'
                 /\ t.op \in {"relist", "recheck", "move"} =>
                      booking'[t.booking] # None /\ booking'[t.booking].service = t.service
      <3>1. t.service \in Service'
        BY <2>1, <2>3 DEF FitTask, Grows
      <3>2. t.op = "insert" => Own(t.service, t.seat, t.staff)'
        BY <1>2, <2>1, <2>3 DEF FitTask
      <3>3. ASSUME t.op \in {"relist", "recheck", "move"}
            PROVE  booking'[t.booking] # None /\ booking'[t.booking].service = t.service
        <4>1. t.booking \in Booking
          BY <2>2, <2>3, <3>3 DEF Task, ListTask, SeatTask, InsertTask, RelistTask, CheckTask
        <4>2. booking[t.booking] # None /\ booking[t.booking].service = t.service
          BY <2>1, <2>3, <3>3 DEF FitTask
        <4>3. QED BY <4>1, <4>2
      <3>4. QED BY <3>1, <3>2, <3>3
    <2>4. QED BY <2>1, <2>3 DEF FitTask
  <1>5. QED BY <1>1, <1>3, <1>4 DEF ApartInv

\* A step of one request that leaves the catalogue and the bookings alone.
LEMMA RequestKept ==
  ASSUME TypeInv, ApartInv, UNCHANGED <<catalogueVars, booking>>, calls' \in Nat,
         NEW r \in Req, NEW t \in Task \cup {None}, task' = [task EXCEPT ![r] = t], FitTask(t)
  PROVE  TypeInv' /\ ApartInv'
  <1>1. CatalogueType' /\ SeatsApart' /\ Grows
    BY DEF TypeInv, CatalogueType, ApartInv, SeatsApart, Grows, Service, Seat, catalogueVars
  <1>2. /\ booking' \in [Booking -> BookingRow \cup {None}]
        /\ task' \in [Req -> Task \cup {None}]
        /\ task'[r] = t /\ \A q \in Req \ {r} : task'[q] = task[q]
    BY DEF TypeInv
  <1>3. \A q \in Req : \E u : u = task'[q] /\ FitTask(u)
    BY <1>2 DEF ApartInv
  <1>4. \A b \in Booking : \E y : y = booking'[b] /\ FitBooking(y)
    BY DEF ApartInv
  <1>5. QED BY <1>1, <1>2, <1>3, <1>4, ApartKept

\* A step that writes one booking.
LEMMA BookingKept ==
  ASSUME TypeInv, ApartInv, UNCHANGED catalogueVars, calls' \in Nat,
         NEW b \in Booking, NEW y \in BookingRow, booking' = [booking EXCEPT ![b] = y],
         booking[b] # None => y.service = booking[b].service,
         Own(y.service, y.seat, y.staff),
         task' \in [Req -> Task \cup {None}],
         \A r \in Req : task'[r] # None => task'[r] = task[r]
  PROVE  TypeInv' /\ ApartInv'
  <1>1. CatalogueType' /\ SeatsApart' /\ Grows
    BY DEF TypeInv, CatalogueType, ApartInv, SeatsApart, Grows, Service, Seat, catalogueVars
  <1>2. y # None
    BY Names
  <1>3. /\ booking' \in [Booking -> BookingRow \cup {None}]
        /\ booking'[b] = y /\ \A c \in Booking \ {b} : booking'[c] = booking[c]
    BY DEF TypeInv
  <1>4. \A c \in Booking : booking[c] # None =>
          booking'[c] # None /\ booking'[c].service = booking[c].service
    BY <1>2, <1>3
  <1>5. \A c \in Booking : \E x : x = booking'[c] /\ FitBooking(x)
    <2>1. FitBooking(y)
      BY DEF FitBooking
    <2>2. QED BY <1>3, <2>1 DEF ApartInv
  <1>6. ASSUME NEW r \in Req
        PROVE  \E u : u = task'[r] /\ FitTask(u)
    <2>1. CASE task'[r] = None
      BY <2>1 DEF FitTask
    <2>2. CASE task'[r] # None
      BY <2>2 DEF ApartInv
    <2>3. QED BY <2>1, <2>2
  <1>7. QED BY <1>1, <1>3, <1>4, <1>5, <1>6, ApartKept

\* Seats that serve a service, and so those that a booking of it can get, are its vendor's.
LEMMA PlacesOwn ==
  ASSUME TypeInv, SeatsApart, NEW s \in Service, NEW i, NEW j, NEW k \in Places(s, i, j)
  PROVE  /\ k = None \/ k \in SeatsFor(s)
         /\ Own(s, k, IF k = None THEN None ELSE seats[k].staff)
  <1>1. k = None \/ k \in SeatsFor(s)
    BY DEF Places
  <1>2. CASE k = None
    BY <1>2 DEF Own
  <1>3. CASE k # None
    <2>1. k \in Seat /\ seats[k].vendor = services[s].vendor
      BY <1>1, <1>3 DEF SeatsFor, Serves
    <2>2. seats[k].staff \in Staff \cup {None}
      BY <2>1, RowsTyped DEF TypeInv, SeatRow
    <2>3. QED BY <1>1, <1>3, <2>1, <2>2 DEF Own, SeatsApart
  <1>4. QED BY <1>1, <1>2, <1>3

LEMMA ApartInvInductive ==
  /\ Init => TypeInv /\ ApartInv
  /\ TypeInv /\ ApartInv /\ [Next]_vars => TypeInv' /\ ApartInv'
  <1>1. ASSUME Init
        PROVE  TypeInv /\ ApartInv
    <2>1. /\ services = FirstServices /\ seats \in FirstSeats /\ booking \in FirstBookings
          /\ staff = [m \in Staff |-> None] /\ markup = 0 /\ calls = 0
          /\ task = [r \in Req |-> None]
      BY <1>1 DEF Init, CatalogueInit
    <2>2. services \in Seq(ServiceRow) /\ seats \in Seq(SeatRow)
      BY <2>1, CatalogueAssumption
    <2>3. booking \in [Booking -> BookingRow \cup {None}]
      BY <2>1, SeatsAssumption
    <2>4. TypeInv
      BY <2>1, <2>2, <2>3 DEF TypeInv, CatalogueType
    <2>5. \A k \in Seat : /\ seats[k].staff = None
                          /\ \A s \in seats[k].only :
                               s \in Service /\ services[s].vendor = seats[k].vendor
      BY <2>1, CatalogueAssumption DEF Seat, Service
    <2>6. \A b \in Booking : booking[b] # None =>
            booking[b].service \in Service /\ booking[b].seat = None /\ booking[b].staff = None
      BY <2>1, SeatsAssumption DEF Service
    <2>7. QED BY <2>1, <2>4, <2>5, <2>6 DEF ApartInv, SeatsApart, FitBooking, FitTask, Own
  <1> SUFFICES ASSUME TypeInv, ApartInv, [Next]_vars
               PROVE  TypeInv' /\ ApartInv'
    BY <1>1
  <1> DEFINE Goal == TypeInv' /\ ApartInv'
  <1>2. calls \in Nat /\ calls + 1 \in Nat /\ SeatsApart
    BY DEF TypeInv, CatalogueType, ApartInv
  <1>3. ASSUME UNCHANGED vars
        PROVE  Goal
    <2>1. UNCHANGED <<services, seats, staff, markup, calls, booking, task>>
      BY <1>3 DEF vars, catalogueVars, deskVars
    <2>2. QED BY <2>1 DEF TypeInv, ApartInv, CatalogueType, SeatsApart, FitBooking, FitTask, Own,
                          Service, Seat
  <1>4. ASSUME ChangeCatalogue
        PROVE  Goal
    <2>1. ASSUME NEW r \in Req
          PROVE  \E t \in Task \cup {None} : t = task'[r] /\ FitTask(t)
      <3>1. FitTask(task[r]) /\ task[r] \in Task \cup {None}
        BY DEF ApartInv, TypeInv
      <3>2. CASE At(r, "list")
        <4>1. PICK u \in ListTask : u = task'[r] /\ u.service = task[r].service /\ u.op = "list"
          BY <1>4, <3>2, ChangeNoted
        <4>2. FitTask(u)
          BY <3>1, <3>2, <4>1 DEF FitTask, At
        <4>3. QED BY <4>1, <4>2 DEF Task
      <3>3. CASE At(r, "relist")
        <4>1. PICK u \in RelistTask :
                /\ u = task'[r] /\ u.service = task[r].service /\ u.booking = task[r].booking
                /\ u.op = "relist"
          BY <1>4, <3>3, ChangeNoted
        <4>2. FitTask(u)
          BY <3>1, <3>3, <4>1 DEF FitTask, At
        <4>3. QED BY <4>1, <4>2 DEF Task
      <3>4. CASE ~At(r, "list") /\ ~At(r, "relist")
        BY <1>4, <3>1, <3>4, ChangeNoted
      <3>5. QED BY <3>2, <3>3, <3>4
    <2>2. task' \in [Req -> Task \cup {None}]
      BY <1>4, <2>1, ChangeNoted
    <2>3. /\ \A r \in Req : \E t : t = task'[r] /\ FitTask(t)
          /\ CatalogueType' /\ SeatsApart' /\ Grows /\ UNCHANGED booking
      BY <1>4, <2>1, ChangeNoted
    <2>4. \A b \in Booking : \E y : y = booking'[b] /\ FitBooking(y)
      BY <2>3 DEF ApartInv
    <2>5. booking' \in [Booking -> BookingRow \cup {None}]
      BY <2>3 DEF TypeInv
    <2>6. QED BY <2>2, <2>3, <2>4, <2>5, ApartKept
  <1>5. ASSUME NEW r \in Req, NEW s \in Service, NEW i \in Times, NEW k \in Seat \cup {None},
               CreateRead(r, s, i, k)
        PROVE  Goal
    <2>1. PICK t \in ListTask : /\ task' = [task EXCEPT ![r] = t] /\ t.service = s
                                /\ UNCHANGED <<catalogueVars, booking>> /\ calls' = calls + 1
      BY <1>5, CreateReadDone
    <2>2. FitTask(t) /\ t \in Task
      BY <2>1 DEF FitTask, ListTask, Task
    <2>3. QED BY <1>2, <2>1, <2>2, RequestKept
  <1>6. ASSUME NEW r \in Req, NEW b \in Booking, NEW i \in Times, MoveRead(r, b, i)
        PROVE  Goal
    <2>1. PICK t \in RelistTask :
            /\ task' = [task EXCEPT ![r] = t] /\ t.booking = b /\ t.service = booking[b].service
            /\ booking[b] # None
            /\ UNCHANGED <<catalogueVars, booking>> /\ calls' = calls + 1
      BY <1>6, MoveReadDone
    <2>2. FitTask(t) /\ t \in Task
      BY <2>1 DEF FitTask, RelistTask, Task, ApartInv, FitBooking, Own
    <2>3. QED BY <1>2, <2>1, <2>2, RequestKept
  <1>7. ASSUME NEW r \in Req, CreateList(r)
        PROVE  Goal
    <2>1. PICK t \in SeatTask : /\ At(r, "list") /\ task' = [task EXCEPT ![r] = t]
                                /\ t.service = task[r].service
                                /\ UNCHANGED <<catalogueVars, calls, booking>>
      BY <1>7, CreateListDone
    <2>2. FitTask(t) /\ t \in Task
      BY <2>1 DEF FitTask, SeatTask, Task, ApartInv, At
    <2>3. QED BY <1>2, <2>1, <2>2, RequestKept
  <1>8. ASSUME NEW r \in Req, CreateSeatCheck(r)
        PROVE  Goal
    <2>1. PICK t \in InsertTask :
            /\ At(r, "seat") /\ task' = [task EXCEPT ![r] = t] /\ t.service = task[r].service
            /\ t.seat \in Places(t.service, t.start, t.end)
            /\ t.staff = IF t.seat = None THEN None ELSE seats[t.seat].staff
            /\ UNCHANGED <<catalogueVars, calls, booking>>
      BY <1>8, CreateSeatChecked
    <2>2. t.service \in Service
      BY <2>1 DEF ApartInv, FitTask, At
    <2>3. FitTask(t) /\ t \in Task
      BY <1>2, <2>1, <2>2, PlacesOwn DEF FitTask, InsertTask, Task
    <2>4. QED BY <1>2, <2>1, <2>3, RequestKept
  <1>9. ASSUME NEW r \in Req, CreateCommit(r)
        PROVE  Goal
    <2>1. PICK b \in Booking, y \in BookingRow :
            /\ At(r, "insert") /\ booking[b] = None /\ booking' = [booking EXCEPT ![b] = y]
            /\ y.service = task[r].service /\ y.seat = task[r].seat /\ y.staff = task[r].staff
            /\ task' = [task EXCEPT ![r] = None] /\ UNCHANGED <<catalogueVars, calls>>
      BY <1>9, CreateDone
    <2>2. Own(y.service, y.seat, y.staff)
      BY <2>1 DEF ApartInv, FitTask, At
    <2>3. /\ task' \in [Req -> Task \cup {None}]
          /\ \A q \in Req : task'[q] # None => task'[q] = task[q]
      BY <2>1 DEF TypeInv
    <2>4. QED BY <1>2, <2>1, <2>2, <2>3, BookingKept
  <1>10. ASSUME NEW r \in Req, MoveList(r)
         PROVE  Goal
    <2>1. PICK t \in CheckTask :
            /\ At(r, "relist") /\ task' = [task EXCEPT ![r] = t] /\ t.op = "recheck"
            /\ t.booking = task[r].booking /\ t.service = task[r].service
            /\ UNCHANGED <<catalogueVars, calls, booking>>
      BY <1>10, MoveListDone
    <2>2. FitTask(t) /\ t \in Task
      BY <2>1 DEF FitTask, Task, ApartInv, At
    <2>3. QED BY <1>2, <2>1, <2>2, RequestKept
  <1>11. ASSUME NEW r \in Req, MoveCheck(r)
         PROVE  Goal
    <2>1. PICK t \in CheckTask :
            /\ At(r, "recheck") /\ task' = [task EXCEPT ![r] = t] /\ t.op = "move"
            /\ t.booking = task[r].booking /\ t.service = task[r].service
            /\ UNCHANGED <<catalogueVars, calls, booking>>
      BY <1>11, MoveChecked
    <2>2. FitTask(t) /\ t \in Task
      BY <2>1 DEF FitTask, Task, ApartInv, At
    <2>3. QED BY <1>2, <2>1, <2>2, RequestKept
  <1>12. ASSUME NEW r \in Req, MoveCommit(r)
         PROVE  Goal
    <2>1. PICK b \in Booking, y \in BookingRow :
            /\ booking[b] # None /\ booking' = [booking EXCEPT ![b] = y]
            /\ y.service = booking[b].service /\ y.seat = booking[b].seat
            /\ y.staff = booking[b].staff
            /\ task' = [task EXCEPT ![r] = None] /\ UNCHANGED <<catalogueVars, calls>>
      BY <1>12, MoveDone
    <2>2. Own(y.service, y.seat, y.staff)
      BY <2>1 DEF ApartInv, FitBooking
    <2>3. /\ task' \in [Req -> Task \cup {None}]
          /\ \A q \in Req : task'[q] # None => task'[q] = task[q]
      BY <2>1 DEF TypeInv
    <2>4. QED BY <1>2, <2>1, <2>2, <2>3, BookingKept
  <1>13. ASSUME NEW r \in Req, Stop(r)
         PROVE  Goal
    <2>1. /\ task' = [task EXCEPT ![r] = None] /\ UNCHANGED <<catalogueVars, calls, booking>>
      BY <1>13 DEF Stop, End
    <2>2. FitTask(None)
      BY DEF FitTask
    <2>3. QED BY <1>2, <2>1, <2>2, RequestKept
  <1>14. ASSUME NEW b \in Booking, Release(b) \/ Revive(b)
         PROVE  Goal
    <2>1. PICK y \in BookingRow :
            /\ booking[b] # None /\ booking' = [booking EXCEPT ![b] = y]
            /\ y.service = booking[b].service /\ y.seat = booking[b].seat
            /\ y.staff = booking[b].staff
            /\ UNCHANGED <<catalogueVars, task>> /\ calls' = calls + 1
      BY <1>14, Switched
    <2>2. Own(y.service, y.seat, y.staff)
      BY <2>1 DEF ApartInv, FitBooking
    <2>3. /\ task' \in [Req -> Task \cup {None}]
          /\ \A q \in Req : task'[q] # None => task'[q] = task[q]
      BY <2>1 DEF TypeInv
    <2>4. QED BY <1>2, <2>1, <2>2, <2>3, BookingKept
  <1>15. QED
    <2> HIDE DEF Goal
    <2>1. Goal
      BY <1>3, <1>4, <1>5, <1>6, <1>7, <1>8, <1>9, <1>10, <1>11, <1>12, <1>13, <1>14
         DEF Next, Times
    <2>2. QED BY <2>1 DEF Goal

-----------------------------------------------------------------------------
(***************************************************************************)
(* What holds of seats, prices and slots.                                  *)
(***************************************************************************)

\* Everything a booking and a seat refer to is of one vendor.
THEOREM VendorsStayApart == Spec => []VendorsApart
  <1>1. TypeInv /\ ApartInv => VendorsApart
    BY DEF ApartInv, SeatsApart, FitBooking, Own, VendorsApart, VendorOf
  <1>2. QED BY <1>1, ApartInvInductive, PTL DEF Spec

\* What a request has read of its service and of the markup, against what they are now:
\* the price shown now is among those it has noted, and what it has not noted as changed
\* is as it read it.
WellRead(t) == t # None =>
  /\ t.op = "list" =>
       /\ Displayed(services[t.service].price, markup) \in t.shown
       /\ "price" \notin t.saw => t.row.price = services[t.service].price
       /\ "markup" \notin t.saw => Displayed(t.row.price, markup) \in t.shown
  /\ t.op \in {"seat", "insert"} => t.shown /\ t.start \in Starts(t.end - t.start)
  /\ t.op = "relist" => ("dur" \notin t.saw => t.end - t.start = services[t.service].dur)
  /\ t.op \in {"recheck", "move"} => (t.fits => t.start \in Starts(t.end - t.start))
WellBooked(y) == y # None => y.shown /\ (y.fits => y.start \in Starts(y.end - y.start))

ReadInv ==
  /\ \A r \in Req : WellRead(task[r])
  /\ \A b \in Booking : WellBooked(booking[b])

\* A step that leaves the catalogue alone.
LEMMA ReadKept ==
  ASSUME UNCHANGED catalogueVars,
         \A r \in Req : \E t : t = task'[r] /\ WellRead(t),
         \A b \in Booking : \E y : y = booking'[b] /\ WellBooked(y)
  PROVE  ReadInv'
  <1>1. ASSUME NEW r \in Req
        PROVE  WellRead(task[r])'
    <2>1. PICK t : t = task'[r] /\ WellRead(t)
      OBVIOUS
    <2>2. QED BY <2>1 DEF WellRead, catalogueVars
  <1>2. ASSUME NEW b \in Booking
        PROVE  WellBooked(booking[b])'
    <2>1. PICK y : y = booking'[b] /\ WellBooked(y)
      OBVIOUS
    <2>2. QED BY <2>1 DEF WellBooked
  <1>3. QED BY <1>1, <1>2 DEF ReadInv
LEMMA RequestReadKept ==
  ASSUME TypeInv, ReadInv, UNCHANGED <<catalogueVars, booking>>,
         NEW r \in Req, NEW t, task' = [task EXCEPT ![r] = t], WellRead(t)
  PROVE  ReadInv'
  <1>1. \A q \in Req : \E u : u = task'[q] /\ WellRead(u)
    BY DEF TypeInv, ReadInv
  <1>2. \A b \in Booking : \E y : y = booking'[b] /\ WellBooked(y)
    BY DEF ReadInv
  <1>3. QED BY <1>1, <1>2, ReadKept
LEMMA BookingReadKept ==
  ASSUME TypeInv, ReadInv, UNCHANGED catalogueVars,
         NEW b \in Booking, NEW y, booking' = [booking EXCEPT ![b] = y], WellBooked(y),
         \A r \in Req : task'[r] # None => task'[r] = task[r]
  PROVE  ReadInv'
  <1>1. \A c \in Booking : \E x : x = booking'[c] /\ WellBooked(x)
    BY DEF TypeInv, ReadInv
  <1>2. ASSUME NEW r \in Req
        PROVE  \E u : u = task'[r] /\ WellRead(u)
    <2>1. CASE task'[r] = None
      BY <2>1 DEF WellRead
    <2>2. CASE task'[r] # None
      BY <2>2 DEF ReadInv
    <2>3. QED BY <2>1, <2>2
  <1>3. QED BY <1>1, <1>2, ReadKept

LEMMA ReadInvInductive ==
  /\ Init => ReadInv
  /\ TypeInv /\ ApartInv /\ ReadInv /\ [Next]_vars => ReadInv'
  <1>1. ASSUME Init
        PROVE  ReadInv
    <2>1. booking \in FirstBookings /\ task = [r \in Req |-> None]
      BY <1>1 DEF Init
    <2>2. \A b \in Booking : WellBooked(booking[b])
      BY <2>1, SeatsAssumption DEF WellBooked
    <2>3. QED BY <2>1, <2>2 DEF ReadInv, WellRead
  <1> SUFFICES ASSUME TypeInv, ApartInv, ReadInv, [Next]_vars
               PROVE  ReadInv'
    BY <1>1
  <1>2. \A r \in Req : task' = [task EXCEPT ![r] = None] =>
          \A q \in Req : task'[q] # None => task'[q] = task[q]
    BY DEF TypeInv
  <1>3. CASE UNCHANGED vars
    BY <1>3 DEF vars, catalogueVars, deskVars, ReadInv, WellRead, WellBooked
  <1>4. ASSUME ChangeCatalogue
        PROVE  ReadInv'
    <2>1. ASSUME NEW r \in Req
          PROVE  WellRead(task[r])'
      <3>1. CASE At(r, "list")
        <4>1. PICK t \in ListTask : t = task[r]
          BY <3>1, TaskOf
        <4>2. PICK u \in ListTask :
                /\ u = task'[r] /\ u.service = t.service /\ u.row = t.row
                /\ u.op = "list" /\ Noted(t, u, u.service)
          BY <1>4, <3>1, <4>1, ChangeNoted
        <4>3. /\ t # None /\ t.op = "list" /\ WellRead(t)
          BY <3>1, <4>1 DEF At, ReadInv
        <4>4. /\ Displayed(services'[u.service].price, markup') \in u.shown
              /\ "price" \notin u.saw => u.row.price = services'[u.service].price
          BY <4>2, <4>3 DEF WellRead, Noted
        <4>5. ASSUME "markup" \notin u.saw
              PROVE  Displayed(u.row.price, markup') \in u.shown
          <5>1. markup' = markup /\ "markup" \notin t.saw
            BY <4>2, <4>5 DEF Noted
          <5>2. Displayed(t.row.price, markup) \in u.shown
            BY <4>2, <4>3, <5>1 DEF WellRead, Noted
          <5>3. QED BY <4>2, <5>1, <5>2 DEF Displayed, Rounded
        <4>6. QED BY <4>2, <4>4, <4>5 DEF WellRead, Displayed, Rounded
      <3>2. CASE At(r, "relist")
        <4>1. PICK t \in RelistTask : t = task[r]
          BY <3>2, TaskOf
        <4>2. PICK u \in RelistTask :
                /\ u = task'[r] /\ u.service = t.service /\ u.start = t.start /\ u.end = t.end
                /\ u.op = "relist" /\ Noted(t, u, u.service)
          BY <1>4, <3>2, <4>1, ChangeNoted
        <4>3. t # None /\ t.op = "relist" /\ WellRead(t)
          BY <3>2, <4>1 DEF At, ReadInv
        <4>4. QED BY <4>2, <4>3 DEF WellRead, Noted
      <3>3. CASE ~At(r, "list") /\ ~At(r, "relist")
        <4>1. task'[r] = task[r]
          BY <1>4, <3>3, ChangeNoted
        <4>2. QED BY <3>3, <4>1 DEF ReadInv, WellRead, At
      <3>4. QED BY <3>1, <3>2, <3>3
    <2>2. QED BY <1>4, <2>1, ChangeNoted DEF ReadInv, WellBooked
  <1>5. ASSUME NEW r \in Req, NEW s \in Service, NEW i \in Times, NEW k \in Seat \cup {None},
               CreateRead(r, s, i, k)
        PROVE  ReadInv'
    <2>1. PICK t \in ListTask :
            /\ task' = [task EXCEPT ![r] = t] /\ t.service = s /\ t.row = services[s]
            /\ t.saw = {} /\ t.shown = {Displayed(services[s].price, markup)}
            /\ UNCHANGED <<catalogueVars, booking>>
      BY <1>5, CreateReadDone
    <2>2. WellRead(t)
      BY <2>1 DEF WellRead, ListTask
    <2>3. QED BY <2>1, <2>2, RequestReadKept
  <1>6. ASSUME NEW r \in Req, NEW b \in Booking, NEW i \in Times, MoveRead(r, b, i)
        PROVE  ReadInv'
    <2>1. PICK t \in RelistTask :
            /\ task' = [task EXCEPT ![r] = t] /\ t.saw = {}
            /\ t.end - t.start = services[t.service].dur
            /\ UNCHANGED <<catalogueVars, booking>>
      BY <1>6, MoveReadDone
    <2>2. WellRead(t)
      BY <2>1 DEF WellRead, RelistTask
    <2>3. QED BY <2>1, <2>2, RequestReadKept
  <1>7. ASSUME NEW r \in Req, CreateList(r)
        PROVE  ReadInv'
    <2>1. PICK t \in SeatTask :
            /\ At(r, "list") /\ task' = [task EXCEPT ![r] = t]
            /\ t.end - t.start = services[t.service].dur
            /\ t.start \in Starts(services[t.service].dur)
            /\ t.shown = (\/ Charged(task[r].row.price, markup) \in task[r].shown
                          \/ {"price", "markup"} \subseteq task[r].saw)
            /\ UNCHANGED <<catalogueVars, booking>>
      BY <1>7, CreateListDone
    <2>2. PICK u \in ListTask : u = task[r]
      BY <2>1, TaskOf
    <2>3. u.row.price \in Nat \ {0} /\ markup \in Nat
      BY DEF ListTask, ServiceRow, TypeInv, CatalogueType
    <2>4. Charged(u.row.price, markup) = Displayed(u.row.price, markup)
      BY <2>3, Prices
    <2>5. WellRead(u) /\ u # None /\ u.op = "list"
      BY <2>1, <2>2 DEF ReadInv, At
    <2>6. \/ Displayed(u.row.price, markup) \in u.shown
          \/ {"price", "markup"} \subseteq u.saw
      BY <2>5 DEF WellRead
    <2>7. t.shown
      BY <2>1, <2>2, <2>4, <2>6
    <2>8. t.start \in Starts(t.end - t.start)
      BY <2>1
    <2>9. WellRead(t)
      BY <2>7, <2>8 DEF WellRead, SeatTask
    <2>10. QED BY <2>1, <2>9, RequestReadKept
  <1>8. ASSUME NEW r \in Req, CreateSeatCheck(r)
        PROVE  ReadInv'
    <2>1. PICK t \in InsertTask :
            /\ At(r, "seat") /\ task' = [task EXCEPT ![r] = t]
            /\ t.start = task[r].start /\ t.end = task[r].end /\ t.shown = task[r].shown
            /\ UNCHANGED <<catalogueVars, booking>>
      BY <1>8, CreateSeatChecked
    <2>2. t.shown /\ t.start \in Starts(t.end - t.start)
      BY <2>1 DEF ReadInv, WellRead, At
    <2>3. WellRead(t)
      BY <2>2 DEF WellRead, InsertTask
    <2>4. QED BY <2>1, <2>3, RequestReadKept
  <1>9. ASSUME NEW r \in Req, CreateCommit(r)
        PROVE  ReadInv'
    <2>1. PICK b \in Booking, y \in BookingRow :
            /\ At(r, "insert") /\ booking' = [booking EXCEPT ![b] = y]
            /\ y.start = task[r].start /\ y.end = task[r].end /\ y.shown = task[r].shown
            /\ task' = [task EXCEPT ![r] = None] /\ UNCHANGED catalogueVars
      BY <1>9, CreateDone
    <2>2. WellBooked(y)
      BY <2>1 DEF ReadInv, WellRead, WellBooked, At
    <2>3. QED BY <1>2, <2>1, <2>2, BookingReadKept
  <1>10. ASSUME NEW r \in Req, MoveList(r)
         PROVE  ReadInv'
    <2>1. PICK t \in CheckTask :
            /\ At(r, "relist") /\ task' = [task EXCEPT ![r] = t]
            /\ t.service = task[r].service
            /\ t.start = task[r].start /\ t.end = task[r].end
            /\ t.start \in Starts(services[t.service].dur)
            /\ t.fits = ("dur" \notin task[r].saw)
            /\ UNCHANGED <<catalogueVars, booking>>
      BY <1>10, MoveListDone
    <2>2. WellRead(t)
      BY <2>1 DEF WellRead, ReadInv, At, CheckTask
    <2>3. QED BY <2>1, <2>2, RequestReadKept
  <1>11. ASSUME NEW r \in Req, MoveCheck(r)
         PROVE  ReadInv'
    <2>1. PICK t \in CheckTask :
            /\ At(r, "recheck") /\ task' = [task EXCEPT ![r] = t]
            /\ t.start = task[r].start /\ t.end = task[r].end /\ t.fits = task[r].fits
            /\ UNCHANGED <<catalogueVars, booking>>
      BY <1>11, MoveChecked
    <2>2. WellRead(t)
      BY <2>1 DEF WellRead, ReadInv, At, CheckTask
    <2>3. QED BY <2>1, <2>2, RequestReadKept
  <1>12. ASSUME NEW r \in Req, MoveCommit(r)
         PROVE  ReadInv'
    <2>1. PICK b \in Booking, y \in BookingRow :
            /\ At(r, "move") /\ booking[b] # None /\ booking' = [booking EXCEPT ![b] = y]
            /\ y.shown = booking[b].shown
            /\ y.start = task[r].start /\ y.end = task[r].end /\ y.fits = task[r].fits
            /\ task' = [task EXCEPT ![r] = None] /\ UNCHANGED catalogueVars
      BY <1>12, MoveDone
    <2>2. WellBooked(y)
      BY <2>1 DEF ReadInv, WellRead, WellBooked, At
    <2>3. QED BY <1>2, <2>1, <2>2, BookingReadKept
  <1>13. ASSUME NEW r \in Req, Stop(r)
         PROVE  ReadInv'
    <2>1. /\ task' = [task EXCEPT ![r] = None] /\ UNCHANGED <<catalogueVars, booking>>
      BY <1>13 DEF Stop, End
    <2>2. QED BY <2>1, RequestReadKept DEF WellRead
  <1>14. ASSUME NEW b \in Booking, Release(b) \/ Revive(b)
         PROVE  ReadInv'
    <2>1. PICK y \in BookingRow :
            /\ booking[b] # None /\ booking' = [booking EXCEPT ![b] = y]
            /\ y.shown = booking[b].shown /\ y.start = booking[b].start
            /\ y.end = booking[b].end /\ y.fits = booking[b].fits
            /\ UNCHANGED <<catalogueVars, task>>
      BY <1>14, Switched
    <2>2. WellBooked(y)
      BY <2>1 DEF ReadInv, WellBooked
    <2>3. QED BY <2>1, <2>2, BookingReadKept
  <1>15. QED
    <2> HIDE DEF ReadInv
    <2>1. QED BY <1>3, <1>4, <1>5, <1>6, <1>7, <1>8, <1>9, <1>10, <1>11, <1>12, <1>13, <1>14
                 DEF Next, Times

\* What a customer is charged was on the public page while the request ran, unless both of
\* its factors changed meanwhile: the request reads the price first and the markup later,
\* and either one that stood still makes the product one that was shown.
THEOREM ChargesWereShown == Spec => []ChargedWasShown
  <1>1. ReadInv => ChargedWasShown
    BY DEF ReadInv, WellBooked, ChargedWasShown
  <1>2. QED BY <1>1, ApartInvInductive, ReadInvInductive, PTL DEF Spec

\* A booking fills a slot of the day, unless it was moved while the length of its service
\* changed: createBooking compares the end with the slot found, a move only the start.
THEOREM BookingsFillSlots == Spec => []BookedForASlot
  <1>1. ReadInv => BookedForASlot
    BY DEF ReadInv, WellBooked, BookedForASlot
  <1>2. QED BY <1>1, ApartInvInductive, ReadInvInductive, PTL DEF Spec

\* Fewer bookings leave at least as much room.
LEMMA RoomKept ==
  ASSUME TypeInv, NEW bs \in SUBSET Booking, NEW rows \in SUBSET bs, NEW k \in Seat, Room(bs, k)
  PROVE  Room(rows, k)
  <1>1. IsFiniteSet(Booking)
    BY SeatsAssumption
  <1>2. On(rows, k) \subseteq On(bs, k) /\ On(bs, k) \subseteq Booking
    BY DEF On
  <1>3. IsFiniteSet(On(bs, k))
    BY <1>1, <1>2, FS_Subset
  <1>4. /\ IsFiniteSet(On(rows, k))
        /\ Cardinality(On(rows, k)) <= Cardinality(On(bs, k))
    BY <1>2, <1>3, FS_Subset
  <1>5. Cardinality(On(rows, k)) \in Nat /\ Cardinality(On(bs, k)) \in Nat
    BY <1>3, <1>4, FS_CardinalityType
  <1>6. seats[k].capacity \in Nat
    BY RowsTyped DEF TypeInv, SeatRow
  <1>7. QED BY <1>4, <1>5, <1>6 DEF Room

\* The list counts some of the bookings that the desk counts, so it never hides a slot that
\* the desk would take; where no other service and no other seat is in the way it counts
\* them all, and says what the desk does.
THEOREM ListsAreBookable == Spec => []ListedAsBookable
  <1>1. ASSUME TypeInv, ApartInv, NEW s \in Service, NEW i \in Starts(services[s].dur)
        PROVE  LET end == i + services[s].dur
               IN /\ Places(s, i, end) \subseteq ListedSeats(s, i, end)
                  /\ OwnOnly(s, i, end) => ListedSeats(s, i, end) = Places(s, i, end)
    <2> DEFINE end == i + services[s].dur
               bs == Overlapping(services[s].vendor, i, end)
               rows == ListedRows(s, i, end)
    <2>1. /\ bs \subseteq Booking /\ rows \subseteq bs
          /\ OwnOnly(s, i, end) => bs = rows
      BY DEF Overlapping, ListedRows, VendorOf, OwnOnly, Held
    <2>2. \A k \in SeatsFor(s) : k \in Seat /\ k # None
      BY <1>1, RowsTyped, Names DEF SeatsFor, TypeInv
    <2>3. OwnOnly(s, i, end) => \A b \in bs :
            IF SeatsFor(s) = {} THEN booking[b].seat = None ELSE booking[b].seat \in SeatsFor(s)
      BY DEF OwnOnly
    <2>4. /\ Places(s, i, end) = IF SeatsFor(s) = {} THEN IF bs = {} THEN {None} ELSE {}
                                 ELSE IF On(bs, None) # {} THEN {}
                                      ELSE {k \in SeatsFor(s) : Room(bs, k)}
          /\ ListedSeats(s, i, end) = IF SeatsFor(s) = {}
                                      THEN IF On(rows, None) = {} THEN {None} ELSE {}
                                      ELSE {k \in SeatsFor(s) : Room(rows, k)}
      BY DEF Places, ListedSeats
    <2> HIDE DEF bs, rows, end
    <2>5. \A k \in SeatsFor(s) : Room(bs, k) => Room(rows, k)
      BY <1>1, <2>1, <2>2, RoomKept
    <2>6. Places(s, i, end) \subseteq ListedSeats(s, i, end)
      BY <2>1, <2>4, <2>5 DEF On
    <2>7. ASSUME OwnOnly(s, i, end)
          PROVE  ListedSeats(s, i, end) = Places(s, i, end)
      <3>1. CASE SeatsFor(s) = {}
        <4>1. On(bs, None) = bs /\ bs = rows
          BY <2>1, <2>3, <2>7, <3>1 DEF On
        <4>2. QED BY <2>4, <3>1, <4>1
      <3>2. CASE SeatsFor(s) # {}
        <4>1. On(bs, None) = {} /\ bs = rows
          BY <2>1, <2>2, <2>3, <2>7, <3>2 DEF On
        <4>2. QED BY <2>4, <3>2, <4>1
      <3>3. QED BY <3>1, <3>2
    <2>8. QED BY <2>6, <2>7 DEF end
  <1>2. TypeInv /\ ApartInv => ListedAsBookable
    BY <1>1 DEF ListedAsBookable
  <1>3. QED BY <1>2, ApartInvInductive, PTL DEF Spec

-----------------------------------------------------------------------------
(***************************************************************************)
(* Double booking.  The bookings whose place was checked keep to the seats *)
(* among themselves, whoever came to sit there unchecked; and a check that *)
(* is not outdated still holds.                                            *)
(***************************************************************************)

\* The bookings bs leave a place on seat k, or are none.
Clear(bs, k) ==
  \/ bs = {}
  \/ /\ k # None /\ On(bs, None) = {}
     /\ Cardinality(On(bs, k)) < widest[k]

\* The bookings C keep to the seats; one without a seat is alone.
RoomFor(C) ==
  /\ \A k \in Seat : Cardinality(On(C, k)) <= widest[k]
  /\ \A b \in On(C, None) : C = {b}

Checked(v, i) == Present(v, i) \ unchecked
ClearFor(t) == t # None =>
  /\ t.op = "insert" => Clear(Overlapping(services[t.service].vendor, t.start, t.end), t.seat)
  /\ t.op = "move" => Blockers(t.booking, services[t.service].vendor, t.start, t.end) = {}

WidthInv ==
  /\ DOMAIN widest = Seat
  /\ \A k \in Seat : widest[k] \in Nat /\ seats[k].capacity <= widest[k]
CrowdInv ==
  /\ \A v \in Vendor, i \in Nat : RoomFor(Checked(v, i))
  /\ \A r \in Req \ stale : ClearFor(task[r])

LEMMA Sizes ==
  ASSUME NEW S \in SUBSET Booking, NEW T \in SUBSET S
  PROVE  /\ IsFiniteSet(S) /\ IsFiniteSet(T)
         /\ Cardinality(S) \in Nat /\ Cardinality(T) \in Nat
         /\ Cardinality(T) <= Cardinality(S)
         /\ \A b \in Booking : S = {b} => Cardinality(S) = 1
         /\ \A b \in Booking : S \subseteq T \cup {b} => Cardinality(S) <= Cardinality(T) + 1
         /\ S = {} => Cardinality(S) = 0
  <1>1. IsFiniteSet(Booking)
    BY SeatsAssumption
  <1>2. IsFiniteSet(S) /\ IsFiniteSet(T) /\ Cardinality(T) <= Cardinality(S)
    BY <1>1, FS_Subset
  <1>3. Cardinality(S) \in Nat /\ Cardinality(T) \in Nat
    BY <1>2, FS_CardinalityType
  <1>4. \A b \in Booking : S = {b} => Cardinality(S) = 1
    BY FS_Singleton
  <1>5. ASSUME NEW b \in Booking, S \subseteq T \cup {b}
        PROVE  Cardinality(S) <= Cardinality(T) + 1
    <2>1. /\ IsFiniteSet(T \cup {b})
          /\ Cardinality(T \cup {b}) = IF b \in T THEN Cardinality(T) ELSE Cardinality(T) + 1
      BY <1>2, FS_AddElement
    <2>2. Cardinality(S) <= Cardinality(T \cup {b})
      BY <1>5, <2>1, FS_Subset
    <2>3. QED BY <1>3, <2>1, <2>2
  <1>6. S = {} => Cardinality(S) = 0
    BY FS_EmptySet
  <1>7. QED BY <1>2, <1>3, <1>4, <1>5, <1>6
LEMMA Larger ==
  ASSUME NEW a \in Nat, NEW b \in Nat
  PROVE  Max({a, b}) \in Nat /\ a <= Max({a, b}) /\ b <= Max({a, b})
  <1>1. \E m \in {a, b} : \A x \in {a, b} : m >= x
    <2>1. CASE a >= b
      BY <2>1
    <2>2. CASE b >= a
      BY <2>2
    <2>3. QED BY <2>1, <2>2
  <1>2. Max({a, b}) \in {a, b} /\ \A x \in {a, b} : Max({a, b}) >= x
    BY <1>1 DEF Max
  <1>3. QED BY <1>2

\* Only changes of the catalogue touch the seats, and they never make the widest narrower.
LEMMA WidthKept ==
  ASSUME TypeInv, ApartInv, WidthInv, [Next]_vars
  PROVE  /\ WidthInv' /\ \A k \in Seat : widest[k] <= widest'[k]
         /\ ~ChangeCatalogue => UNCHANGED <<catalogueVars, widest>>
  <1>1. ASSUME UNCHANGED <<catalogueVars, widest>>
        PROVE  WidthInv' /\ \A k \in Seat : widest[k] <= widest'[k]
    BY <1>1 DEF WidthInv, Seat, catalogueVars
  <1>2. ASSUME ChangeCatalogue
        PROVE  WidthInv' /\ \A k \in Seat : widest[k] <= widest'[k]
    <2>1. CatalogueType' /\ Grows
      BY <1>2, ChangeNoted
    <2>2. /\ \A k \in Seat : k \in Seat'
          /\ \A k \in Seat' : seats'[k].capacity \in Nat
      <3>1. \A k \in Seat' : seats'[k] \in SeatRow
        BY <2>1, ElementOfSeq DEF CatalogueType, Seat
      <3>2. QED BY <2>1, <3>1 DEF Grows, SeatRow
    <2>3. widest' = [k \in Seat' |->
                       Max({seats'[k].capacity, IF k \in DOMAIN widest THEN widest[k] ELSE 0})]
      BY <1>2, Zenon DEF ChangeCatalogue, Seat
    <2>4. \A k \in Seat' :
            /\ widest'[k] \in Nat /\ seats'[k].capacity <= widest'[k]
            /\ k \in Seat => widest[k] <= widest'[k]
      BY <2>2, <2>3, Larger DEF WidthInv
    <2>5. QED BY <2>2, <2>3, <2>4 DEF WidthInv
  <1>3. ASSUME Next, ~ChangeCatalogue
        PROVE  UNCHANGED <<catalogueVars, widest>>
    <2>1. ASSUME NEW r \in Req, NEW s \in Service, NEW i \in Times, NEW k \in Seat \cup {None},
                 CreateRead(r, s, i, k)
          PROVE  UNCHANGED <<catalogueVars, widest>>
      BY <2>1 DEF CreateRead, Begin, history
    <2>2. ASSUME NEW r \in Req, NEW b \in Booking, NEW i \in Times, MoveRead(r, b, i)
          PROVE  UNCHANGED <<catalogueVars, widest>>
      BY <2>2 DEF MoveRead, Begin, history
    <2>3. ASSUME NEW r \in Req, CreateList(r)
          PROVE  UNCHANGED <<catalogueVars, widest>>
      BY <2>3 DEF CreateList, GoOn, history
    <2>4. ASSUME NEW r \in Req, CreateSeatCheck(r)
          PROVE  UNCHANGED <<catalogueVars, widest>>
      BY <2>4 DEF CreateSeatCheck, GoOn, history
    <2>5. ASSUME NEW r \in Req, MoveList(r)
          PROVE  UNCHANGED <<catalogueVars, widest>>
      BY <2>5 DEF MoveList, GoOn, history
    <2>6. ASSUME NEW r \in Req, MoveCheck(r)
          PROVE  UNCHANGED <<catalogueVars, widest>>
      BY <2>6 DEF MoveCheck, GoOn, history
    <2>7. ASSUME NEW r \in Req, CreateCommit(r) \/ MoveCommit(r) \/ Stop(r)
          PROVE  UNCHANGED <<catalogueVars, widest>>
      BY <2>7 DEF CreateCommit, MoveCommit, Stop, End
    <2>8. ASSUME NEW b \in Booking, Release(b) \/ Revive(b)
          PROVE  UNCHANGED <<catalogueVars, widest>>
      BY <2>8 DEF Release, Revive, history
    <2>9. QED BY <1>3, <2>1, <2>2, <2>3, <2>4, <2>5, <2>6, <2>7, <2>8 DEF Next, Times
  <1>4. ASSUME UNCHANGED vars
        PROVE  UNCHANGED <<catalogueVars, widest>>
    BY <1>4 DEF vars, history
  <1>5. QED BY <1>1, <1>2, <1>3, <1>4

\* Bookings that are fewer, on seats that are as wide.
LEMMA ClearKept ==
  ASSUME TypeInv, WidthInv, NEW bs \in SUBSET Booking, NEW rows \in SUBSET bs, NEW k,
         k # None => k \in Seat, Clear(bs, k),
         \A c \in rows : booking'[c].seat = booking[c].seat,
         \A j \in Seat : widest'[j] \in Nat /\ widest[j] <= widest'[j]
  PROVE  Clear(rows, k)'
  <1> DEFINE on == {c \in rows : booking'[c].seat = k}
  <1>1. on \subseteq On(bs, k) /\ On(bs, k) \subseteq Booking
    BY DEF On
  <1>2. /\ Cardinality(on) \in Nat /\ Cardinality(On(bs, k)) \in Nat
        /\ Cardinality(on) <= Cardinality(On(bs, k))
    BY <1>1, Sizes
  <1>3. On(bs, None) = {} => \A c \in rows : booking'[c].seat # None
    BY DEF On
  <1>4. k \in Seat /\ Cardinality(On(bs, k)) < widest[k] => Cardinality(on) < widest'[k]
    BY <1>2 DEF WidthInv
  <1>5. CASE bs = {}
    BY <1>5 DEF Clear
  <1>6. CASE k \in Seat /\ k # None /\ On(bs, None) = {} /\ Cardinality(On(bs, k)) < widest[k]
    BY <1>3, <1>4, <1>6 DEF Clear, On
  <1>7. QED BY <1>5, <1>6 DEF Clear
LEMMA RoomForKept ==
  ASSUME TypeInv, WidthInv, NEW C \in SUBSET Booking, NEW D \in SUBSET C, RoomFor(C),
         \A c \in D : booking'[c].seat = booking[c].seat /\ booking[c].seat \in Seat \cup {None},
         \A j \in Seat' : widest'[j] \in Nat,
         \A j \in Seat : widest[j] <= widest'[j],
         None \notin Seat'
  PROVE  RoomFor(D)'
  <1>1. ASSUME NEW k \in Seat'
        PROVE  Cardinality({c \in D : booking'[c].seat = k}) <= widest'[k]
    <2> DEFINE on == {c \in D : booking'[c].seat = k}
    <2>1. on \subseteq On(C, k) /\ On(C, k) \subseteq Booking
      BY DEF On
    <2>2. /\ Cardinality(on) \in Nat /\ Cardinality(On(C, k)) \in Nat
          /\ Cardinality(on) <= Cardinality(On(C, k)) /\ (on = {} => Cardinality(on) = 0)
      BY <2>1, Sizes
    <2>3. CASE k \in Seat
      BY <2>2, <2>3 DEF RoomFor, WidthInv
    <2>4. CASE k \notin Seat
      <3>1. on = {}
        BY <2>4
      <3>2. QED BY <2>2, <3>1
    <2>5. QED BY <2>3, <2>4
  <1>2. ASSUME NEW b \in D, booking'[b].seat = None
        PROVE  D = {b}
    BY <1>2 DEF RoomFor, On
  <1>3. QED BY <1>1, <1>2 DEF RoomFor, On

\* A booking is written: what was checked stays roomy when it is checked against all that
\* overlaps it or counts as unchecked, and the checks it may outdate are counted outdated.
LEMMA PlaceWritten ==
  ASSUME TypeInv, ApartInv, WidthInv, CrowdInv, UNCHANGED <<catalogueVars, widest>>,
         NEW b \in Booking, NEW y \in BookingRow, booking' = [booking EXCEPT ![b] = y],
         Own(y.service, y.seat, y.staff),
         unchecked \ {b} \subseteq unchecked',
         y.active /\ b \notin unchecked' =>
           Clear(Overlapping(services[y.service].vendor, y.start, y.end) \ {b}, y.seat),
         \A q \in Req : task'[q] # None /\ q \notin stale' =>
           /\ task'[q] = task[q] /\ q \notin stale
           /\ y.active => q \notin Taken(services[y.service].vendor, y.start, y.end)
  PROVE  CrowdInv'
  <1>1. /\ booking'[b] = y /\ y # None
        /\ \A c \in Booking \ {b} : booking'[c] = booking[c]
        /\ services' = services /\ widest' = widest /\ Seat' = Seat
    BY Names DEF TypeInv, catalogueVars, Seat
  <1>2. \A k \in Seat : /\ k # None /\ widest[k] \in Nat /\ 1 <= widest[k]
    <2>1. \A k \in Seat : k \in Nat /\ seats[k].capacity \in Nat \ {0}
      BY RowsTyped DEF TypeInv, SeatRow
    <2>2. QED BY <2>1, Names DEF WidthInv
  <1>3. /\ y.seat # None => y.seat \in Seat
        /\ y.start \in Nat /\ y.end \in Nat
    BY DEF Own, BookingRow
  <1>4. \A c \in Booking : booking[c] # None =>
          booking[c].seat \in Seat \cup {None} /\ booking[c].start \in Nat /\ booking[c].end \in Nat
    BY DEF TypeInv, ApartInv, FitBooking, Own, BookingRow
  <1>5. ASSUME NEW v \in Vendor, NEW i \in Nat
        PROVE  RoomFor(Checked(v, i))'
    <2> DEFINE C == Checked(v, i)
               bs == Overlapping(services[y.service].vendor, y.start, y.end) \ {b}
    <2>1. PICK D : D = Checked(v, i)'
      OBVIOUS
    <2>2. /\ D = {c \in Booking : /\ booking'[c] # None /\ booking'[c].active
                                  /\ services[booking'[c].service].vendor = v
                                  /\ booking'[c].start < i + 1 /\ booking'[c].end > i} \ unchecked'
          /\ C = {c \in Booking : /\ booking[c] # None /\ booking[c].active
                                  /\ services[booking[c].service].vendor = v
                                  /\ booking[c].start < i + 1 /\ booking[c].end > i} \ unchecked
      BY <1>1, <2>1 DEF Checked, Present, Overlapping, Held, VendorOf
    <2>3. RoomFor(C) /\ C \subseteq Booking
      BY <2>2 DEF CrowdInv
    <2>4. D \subseteq Booking /\ D \ {b} \subseteq C
      BY <1>1, <2>2
    <2>5. \A c \in C : booking[c].seat \in Seat \cup {None}
      BY <1>4, <2>2
    <2>6. CASE b \notin D
      <3>1. D \subseteq C /\ \A c \in D : /\ booking'[c].seat = booking[c].seat
                                          /\ booking[c].seat \in Seat \cup {None}
        BY <1>1, <2>4, <2>5, <2>6
      <3> HIDE DEF C
      <3>2. RoomFor(D)'
        BY <1>1, <1>2, <2>3, <3>1, RoomForKept
      <3>3. QED BY <2>1, <3>2 DEF RoomFor, On
    <2>7. CASE b \in D
      <3>1. /\ y.active /\ b \notin unchecked' /\ services[y.service].vendor = v
            /\ y.start < i + 1 /\ y.end > i
        BY <1>1, <2>2, <2>7
      <3>2. Clear(bs, y.seat)
        BY <3>1
      <3>3. D \ {b} \subseteq bs
        <4>1. ASSUME NEW c \in D \ {b}
              PROVE  c \in bs
          <5>1. /\ c \in Booking \ {b} /\ booking[c] # None /\ booking[c].active
                /\ services[booking[c].service].vendor = v
                /\ booking[c].start < i + 1 /\ booking[c].end > i
            BY <2>2, <2>4, <4>1
          <5>2. booking[c].start < y.end /\ booking[c].end > y.start
            BY <1>3, <1>4, <3>1, <5>1
          <5>3. QED BY <3>1, <5>1, <5>2 DEF Overlapping, Held, VendorOf
        <4>2. QED BY <4>1
      <3>4. bs \subseteq Booking
        BY DEF Overlapping, Held
      <3> HIDE DEF C, bs
      <3> DEFINE on(k) == {c \in D : booking'[c].seat = k}
      <3>5. ASSUME NEW k \in Seat
            PROVE  Cardinality(on(k)) <= widest[k]
        <4>1. on(k) \subseteq D
          OBVIOUS
        <4>2. CASE bs = {}
          <5>1. D = {b} /\ on(k) \subseteq {b}
            BY <2>7, <3>3, <4>2
          <5>2. Cardinality(D) = 1 /\ Cardinality(on(k)) \in Nat /\ Cardinality(on(k)) <= 1
            BY <2>4, <4>1, <5>1, Sizes
          <5>3. QED BY <1>2, <5>2
        <4>3. CASE y.seat = k /\ Cardinality(On(bs, k)) < widest[k]
          <5>1. /\ on(k) \subseteq On(bs, k) \cup {b} /\ On(bs, k) \subseteq Booking
                /\ b \in on(k)
            BY <1>1, <2>7, <3>3, <3>4, <4>3 DEF On
          <5> DEFINE rest == on(k) \ {b}
          <5>2. rest \subseteq On(bs, k) /\ rest \subseteq on(k) /\ on(k) \subseteq rest \cup {b}
            BY <5>1
          <5> HIDE DEF rest, on
          <5>3. Cardinality(rest) <= Cardinality(On(bs, k)) /\ Cardinality(On(bs, k)) \in Nat
            BY <5>1, <5>2, Sizes
          <5>4. Cardinality(on(k)) <= Cardinality(rest) + 1 /\ Cardinality(on(k)) \in Nat
                /\ Cardinality(rest) \in Nat
            BY <2>4, <4>1, <5>2, Sizes
          <5>5. QED BY <1>2, <4>3, <5>3, <5>4
        <4>4. CASE y.seat # k
          <5>1. on(k) \subseteq On(C, k) /\ On(C, k) \subseteq Booking
            BY <1>1, <2>3, <2>4, <4>4 DEF On
          <5>2. /\ Cardinality(on(k)) <= Cardinality(On(C, k))
                /\ Cardinality(on(k)) \in Nat /\ Cardinality(On(C, k)) \in Nat
            BY <5>1, Sizes
          <5>3. Cardinality(On(C, k)) <= widest[k]
            BY <2>3 DEF RoomFor
          <5>4. QED BY <1>2, <5>2, <5>3
        <4>5. QED BY <3>2, <4>2, <4>3, <4>4 DEF Clear
      <3>6. ASSUME NEW c \in D, booking'[c].seat = None
            PROVE  D = {c}
        <4>1. CASE bs = {}
          BY <2>7, <3>3, <3>6, <4>1
        <4>2. CASE y.seat # None /\ On(bs, None) = {}
          BY <1>1, <2>4, <3>3, <3>4, <3>6, <4>2 DEF On
        <4>3. QED BY <3>2, <4>1, <4>2 DEF Clear
      <3>7. QED BY <1>1, <2>1, <3>5, <3>6 DEF RoomFor, On
    <2>8. QED BY <2>6, <2>7
  <1>6. ASSUME NEW r \in Req \ stale'
        PROVE  ClearFor(task[r])'
    <2>1. CASE task'[r] = None
      BY <2>1 DEF ClearFor
    <2>2. CASE task'[r] # None
      <3>1. /\ task'[r] = task[r] /\ r \notin stale
            /\ y.active => r \notin Taken(services[y.service].vendor, y.start, y.end)
        BY <2>2
      <3>2. PICK t : t = task[r]
        OBVIOUS
      <3>3. ClearFor(t) /\ t # None
        BY <2>2, <3>1, <3>2 DEF CrowdInv
      <3> DEFINE v == services[t.service].vendor
                 old == Overlapping(v, t.start, t.end)
      <3>4. PICK new : new = Overlapping(v, t.start, t.end)'
        OBVIOUS
      <3>5. ASSUME t.op \in {"insert", "move"}
            PROVE  b \notin new /\ new \subseteq old
        <4>1. /\ new = {c \in Booking : /\ booking'[c] # None /\ booking'[c].active
                                        /\ services[booking'[c].service].vendor = v
                                        /\ booking'[c].start < t.end /\ booking'[c].end > t.start}
              /\ old = {c \in Booking : /\ booking[c] # None /\ booking[c].active
                                        /\ services[booking[c].service].vendor = v
                                        /\ booking[c].start < t.end /\ booking[c].end > t.start}
          BY <1>1, <3>4 DEF Overlapping, Held, VendorOf
        <4>2. t.start \in Nat /\ t.end \in Nat
          <5>1. t \in InsertTask \/ t \in CheckTask
            BY <3>2, <3>3, <3>5, TaskOf DEF At
          <5>2. QED BY <5>1, Names DEF InsertTask, CheckTask, Times
        <4>3. b \notin new
          BY <1>1, <1>3, <3>1, <3>2, <3>3, <3>5, <4>1, <4>2 DEF Taken
        <4>4. QED BY <1>1, <4>1, <4>3
      <3>6. ASSUME t.op = "insert"
            PROVE  Clear(new, t.seat)'
        <4>1. b \notin new /\ new \subseteq old /\ old \subseteq Booking
          BY <3>5, <3>6 DEF Overlapping, Held
        <4>2. Clear(old, t.seat)
          BY <3>3, <3>6 DEF ClearFor
        <4>3. t.seat # None => t.seat \in Seat
          BY <3>2, <3>3, <3>6 DEF ApartInv, FitTask, Own
        <4>4. \A c \in new : booking'[c].seat = booking[c].seat
          BY <1>1, <4>1
        <4>5. \A j \in Seat : widest'[j] \in Nat /\ widest[j] <= widest'[j]
          BY <1>1, <1>2
        <4> HIDE DEF old
        <4>6. QED BY <4>1, <4>2, <4>3, <4>4, <4>5, ClearKept
      <3>7. ASSUME t.op = "move"
            PROVE  new \ {t.booking} = {}
        <4>1. old \ {t.booking} = {}
          BY <3>3, <3>7 DEF ClearFor, Blockers
        <4>2. QED BY <3>5, <3>7, <4>1
      <3> HIDE DEF old
      <3>8. t.op = "insert" => Clear(Overlapping(v, t.start, t.end), t.seat)'
        BY <3>4, <3>6 DEF Clear, On
      <3>9. t.op = "move" => Blockers(t.booking, v, t.start, t.end)' = {}
        BY <3>4, <3>7 DEF Blockers
      <3>10. QED BY <1>1, <3>1, <3>2, <3>8, <3>9 DEF ClearFor
    <2>3. QED BY <2>1, <2>2
  <1>7. QED BY <1>5, <1>6 DEF CrowdInv
LEMMA ChecksKept ==
  ASSUME CrowdInv, UNCHANGED <<catalogueVars, booking, unchecked, widest>>,
         \A q \in Req \ stale' : \E u : u = task'[q] /\ ClearFor(u)
  PROVE  CrowdInv'
  <1>1. \A v \in Vendor, i \in Nat : RoomFor(Checked(v, i))'
    BY DEF CrowdInv, RoomFor, Checked, Present, Overlapping, Held, VendorOf, On, Seat,
           catalogueVars
  <1>2. ASSUME NEW q \in Req \ stale'
        PROVE  ClearFor(task[q])'
    <2>1. PICK u : u = task'[q] /\ ClearFor(u)
      OBVIOUS
    <2>2. QED BY <2>1 DEF ClearFor, Clear, Blockers, Overlapping, Held, VendorOf, On, catalogueVars
  <1>3. QED BY <1>1, <1>2 DEF CrowdInv
LEMMA StageKept ==
  ASSUME TypeInv, CrowdInv, UNCHANGED <<catalogueVars, booking, history>>,
         NEW r \in Req, NEW t, task' = [task EXCEPT ![r] = t], ClearFor(t)
  PROVE  CrowdInv'
  <1>1. \A q \in Req \ stale' : \E u : u = task'[q] /\ ClearFor(u)
    BY DEF TypeInv, CrowdInv, history
  <1>2. QED BY <1>1, ChecksKept DEF history

LEMMA CrowdInvInductive ==
  /\ Init => WidthInv /\ CrowdInv
  /\ TypeInv /\ ApartInv /\ WidthInv /\ CrowdInv /\ [Next]_vars => WidthInv' /\ CrowdInv'
  <1>1. ASSUME Init
        PROVE  WidthInv /\ CrowdInv
    <2>1. /\ booking \in FirstBookings /\ task = [r \in Req |-> None] /\ unchecked = {}
          /\ widest = [k \in Seat |-> seats[k].capacity]
          /\ TypeInv
      BY <1>1, ApartInvInductive DEF Init, Seat
    <2>2. \A k \in Seat : k # None /\ seats[k].capacity \in Nat
      BY <2>1, RowsTyped, Names DEF TypeInv, SeatRow
    <2>3. WidthInv
      BY <2>1, <2>2 DEF WidthInv
    <2>4. ASSUME NEW b \in Booking, booking[b] # None
          PROVE  /\ booking[b].seat = None /\ booking[b].start \in Nat /\ booking[b].end \in Nat
                 /\ \A c \in Booking \ {b} : booking[c] # None =>
                      booking[c].end <= booking[b].start \/ booking[b].end <= booking[c].start
      BY <2>1, <2>4, SeatsAssumption DEF TypeInv, BookingRow
    <2>5. ASSUME NEW v \in Vendor, NEW i \in Nat
          PROVE  RoomFor(Checked(v, i))
      <3> DEFINE C == Checked(v, i)
      <3>1. C \subseteq {b \in Booking : /\ booking[b] # None
                                        /\ booking[b].start < i + 1 /\ booking[b].end > i}
        BY DEF Checked, Present, Overlapping, Held
      <3> HIDE DEF C
      <3>2. ASSUME NEW b \in C, NEW c \in C, b # c
            PROVE  FALSE
        <4>1. /\ b \in Booking /\ c \in Booking \ {b} /\ booking[b] # None /\ booking[c] # None
              /\ booking[b].start < i + 1 /\ booking[b].end > i
              /\ booking[c].start < i + 1 /\ booking[c].end > i
          BY <3>1, <3>2
        <4>2. /\ booking[b].start \in Nat /\ booking[b].end \in Nat
              /\ booking[c].start \in Nat /\ booking[c].end \in Nat
              /\ booking[c].end <= booking[b].start \/ booking[b].end <= booking[c].start
          BY <2>4, <4>1
        <4>3. QED BY <4>1, <4>2
      <3>3. ASSUME NEW k \in Seat
            PROVE  Cardinality(On(C, k)) <= widest[k]
        <4>1. On(C, k) = {}
          BY <2>2, <2>4, <3>1 DEF On
        <4>2. Cardinality(On(C, k)) = 0
          BY <4>1, Sizes
        <4>3. QED BY <2>1, <2>2, <4>2
      <3>4. \A b \in On(C, None) : C = {b}
        BY <3>2 DEF On
      <3>5. RoomFor(C)
        BY <3>3, <3>4 DEF RoomFor
      <3>6. QED BY <3>5 DEF C
    <2>6. QED BY <2>1, <2>3, <2>5 DEF CrowdInv, ClearFor
  <1> SUFFICES ASSUME TypeInv, ApartInv, WidthInv, CrowdInv, [Next]_vars
               PROVE  WidthInv' /\ CrowdInv'
    BY <1>1
  <1>2. WidthInv' /\ \A k \in Seat : widest[k] <= widest'[k]
    BY WidthKept
  <1>3. CASE UNCHANGED vars
    <2>1. \A q \in Req \ stale' : \E u : u = task'[q] /\ ClearFor(u)
      BY <1>3 DEF vars, deskVars, history, CrowdInv
    <2>2. QED BY <1>2, <1>3, <2>1, ChecksKept DEF vars, deskVars, history
  <1>4. ASSUME ChangeCatalogue
        PROVE  CrowdInv'
    <2>1. /\ CatalogueType' /\ Grows /\ UNCHANGED <<booking, unchecked, stale>>
      BY <1>4, ChangeNoted
    <2>2. /\ \A j \in Seat' : widest'[j] \in Nat
          /\ \A j \in Seat : widest'[j] \in Nat /\ widest[j] <= widest'[j]
      BY <1>2, <2>1 DEF WidthInv, Grows
    <2>3. None \notin Seat'
      <3>1. Seat' \subseteq Nat
        BY <2>1, ElementOfSeq DEF CatalogueType, Seat
      <3>2. QED BY <3>1, Names
    <2>4. Held' = Held /\ \A b \in Held : VendorOf(b)' = VendorOf(b)
      <3>1. \A b \in Held : booking[b].service \in Service
        BY DEF Held, ApartInv, FitBooking, Own
      <3>2. QED BY <2>1, <3>1 DEF Held, VendorOf, Grows
    <2>5. \A v, from, to : Overlapping(v, from, to)' = Overlapping(v, from, to)
      BY <2>1, <2>4 DEF Overlapping
    <2>6. ASSUME NEW v \in Vendor, NEW i \in Nat
          PROVE  RoomFor(Checked(v, i))'
      <3>1. PICK D : D = Checked(v, i)
        OBVIOUS
      <3>2. RoomFor(D) /\ D \subseteq Booking /\ Checked(v, i)' = D
        BY <2>1, <2>5, <3>1 DEF CrowdInv, Checked, Present, Overlapping, Held
      <3>3. \A c \in D : booking'[c].seat = booking[c].seat /\ booking[c].seat \in Seat \cup {None}
        BY <2>1, <3>1 DEF ApartInv, FitBooking, Own, Checked, Present, Overlapping, Held
      <3>4. RoomFor(D)'
        BY <2>2, <2>3, <3>2, <3>3, RoomForKept
      <3>5. QED BY <3>2, <3>4 DEF RoomFor, On
    <2>7. ASSUME NEW r \in Req \ stale'
          PROVE  ClearFor(task[r])'
      <3>1. CASE At(r, "list") \/ At(r, "relist")
        <4>1. \E u : u = task'[r] /\ (u.op = "list" \/ u.op = "relist")
          BY <1>4, <3>1, ChangeNoted
        <4>2. QED BY <4>1 DEF ClearFor
      <3>2. CASE ~At(r, "list") /\ ~At(r, "relist")
        <4>1. task'[r] = task[r] /\ r \notin stale
          BY <1>4, <2>1, <3>2, ChangeNoted
        <4>2. PICK t : t = task[r]
          OBVIOUS
        <4>3. ClearFor(t)
          BY <4>1, <4>2 DEF CrowdInv
        <4>4. CASE t = None
          BY <4>1, <4>2, <4>4 DEF ClearFor
        <4>5. CASE t # None
          <5>1. PICK v : v = services[t.service].vendor
            OBVIOUS
          <5>2. t.service \in Service /\ services'[t.service].vendor = v
            BY <2>1, <4>2, <4>5, <5>1 DEF ApartInv, FitTask, Grows
          <5>3. ASSUME t.op = "insert"
                PROVE  Clear(Overlapping(v, t.start, t.end), t.seat)'
            <6>1. PICK bs : bs = Overlapping(v, t.start, t.end)
              OBVIOUS
            <6>2. bs \subseteq Booking /\ Clear(bs, t.seat) /\ Overlapping(v, t.start, t.end)' = bs
              <7>1. bs \subseteq Booking
                BY <6>1 DEF Overlapping, Held
              <7>2. Clear(bs, t.seat)
                BY <4>3, <4>5, <5>1, <5>3, <6>1 DEF ClearFor
              <7>3. Overlapping(v, t.start, t.end)' = bs
                BY <2>5, <6>1
              <7>4. QED BY <7>1, <7>2, <7>3
            <6>3. t.seat # None => t.seat \in Seat
              BY <4>2, <4>5, <5>3 DEF ApartInv, FitTask, Own
            <6>4. Clear(bs, t.seat)'
              BY <2>1, <2>2, <6>2, <6>3, ClearKept
            <6>5. QED BY <6>2, <6>4 DEF Clear, On
          <5>4. ASSUME t.op = "move"
                PROVE  Blockers(t.booking, v, t.start, t.end)' = {}
            BY <2>5, <4>3, <4>5, <5>1, <5>4 DEF ClearFor, Blockers
          <5>5. QED BY <4>1, <4>2, <5>2, <5>3, <5>4 DEF ClearFor
        <4>6. QED BY <4>4, <4>5
      <3>3. QED BY <3>1, <3>2
    <2>8. QED BY <2>6, <2>7 DEF CrowdInv
  <1>5. ASSUME NEW r \in Req, NEW s \in Service, NEW i \in Times, NEW k \in Seat \cup {None},
               CreateRead(r, s, i, k)
        PROVE  CrowdInv'
    <2>1. PICK t \in ListTask : /\ task' = [task EXCEPT ![r] = t]
                                /\ UNCHANGED <<catalogueVars, booking, history>>
      BY <1>5, CreateReadDone
    <2>2. ClearFor(t)
      BY DEF ClearFor, ListTask
    <2>3. QED BY <2>1, <2>2, StageKept
  <1>6. ASSUME NEW r \in Req, NEW b \in Booking, NEW i \in Times, MoveRead(r, b, i)
        PROVE  CrowdInv'
    <2>1. PICK t \in RelistTask : /\ task' = [task EXCEPT ![r] = t]
                                  /\ UNCHANGED <<catalogueVars, booking, history>>
      BY <1>6, MoveReadDone
    <2>2. ClearFor(t)
      BY DEF ClearFor, RelistTask
    <2>3. QED BY <2>1, <2>2, StageKept
  <1>7. ASSUME NEW r \in Req, CreateList(r)
        PROVE  CrowdInv'
    <2>1. PICK t \in SeatTask : /\ task' = [task EXCEPT ![r] = t]
                                /\ UNCHANGED <<catalogueVars, booking, history>>
      BY <1>7, CreateListDone
    <2>2. ClearFor(t)
      BY DEF ClearFor, SeatTask
    <2>3. QED BY <2>1, <2>2, StageKept
  <1>8. ASSUME NEW r \in Req, CreateSeatCheck(r)
        PROVE  CrowdInv'
    <2>1. PICK t \in InsertTask :
            /\ At(r, "seat") /\ task' = [task EXCEPT ![r] = t] /\ t.service = task[r].service
            /\ t.seat \in Places(t.service, t.start, t.end)
            /\ UNCHANGED <<catalogueVars, booking, history>>
      BY <1>8, CreateSeatChecked
    <2>2. PICK bs : bs = Overlapping(services[t.service].vendor, t.start, t.end)
      OBVIOUS
    <2>3. \/ t.seat = None /\ bs = {}
          \/ t.seat \in Seat /\ On(bs, None) = {} /\ Cardinality(On(bs, t.seat)) < seats[t.seat].capacity
      BY <2>1, <2>2 DEF Places, SeatsFor, Room
    <2>4. CASE t.seat = None /\ bs = {}
      <3>1. ClearFor(t)
        BY <2>2, <2>4 DEF ClearFor, Clear, InsertTask
      <3>2. QED BY <2>1, <3>1, StageKept
    <2>5. CASE /\ t.seat \in Seat /\ On(bs, None) = {}
               /\ Cardinality(On(bs, t.seat)) < seats[t.seat].capacity
      <3>1. On(bs, t.seat) \subseteq Booking
        BY <2>2 DEF On, Overlapping, Held
      <3>2. Cardinality(On(bs, t.seat)) \in Nat
        BY <3>1, Sizes
      <3>3. seats[t.seat].capacity \in Nat /\ widest[t.seat] \in Nat /\ t.seat # None
            /\ seats[t.seat].capacity <= widest[t.seat]
        BY <2>5, RowsTyped, Names DEF TypeInv, SeatRow, WidthInv
      <3>4. Cardinality(On(bs, t.seat)) < widest[t.seat]
        BY <2>5, <3>2, <3>3
      <3>5. ClearFor(t)
        BY <2>2, <2>5, <3>3, <3>4 DEF ClearFor, Clear, InsertTask
      <3>6. QED BY <2>1, <3>5, StageKept
    <2>6. QED BY <2>3, <2>4, <2>5
  <1>9. ASSUME NEW r \in Req, CreateCommit(r)
        PROVE  CrowdInv'
    <2>1. PICK b \in Booking, y \in BookingRow :
            /\ At(r, "insert") /\ booking[b] = None /\ booking' = [booking EXCEPT ![b] = y]
            /\ y.service = task[r].service /\ y.seat = task[r].seat /\ y.staff = task[r].staff
            /\ y.start = task[r].start /\ y.end = task[r].end
            /\ task' = [task EXCEPT ![r] = None] /\ Placed(r, b)
            /\ UNCHANGED <<catalogueVars, widest>>
      BY <1>9, CreateDone
    <2>2. Own(y.service, y.seat, y.staff)
      BY <2>1 DEF ApartInv, FitTask, At
    <2> DEFINE bs == Overlapping(services[y.service].vendor, y.start, y.end)
    <2>3. ASSUME b \notin unchecked'
          PROVE  Clear(bs \ {b}, y.seat)
      <3>1. r \notin stale
        BY <2>1, <2>3 DEF Placed
      <3>2. Clear(bs, y.seat)
        BY <2>1, <3>1 DEF CrowdInv, ClearFor, At
      <3>3. bs \ {b} = bs
        BY <2>1 DEF Overlapping, Held
      <3>4. QED BY <3>2, <3>3
    <2>4. /\ unchecked \ {b} \subseteq unchecked'
          /\ stale' = (stale \cup Taken(services[y.service].vendor, y.start, y.end)) \ {r}
      BY <2>1 DEF Placed
    <2>5. \A q \in Req : task'[q] # None /\ q \notin stale' =>
            /\ task'[q] = task[q] /\ q \notin stale
            /\ q \notin Taken(services[y.service].vendor, y.start, y.end)
      BY <2>1, <2>4 DEF TypeInv
    <2> HIDE DEF bs
    <2>6. y.active /\ b \notin unchecked' => Clear(bs \ {b}, y.seat)
      BY <2>3
    <2>7. QED BY <2>1, <2>2, <2>4, <2>5, <2>6, PlaceWritten DEF bs
  <1>10. ASSUME NEW r \in Req, MoveList(r)
         PROVE  CrowdInv'
    <2>1. PICK t \in CheckTask : /\ task' = [task EXCEPT ![r] = t] /\ t.op = "recheck"
                                 /\ UNCHANGED <<catalogueVars, booking, history>>
      BY <1>10, MoveListDone
    <2>2. ClearFor(t)
      BY <2>1 DEF ClearFor
    <2>3. QED BY <2>1, <2>2, StageKept
  <1>11. ASSUME NEW r \in Req, MoveCheck(r)
         PROVE  CrowdInv'
    <2>1. PICK t \in CheckTask :
            /\ task' = [task EXCEPT ![r] = t] /\ t.op = "move"
            /\ Blockers(t.booking, services[t.service].vendor, t.start, t.end) = {}
            /\ UNCHANGED <<catalogueVars, booking, history>>
      BY <1>11, MoveChecked
    <2>2. ClearFor(t)
      BY <2>1 DEF ClearFor
    <2>3. QED BY <2>1, <2>2, StageKept
  <1>12. ASSUME NEW r \in Req, MoveCommit(r)
         PROVE  CrowdInv'
    <2>1. PICK b \in Booking, y \in BookingRow :
            /\ At(r, "move") /\ b = task[r].booking
            /\ booking[b] # None /\ booking' = [booking EXCEPT ![b] = y]
            /\ y.service = booking[b].service /\ y.seat = booking[b].seat
            /\ y.staff = booking[b].staff
            /\ y.start = task[r].start /\ y.end = task[r].end
            /\ task' = [task EXCEPT ![r] = None] /\ Placed(r, b)
            /\ UNCHANGED <<catalogueVars, widest>>
      BY <1>12, MoveDone
    <2>2. Own(y.service, y.seat, y.staff)
      BY <2>1 DEF ApartInv, FitBooking
    <2>3. y.service = task[r].service
      BY <2>1 DEF ApartInv, FitTask, At
    <2> DEFINE bs == Overlapping(services[y.service].vendor, y.start, y.end)
    <2>4. ASSUME b \notin unchecked'
          PROVE  Clear(bs \ {b}, y.seat)
      <3>1. r \notin stale
        BY <2>1, <2>4 DEF Placed
      <3>2. Blockers(b, services[y.service].vendor, y.start, y.end) = {}
        BY <2>1, <2>3, <3>1 DEF CrowdInv, ClearFor, At
      <3>3. QED BY <3>2 DEF Clear, Blockers
    <2>5. /\ unchecked \ {b} \subseteq unchecked'
          /\ stale' = (stale \cup Taken(services[y.service].vendor, y.start, y.end)) \ {r}
      BY <2>1, <2>3 DEF Placed
    <2>6. \A q \in Req : task'[q] # None /\ q \notin stale' =>
            /\ task'[q] = task[q] /\ q \notin stale
            /\ q \notin Taken(services[y.service].vendor, y.start, y.end)
      BY <2>1, <2>5 DEF TypeInv
    <2> HIDE DEF bs
    <2>7. y.active /\ b \notin unchecked' => Clear(bs \ {b}, y.seat)
      BY <2>4
    <2>8. QED BY <2>1, <2>2, <2>5, <2>6, <2>7, PlaceWritten DEF bs
  <1>13. ASSUME NEW r \in Req, Stop(r)
         PROVE  CrowdInv'
    <2>1. /\ task' = [task EXCEPT ![r] = None] /\ stale' = stale \ {r}
          /\ UNCHANGED <<catalogueVars, booking, unchecked, widest>>
      BY <1>13 DEF Stop, End
    <2>2. \A q \in Req \ stale' : \E u : u = task'[q] /\ ClearFor(u)
      BY <2>1 DEF TypeInv, CrowdInv, ClearFor
    <2>3. QED BY <2>1, <2>2, ChecksKept
  <1>14. ASSUME NEW b \in Booking, Release(b) \/ Revive(b)
         PROVE  CrowdInv'
    <2>1. PICK y \in BookingRow :
            /\ booking[b] # None /\ booking' = [booking EXCEPT ![b] = y]
            /\ y.service = booking[b].service /\ y.seat = booking[b].seat
            /\ y.staff = booking[b].staff
            /\ y.start = booking[b].start /\ y.end = booking[b].end
            /\ UNCHANGED <<catalogueVars, task, widest>>
            /\ Release(b) => ~y.active /\ UNCHANGED history
      BY <1>14, Switched
    <2>2. Own(y.service, y.seat, y.staff)
      BY <2>1 DEF ApartInv, FitBooking
    <2>3. CASE Release(b)
      <3>1. ~y.active /\ unchecked' = unchecked /\ stale' = stale /\ task' = task
        BY <2>1, <2>3 DEF history
      <3>2. QED BY <2>1, <2>2, <3>1, PlaceWritten
    <2>4. CASE Revive(b)
      <3>1. /\ unchecked' = unchecked \cup {b} /\ task' = task
            /\ stale' = stale \cup Taken(services[y.service].vendor, y.start, y.end)
        BY <2>1, <2>4 DEF Revive, VendorOf
      <3>2. QED BY <2>1, <2>2, <3>1, PlaceWritten
    <2>5. QED BY <1>14, <2>3, <2>4
  <1>15. QED
    <2> HIDE DEF CrowdInv, WidthInv
    <2>1. QED BY <1>2, <1>3, <1>4, <1>5, <1>6, <1>7, <1>8, <1>9, <1>10, <1>11, <1>12, <1>13, <1>14
                 DEF Next, Times

\* A seat takes more bookings than it ever had room for, or a booking without a seat shares
\* its time, only where a booking took its place unchecked: whatever lengths, seats, staff
\* and services are changed, and whatever is moved, between the checks and the commits.
THEOREM SeatsTakeNoMore == Spec => []CrowdedOnlyUnchecked
  <1>1. ASSUME TypeInv, CrowdInv, WidthInv, NEW v \in Vendor, NEW i \in 0 .. 2 * Day,
               Crowded(v, i), Present(v, i) \cap unchecked = {}
        PROVE  FALSE
    <2>1. i \in Nat
      BY Names
    <2> DEFINE C == Present(v, i)
    <2>2. RoomFor(C) /\ C \subseteq Booking
      <3>1. Checked(v, i) = C
        BY <1>1 DEF Checked
      <3>2. QED BY <1>1, <2>1, <3>1 DEF CrowdInv, Present, Overlapping, Held
    <2> HIDE DEF C
    <2>3. ASSUME NEW k \in Seat
          PROVE  ~(Cardinality(On(C, k)) > widest[k])
      <3>1. On(C, k) \subseteq Booking
        BY <2>2 DEF On
      <3>2. Cardinality(On(C, k)) \in Nat /\ widest[k] \in Nat
        BY <1>1, <3>1, Sizes DEF WidthInv
      <3>3. QED BY <2>2, <3>2 DEF RoomFor
    <2>4. On(C, None) # {} => Cardinality(C) = 1
      BY <2>2, Sizes DEF RoomFor, On
    <2>5. QED BY <1>1, <2>3, <2>4 DEF Crowded, C
  <1>2. TypeInv /\ CrowdInv /\ WidthInv => CrowdedOnlyUnchecked
    BY <1>1 DEF CrowdedOnlyUnchecked
  <1>3. QED BY <1>2, ApartInvInductive, CrowdInvInductive, PTL DEF Spec

-----------------------------------------------------------------------------
(***************************************************************************)
(* What a nearby search finds.                                             *)
(***************************************************************************)

\* Each service stands once in the order of updates.
Enumerates(q, S) ==
  /\ q \in Seq(S)
  /\ \A i, j \in DOMAIN q : i # j => q[i] # q[j]
  /\ \A s \in S : \E i \in DOMAIN q : q[i] = s

RecentInv == Enumerates(recent, Service)

\* A new service comes first; an updated one moves to the front.
LEMMA NewFirst ==
  ASSUME NEW S, NEW q, Enumerates(q, S), NEW x, x \notin S
  PROVE  Enumerates(<<x>> \o q, S \cup {x})
  <1>1. PICK n \in Nat : n = Len(q) /\ DOMAIN q = 1 .. n /\ \A i \in 1 .. n : q[i] \in S
    BY ElementOfSeq DEF Enumerates
  <1>2. PICK p : p = <<x>> \o q
    OBVIOUS
  <1>3. /\ p \in Seq(S \cup {x}) /\ DOMAIN p = 1 .. n + 1 /\ p[1] = x
        /\ \A i \in 1 .. n : p[i + 1] = q[i]
    <2>1. <<x>> \in Seq(S \cup {x}) /\ Len(<<x>>) = 1 /\ <<x>>[1] = x
      OBVIOUS
    <2>2. q \in Seq(S \cup {x})
      BY <1>1 DEF Enumerates
    <2>3. /\ p \in Seq(S \cup {x}) /\ Len(p) = 1 + n
          /\ \A i \in 1 .. 1 + n : p[i] = IF i <= 1 THEN <<x>>[i] ELSE q[i - 1]
      BY <1>1, <1>2, <2>1, <2>2, ConcatProperties
    <2>4. p[1] = x
      BY <1>1, <2>1, <2>3
    <2>5. \A i \in 1 .. n : i + 1 \in 1 .. 1 + n /\ ~(i + 1 <= 1) /\ (i + 1) - 1 = i
      BY <1>1
    <2>6. DOMAIN p = 1 .. n + 1
      BY <1>1, <2>3
    <2>7. QED BY <2>3, <2>4, <2>5, <2>6
  <1>4. \A i \in 1 .. n + 1 : i = 1 \/ (i - 1 \in 1 .. n /\ (i - 1) + 1 = i)
    OBVIOUS
  <1>5. \A i, j \in 1 .. n + 1 : i # j => p[i] # p[j]
    <2>1. ASSUME NEW i \in 1 .. n + 1, NEW j \in 1 .. n + 1, i # j, i # 1, j # 1
          PROVE  p[i] # p[j]
      <3>1. i - 1 \in 1 .. n /\ j - 1 \in 1 .. n /\ i - 1 # j - 1
        BY <2>1
      <3>2. p[i] = q[i - 1] /\ p[j] = q[j - 1]
        BY <1>3, <1>4, <2>1
      <3>3. QED BY <1>1, <3>1, <3>2 DEF Enumerates
    <2>2. ASSUME NEW i \in 1 .. n + 1, i # 1
          PROVE  p[i] # p[1]
      <3>1. i - 1 \in 1 .. n /\ p[(i - 1) + 1] = q[i - 1] /\ (i - 1) + 1 = i
        BY <1>3, <1>4, <2>2
      <3>2. p[i] \in S
        BY <1>1, <3>1
      <3>3. QED BY <1>3, <3>2
    <2>3. QED BY <2>1, <2>2
  <1>6. ASSUME NEW s \in S \cup {x}
        PROVE  \E i \in 1 .. n + 1 : p[i] = s
    <2>1. CASE s = x
      BY <1>3, <2>1
    <2>2. CASE s # x
      <3>1. PICK i \in 1 .. n : q[i] = s
        BY <1>1, <2>2 DEF Enumerates
      <3>2. i + 1 \in 1 .. n + 1 /\ p[i + 1] = s
        BY <1>3, <3>1
      <3>3. QED BY <3>2
    <2>3. QED BY <2>1, <2>2
  <1>7. QED BY <1>2, <1>3, <1>5, <1>6 DEF Enumerates

LEMMA OneLess ==
  ASSUME NEW S, NEW q, Enumerates(q, S), NEW k \in DOMAIN q
  PROVE  Enumerates(RemoveAt(q, k), S \ {q[k]})
  <1>1. PICK n \in Nat : n = Len(q) /\ DOMAIN q = 1 .. n /\ \A i \in 1 .. n : q[i] \in S
    BY ElementOfSeq DEF Enumerates
  <1>2. PICK p : p = RemoveAt(q, k)
    OBVIOUS
  <1>3. k \in 1 .. n /\ k - 1 \in 0 .. n /\ n - k \in Nat
    BY <1>1
  <1>4. PICK a, b : a = SubSeq(q, 1, k - 1) /\ b = SubSeq(q, k + 1, n) /\ p = a \o b
    BY <1>1, <1>2 DEF RemoveAt
  <1>5. /\ p \in Seq(S) /\ DOMAIN p = 1 .. n - 1
        /\ \A i \in 1 .. n - 1 : p[i] = IF i < k THEN q[i] ELSE q[i + 1]
    <2>1. q \in Seq(S)
      BY DEF Enumerates
    <2>2. a \in Seq(S) /\ Len(a) = k - 1 /\ \A i \in 1 .. k - 1 : a[i] = q[i]
      <3>1. PICK m \in Int : m = k - 1
        BY <1>3
      <3>2. a = SubSeq(q, 1, m) /\ \A i \in 1 .. m : q[i] \in S
        BY <1>1, <1>3, <1>4, <3>1
      <3>3. /\ SubSeq(q, 1, m) \in Seq(S)
            /\ Len(SubSeq(q, 1, m)) = IF 1 <= m THEN m - 1 + 1 ELSE 0
            /\ \A i \in 1 .. m - 1 + 1 : SubSeq(q, 1, m)[i] = q[1 + i - 1]
        BY <3>2, SubSeqProperties
      <3>4. m - 1 + 1 = m /\ (IF 1 <= m THEN m - 1 + 1 ELSE 0) = m
            /\ \A i \in 1 .. m : 1 + i - 1 = i
        BY <1>3, <3>1
      <3>5. QED BY <3>1, <3>2, <3>3, <3>4
    <2>3. b \in Seq(S) /\ Len(b) = n - k /\ \A i \in 1 .. n - k : b[i] = q[i + k]
      <3>1. PICK m \in Int : m = k + 1
        BY <1>3
      <3>2. b = SubSeq(q, m, n) /\ \A i \in m .. n : q[i] \in S
        <4>1. \A i \in m .. n : i \in 1 .. n
          BY <1>3, <3>1
        <4>2. b = SubSeq(q, m, n)
          BY <1>4, <3>1
        <4>3. QED BY <1>1, <4>1, <4>2
      <3>3. /\ SubSeq(q, m, n) \in Seq(S)
            /\ Len(SubSeq(q, m, n)) = IF m <= n THEN n - m + 1 ELSE 0
            /\ \A i \in 1 .. n - m + 1 : SubSeq(q, m, n)[i] = q[m + i - 1]
        BY <3>2, SubSeqProperties
      <3>4. n - m + 1 = n - k /\ (IF m <= n THEN n - m + 1 ELSE 0) = n - k
            /\ \A i \in 1 .. n - k : m + i - 1 = i + k
        BY <1>3, <3>1
      <3>5. QED BY <3>2, <3>3, <3>4
    <2>6. /\ p \in Seq(S) /\ Len(p) = (k - 1) + (n - k)
          /\ \A i \in 1 .. (k - 1) + (n - k) : p[i] = IF i <= k - 1 THEN a[i] ELSE b[i - (k - 1)]
      <3>1. /\ a \o b \in Seq(S) /\ Len(a \o b) = Len(a) + Len(b)
            /\ \A i \in 1 .. Len(a) + Len(b) :
                 (a \o b)[i] = IF i <= Len(a) THEN a[i] ELSE b[i - Len(a)]
        BY <2>2, <2>3, ConcatProperties
      <3>2. Len(a) = k - 1 /\ Len(b) = n - k /\ p = a \o b
        BY <1>4, <2>2, <2>3
      <3>3. QED BY <3>1, <3>2
    <2>7. (k - 1) + (n - k) = n - 1
      BY <1>3
    <2>8. ASSUME NEW i \in 1 .. n - 1
          PROVE  p[i] = IF i < k THEN q[i] ELSE q[i + 1]
      <3>1. CASE i < k
        <4>1. i <= k - 1 /\ i \in 1 .. k - 1
          BY <1>3, <3>1
        <4>2. QED BY <2>2, <2>6, <2>7, <3>1, <4>1
      <3>2. CASE ~(i < k)
        <4>1. ~(i <= k - 1) /\ i - (k - 1) \in 1 .. n - k /\ (i - (k - 1)) + k = i + 1
          BY <1>3, <3>2
        <4>2. QED BY <2>3, <2>6, <2>7, <3>2, <4>1
      <3>3. QED BY <3>1, <3>2
    <2>9. DOMAIN p = 1 .. n - 1
      BY <2>6, <2>7
    <2>10. QED BY <2>6, <2>8, <2>9
  <1> DEFINE old(i) == IF i < k THEN i ELSE i + 1
  <1>6. \A i \in 1 .. n - 1 : old(i) \in 1 .. n /\ old(i) # k /\ p[i] = q[old(i)]
    BY <1>3, <1>5
  <1>7. \A i, j \in 1 .. n - 1 : i # j => old(i) # old(j)
    BY <1>3
  <1>8. \A l \in 1 .. n : l # k => \E i \in 1 .. n - 1 : old(i) = l
    <2>1. ASSUME NEW l \in 1 .. n, l < k
          PROVE  l \in 1 .. n - 1 /\ old(l) = l
      BY <1>3, <2>1
    <2>2. ASSUME NEW l \in 1 .. n, l > k
          PROVE  l - 1 \in 1 .. n - 1 /\ old(l - 1) = l
      BY <1>3, <2>2
    <2>3. \A l \in 1 .. n : l # k => l < k \/ l > k
      BY <1>3
    <2>4. QED BY <2>1, <2>2, <2>3
  <1> HIDE DEF old
  <1>9. \A i, j \in 1 .. n : i # j => q[i] # q[j]
    BY <1>1 DEF Enumerates
  <1>10. \A i \in 1 .. n - 1 : p[i] \in S \ {q[k]}
    BY <1>1, <1>3, <1>6, <1>9
  <1>11. p \in Seq(S \ {q[k]})
    <2>1. p = [i \in 1 .. n - 1 |-> p[i]] /\ n - 1 \in Nat
      BY <1>3, <1>5
    <2>2. QED BY <1>10, <2>1
  <1>12. \A i, j \in 1 .. n - 1 : i # j => p[i] # p[j]
    BY <1>6, <1>7, <1>9
  <1>13. ASSUME NEW s \in S \ {q[k]}
         PROVE  \E i \in 1 .. n - 1 : p[i] = s
    <2>1. PICK l \in 1 .. n : q[l] = s
      BY <1>1 DEF Enumerates
    <2>2. PICK i \in 1 .. n - 1 : old(i) = l
      BY <1>8, <2>1
    <2>3. QED BY <1>6, <2>1, <2>2
  <1>14. QED BY <1>2, <1>5, <1>11, <1>12, <1>13 DEF Enumerates

LEMMA RecentInvInductive ==
  /\ Init => RecentInv
  /\ TypeInv /\ RecentInv /\ [Next]_vars => RecentInv'
  <1>1. ASSUME Init
        PROVE  RecentInv
    <2>1. PICK q : q = [s \in DOMAIN services |-> s]
      OBVIOUS
    <2>2. recent = Reverse(q) /\ services \in Seq(ServiceRow)
      BY <1>1, <2>1, CatalogueAssumption DEF Init, CatalogueInit
    <2>3. PICK n \in Nat : n = Len(services) /\ Service = 1 .. n
      BY <2>2 DEF Service
    <2>4. q \in Seq(1 .. n) /\ Len(q) = n /\ \A i \in 1 .. n : q[i] = i
      BY <2>1, <2>3 DEF Service
    <2>5. recent = [i \in 1 .. n |-> (n - i) + 1]
      <3>1. \A i \in 1 .. n : (n - i) + 1 \in 1 .. n
        OBVIOUS
      <3>2. QED BY <2>2, <2>4, <3>1 DEF Reverse
    <2>6. \A i \in 1 .. n : (n - i) + 1 \in 1 .. n /\ (n - ((n - i) + 1)) + 1 = i
      OBVIOUS
    <2>7. recent \in Seq(1 .. n) /\ DOMAIN recent = 1 .. n
      BY <2>5, <2>6
    <2>8. QED BY <2>3, <2>5, <2>6, <2>7 DEF RecentInv, Enumerates
  <1>2. ASSUME TypeInv, RecentInv, NEW v \in Vendor, NEW x \in ServiceInputs, CreateService(v, x)
        PROVE  RecentInv'
    <2>1. PICK n \in Nat : n = Len(services) /\ Service = 1 .. n
      BY <1>2 DEF TypeInv, CatalogueType, Service
    <2>2. Service' = 1 .. n + 1
      BY <1>2, <2>1 DEF CreateService, TypeInv, CatalogueType, Service
    <2>3. n + 1 \notin Service /\ Service' = Service \cup {n + 1}
      BY <2>1, <2>2
    <2>4. recent' = <<n + 1>> \o recent
      BY <1>2, <2>1 DEF CreateService
    <2>5. PICK p : p = <<n + 1>> \o recent
      OBVIOUS
    <2>6. Enumerates(p, Service \cup {n + 1})
      BY <1>2, <2>3, <2>5, NewFirst DEF RecentInv
    <2>7. QED BY <2>3, <2>4, <2>5, <2>6 DEF RecentInv, Enumerates
  <1>3. ASSUME TypeInv, RecentInv, NEW s \in Service, NEW x \in ServiceInputs, UpdateService(s, x)
        PROVE  RecentInv'
    <2>1. Service' = Service
      BY <1>3 DEF UpdateService, TypeInv, CatalogueType, Service
    <2>2. PICK k : k = CHOOSE n \in DOMAIN recent : recent[n] = s
      OBVIOUS
    <2>3. k \in DOMAIN recent /\ recent[k] = s
      BY <1>3, <2>2 DEF RecentInv, Enumerates
    <2>4. PICK q : q = RemoveAt(recent, k)
      OBVIOUS
    <2>5. Enumerates(q, Service \ {s})
      BY <1>3, <2>3, <2>4, OneLess DEF RecentInv
    <2>6. PICK p : p = <<s>> \o q
      OBVIOUS
    <2>7. PICK S : S = Service \ {s}
      OBVIOUS
    <2>8. Enumerates(p, S \cup {s})
      BY <2>5, <2>6, <2>7, NewFirst
    <2>9. recent' = p /\ S \cup {s} = Service
      BY <1>3, <2>2, <2>4, <2>6, <2>7 DEF UpdateService
    <2>10. QED BY <2>1, <2>8, <2>9 DEF RecentInv, Enumerates
  <1>4. ASSUME RecentInv, UNCHANGED <<services, recent>>
        PROVE  RecentInv'
    BY <1>4 DEF RecentInv, Enumerates, Service
  <1>5. ASSUME TypeInv, RecentInv, Change
        PROVE  RecentInv'
    <2>1. CASE \E v \in Vendor : \/ Judge(v)
                                 \/ \E x \in SeatInputs : CreateSeat(v, x)
                                 \/ \E m \in Staff, active \in BOOLEAN : SetStaff(m, v, active)
      BY <1>4, <1>5, <2>1 DEF Judge, CreateSeat, SetStaff
    <2>2. CASE \E k \in Seat, x \in SeatInputs : UpdateSeat(k, x)
      BY <1>4, <1>5, <2>2 DEF UpdateSeat
    <2>3. CASE \E b \in Markups : SetMarkup(b)
      BY <1>4, <1>5, <2>3 DEF SetMarkup
    <2>4. QED BY <1>2, <1>3, <1>5, <2>1, <2>2, <2>3 DEF Change
  <1>6. ASSUME TypeInv, RecentInv, [Next]_vars
        PROVE  RecentInv'
    <2>1. CASE Change
      BY <1>5, <1>6, <2>1
    <2>2. CASE ~Change
      <3>1. UNCHANGED catalogueVars
        <4>1. CASE UNCHANGED vars
          BY <4>1 DEF vars
        <4>2. CASE Next
          <5>1. \/ \E r \in Req :
                     \/ \E s \in Service, t \in 0 .. Day - 1, k \in Seat \cup {None} :
                          CreateRead(r, s, t, k)
                     \/ \E b \in Booking, t \in 0 .. Day - 1 : MoveRead(r, b, t)
                     \/ CreateList(r) \/ CreateSeatCheck(r) \/ CreateCommit(r)
                     \/ MoveList(r) \/ MoveCheck(r) \/ MoveCommit(r) \/ Stop(r)
                \/ \E b \in Booking : Release(b) \/ Revive(b)
            BY <2>2, <4>2, Zenon DEF Next, ChangeCatalogue
          <5>2. ASSUME NEW r \in Req,
                       \/ \E s \in Service, t \in 0 .. Day - 1, k \in Seat \cup {None} :
                            CreateRead(r, s, t, k)
                       \/ \E b \in Booking, t \in 0 .. Day - 1 : MoveRead(r, b, t)
                       \/ CreateList(r) \/ CreateSeatCheck(r) \/ CreateCommit(r)
                       \/ MoveList(r) \/ MoveCheck(r) \/ MoveCommit(r) \/ Stop(r)
                PROVE  UNCHANGED catalogueVars
            <6>1. CASE \E s \in Service, t \in 0 .. Day - 1, k \in Seat \cup {None} :
                         CreateRead(r, s, t, k)
              BY <6>1, Zenon DEF CreateRead, Begin
            <6>2. CASE \E b \in Booking, t \in 0 .. Day - 1 : MoveRead(r, b, t)
              BY <6>2, Zenon DEF MoveRead, Begin
            <6>3. CASE CreateList(r)
              BY <6>3, Zenon DEF CreateList, GoOn
            <6>4. CASE CreateSeatCheck(r)
              BY <6>4, Zenon DEF CreateSeatCheck, GoOn
            <6>5. CASE CreateCommit(r) \/ MoveCommit(r) \/ Stop(r)
              BY <6>5, Zenon DEF CreateCommit, MoveCommit, Stop, End
            <6>6. CASE MoveList(r) \/ MoveCheck(r)
              BY <6>6, Zenon DEF MoveList, MoveCheck, GoOn
            <6>7. QED BY <5>2, <6>1, <6>2, <6>3, <6>4, <6>5, <6>6
          <5>3. ASSUME NEW b \in Booking, Release(b) \/ Revive(b)
                PROVE  UNCHANGED catalogueVars
            BY <5>3, Zenon DEF Release, Revive
          <5>4. QED BY <5>1, <5>2, <5>3, Zenon
        <4>3. QED BY <1>6, <4>1, <4>2
      <3>2. QED BY <1>4, <1>6, <3>1 DEF catalogueVars
    <2>3. QED BY <2>1, <2>2
  <1>7. QED BY <1>1, <1>6

\* A sequence of all elements of a finite set names each of them once.
LEMMA Listed ==
  ASSUME NEW S, IsFiniteSet(S), NEW s \in SetToSeqs(S)
  PROVE  /\ s \in Seq(S) /\ Len(s) \in Nat /\ DOMAIN s = 1 .. Len(s)
         /\ \A k \in 1 .. Len(s) : s[k] \in S
         /\ \A k, l \in 1 .. Len(s) : k # l => s[k] # s[l]
         /\ \A i \in S : \E k \in 1 .. Len(s) : s[k] = i
  <1>1. PICK n \in Nat : n = Cardinality(S)
    BY FS_CardinalityType
  <1>2. s \in [1 .. n -> S] /\ \A k, l \in 1 .. n : k # l => s[k] # s[l]
    BY <1>1 DEF SetToSeqs
  <1>3. s \in Injection(1 .. n, S)
    BY <1>2 DEF Injection, IsInjective
  <1>4. IsFiniteSet(1 .. n) /\ Cardinality(1 .. n) = n
    <2>1. IsFiniteSet(1 .. n) /\ Cardinality(1 .. n) = IF 1 > n THEN 0 ELSE n - 1 + 1
      BY FS_Interval
    <2>2. QED BY <2>1
  <1>5. s \in Surjection(1 .. n, S)
    BY <1>1, <1>3, <1>4, FS_Injection
  <1>6. QED BY <1>2, <1>5 DEF Surjection

\* A finite set can be put in any strict order of its elements: each comes after as many
\* as stand before it.
LEMMA CanBeOrdered ==
  ASSUME NEW S, IsFiniteSet(S), NEW B,
         \A x, y \in S : x # y => <<x, y>> \in B \/ <<y, x>> \in B,
         \A x \in S : <<x, x>> \notin B,
         \A x, y, z \in S : <<x, y>> \in B /\ <<y, z>> \in B => <<x, z>> \in B
  PROVE  \E a \in SetToSeqs(S) : \A i, j \in DOMAIN a : i < j => <<a[i], a[j]>> \in B
  <1> DEFINE before(x) == {y \in S : <<y, x>> \in B}
  <1>1. PICK n \in Nat : n = Cardinality(S)
    BY FS_CardinalityType
  <1>2. \A x \in S : IsFiniteSet(before(x)) /\ Cardinality(before(x)) \in Nat
                     /\ Cardinality(before(x)) < n
    <2>1. SUFFICES ASSUME NEW x \in S
                   PROVE  IsFiniteSet(before(x)) /\ Cardinality(before(x)) \in Nat
                          /\ Cardinality(before(x)) < n
      OBVIOUS
    <2>2. before(x) \subseteq S /\ before(x) # S
      OBVIOUS
    <2> HIDE DEF before
    <2>3. QED BY <1>1, <2>2, FS_Subset, FS_CardinalityType
  <1>3. ASSUME NEW x \in S, NEW y \in S, <<x, y>> \in B
        PROVE  Cardinality(before(x)) < Cardinality(before(y))
    <2>1. before(x) \subseteq before(y) /\ x \in before(y) /\ x \notin before(x)
      BY <1>3
    <2>2. before(x) # before(y)
      BY <2>1
    <2> HIDE DEF before
    <2>3. QED BY <1>2, <2>1, <2>2, FS_Subset
  <1> HIDE DEF before
  <1> DEFINE rank == [x \in S |-> Cardinality(before(x)) + 1]
  <1>4. \A x \in S : rank[x] \in 1 .. n
    BY <1>2
  <1>5. \A x, y \in S : <<x, y>> \in B => rank[x] < rank[y]
    BY <1>2, <1>3
  <1>6. rank \in [S -> 1 .. n]
    BY <1>4
  <1> HIDE DEF rank
  <1>7. ASSUME NEW x \in S, NEW y \in S, x # y
        PROVE  rank[x] # rank[y]
    <2>1. rank[x] < rank[y] \/ rank[y] < rank[x]
      BY <1>5, <1>7
    <2>2. rank[x] \in Int /\ rank[y] \in Int
      BY <1>4
    <2>3. QED BY <2>1, <2>2
  <1>8. rank \in Injection(S, 1 .. n)
    BY <1>6, <1>7 DEF Injection, IsInjective
  <1>9. IsFiniteSet(1 .. n) /\ Cardinality(1 .. n) = n
    <2>1. IsFiniteSet(1 .. n) /\ Cardinality(1 .. n) = IF 1 > n THEN 0 ELSE n - 1 + 1
      BY FS_Interval
    <2>2. QED BY <2>1
  <1>10. rank \in Surjection(S, 1 .. n)
    BY <1>1, <1>8, <1>9, FS_Injection
  <1>11. PICK a \in [1 .. n -> S] : \A k \in 1 .. n : rank[a[k]] = k
    <2>1. \A k \in 1 .. n : \E x \in S : rank[x] = k
      BY <1>10 DEF Surjection
    <2> DEFINE c == [k \in 1 .. n |-> CHOOSE x \in S : rank[x] = k]
    <2>2. c \in [1 .. n -> S] /\ \A k \in 1 .. n : rank[c[k]] = k
      BY <2>1
    <2> HIDE DEF c
    <2>3. QED BY <2>2
  <1>12. \A i, j \in 1 .. n : i # j => a[i] # a[j]
    BY <1>11
  <1>13. a \in SetToSeqs(S)
    BY <1>1, <1>12 DEF SetToSeqs
  <1>14. ASSUME NEW i \in 1 .. n, NEW j \in 1 .. n, i < j
         PROVE  <<a[i], a[j]>> \in B
    <2>1. a[i] \in S /\ a[j] \in S /\ a[i] # a[j]
      BY <1>12, <1>14
    <2>2. ~(rank[a[j]] < rank[a[i]])
      BY <1>11, <1>14
    <2>3. QED BY <1>5, <2>1, <2>2
  <1>15. DOMAIN a = 1 .. n
    OBVIOUS
  <1>16. QED BY <1>13, <1>14, <1>15

\* The order of updates, by places in a sequence.
LEMMA UpdatesOrdered ==
  ASSUME RecentInv
  PROVE  \E at \in [Service -> Int] :
           /\ \A q, s \in Service : After(q, s) <=> at[q] < at[s]
           /\ \A q, s \in Service : q # s => at[q] # at[s]
  <1>1. /\ DOMAIN recent \subseteq Int
        /\ \A i, j \in DOMAIN recent : i # j => recent[i] # recent[j]
        /\ \A s \in Service : \E i \in DOMAIN recent : recent[i] = s
    <2>1. DOMAIN recent = 1 .. Len(recent)
      BY DEF RecentInv, Enumerates
    <2>2. QED BY <2>1 DEF RecentInv, Enumerates
  <1> DEFINE at == [s \in Service |-> CHOOSE i \in DOMAIN recent : recent[i] = s]
  <1>2. \A s \in Service : at[s] \in DOMAIN recent /\ recent[at[s]] = s
    BY <1>1
  <1>3. at \in [Service -> Int]
    BY <1>1, <1>2
  <1> HIDE DEF at
  <1>4. \A q, s \in Service : After(q, s) <=> at[q] < at[s]
    <2>1. SUFFICES ASSUME NEW q \in Service, NEW s \in Service
                   PROVE  After(q, s) <=> at[q] < at[s]
      OBVIOUS
    <2>2. \A i \in DOMAIN recent : (recent[i] = q => i = at[q]) /\ (recent[i] = s => i = at[s])
      BY <1>1, <1>2
    <2>3. QED BY <1>2, <2>2 DEF After
  <1>5. QED BY <1>2, <1>3, <1>4

LEMMA ServicesFinite ==
  ASSUME TypeInv, NEW S \in SUBSET Service
  PROVE  IsFiniteSet(S)
  <1>1. PICK n \in Nat : Service = 1 .. n
    BY DEF TypeInv, CatalogueType, Service
  <1>2. IsFiniteSet(1 .. n)
    BY FS_Interval
  <1>3. QED BY <1>1, <1>2, FS_Subset

LEMMA ByUpdateSorts ==
  ASSUME TypeInv, RecentInv, NEW S \in SUBSET Service
  PROVE  /\ ByUpdate(S) \in SetToSeqs(S)
         /\ \A i, j \in DOMAIN ByUpdate(S) : i < j => After(ByUpdate(S)[i], ByUpdate(S)[j])
  <1>1. PICK at \in [Service -> Int] :
          /\ \A q, s \in Service : After(q, s) <=> at[q] < at[s]
          /\ \A q, s \in Service : q # s => at[q] # at[s]
    BY UpdatesOrdered
  <1>2. PICK B : B = {p \in S \X S : at[p[1]] < at[p[2]]}
    OBVIOUS
  <1>3. \A x, y \in S : <<x, y>> \in B <=> at[x] < at[y]
    BY <1>2
  <1>4. \A x \in S : at[x] \in Int
    OBVIOUS
  <1>5. \E a \in SetToSeqs(S) : \A i, j \in DOMAIN a : i < j => <<a[i], a[j]>> \in B
    <2>1. /\ \A x, y \in S : x # y => <<x, y>> \in B \/ <<y, x>> \in B
          /\ \A x \in S : <<x, x>> \notin B
          /\ \A x, y, z \in S : <<x, y>> \in B /\ <<y, z>> \in B => <<x, z>> \in B
      BY <1>1, <1>3, <1>4
    <2>2. QED BY <2>1, ServicesFinite, CanBeOrdered
  <1>6. \E a \in SetToSeqs(S) : \A i, j \in DOMAIN a : i < j => After(a[i], a[j])
    <2>1. PICK a \in SetToSeqs(S) : \A i, j \in DOMAIN a : i < j => <<a[i], a[j]>> \in B
      BY <1>5
    <2>2. \A i \in DOMAIN a : a[i] \in S
      BY ServicesFinite, Listed
    <2>3. QED BY <1>1, <1>3, <2>1, <2>2
  <1>7. QED BY <1>6 DEF ByUpdate

LEMMA ByDistanceSorts ==
  ASSUME TypeInv, RecentInv, NEW S \in SUBSET Service,
         \A s \in S : Distance[services[s].vendor] \in Nat
  PROVE  /\ ByDistance(S) \in SetToSeqs(S)
         /\ \A i, j \in DOMAIN ByDistance(S) :
              i < j => Nearer(ByDistance(S)[i], ByDistance(S)[j])
  <1>1. PICK at \in [Service -> Int] :
          /\ \A q, s \in Service : After(q, s) <=> at[q] < at[s]
          /\ \A q, s \in Service : q # s => at[q] # at[s]
    BY UpdatesOrdered
  <1>2. PICK far \in [S -> Nat] : far = [s \in S |-> Distance[services[s].vendor]]
    OBVIOUS
  <1>3. PICK B : B = {p \in S \X S : far[p[1]] < far[p[2]]
                                     \/ (far[p[1]] = far[p[2]] /\ at[p[1]] < at[p[2]])}
    OBVIOUS
  <1>4. \A x, y \in S : <<x, y>> \in B <=> far[x] < far[y] \/ (far[x] = far[y] /\ at[x] < at[y])
    BY <1>3
  <1>5. \A x, y \in S : <<x, y>> \in B <=> Nearer(x, y)
    <2>1. SUFFICES ASSUME NEW x \in S, NEW y \in S
                   PROVE  <<x, y>> \in B <=> Nearer(x, y)
      OBVIOUS
    <2>2. Nearer(x, y) <=> \/ Distance[services[x].vendor] < Distance[services[y].vendor]
                           \/ /\ Distance[services[x].vendor] = Distance[services[y].vendor]
                              /\ After(x, y)
      BY DEF Nearer
    <2>3. QED BY <1>1, <1>2, <1>4, <2>2
  <1>6. \A x \in S : at[x] \in Int /\ far[x] \in Nat
    OBVIOUS
  <1>7. \E a \in SetToSeqs(S) : \A i, j \in DOMAIN a : i < j => <<a[i], a[j]>> \in B
    <2>1. /\ \A x, y \in S : x # y => <<x, y>> \in B \/ <<y, x>> \in B
          /\ \A x \in S : <<x, x>> \notin B
      BY <1>1, <1>4, <1>6
    <2>2. \A x, y, z \in S : <<x, y>> \in B /\ <<y, z>> \in B => <<x, z>> \in B
      BY <1>4, <1>6
    <2>3. QED BY <2>1, <2>2, ServicesFinite, CanBeOrdered
  <1>8. \E a \in SetToSeqs(S) : \A i, j \in DOMAIN a : i < j => Nearer(a[i], a[j])
    <2>1. PICK a \in SetToSeqs(S) : \A i, j \in DOMAIN a : i < j => <<a[i], a[j]>> \in B
      BY <1>7
    <2>2. \A i \in DOMAIN a : a[i] \in S
      BY ServicesFinite, Listed
    <2>3. QED BY <1>5, <2>1, <2>2
  <1>9. QED BY <1>8 DEF ByDistance

\* The first of a sequence.
LEMMA FirstOnes ==
  ASSUME NEW S, NEW a \in Seq(S), NEW n \in Nat \ {0}
  PROVE  /\ Len(FirstOf(a, n)) = IF n <= Len(a) THEN n ELSE Len(a)
         /\ \A x : x \in ToSet(FirstOf(a, n)) <=> \E i \in DOMAIN a : i <= n /\ a[i] = x
  <1>1. PICK l \in Nat : l = Len(a) /\ DOMAIN a = 1 .. l
    OBVIOUS
  <1>2. PICK m \in Nat : m = IF n <= l THEN n ELSE l
    OBVIOUS
  <1>3. Min({n, l}) = m
    BY <1>2 DEF Min
  <1>4. PICK f : f = SubSeq(a, 1, m)
    OBVIOUS
  <1>5. FirstOf(a, n) = f
    BY <1>1, <1>3, <1>4 DEF FirstOf
  <1>6. /\ f \in Seq(S) /\ Len(f) = m /\ \A i \in 1 .. m : f[i] = a[i]
    <2>1. \A i \in 1 .. m : a[i] \in S
      BY <1>1, <1>2
    <2>2. /\ f \in Seq(S) /\ Len(f) = IF 1 <= m THEN m - 1 + 1 ELSE 0
          /\ \A i \in 1 .. m - 1 + 1 : f[i] = a[1 + i - 1]
      BY <1>4, <2>1, SubSeqProperties
    <2>3. m - 1 + 1 = m /\ (IF 1 <= m THEN m - 1 + 1 ELSE 0) = m /\ \A i \in 1 .. m : 1 + i - 1 = i
      OBVIOUS
    <2>4. QED BY <2>2, <2>3
  <1>7. \A i : i \in 1 .. m <=> i \in 1 .. l /\ i <= n
    BY <1>2
  <1>8. \A x : x \in ToSet(f) <=> \E i \in 1 .. m : f[i] = x
    BY <1>6 DEF ToSet
  <1>9. QED BY <1>1, <1>2, <1>5, <1>6, <1>7, <1>8

\* For any number of services, of vendors and any cut-offs: a service in range is missing
\* from a nearby search (discoverNearbyServices) only when as many as are read were updated
\* after it, or as many as are shown are at most as far.
THEOREM NearbySearchesHold == Spec => []NearbyMissesOnlyCut
  <1>1. ASSUME TypeInv, RecentInv
        PROVE  NearbyMissesOnlyCut
    <2>1. ScanLimit \in Nat \ {0} /\ ShowLimit \in Nat \ {0}
      BY CatalogueAssumption
    <2>2. PICK L : L = {s \in Service : Located(s)}
      OBVIOUS
    <2>3. PICK a : a = ByUpdate(L)
      OBVIOUS
    <2>4. L \in SUBSET Service /\ IsFiniteSet(L)
      BY <1>1, <2>2, ServicesFinite
    <2>5. a \in SetToSeqs(L) /\ \A i, j \in DOMAIN a : i < j => After(a[i], a[j])
      BY <1>1, <2>3, <2>4, ByUpdateSorts
    <2>6. PICK R : R = ToSet(FirstOf(a, ScanLimit))
      OBVIOUS
    <2>7. PICK S : S = {s \in R : InRange(s)}
      OBVIOUS
    <2>8. PICK c : c = ByDistance(S)
      OBVIOUS
    <2>9. PICK shown : shown = FirstOf(c, ShowLimit)
      OBVIOUS
    <2>10. Nearby = shown
      BY <2>2, <2>3, <2>6, <2>7, <2>8, <2>9 DEF Nearby, Nearest
    <2>11. /\ a \in Seq(L) /\ Len(a) \in Nat /\ DOMAIN a = 1 .. Len(a)
           /\ \A k \in 1 .. Len(a) : a[k] \in L
           /\ \A k, l \in 1 .. Len(a) : k # l => a[k] # a[l]
           /\ \A i \in L : \E k \in 1 .. Len(a) : a[k] = i
      BY <2>4, <2>5, Listed
    <2>12. \A x : x \in R <=> \E i \in DOMAIN a : i <= ScanLimit /\ a[i] = x
      BY <2>1, <2>6, <2>11, FirstOnes
    <2>13. S \in SUBSET Service /\ S \subseteq L
      BY <2>4, <2>7, <2>11, <2>12
    <2>14. \A s \in L : Distance[services[s].vendor] \in Nat
      <3>1. \A s \in Service : services[s].vendor \in Vendor
        BY <1>1, RowsTyped DEF TypeInv, ServiceRow
      <3>2. QED BY <2>2, <3>1, CatalogueAssumption DEF Located
    <2>15. c \in SetToSeqs(S) /\ \A i, j \in DOMAIN c : i < j => Nearer(c[i], c[j])
      BY <1>1, <2>8, <2>13, <2>14, ByDistanceSorts
    <2>16. /\ c \in Seq(S) /\ Len(c) \in Nat /\ DOMAIN c = 1 .. Len(c)
           /\ \A k \in 1 .. Len(c) : c[k] \in S
           /\ \A i \in S : \E k \in 1 .. Len(c) : c[k] = i
      BY <1>1, <2>13, <2>15, ServicesFinite, Listed
    <2>17. /\ Len(shown) = IF ShowLimit <= Len(c) THEN ShowLimit ELSE Len(c)
           /\ \A x : x \in ToSet(shown) <=> \E i \in DOMAIN c : i <= ShowLimit /\ c[i] = x
      BY <2>1, <2>9, <2>16, FirstOnes
    <2>18. ASSUME NEW s \in Service, Offered(s), InRange(s), s \notin ToSet(shown), s \in R
           PROVE  /\ Len(shown) = ShowLimit
                  /\ \A q \in ToSet(shown) :
                       Distance[services[q].vendor] <= Distance[services[s].vendor]
      <3>1. PICK k \in 1 .. Len(c) : c[k] = s
        BY <2>7, <2>16, <2>18
      <3>2. k > ShowLimit
        BY <2>1, <2>16, <2>17, <2>18, <3>1
      <3>3. Len(shown) = ShowLimit
        BY <2>1, <2>17, <3>1, <3>2
      <3>4. ASSUME NEW q \in ToSet(shown)
            PROVE  Distance[services[q].vendor] <= Distance[services[s].vendor]
        <4>1. PICK i \in 1 .. Len(c) : i <= ShowLimit /\ c[i] = q
          BY <2>16, <2>17
        <4>2. i < k
          BY <2>1, <3>2, <4>1
        <4>3. Nearer(q, s)
          BY <2>15, <2>16, <3>1, <4>1, <4>2
        <4>4. Distance[services[q].vendor] \in Nat /\ Distance[services[s].vendor] \in Nat
          BY <2>13, <2>14, <2>16, <3>1, <4>1
        <4>5. QED BY <4>3, <4>4 DEF Nearer
      <3>5. QED BY <3>3, <3>4
    <2>19. ASSUME NEW s \in Service, Offered(s), InRange(s), s \notin R
           PROVE  Cardinality({q \in Service : Located(q) /\ After(q, s)}) >= ScanLimit
      <3>1. s \in L
        BY <2>2, <2>19 DEF Located, InRange
      <3>2. PICK k \in 1 .. Len(a) : a[k] = s
        BY <2>11, <3>1
      <3>3. k > ScanLimit
        BY <2>1, <2>11, <2>12, <2>19, <3>2
      <3>4. PICK T : T = {q \in Service : Located(q) /\ After(q, s)}
        OBVIOUS
      <3>5. IsFiniteSet(T)
        BY <1>1, <3>4, ServicesFinite
      <3>6. PICK g : g = [i \in 1 .. ScanLimit |-> a[i]]
        OBVIOUS
      <3>7. \A i \in 1 .. ScanLimit : i \in 1 .. Len(a) /\ i < k
        BY <2>1, <2>11, <3>3
      <3>8. \A i \in 1 .. ScanLimit : a[i] \in T
        BY <2>2, <2>5, <2>11, <3>2, <3>4, <3>7
      <3>9. g \in Injection(1 .. ScanLimit, T)
        BY <2>11, <3>6, <3>7, <3>8 DEF Injection, IsInjective
      <3>10. IsFiniteSet(1 .. ScanLimit) /\ Cardinality(1 .. ScanLimit) = ScanLimit
        <4>1. /\ IsFiniteSet(1 .. ScanLimit)
              /\ Cardinality(1 .. ScanLimit) = IF 1 > ScanLimit THEN 0 ELSE ScanLimit - 1 + 1
          BY <2>1, FS_Interval
        <4>2. QED BY <2>1, <4>1
      <3>11. Cardinality(1 .. ScanLimit) <= Cardinality(T)
        BY <3>5, <3>9, FS_Injection
      <3>12. Cardinality(T) \in Nat
        BY <3>5, FS_CardinalityType
      <3>13. QED BY <2>1, <3>4, <3>10, <3>11, <3>12
    <2>20. QED BY <2>10, <2>18, <2>19, Zenon DEF NearbyMissesOnlyCut
  <1>2. QED BY <1>1, ApartInvInductive, RecentInvInductive, PTL DEF Spec
=============================================================================
