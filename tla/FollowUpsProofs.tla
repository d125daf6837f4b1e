-------------------------- MODULE FollowUpsProofs --------------------------
(***************************************************************************)
(* Safety of what follows a change of a booking, for every number of       *)
(* customers, times and requests: what calendars show, who holds the       *)
(* booking, and how often its customer is reminded.                        *)
(***************************************************************************)
EXTENDS FollowUps, TLAPS

USE FollowUpsAssumption

-----------------------------------------------------------------------------
(***************************************************************************)
(* Types.                                                                  *)
(***************************************************************************)

Spell == [start : Start, begun : Nat, ended : Nat]
Claim == [customer : Customer, begun : Nat, ended : Nat]

TypeInv ==
  /\ booking \in Row \cup {None}
  /\ reminded \in BOOLEAN
  /\ notices \subseteq Spell /\ claims \subseteq Claim
  /\ entry = [o \in Owner |-> entry[o]]
  /\ task \in [Req -> Task \cup {None}] /\ calls \in Nat
  /\ \A r \in Req : task[r] # None =>
       /\ task[r].op # "create" => booking # None
       /\ task[r].op = "reschedule" => task[r].to \in Start
       /\ task[r].op = "claim" => task[r].to \in Customer

\* What each step of a request makes of it.
SameWork(t, s) ==
  t.op = s.op /\ t.row = s.row /\ t.to = s.to /\ t.todo = s.todo /\ t.begun = s.begun

\* A request begins at stage t, with what it read; the others are no longer alone.
Begun(r, t) ==
  /\ task[r] = None /\ task'[r] = t /\ task' = [q \in Req |-> task'[q]]
  /\ t.begun = calls + 1 /\ calls' = calls + 1 /\ t.alone = (Busy = {})
  /\ \A q \in Req \ {r} :
       IF task[q] = None THEN task'[q] = None
       ELSE task'[q] \in Task /\ SameWork(task'[q], task[q]) /\ task'[q].alone = FALSE
  /\ t.op \notin {"sync", "reread"}
  /\ t.op # "create" => booking # None /\ t.row = booking
  /\ t.op = "reschedule" => t.to \in Start
  /\ t.op = "claim" => t.to \in Customer /\ booking.customer = None
  /\ t.op = "remind" => reminded = FALSE
  /\ UNCHANGED <<dbVars, histVars>>

\* A request goes on from its stage to t.
GoesOn(r, t) ==
  /\ task[r] # None /\ task' = [task EXCEPT ![r] = t] /\ calls' = calls
  /\ t.begun = task[r].begun /\ t.alone = task[r].alone

LEMMA Beginning ==
  ASSUME TypeInv, NEW r \in Req, NEW op \in Stages \ {"sync", "reread"}, NEW row \in Row,
         NEW to \in Start \cup Customer \cup {None},
         Begin(r, [op |-> op, to |-> to, row |-> row]),
         op # "create" => booking # None /\ row = booking,
         op = "reschedule" => to \in Start,
         op = "claim" => to \in Customer /\ booking.customer = None,
         op = "remind" => reminded = FALSE,
         UNCHANGED <<dbVars, histVars>>
  PROVE  \E t \in Task : Begun(r, t)
  <1> DEFINE t == [op |-> op, row |-> row, to |-> to, todo |-> {},
                   alone |-> Busy = {}, begun |-> calls + 1]
  <1>1. (Busy = {}) \in BOOLEAN /\ calls + 1 \in Nat /\ {} \in SUBSET Owner
    BY DEF TypeInv
  <1>2. t \in Task
    BY <1>1 DEF Task
  <1>3. /\ task[r] = None /\ task'[r] = t /\ task' = [q \in Req |-> task'[q]]
        /\ calls' = calls + 1
    BY DEF Begin
  <1>4. ASSUME NEW q \in Req \ {r}
        PROVE  IF task[q] = None THEN task'[q] = None
               ELSE task'[q] \in Task /\ SameWork(task'[q], task[q]) /\ task'[q].alone = FALSE
    <2>1. CASE task[q] = None
      BY <2>1 DEF Begin
    <2>2. CASE task[q] # None
      <3>1. task'[q] = [task[q] EXCEPT !.alone = FALSE] /\ task[q] \in Task
        BY <2>2 DEF Begin, TypeInv
      <3>2. task'[q] \in Task
        BY <3>1 DEF Task
      <3>3. SameWork(task'[q], task[q]) /\ task'[q].alone = FALSE
        BY <3>1 DEF Task, SameWork
      <3>4. QED BY <2>2, <3>2, <3>3
    <2>3. QED BY <2>1, <2>2
  <1>5. /\ t.begun = calls + 1 /\ t.alone = (Busy = {}) /\ t.op = op /\ t.row = row /\ t.to = to
    OBVIOUS
  <1> HIDE DEF t
  <1>6. QED BY <1>2, <1>3, <1>4, <1>5 DEF Begun

\* A change of a booking keeps its customer.
LEMMA AfterKeeps ==
  ASSUME NEW row \in Row, NEW op \in Ops, NEW to, op = "reschedule" => to \in Start
  PROVE  After(op, to, row) \in Row /\ After(op, to, row).customer = row.customer
  <1>1. /\ row.status \in Status /\ row.start \in Start /\ row.customer \in Customer \cup {None}
        /\ row = [status |-> row.status, start |-> row.start, customer |-> row.customer]
    BY DEF Row
  <1>2. CASE op = "reschedule"
    <2>1. After(op, to, row) = [row EXCEPT !.start = to]
      BY <1>2 DEF After
    <2>2. QED BY <1>1, <1>2, <2>1 DEF Row
  <1>3. CASE op # "reschedule"
    <2>1. \E s \in Status : After(op, to, row) = [row EXCEPT !.status = s]
      BY <1>3 DEF After, Ops, Status
    <2>2. QED BY <1>1, <2>1 DEF Row
  <1>4. QED BY <1>2, <1>3

\* A commit: the request has the row for the calendars.
LEMMA Committing ==
  ASSUME TypeInv, NEW r \in Req, task[r] # None, NEW row \in Row,
         task' = [task EXCEPT ![r].row = row, ![r].op = "sync", ![r].todo = Owner],
         calls' = calls
  PROVE  \E t \in Task : GoesOn(r, t) /\ t.op = "sync" /\ t.row = row /\ t.todo = Owner
  <1> DEFINE t == [op |-> "sync", row |-> row, to |-> task[r].to, todo |-> Owner,
                   alone |-> task[r].alone, begun |-> task[r].begun]
  <1>1. task[r] \in Task
    BY DEF TypeInv
  <1>2. /\ task[r].to \in Start \cup Customer \cup {None} /\ task[r].alone \in BOOLEAN
        /\ task[r].begun \in Nat
    BY <1>1 DEF Task
  <1>3. t \in Task
    BY <1>2 DEF Task, Stages
  <1>4. task'[r] = t
    BY <1>1 DEF Task, TypeInv
  <1>5. task' = [task EXCEPT ![r] = t]
    BY <1>4 DEF TypeInv
  <1>6. t.op = "sync" /\ t.row = row /\ t.todo = Owner /\ t.begun = task[r].begun
        /\ t.alone = task[r].alone
    OBVIOUS
  <1> HIDE DEF t
  <1>7. QED BY <1>3, <1>5, <1>6 DEF GoesOn

\* A commit of a creation or of a change, with the row that it leaves.
Commits(r, t) ==
  /\ GoesOn(r, t) /\ booking' = t.row
  /\ \/ task[r].op = "create" /\ booking = None /\ t.op = "reread"
     \/ /\ task[r].op \in Ops /\ booking # None /\ t.row.customer = booking.customer
        /\ t.op = "sync" /\ t.todo = Owner
  /\ UNCHANGED <<reminded, entry, notices, claims, left>>

\* A row that is handed on to the calendars without a commit.
HandsOn(r, t) ==
  /\ GoesOn(r, t) /\ t.op = "sync" /\ t.todo = Owner
  /\ \/ task[r].op = "failed" /\ t.row = task[r].row
     \/ task[r].op = "reread" /\ t.row = booking
  /\ UNCHANGED <<dbVars, histVars>>

\* An entry that is written.
Syncs(r, owner, t) ==
  /\ GoesOn(r, t) /\ t.op = "sync" /\ task[r].op = "sync" /\ t.row = task[r].row
  /\ owner \in task[r].todo /\ t.todo = task[r].todo \ {owner}
  /\ entry' = [entry EXCEPT ![owner] = EntryOf(owner, t.row)]
  /\ UNCHANGED <<booking, reminded, histVars>>

\* A claim that takes the booking.
Claims(r, t, c) ==
  /\ GoesOn(r, t) /\ task[r].op = "claim" /\ t.op = "reread"
  /\ booking # None /\ c \in Customer /\ booking' \in Row /\ booking'.customer = c
  /\ claims' = claims \cup {[customer |-> c, begun |-> task[r].begun, ended |-> calls]}
  /\ UNCHANGED <<reminded, entry, notices, left>>

LEMMA ChangeSteps ==
  ASSUME TypeInv, NEW r \in Req, Change(r) \/ CreateCommit(r) \/ Reread(r)
  PROVE  \E t \in Task : Commits(r, t) \/ HandsOn(r, t)
  <1>0. task[r] # None /\ task[r] \in Task /\ task[r].row \in Row
    BY DEF TypeInv, Task, Change, CreateCommit, Reread, Doing
  <1>1. CASE CreateCommit(r)
    <2> DEFINE t == [op |-> "reread", row |-> task[r].row, to |-> task[r].to,
                     todo |-> task[r].todo, alone |-> task[r].alone, begun |-> task[r].begun]
    <2>1. t \in Task
      BY <1>0 DEF Task, Stages
    <2>2. [task[r] EXCEPT !.op = "reread"] = t
      BY <1>0 DEF Task
    <2>3. task' = [task EXCEPT ![r] = t] /\ calls' = calls
      BY <1>1, <2>2 DEF CreateCommit, TypeInv
    <2>4. t.op = "reread" /\ t.row = task[r].row /\ t.begun = task[r].begun
          /\ t.alone = task[r].alone
      OBVIOUS
    <2> HIDE DEF t
    <2>5. Commits(r, t)
      BY <1>0, <1>1, <2>3, <2>4 DEF CreateCommit, Commits, GoesOn, Doing
    <2>6. QED BY <2>1, <2>5
  <1>2. CASE Reread(r)
    <2>1. booking \in Row
      BY <1>0, <1>2 DEF TypeInv, Reread, Doing
    <2>2. PICK t \in Task : GoesOn(r, t) /\ t.op = "sync" /\ t.row = booking /\ t.todo = Owner
      <3>1. task' = [task EXCEPT ![r].row = booking, ![r].op = "sync", ![r].todo = Owner]
        BY <1>0, <1>2 DEF Reread, TypeInv, Task
      <3>2. QED BY <1>0, <1>2, <2>1, <3>1, Committing DEF Reread
    <2>3. HandsOn(r, t)
      BY <1>2, <2>2 DEF Reread, HandsOn, Doing
    <2>4. QED BY <2>3
  <1>3. CASE Change(r) /\ task[r].op = "failed" /\ task[r].row.status # "AWAITING_PAYMENT"
    <2>1. PICK t \in Task : GoesOn(r, t) /\ t.op = "sync" /\ t.row = task[r].row /\ t.todo = Owner
      <3>1. task' = [task EXCEPT ![r].row = task[r].row, ![r].op = "sync", ![r].todo = Owner]
        BY <1>0, <1>3 DEF Change, TypeInv, Task
      <3>2. QED BY <1>0, <1>3, <3>1, Committing DEF Change
    <2>2. HandsOn(r, t)
      BY <1>3, <2>1 DEF Change, HandsOn, dbVars, histVars
    <2>3. QED BY <2>2
  <1>4. CASE /\ Change(r)
             /\ ~(task[r].op = "failed" /\ task[r].row.status # "AWAITING_PAYMENT")
    <2> DEFINE row == After(task[r].op, task[r].to, booking)
    <2>1. task[r].op \in Ops /\ booking \in Row /\ booking # None
          /\ (task[r].op = "reschedule" => task[r].to \in Start)
      BY <1>0, <1>4 DEF Change, TypeInv, Ops
    <2>2. row \in Row /\ row.customer = booking.customer
      BY <2>1, AfterKeeps
    <2>3. Updated(r, row) /\ UNCHANGED <<reminded, entry, notices, claims, left>>
      BY <1>4 DEF Change
    <2> HIDE DEF row
    <2>4. PICK t \in Task : GoesOn(r, t) /\ t.op = "sync" /\ t.row = row /\ t.todo = Owner
      BY <1>0, <2>2, <2>3, Committing DEF Updated
    <2>5. Commits(r, t)
      BY <2>1, <2>2, <2>3, <2>4 DEF Commits, Updated
    <2>6. QED BY <2>5
  <1>5. QED BY <1>1, <1>2, <1>3, <1>4

LEMMA SyncSteps ==
  ASSUME TypeInv, NEW r \in Req, NEW owner \in Owner, Sync(r, owner)
  PROVE  \E t \in Task : Syncs(r, owner, t)
  <1>1. task[r] # None /\ task[r] \in Task /\ task[r].op = "sync"
    BY DEF Sync, Doing, TypeInv
  <1> DEFINE t == [op |-> "sync", row |-> task[r].row, to |-> task[r].to,
                   todo |-> task[r].todo \ {owner},
                   alone |-> task[r].alone, begun |-> task[r].begun]
  <1>2. /\ task[r].to \in Start \cup Customer \cup {None} /\ task[r].alone \in BOOLEAN
        /\ task[r].begun \in Nat /\ task[r].row \in Row /\ task[r].todo \in SUBSET Owner
    BY <1>1 DEF Task
  <1>3. t \in Task
    BY <1>2 DEF Task, Stages
  <1>4. task'[r] = t
    BY <1>1 DEF Task, TypeInv, Sync
  <1>5. task' = [task EXCEPT ![r] = t]
    BY <1>4 DEF TypeInv, Sync
  <1>6. /\ t.op = "sync" /\ t.row = task[r].row /\ t.todo = task[r].todo \ {owner}
        /\ t.begun = task[r].begun /\ t.alone = task[r].alone
    OBVIOUS
  <1> HIDE DEF t
  <1>7. Syncs(r, owner, t)
    BY <1>1, <1>5, <1>6 DEF Syncs, Sync, GoesOn, Written
  <1>8. QED BY <1>3, <1>7

LEMMA ClaimSteps ==
  ASSUME TypeInv, NEW r \in Req, ClaimCommit(r)
  PROVE  \E t \in Task, c \in Customer : Claims(r, t, c)
  <1>1. task[r] # None /\ task[r] \in Task /\ task[r].op = "claim"
    BY DEF ClaimCommit, Doing, TypeInv
  <1> DEFINE t == [op |-> "reread", row |-> task[r].row, to |-> task[r].to,
                   todo |-> task[r].todo,
                   alone |-> task[r].alone, begun |-> task[r].begun]
  <1>2. /\ task[r].to \in Start \cup Customer \cup {None} /\ task[r].alone \in BOOLEAN
        /\ task[r].begun \in Nat /\ task[r].row \in Row /\ task[r].todo \in SUBSET Owner
    BY <1>1 DEF Task
  <1>3. t \in Task
    BY <1>2 DEF Task, Stages
  <1>4. task'[r] = t
    BY <1>1 DEF Task, TypeInv, ClaimCommit
  <1>5. task' = [task EXCEPT ![r] = t]
    BY <1>4 DEF TypeInv, ClaimCommit
  <1>6. t.op = "reread" /\ t.begun = task[r].begun /\ t.alone = task[r].alone
    OBVIOUS
  <1>7. task[r].to \in Customer /\ booking \in Row /\ booking # None
    BY <1>1 DEF TypeInv
  <1>8. booking' \in Row /\ booking'.customer = task[r].to
    BY <1>7 DEF ClaimCommit, Row
  <1> HIDE DEF t
  <1>9. Claims(r, t, task[r].to)
    BY <1>1, <1>5, <1>6, <1>7, <1>8 DEF Claims, ClaimCommit, GoesOn
  <1>10. QED BY <1>3, <1>7, <1>9

\* Requests that end: answered, stopped, or having sent a reminder.
Ends(r) ==
  /\ task[r] # None /\ task' = [task EXCEPT ![r] = None] /\ calls' = calls
Answers(r) ==
  /\ Ends(r) /\ task[r].op = "sync" /\ task[r].todo = {}
  /\ ~task[r].alone => left' # "settled"
  /\ UNCHANGED <<dbVars, notices, claims>>
Stops(r) ==
  /\ Ends(r)
  /\ left' = IF task[r].op \in {"sync", "reread"} THEN "stopped" ELSE left
  /\ UNCHANGED <<dbVars, notices, claims>>
Reminds(r) ==
  /\ Ends(r) /\ task[r].op = "remind"
  /\ reminded' = TRUE
  /\ notices' = notices \cup
       {[start |-> booking.start, begun |-> task[r].begun, ended |-> calls]}
  /\ UNCHANGED <<booking, entry, claims, left>>

\* Every step is one of these.
LEMMA NextSteps ==
  ASSUME TypeInv, [Next]_vars
  PROVE  \/ UNCHANGED <<dbVars, task, calls, histVars>>
         \/ \E r \in Req, t \in Task : Begun(r, t) \/ Commits(r, t) \/ HandsOn(r, t)
         \/ \E r \in Req, owner \in Owner, t \in Task : Syncs(r, owner, t)
         \/ \E r \in Req, t \in Task, c \in Customer : Claims(r, t, c)
         \/ \E r \in Req : Answers(r) \/ Stops(r) \/ Reminds(r)
  <1>1. ASSUME NEW r \in Req, NEW start \in Start, NEW c \in Customer \cup {None},
               NEW s \in {"AWAITING_PAYMENT", "CONFIRMED"}, Create(r, start, c, s)
        PROVE  \E t \in Task : Begun(r, t)
    <2> DEFINE row == [status |-> s, start |-> start, customer |-> c]
    <2>1. row \in Row
      BY DEF Row, Status
    <2>2. /\ "create" \in Stages \ {"sync", "reread"} /\ None \in Start \cup Customer \cup {None}
          /\ Begin(r, [op |-> "create", to |-> None, row |-> row])
          /\ UNCHANGED <<dbVars, histVars>>
      BY <1>1 DEF Create, Stages
    <2> HIDE DEF row
    <2>3. QED BY <2>1, <2>2, Beginning
  <1>2. ASSUME NEW r \in Req, NEW op \in Ops, NEW to \in Start \cup {None}, Decide(r, op, to),
               op = "reschedule" => to \in Start
        PROVE  \E t \in Task : Begun(r, t)
    <2>1. /\ op \in Stages \ {"sync", "reread"} /\ booking \in Row /\ booking # None
          /\ op # "create" /\ op # "claim" /\ op # "remind"
          /\ to \in Start \cup Customer \cup {None}
          /\ Begin(r, [op |-> op, to |-> to, row |-> booking])
          /\ UNCHANGED <<dbVars, histVars>>
      BY <1>2 DEF Decide, TypeInv, Ops, Stages
    <2>2. QED BY <1>2, <2>1, Beginning
  <1>3. ASSUME NEW r \in Req, NEW c \in Customer, ClaimRead(r, c)
        PROVE  \E t \in Task : Begun(r, t)
    <2>1. /\ "claim" \in Stages \ {"sync", "reread"} /\ booking \in Row /\ booking # None
          /\ booking.customer = None /\ c \in Start \cup Customer \cup {None}
          /\ Begin(r, [op |-> "claim", to |-> c, row |-> booking])
          /\ UNCHANGED <<dbVars, histVars>>
      BY <1>3 DEF ClaimRead, Claimable, TypeInv, Stages
    <2>2. QED BY <2>1, Beginning
  <1>4. ASSUME NEW r \in Req, NEW ahead \in Aheads, RemindRead(r, ahead)
        PROVE  \E t \in Task : Begun(r, t)
    <2>1. /\ "remind" \in Stages \ {"sync", "reread"} /\ booking \in Row /\ booking # None
          /\ reminded = FALSE /\ None \in Start \cup Customer \cup {None}
          /\ Begin(r, [op |-> "remind", to |-> None, row |-> booking])
          /\ UNCHANGED <<dbVars, histVars>>
      BY <1>4 DEF RemindRead, Due, TypeInv, Stages
    <2>2. QED BY <2>1, Beginning
  <1>5. ASSUME NEW r \in Req, Answer(r) \/ Stop(r) \/ RemindCommit(r)
        PROVE  Answers(r) \/ Stops(r) \/ Reminds(r)
    <2>1. CASE Answer(r)
      <3>1. task[r].alone \in BOOLEAN
        BY <2>1 DEF Answer, Doing, TypeInv, Task
      <3>2. ~task[r].alone => left' # "settled"
        BY <2>1, <3>1 DEF Answer
      <3>3. QED BY <2>1, <3>2 DEF Answer, Answers, Ends, End, Doing
    <2>2. CASE Stop(r)
      BY <2>2 DEF Stop, Stops, Ends, End
    <2>3. CASE RemindCommit(r)
      BY <2>3 DEF RemindCommit, Reminds, Ends, End, Doing
    <2>4. QED BY <1>5, <2>1, <2>2, <2>3
  <1>6. Tick \/ UNCHANGED vars => UNCHANGED <<dbVars, task, calls, histVars>>
    BY DEF Tick, vars
  <1>7. ASSUME NEW r \in Req, NEW op \in Ops \ {"reschedule"}, Decide(r, op, None)
        PROVE  \E t \in Task : Begun(r, t)
    BY <1>2, <1>7
  <1>8. ASSUME NEW r \in Req, NEW to \in Start, Decide(r, "reschedule", to)
        PROVE  \E t \in Task : Begun(r, t)
    BY <1>2, <1>8 DEF Ops
  <1>9. CASE Next
    BY <1>1, <1>3, <1>4, <1>5, <1>6, <1>7, <1>8, <1>9, ChangeSteps, SyncSteps, ClaimSteps DEF Next
  <1>10. QED BY <1>6, <1>9

\* A step of one request leaves the others as they are.
LEMMA GoingOn ==
  ASSUME TypeInv, NEW r \in Req, NEW t \in Task, GoesOn(r, t)
  PROVE  /\ task' \in [Req -> Task \cup {None}] /\ task'[r] = t /\ t # None
         /\ \A q \in Req \ {r} : task'[q] = task[q]
         /\ task[r] \in Task /\ task[r].begun \in Nat
  BY DEF TypeInv, GoesOn, Task
LEMMA Ending ==
  ASSUME TypeInv, NEW r \in Req, Ends(r)
  PROVE  /\ task' \in [Req -> Task \cup {None}] /\ task'[r] = None
         /\ \A q \in Req \ {r} : task'[q] = task[q]
         /\ task[r] \in Task /\ task[r].begun \in Nat
  BY DEF TypeInv, Ends, Task

LEMMA TypeInvInductive ==
  /\ Init => TypeInv
  /\ TypeInv /\ [Next]_vars => TypeInv'
  <1>1. ASSUME Init
        PROVE  TypeInv
    <2>1. entry = [o \in Owner |-> entry[o]]
      <3>1. CASE entry = [o \in Owner |-> None]
        BY <3>1
      <3>2. CASE entry = [o \in Owner |-> EntryOf(o, booking)]
        BY <3>2
      <3>3. QED BY <1>1, <3>1, <3>2 DEF Init
    <2>2. booking \in Row \cup {None}
      BY <1>1 DEF Init
    <2>3. QED BY <1>1, <2>1, <2>2 DEF Init, TypeInv
  <1>2. TypeInv /\ UNCHANGED <<dbVars, task, calls, histVars>> => TypeInv'
    BY DEF TypeInv, dbVars, histVars
  <1>3. ASSUME TypeInv, NEW r \in Req, NEW t \in Task, Begun(r, t)
        PROVE  TypeInv'
    <2>1. \A q \in Req : task'[q] \in Task \cup {None}
      BY <1>3 DEF Begun
    <2>2. task' \in [Req -> Task \cup {None}] /\ calls' \in Nat
      BY <1>3, <2>1 DEF Begun, TypeInv
    <2>3. ASSUME NEW q \in Req, task'[q] # None
          PROVE  /\ task'[q].op # "create" => booking # None
                 /\ task'[q].op = "reschedule" => task'[q].to \in Start
                 /\ task'[q].op = "claim" => task'[q].to \in Customer
      BY <1>3, <2>3 DEF Begun, SameWork, TypeInv
    <2>4. QED BY <1>3, <2>2, <2>3 DEF TypeInv, Begun, dbVars, histVars
  <1>4. ASSUME TypeInv, NEW r \in Req, NEW t \in Task, Commits(r, t)
        PROVE  TypeInv'
    <2>1. t.row \in Row /\ t.row # None
      BY DEF Task
    <2>2. GoesOn(r, t)
      BY <1>4 DEF Commits
    <2>3. QED BY <1>4, <2>1, <2>2, GoingOn DEF TypeInv, Commits, GoesOn
  <1>5. ASSUME TypeInv, NEW r \in Req, NEW t \in Task, HandsOn(r, t)
        PROVE  TypeInv'
    <2>1. GoesOn(r, t)
      BY <1>5 DEF HandsOn
    <2>2. booking # None
      BY <1>5 DEF HandsOn, TypeInv, GoesOn
    <2>3. QED BY <1>5, <2>1, <2>2, GoingOn DEF TypeInv, HandsOn, GoesOn, dbVars, histVars
  <1>6. ASSUME TypeInv, NEW r \in Req, NEW owner \in Owner, NEW t \in Task, Syncs(r, owner, t)
        PROVE  TypeInv'
    <2>1. GoesOn(r, t)
      BY <1>6 DEF Syncs
    <2>2. booking # None
      BY <1>6 DEF Syncs, TypeInv, GoesOn
    <2>3. QED BY <1>6, <2>1, <2>2, GoingOn DEF TypeInv, Syncs, GoesOn, histVars
  <1>7. ASSUME TypeInv, NEW r \in Req, NEW t \in Task, NEW c \in Customer, Claims(r, t, c)
        PROVE  TypeInv'
    <2>1. GoesOn(r, t)
      BY <1>7 DEF Claims
    <2>2. [customer |-> c, begun |-> task[r].begun, ended |-> calls] \in Claim
      BY <1>7, <2>1, GoingOn DEF Claim, TypeInv
    <2>3. booking' \in Row /\ booking' # None /\ claims' \subseteq Claim
      BY <1>7, <2>2 DEF Claims, TypeInv
    <2>4. QED BY <1>7, <2>1, <2>3, GoingOn DEF TypeInv, Claims, GoesOn
  <1>8. ASSUME TypeInv, NEW r \in Req, Answers(r) \/ Stops(r)
        PROVE  TypeInv'
    <2>1. Ends(r) /\ UNCHANGED <<dbVars, notices, claims>>
      BY <1>8 DEF Answers, Stops
    <2>2. QED BY <1>8, <2>1, Ending DEF TypeInv, Ends, dbVars
  <1>9. ASSUME TypeInv, NEW r \in Req, Reminds(r)
        PROVE  TypeInv'
    <2>1. Ends(r)
      BY <1>9 DEF Reminds
    <2>2. booking \in Row /\ booking.start \in Start
      BY <1>9, <2>1 DEF Reminds, TypeInv, Ends, Row
    <2>3. [start |-> booking.start, begun |-> task[r].begun, ended |-> calls] \in Spell
      BY <1>9, <2>1, <2>2, Ending DEF Spell, TypeInv
    <2>4. QED BY <1>9, <2>1, <2>3, Ending DEF TypeInv, Reminds, Ends
  <1>10. QED BY <1>1, <1>2, <1>3, <1>4, <1>5, <1>6, <1>7, <1>8, <1>9, NextSteps

-----------------------------------------------------------------------------
(***************************************************************************)
(* Times, as numbers of requests started.                                  *)
(***************************************************************************)

TimesInv ==
  /\ \A r \in Req : task[r] # None => task[r].begun <= calls
  /\ \A x \in claims : x.begun <= x.ended /\ x.ended <= calls
  /\ \A x \in notices : x.begun <= x.ended /\ x.ended <= calls

\* A request at work after a step was at work before it, and at the same stage or further,
\* or has just begun.
LEMMA AtWork ==
  ASSUME TypeInv, [Next]_vars, NEW q \in Req, task'[q] # None
  PROVE  \/ task[q] # None /\ task'[q].begun = task[q].begun /\ calls <= calls'
         \/ task'[q].begun = calls + 1 /\ calls' = calls + 1 /\ UNCHANGED <<dbVars, histVars>>
  <1>1. CASE UNCHANGED <<dbVars, task, calls, histVars>>
    BY <1>1 DEF TypeInv
  <1>2. ASSUME NEW r \in Req, NEW t \in Task, Begun(r, t)
        PROVE  \/ task[q] # None /\ task'[q].begun = task[q].begun /\ calls <= calls'
               \/ task'[q].begun = calls + 1 /\ calls' = calls + 1 /\ UNCHANGED <<dbVars, histVars>>
    BY <1>2 DEF Begun, SameWork, TypeInv
  <1>3. ASSUME NEW r \in Req, NEW t \in Task, GoesOn(r, t)
        PROVE  task[q] # None /\ task'[q].begun = task[q].begun /\ calls <= calls'
    BY <1>3, GoingOn DEF GoesOn, TypeInv
  <1>4. ASSUME NEW r \in Req, Ends(r)
        PROVE  task[q] # None /\ task'[q].begun = task[q].begun /\ calls <= calls'
    BY <1>4, Ending DEF Ends, TypeInv
  <1>5. \/ UNCHANGED <<dbVars, task, calls, histVars>>
        \/ \E r \in Req, t \in Task : Begun(r, t) \/ GoesOn(r, t)
        \/ \E r \in Req : Ends(r)
    BY NextSteps DEF Commits, HandsOn, Syncs, Claims, Answers, Stops, Reminds
  <1>6. QED BY <1>1, <1>2, <1>3, <1>4, <1>5

\* A claim or a reminder that a step adds.
LEMMA Added ==
  ASSUME TypeInv, [Next]_vars
  PROVE  /\ \/ claims' = claims
            \/ \E r \in Req, t \in Task, c \in Customer : Claims(r, t, c)
         /\ \/ notices' = notices
            \/ \E r \in Req : Reminds(r)
         /\ calls' \in {calls, calls + 1}
  <1>1. \/ claims' = claims
        \/ \E r \in Req, t \in Task, c \in Customer : Claims(r, t, c)
    BY NextSteps DEF Begun, Commits, HandsOn, Syncs, Answers, Stops, Reminds, histVars
  <1>2. notices' = notices \/ \E r \in Req : Reminds(r)
    BY NextSteps DEF Begun, Commits, HandsOn, Syncs, Claims, Answers, Stops, histVars
  <1>3. calls' = calls \/ \E r \in Req, t \in Task : Begun(r, t)
    BY NextSteps DEF Commits, HandsOn, Syncs, Claims, Answers, Stops, Reminds, GoesOn, Ends
  <1>4. calls' \in {calls, calls + 1}
    BY <1>3 DEF Begun
  <1>5. QED BY <1>1, <1>2, <1>4

LEMMA TimesInvInductive ==
  /\ Init => TimesInv
  /\ TypeInv /\ TimesInv /\ [Next]_vars => TimesInv'
  <1>1. Init => TimesInv
    BY DEF Init, TimesInv
  <1>2. ASSUME TypeInv, TimesInv, [Next]_vars
        PROVE  TimesInv'
    <2>0. calls \in Nat /\ calls' \in Nat /\ (calls' = calls \/ calls' = calls + 1)
      BY <1>2, Added DEF TypeInv
    <2>1. ASSUME NEW q \in Req, task'[q] # None
          PROVE  task'[q].begun <= calls'
      <3>1. task[q] # None => task[q].begun \in Nat /\ task[q].begun <= calls
        BY <1>2 DEF TypeInv, Task, TimesInv
      <3>2. QED BY <1>2, <2>0, <2>1, <3>1, AtWork
    <2>2. ASSUME NEW x \in claims'
          PROVE  x.begun <= x.ended /\ x.ended <= calls'
      <3>1. CASE x \in claims
        <4>1. x.ended \in Nat /\ x.begun <= x.ended /\ x.ended <= calls
          BY <1>2, <3>1 DEF TypeInv, Claim, TimesInv
        <4>2. QED BY <2>0, <4>1
      <3>2. CASE x \notin claims
        <4>1. PICK r \in Req, t \in Task, c \in Customer : Claims(r, t, c)
          BY <1>2, <2>2, <3>2, Added
        <4>2. /\ x = [customer |-> c, begun |-> task[r].begun, ended |-> calls]
              /\ task[r] # None /\ calls' = calls
          BY <2>2, <3>2, <4>1 DEF Claims, GoesOn
        <4>3. QED BY <1>2, <2>0, <4>2 DEF TimesInv
      <3>3. QED BY <3>1, <3>2
    <2>3. ASSUME NEW x \in notices'
          PROVE  x.begun <= x.ended /\ x.ended <= calls'
      <3>1. CASE x \in notices
        <4>1. x.ended \in Nat /\ x.begun <= x.ended /\ x.ended <= calls
          BY <1>2, <3>1 DEF TypeInv, Spell, TimesInv
        <4>2. QED BY <2>0, <4>1
      <3>2. CASE x \notin notices
        <4>1. PICK r \in Req : Reminds(r)
          BY <1>2, <2>3, <3>2, Added
        <4>2. /\ x = [start |-> booking.start, begun |-> task[r].begun, ended |-> calls]
              /\ task[r] # None /\ calls' = calls
          BY <2>3, <3>2, <4>1 DEF Reminds, Ends
        <4>3. QED BY <1>2, <2>0, <4>2 DEF TimesInv
      <3>3. QED BY <3>1, <3>2
    <2>4. QED BY <2>1, <2>2, <2>3 DEF TimesInv
  <1>3. QED BY <1>1, <1>2

\* A request that is to claim or to remind has just begun, and read that it may, or is where
\* it was.
LEMMA StillAt ==
  ASSUME TypeInv, [Next]_vars, NEW q \in Req, task'[q] # None, task'[q].op \in {"claim", "remind"}
  PROVE  \/ /\ task[q] # None /\ task[q].op = task'[q].op /\ task'[q].begun = task[q].begun
         \/ /\ task'[q].begun = calls + 1 /\ UNCHANGED <<dbVars, histVars>>
            /\ task'[q].op = "claim" => booking # None /\ booking.customer = None
            /\ task'[q].op = "remind" => reminded = FALSE
  <1> DEFINE Still == task[q] # None /\ task[q].op = task'[q].op /\ task'[q].begun = task[q].begun
             Fresh == /\ task'[q].begun = calls + 1 /\ UNCHANGED <<dbVars, histVars>>
                      /\ task'[q].op = "claim" => booking # None /\ booking.customer = None
                      /\ task'[q].op = "remind" => reminded = FALSE
  <1>1. CASE UNCHANGED <<dbVars, task, calls, histVars>>
    BY <1>1
  <1>2. ASSUME NEW r \in Req, NEW t \in Task, Begun(r, t)
        PROVE  Still \/ Fresh
    <2>1. CASE q = r
      BY <1>2, <2>1 DEF Begun
    <2>2. CASE q # r
      BY <1>2, <2>2 DEF Begun, SameWork
    <2>3. QED BY <2>1, <2>2
  <1>3. ASSUME NEW r \in Req, NEW t \in Task, GoesOn(r, t), t.op \in {"sync", "reread"}
        PROVE  Still
    BY <1>3, GoingOn
  <1>4. ASSUME NEW r \in Req, Ends(r)
        PROVE  Still
    BY <1>4, Ending
  <1>5. \/ UNCHANGED <<dbVars, task, calls, histVars>>
        \/ \E r \in Req, t \in Task : Begun(r, t) \/ (GoesOn(r, t) /\ t.op \in {"sync", "reread"})
        \/ \E r \in Req : Ends(r)
    BY NextSteps DEF Commits, HandsOn, Syncs, Claims, Answers, Stops, Reminds
  <1>6. QED BY <1>1, <1>2, <1>3, <1>4, <1>5

-----------------------------------------------------------------------------
(***************************************************************************)
(* Claims.  A booking that was claimed has a customer for good, and a      *)
(* claim is made for one that had none when the claim began.               *)
(***************************************************************************)

ClaimInv ==
  /\ claims # {} => booking # None /\ booking.customer # None
  /\ \A r \in Req : task[r] # None /\ task[r].op = "claim"
                      => \A x \in claims : task[r].begun <= x.ended
  /\ \A x, y \in claims : Together(x, y)

LEMMA ClaimInvInductive ==
  /\ Init => ClaimInv
  /\ TypeInv /\ TimesInv /\ ClaimInv /\ [Next]_vars => ClaimInv'
  <1>1. Init => ClaimInv
    BY DEF Init, ClaimInv
  <1>2. ASSUME TypeInv, TimesInv, ClaimInv, [Next]_vars
        PROVE  ClaimInv'
    <2>1. CASE claims' = claims
      <3>1. claims # {} => booking' # None /\ booking'.customer # None
        <4>1. \/ booking' = booking
              \/ \E r \in Req, t \in Task : Commits(r, t)
              \/ \E r \in Req, t \in Task, c \in Customer : Claims(r, t, c)
          BY <1>2, NextSteps DEF Begun, HandsOn, Syncs, Answers, Stops, Reminds, dbVars
        <4>2. ASSUME NEW r \in Req, NEW t \in Task, Commits(r, t), claims # {}
              PROVE  booking' # None /\ booking'.customer # None
          <5>1. t.row # None
            BY DEF Task
          <5>2. QED BY <1>2, <4>2, <5>1 DEF Commits, ClaimInv
        <4>3. ASSUME NEW r \in Req, NEW t \in Task, NEW c \in Customer, Claims(r, t, c)
              PROVE  booking' # None /\ booking'.customer # None
          BY <4>3 DEF Claims
        <4>4. QED BY <1>2, <4>1, <4>2, <4>3 DEF ClaimInv
      <3>2. ASSUME NEW q \in Req, task'[q] # None, task'[q].op = "claim", NEW x \in claims
            PROVE  task'[q].begun <= x.ended
        BY <1>2, <3>2, StillAt DEF ClaimInv
      <3>3. QED BY <1>2, <2>1, <3>1, <3>2 DEF ClaimInv, Together
    <2>2. CASE claims' # claims
      <3>1. PICK r \in Req, t \in Task, c \in Customer : Claims(r, t, c)
        BY <1>2, <2>2, Added
      <3>2. PICK y \in Claim :
              /\ claims' = claims \cup {y} /\ y.begun = task[r].begun /\ y.ended = calls
        <4>1. GoesOn(r, t)
          BY <3>1 DEF Claims
        <4>2. task[r].begun \in Nat
          BY <1>2, <4>1, GoingOn
        <4>3. [customer |-> c, begun |-> task[r].begun, ended |-> calls] \in Claim
          BY <1>2, <4>2 DEF Claim, TypeInv
        <4>4. QED BY <3>1, <4>3 DEF Claims
      <3>3. booking' # None /\ booking'.customer # None
        BY <3>1 DEF Claims
      <3>4. task[r] # None /\ task[r].op = "claim" /\ y.begun <= y.ended /\ calls \in Nat
        BY <1>2, <3>1, <3>2 DEF Claims, GoesOn, TimesInv, TypeInv
      <3>5. ASSUME NEW x \in claims
            PROVE  Together(x, y) /\ Together(y, x)
        <4>1. x.begun \in Nat /\ x.ended \in Nat /\ x.begun <= x.ended /\ x.ended <= calls
          BY <1>2 DEF TypeInv, Claim, TimesInv
        <4>2. y.begun <= x.ended
          BY <1>2, <3>2, <3>4 DEF ClaimInv
        <4>3. QED BY <3>2, <4>1, <4>2 DEF Together, Claim
      <3>6. Together(y, y)
        BY <3>4 DEF Together
      <3>7. \A x, z \in claims' : Together(x, z)
        BY <1>2, <3>2, <3>5, <3>6 DEF ClaimInv
      <3>8. ASSUME NEW q \in Req, task'[q] # None, task'[q].op = "claim", NEW x \in claims'
            PROVE  task'[q].begun <= x.ended
        <4>1. task[q] # None /\ task[q].op = "claim" /\ task'[q].begun = task[q].begun
          BY <1>2, <2>2, <3>8, StillAt DEF histVars
        <4>2. CASE x \in claims
          BY <1>2, <4>1, <4>2 DEF ClaimInv
        <4>3. CASE x = y
          BY <1>2, <3>2, <4>1, <4>3 DEF TimesInv
        <4>4. QED BY <3>2, <3>8, <4>2, <4>3
      <3>9. QED BY <3>3, <3>7, <3>8 DEF ClaimInv, Together
    <2>3. QED BY <2>1, <2>2
  <1>3. QED BY <1>1, <1>2

\* A booking made without an account goes to a second customer only when two customers
\* claimed it at once.
THEOREM ClaimsHold == Spec => []ClaimedOnceUnlessTogether
  <1>1. ClaimInv => ClaimedOnceUnlessTogether
    BY DEF ClaimInv, ClaimedOnceUnlessTogether
  <1>2. QED BY <1>1, TypeInvInductive, TimesInvInductive, ClaimInvInductive, PTL DEF Spec

-----------------------------------------------------------------------------
(***************************************************************************)
(* Reminders.  The mark stays, and a reminder run finds bookings that do   *)
(* not have it.                                                            *)
(***************************************************************************)

RemindInv ==
  /\ notices # {} => reminded = TRUE
  /\ \A r \in Req : task[r] # None /\ task[r].op = "remind"
                      => \A x \in notices : task[r].begun <= x.ended
  /\ \A x, y \in notices : Together(x, y)

LEMMA RemindInvInductive ==
  /\ Init => RemindInv
  /\ TypeInv /\ TimesInv /\ RemindInv /\ [Next]_vars => RemindInv'
  <1>1. Init => RemindInv
    BY DEF Init, RemindInv
  <1>2. ASSUME TypeInv, TimesInv, RemindInv, [Next]_vars
        PROVE  RemindInv'
    <2>1. reminded' = reminded \/ reminded' = TRUE
      BY <1>2, NextSteps DEF Begun, Commits, HandsOn, Syncs, Claims, Answers, Stops, Reminds, dbVars
    <2>2. CASE notices' = notices
      <3>1. ASSUME NEW q \in Req, task'[q] # None, task'[q].op = "remind", NEW x \in notices
            PROVE  task'[q].begun <= x.ended
        BY <1>2, <3>1, StillAt DEF RemindInv
      <3>2. QED BY <1>2, <2>1, <2>2, <3>1 DEF RemindInv, Together
    <2>3. CASE notices' # notices
      <3>1. PICK r \in Req : Reminds(r)
        BY <1>2, <2>3, Added
      <3>2. PICK y \in Spell :
              /\ notices' = notices \cup {y} /\ y.begun = task[r].begun /\ y.ended = calls
        <4>1. Ends(r)
          BY <3>1 DEF Reminds
        <4>2. task[r].begun \in Nat
          BY <1>2, <4>1, Ending
        <4>3. booking.start \in Start
          BY <1>2, <3>1, <4>1 DEF Reminds, TypeInv, Ends, Row
        <4>4. [start |-> booking.start, begun |-> task[r].begun, ended |-> calls] \in Spell
          BY <1>2, <4>2, <4>3 DEF Spell, TypeInv
        <4>5. QED BY <3>1, <4>4 DEF Reminds
      <3>3. reminded' = TRUE
        BY <3>1 DEF Reminds
      <3>4. task[r] # None /\ task[r].op = "remind" /\ y.begun <= y.ended /\ calls \in Nat
        BY <1>2, <3>1, <3>2 DEF Reminds, Ends, TimesInv, TypeInv
      <3>5. ASSUME NEW x \in notices
            PROVE  Together(x, y) /\ Together(y, x)
        <4>1. x.begun \in Nat /\ x.ended \in Nat /\ x.begun <= x.ended /\ x.ended <= calls
          BY <1>2 DEF TypeInv, Spell, TimesInv
        <4>2. y.begun <= x.ended
          BY <1>2, <3>2, <3>4 DEF RemindInv
        <4>3. QED BY <3>2, <4>1, <4>2 DEF Together, Spell
      <3>6. Together(y, y)
        BY <3>4 DEF Together
      <3>7. \A x, z \in notices' : Together(x, z)
        BY <1>2, <3>2, <3>5, <3>6 DEF RemindInv
      <3>8. ASSUME NEW q \in Req, task'[q] # None, task'[q].op = "remind", NEW x \in notices'
            PROVE  task'[q].begun <= x.ended
        <4>1. task[q] # None /\ task[q].op = "remind" /\ task'[q].begun = task[q].begun
          BY <1>2, <2>3, <3>8, StillAt DEF histVars
        <4>2. CASE x \in notices
          BY <1>2, <4>1, <4>2 DEF RemindInv
        <4>3. CASE x = y
          BY <1>2, <3>2, <4>1, <4>3 DEF TimesInv
        <4>4. QED BY <3>2, <3>8, <4>2, <4>3
      <3>9. QED BY <3>3, <3>7, <3>8 DEF RemindInv, Together
    <2>4. QED BY <2>2, <2>3
  <1>3. QED BY <1>1, <1>2

\* A second reminder of a booking is sent only by a run that overlapped the first.
THEOREM RemindersHold == Spec => []RemindedOnceUnlessTogether
  <1>1. RemindInv => RemindedOnceUnlessTogether
    BY DEF RemindInv, RemindedOnceUnlessTogether
  <1>2. QED BY <1>1, TypeInvInductive, TimesInvInductive, RemindInvInductive, PTL DEF Spec

-----------------------------------------------------------------------------
(***************************************************************************)
(* Calendars.  A request that is alone has the row as it is, and what it   *)
(* has written shows it.  Between requests that write the calendars, they  *)
(* show the booking unless the last ones overlapped or one was stopped.    *)
(***************************************************************************)

Shown(o) == entry[o] = EntryOf(o, booking)
Writing(r) == task[r] # None /\ task[r].op \in {"sync", "reread"}

AloneInv ==
  \A r \in Req : task[r] # None /\ task[r].alone =>
    /\ \A q \in Req \ {r} : task[q] = None
    /\ task[r].op \in Ops \cup {"sync"} => task[r].row = booking
    /\ task[r].op = "sync" => \A o \in Owner \ task[r].todo : Shown(o)

SettledInv ==
  left = "settled" /\ booking # None /\ (\A r \in Req : ~Writing(r))
    => \A o \in Owner : Shown(o)

LEMMA AloneInvInductive ==
  /\ Init => AloneInv
  /\ TypeInv /\ AloneInv /\ [Next]_vars => AloneInv'
  <1>1. Init => AloneInv
    BY DEF Init, AloneInv
  <1>2. AloneInv /\ UNCHANGED <<dbVars, task, calls, histVars>> => AloneInv'
    BY DEF AloneInv, Shown, dbVars
  <1>3. ASSUME TypeInv, AloneInv, NEW r \in Req, NEW t \in Task, Begun(r, t)
        PROVE  AloneInv'
    <2>1. UNCHANGED <<booking, entry>>
      BY <1>3 DEF Begun, dbVars
    <2>2. ASSUME NEW q \in Req, task'[q] # None, task'[q].alone
          PROVE  /\ \A p \in Req \ {q} : task'[p] = None
                 /\ task'[q].op \in Ops \cup {"sync"} => task'[q].row = booking
                 /\ task'[q].op # "sync"
      <3>1. q = r
        BY <1>3, <2>2 DEF Begun
      <3>2. Busy = {} /\ t.op \notin {"sync", "reread"} /\ (t.op # "create" => t.row = booking)
        BY <1>3, <2>2, <3>1 DEF Begun
      <3>3. \A p \in Req \ {r} : task'[p] = None
        BY <1>3, <3>2 DEF Begun, Busy
      <3>4. task'[q] = t
        BY <1>3, <3>1 DEF Begun
      <3>5. QED BY <3>1, <3>2, <3>3, <3>4 DEF Ops
    <2>3. QED BY <2>1, <2>2 DEF AloneInv
  <1>4. ASSUME TypeInv, AloneInv, NEW r \in Req, NEW t \in Task, GoesOn(r, t),
               t.alone => /\ t.op \in Ops \cup {"sync"} => t.row = booking'
                          /\ t.op = "sync" => \A o \in Owner \ t.todo :
                                                entry'[o] = EntryOf(o, booking')
        PROVE  AloneInv'
    <2>1. ASSUME NEW q \in Req, task'[q] # None, task'[q].alone
          PROVE  /\ \A p \in Req \ {q} : task'[p] = None
                 /\ task'[q].op \in Ops \cup {"sync"} => task'[q].row = booking'
                 /\ task'[q].op = "sync" => \A o \in Owner \ task'[q].todo :
                                              entry'[o] = EntryOf(o, booking')
      <3>1. CASE q = r
        <4>1. task'[q] = t /\ task[r] # None /\ task[r].alone
          BY <1>4, <2>1, <3>1, GoingOn DEF GoesOn
        <4>2. \A p \in Req \ {q} : task'[p] = None
          BY <1>4, <3>1, <4>1, GoingOn DEF AloneInv
        <4>3. QED BY <1>4, <2>1, <4>1, <4>2
      <3>2. CASE q # r
        <4>1. task'[q] = task[q] /\ task[r] # None
          BY <1>4, <3>2, GoingOn DEF GoesOn
        <4>2. QED BY <1>4, <2>1, <3>2, <4>1 DEF AloneInv
      <3>3. QED BY <3>1, <3>2
    <2>2. QED BY <2>1 DEF AloneInv, Shown
  <1>5. ASSUME TypeInv, AloneInv, NEW r \in Req, NEW t \in Task, Commits(r, t) \/ HandsOn(r, t)
        PROVE  AloneInv'
    <2>1. GoesOn(r, t) /\ (t.op = "reread" \/ (t.op = "sync" /\ t.todo = Owner))
      BY <1>5 DEF Commits, HandsOn
    <2>2. t.alone => t.row = booking'
      <3>1. CASE Commits(r, t)
        BY <3>1 DEF Commits
      <3>2. CASE HandsOn(r, t)
        <4>1. booking' = booking /\ task[r] # None /\ t.alone = task[r].alone
          BY <3>2 DEF HandsOn, GoesOn, dbVars
        <4>2. CASE task[r].op = "reread" /\ t.row = booking
          BY <4>1, <4>2
        <4>3. CASE task[r].op = "failed" /\ t.row = task[r].row
          BY <1>5, <4>1, <4>3 DEF AloneInv, Ops
        <4>4. QED BY <3>2, <4>2, <4>3 DEF HandsOn
      <3>3. QED BY <1>5, <3>1, <3>2
    <2>3. QED BY <1>4, <1>5, <2>1, <2>2
  <1>6. ASSUME TypeInv, AloneInv, NEW r \in Req, NEW owner \in Owner, NEW t \in Task,
               Syncs(r, owner, t)
        PROVE  AloneInv'
    <2>1. GoesOn(r, t) /\ booking' = booking /\ t.row = task[r].row /\ task[r].op = "sync"
          /\ task[r] # None /\ t.alone = task[r].alone /\ t.todo = task[r].todo \ {owner}
      BY <1>6 DEF Syncs, GoesOn
    <2>2. ASSUME t.alone
          PROVE  t.row = booking /\ \A o \in Owner \ t.todo : entry'[o] = EntryOf(o, booking)
      <3>1. t.row = booking /\ \A o \in Owner \ task[r].todo : entry[o] = EntryOf(o, booking)
        BY <1>6, <2>1, <2>2 DEF AloneInv, Shown
      <3>2. ASSUME NEW o \in Owner \ t.todo
            PROVE  entry'[o] = EntryOf(o, booking)
        <4>1. CASE o = owner
          BY <1>6, <3>1, <4>1 DEF Syncs, TypeInv
        <4>2. CASE o # owner
          <5>1. entry'[o] = entry[o]
            BY <1>6, <4>2 DEF Syncs, TypeInv
          <5>2. QED BY <2>1, <3>1, <4>2, <5>1
        <4>3. QED BY <4>1, <4>2
      <3>3. QED BY <3>1, <3>2
    <2>3. QED BY <1>4, <1>6, <2>1, <2>2
  <1>7. ASSUME TypeInv, AloneInv, NEW r \in Req, NEW t \in Task, NEW c \in Customer,
               Claims(r, t, c)
        PROVE  AloneInv'
    <2>1. GoesOn(r, t) /\ t.op \notin Ops \cup {"sync"}
      BY <1>7 DEF Claims, Ops
    <2>2. QED BY <1>4, <1>7, <2>1
  <1>8. ASSUME TypeInv, AloneInv, NEW r \in Req, Answers(r) \/ Stops(r) \/ Reminds(r)
        PROVE  AloneInv'
    <2>1. Ends(r) /\ UNCHANGED <<booking, entry>>
      BY <1>8 DEF Answers, Stops, Reminds, dbVars
    <2>2. \A q \in Req : task'[q] \in {task[q], None}
      BY <1>8, <2>1, Ending
    <2>3. QED BY <1>8, <2>1, <2>2 DEF AloneInv, Shown
  <1>9. QED BY <1>1, <1>2, <1>3, <1>5, <1>6, <1>7, <1>8, NextSteps

LEMMA SettledInvInductive ==
  /\ Init => SettledInv
  /\ TypeInv /\ AloneInv /\ SettledInv /\ [Next]_vars => SettledInv'
  <1>1. ASSUME Init
        PROVE  SettledInv
    <2>1. CASE booking = None
      BY <2>1 DEF SettledInv
    <2>2. CASE entry = [o \in Owner |-> EntryOf(o, booking)]
      BY <2>2 DEF SettledInv, Shown
    <2>3. QED BY <1>1, <2>1, <2>2 DEF Init
  <1>2. SettledInv /\ UNCHANGED <<dbVars, task, calls, histVars>> => SettledInv'
    BY DEF SettledInv, Shown, Writing, dbVars, histVars
  <1>3. ASSUME TypeInv, SettledInv, NEW r \in Req, NEW t \in Task, Begun(r, t)
        PROVE  SettledInv'
    <2>1. UNCHANGED <<booking, entry, left>>
      BY <1>3 DEF Begun, dbVars, histVars
    <2>2. ASSUME NEW q \in Req, Writing(q)
          PROVE  Writing(q)'
      <3>1. q # r
        BY <1>3, <2>2 DEF Begun, Writing
      <3>2. task'[q] \in Task /\ SameWork(task'[q], task[q])
        BY <1>3, <2>2, <3>1 DEF Begun, Writing
      <3>3. task'[q] # None /\ task'[q].op = task[q].op
        BY <3>2 DEF SameWork
      <3>4. QED BY <2>2, <3>3 DEF Writing
    <2>3. QED BY <1>3, <2>1, <2>2 DEF SettledInv, Shown
  <1>4. ASSUME TypeInv, NEW r \in Req, NEW t \in Task, GoesOn(r, t), t.op \in {"sync", "reread"}
        PROVE  SettledInv'
    <2>1. task'[r] = t /\ t # None
      BY <1>4, GoingOn
    <2>2. QED BY <1>4, <2>1 DEF SettledInv, Writing
  <1>5. ASSUME TypeInv, AloneInv, SettledInv, NEW r \in Req, Answers(r)
        PROVE  SettledInv'
    <2>1. CASE task[r].alone
      <3>1. /\ task[r] # None /\ task[r].op = "sync" /\ task[r].todo = {}
            /\ UNCHANGED <<booking, entry>>
        BY <1>5 DEF Answers, Ends, dbVars
      <3>2. \A o \in Owner : Shown(o)
        BY <1>5, <2>1, <3>1 DEF AloneInv
      <3>3. QED BY <3>1, <3>2 DEF SettledInv, Shown
    <2>2. CASE ~task[r].alone
      BY <1>5, <2>2 DEF Answers, SettledInv
    <2>3. QED BY <2>1, <2>2
  <1>6. ASSUME TypeInv, SettledInv, NEW r \in Req, Stops(r) \/ Reminds(r)
        PROVE  SettledInv'
    <2>1. Ends(r) /\ UNCHANGED <<booking, entry>>
      BY <1>6 DEF Stops, Reminds, dbVars
    <2>2. CASE Writing(r)
      <3>1. left' = "stopped"
        BY <1>6, <2>2 DEF Stops, Reminds, Writing
      <3>2. QED BY <3>1 DEF SettledInv
    <2>3. CASE ~Writing(r)
      <3>1. left' = left
        BY <1>6, <2>1, <2>3 DEF Stops, Reminds, Writing, Ends
      <3>2. \A q \in Req : Writing(q) => Writing(q)'
        BY <1>6, <2>1, <2>3, Ending DEF Writing
      <3>3. QED BY <1>6, <2>1, <3>1, <3>2 DEF SettledInv, Shown
    <2>4. QED BY <2>2, <2>3
  <1>7. ASSUME TypeInv, NEW r \in Req, NEW t \in Task,
               \/ Commits(r, t) \/ HandsOn(r, t)
               \/ \E owner \in Owner : Syncs(r, owner, t)
               \/ \E c \in Customer : Claims(r, t, c)
        PROVE  SettledInv'
    <2>1. GoesOn(r, t) /\ t.op \in {"sync", "reread"}
      BY <1>7 DEF Commits, HandsOn, Syncs, Claims
    <2>2. QED BY <1>4, <1>7, <2>1
  <1>8. QED BY <1>1, <1>2, <1>3, <1>5, <1>6, <1>7, NextSteps

\* After a change that was made by a request on its own, both calendars show the booking,
\* whatever overlaps and stops came before.
THEOREM CalendarsShowBooking == Spec => []CalendarsSettle
  <1>1. SettledInv => CalendarsSettle
    <2> SUFFICES ASSUME SettledInv, left = "settled", Busy = {}, booking # None
                 PROVE  \A o \in Owner : entry[o] = EntryOf(o, booking)
      BY DEF CalendarsSettle
    <2>1. \A r \in Req : ~Writing(r)
      BY DEF Writing, Busy
    <2>2. QED BY <2>1 DEF SettledInv, Shown
  <1>2. QED BY <1>1, TypeInvInductive, AloneInvInductive, SettledInvInductive, PTL DEF Spec
=============================================================================
