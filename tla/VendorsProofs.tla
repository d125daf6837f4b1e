--------------------------- MODULE VendorsProofs ---------------------------
(***************************************************************************)
(* Safety of vendor profiles and their review, for every number of         *)
(* vendors, admins and requests: handles stay unique, a vendor's row tells *)
(* what its records tell, and the records make a chain wherever the        *)
(* requests behind them did not overlap.                                   *)
(***************************************************************************)
EXTENDS Vendors, TLAPS, SequenceTheorems

USE VendorsAssumption

-----------------------------------------------------------------------------
(***************************************************************************)
(* Types.                                                                  *)
(***************************************************************************)

Status == {"DRAFT", "PENDING_REVIEW", "VERIFIED", "REJECTED"}
Profile == [handle : Handle, contact : BOOLEAN]
RowType == [from : Status, to : Status, actor : Admin \cup {None}, begun : Nat, ended : Nat]
ProfileTask == [op : {"profile"}, vendor : Vendor, named : BOOLEAN,
                handle : Handle \cup {None}, contact : {"keep", "set", "clear"}]
MoveTask == [op : {"submit", "approve", "reject"}, vendor : Vendor, from : Status,
             actor : Admin \cup {None}, begun : Nat]

TypeInv ==
  /\ profile \in [Vendor -> Profile \cup {None}]
  /\ status \in [Vendor -> Status] /\ documents \in [Vendor -> BOOLEAN]
  /\ reason \in [Vendor -> BOOLEAN] /\ reviewer \in [Vendor -> Admin \cup {None}]
  /\ history \in [Vendor -> Seq(RowType)]
  /\ task \in [Req -> ProfileTask \cup MoveTask \cup {None}]
  /\ calls \in Nat

\* A request that is at an operation has the data of that operation.
LEMMA TaskOf ==
  ASSUME TypeInv, NEW r \in Req
  PROVE  /\ Doing(r, "profile") => task[r] \in ProfileTask
         /\ \A op \in {"submit", "approve", "reject"} : Doing(r, op) => task[r] \in MoveTask
  BY DEF TypeInv, Doing, ProfileTask, MoveTask

\* What appending a record to a history gives.
LEMMA Appended ==
  ASSUME NEW h \in Seq(RowType), NEW x \in RowType
  PROVE  /\ Append(h, x) \in Seq(RowType) /\ Append(h, x) # <<>>
         /\ Len(h) \in Nat /\ Len(Append(h, x)) = Len(h) + 1
         /\ DOMAIN h = 1 .. Len(h) /\ DOMAIN Append(h, x) = 1 .. (Len(h) + 1)
         /\ \A i \in DOMAIN h : Append(h, x)[i] = h[i]
         /\ Append(h, x)[Len(h) + 1] = x /\ Last(Append(h, x)) = x
         /\ h # <<>> => Len(h) \in DOMAIN h /\ Last(h) = h[Len(h)] /\ Last(h) \in RowType
         /\ h = <<>> => Len(h) = 0
  BY AppendProperties DEF Last

\* The three steps that move a vendor to another status.
MoveStep(r, to) ==
  /\ task[r] \in MoveTask /\ task[r] # None
  /\ to \in {"PENDING_REVIEW", "VERIFIED", "REJECTED"}
  /\ Move(r, to)
LEMMA MoveSteps ==
  ASSUME TypeInv, NEW r \in Req, SubmitCommit(r) \/ ApproveCommit(r) \/ RejectCommit(r)
  PROVE  \E to \in {"PENDING_REVIEW", "VERIFIED", "REJECTED"} : MoveStep(r, to)
  <1>1. task[r] \in MoveTask /\ task[r] # None
    BY TaskOf DEF SubmitCommit, ApproveCommit, RejectCommit, Doing
  <1>2. \E to \in {"PENDING_REVIEW", "VERIFIED", "REJECTED"} : Move(r, to)
    BY DEF SubmitCommit, ApproveCommit, RejectCommit
  <1>3. QED BY <1>1, <1>2 DEF MoveStep

\* What such a step writes.
LEMMA MoveWrites ==
  ASSUME TypeInv, NEW r \in Req, NEW to, MoveStep(r, to)
  PROVE  \E v \in Vendor : \E x \in RowType :
           /\ v = task[r].vendor /\ x = Row(task[r], to)
           /\ x.from = task[r].from /\ x.to = to /\ x.actor = task[r].actor
           /\ x.begun = task[r].begun /\ x.ended = calls
           /\ status' = [status EXCEPT ![v] = to]
           /\ reason' = [reason EXCEPT ![v] = (to = "REJECTED")]
           /\ reviewer' = [reviewer EXCEPT ![v] = IF to = "PENDING_REVIEW" THEN @ ELSE x.actor]
           /\ history' = [history EXCEPT ![v] = Append(history[v], x)]
  <1>1. /\ task[r].vendor \in Vendor /\ task[r].from \in Status /\ task[r].begun \in Nat
        /\ task[r].actor \in Admin \cup {None} /\ to \in Status
    BY DEF MoveStep, MoveTask, Status
  <1> DEFINE v == task[r].vendor
             x == Row(task[r], to)
  <1>2. /\ x \in RowType /\ x.from = task[r].from /\ x.to = to /\ x.actor = task[r].actor
        /\ x.begun = task[r].begun /\ x.ended = calls
    BY <1>1 DEF Row, RowType, TypeInv
  <1>3. /\ status' = [status EXCEPT ![v] = to]
        /\ reason' = [reason EXCEPT ![v] = (to = "REJECTED")]
        /\ reviewer' = [reviewer EXCEPT ![v] = IF to = "PENDING_REVIEW" THEN @ ELSE x.actor]
        /\ history' = [history EXCEPT ![v] = Append(history[v], x)]
    BY <1>2 DEF MoveStep, Move, ReasonAfter, ReviewerAfter, Recorded
  <1>4. QED BY <1>1, <1>2, <1>3

\* Every step: a request begins, with the data of its operation, or ends, or moves a vendor,
\* or a document comes.
LEMMA NextSteps ==
  ASSUME TypeInv, Next
  PROVE  \/ \E r \in Req, t \in ProfileTask \cup MoveTask :
              /\ Begin(r, t)
              /\ t \in MoveTask => t.from = status[t.vendor] /\ t.begun = calls + 1
         \/ \E r \in Req : ProfileCommit(r) \/ Abort(r)
         \/ \E r \in Req : \E to \in {"PENDING_REVIEW", "VERIFIED", "REJECTED"} : MoveStep(r, to)
         \/ \E v \in Vendor : AddDocument(v)
  <1> DEFINE Begins(r, t) ==
        /\ Begin(r, t)
        /\ t \in MoveTask => t.from = status[t.vendor] /\ t.begun = calls + 1
  <1>1. ASSUME NEW r \in Req, NEW v \in Vendor, NEW named \in BOOLEAN,
               NEW raw \in Raw \cup {None}, NEW contact \in {"keep", "set", "clear"},
               ProfileCheck(r, v, named, raw, contact)
        PROVE  \E t \in ProfileTask \cup MoveTask : Begins(r, t)
    <2> DEFINE t == [op |-> "profile", vendor |-> v, named |-> named,
                     handle |-> KeptHandle(raw), contact |-> contact]
    <2>1. KeptHandle(raw) \in Handle \cup {None}
      BY DEF KeptHandle
    <2>2. t \in ProfileTask /\ t.op = "profile"
      BY <2>1 DEF ProfileTask
    <2>3. t \notin MoveTask
      BY <2>2 DEF MoveTask
    <2>4. Begin(r, t)
      BY <1>1 DEF ProfileCheck
    <2>5. QED BY <2>2, <2>3, <2>4
  <1>2. ASSUME NEW r \in Req, NEW v \in Vendor, SubmitRead(r, v)
        PROVE  \E t \in ProfileTask \cup MoveTask : Begins(r, t)
    <2> DEFINE t == [op |-> "submit", vendor |-> v, from |-> status[v], actor |-> None,
                     begun |-> calls + 1]
    <2>1. t \in MoveTask /\ t.vendor = v /\ t.from = status[v] /\ t.begun = calls + 1
      BY DEF MoveTask, TypeInv
    <2>2. Begin(r, t)
      BY <1>2 DEF SubmitRead
    <2>3. QED BY <2>1, <2>2
  <1>3. ASSUME NEW r \in Req, NEW v \in Vendor, NEW admin \in Admin,
               NEW op \in {"approve", "reject"}, ReviewRead(r, v, admin, op)
        PROVE  \E t \in ProfileTask \cup MoveTask : Begins(r, t)
    <2> DEFINE t == [op |-> op, vendor |-> v, from |-> status[v], actor |-> admin,
                     begun |-> calls + 1]
    <2>1. t \in MoveTask /\ t.vendor = v /\ t.from = status[v] /\ t.begun = calls + 1
      BY DEF MoveTask, TypeInv
    <2>2. Begin(r, t)
      BY <1>3 DEF ReviewRead
    <2>3. QED BY <2>1, <2>2
  <1> HIDE DEF Begins
  <1>4. \/ \E r \in Req : \E t \in ProfileTask \cup MoveTask : Begins(r, t)
        \/ \E r \in Req : ProfileCommit(r) \/ Abort(r)
        \/ \E r \in Req : \E to \in {"PENDING_REVIEW", "VERIFIED", "REJECTED"} : MoveStep(r, to)
        \/ \E v \in Vendor : AddDocument(v)
    BY <1>1, <1>2, <1>3, MoveSteps DEF Next
  <1>5. QED BY <1>4 DEF Begins

LEMMA TypeInvInductive ==
  /\ Init => TypeInv
  /\ TypeInv /\ [Next]_vars => TypeInv'
  <1>1. Init => TypeInv
    BY DEF Init, TypeInv, Status
  <1>2. ASSUME TypeInv, NEW r \in Req, NEW t \in ProfileTask \cup MoveTask, Begin(r, t)
        PROVE  TypeInv'
    BY <1>2 DEF TypeInv, Begin, rowVars
  <1>3. ASSUME TypeInv, NEW r \in Req, Abort(r)
        PROVE  TypeInv'
    BY <1>3 DEF TypeInv, Abort, Done, rowVars
  <1>4. ASSUME TypeInv, NEW r \in Req, ProfileCommit(r)
        PROVE  TypeInv'
    <2> DEFINE t == task[r]
               v == t.vendor
               old == profile[v]
               new == [handle |-> IF t.handle = None THEN old.handle ELSE t.handle,
                       contact |-> IF t.contact = "keep" THEN old # None /\ old.contact
                                   ELSE t.contact = "set"]
    <2>1. /\ t.vendor \in Vendor /\ t.handle \in Handle \cup {None}
          /\ old \in Profile \cup {None}
      BY <1>4, TaskOf DEF ProfileCommit, ProfileTask, TypeInv
    <2>2. old = None => t.handle # None
      BY <1>4 DEF ProfileCommit
    <2>3. new.handle \in Handle /\ new.contact \in BOOLEAN
      <3>1. old # None => old.handle \in Handle /\ old.contact \in BOOLEAN
        BY <2>1 DEF Profile
      <3>2. QED BY <2>1, <2>2, <3>1
    <2>4. new \in Profile
      BY <2>3 DEF Profile
    <2>5. profile' = [profile EXCEPT ![v] = new]
      BY <1>4 DEF ProfileCommit
    <2> HIDE DEF new, v
    <2>6. profile' \in [Vendor -> Profile \cup {None}]
      BY <1>4, <2>4, <2>5 DEF TypeInv
    <2>7. QED BY <1>4, <2>6 DEF TypeInv, ProfileCommit, Done
  <1>5. ASSUME TypeInv, NEW r \in Req, NEW to, MoveStep(r, to)
        PROVE  TypeInv'
    <2>1. PICK v \in Vendor, x \in RowType :
           /\ status' = [status EXCEPT ![v] = to]
           /\ reason' = [reason EXCEPT ![v] = (to = "REJECTED")]
           /\ reviewer' = [reviewer EXCEPT ![v] = IF to = "PENDING_REVIEW" THEN @ ELSE x.actor]
           /\ history' = [history EXCEPT ![v] = Append(history[v], x)]
      BY <1>5, MoveWrites
    <2>2. x.actor \in Admin \cup {None} /\ to \in Status
      BY <1>5 DEF RowType, MoveStep, Status
    <2>3. /\ status' \in [Vendor -> Status] /\ reason' \in [Vendor -> BOOLEAN]
          /\ reviewer' \in [Vendor -> Admin \cup {None}]
          /\ history' \in [Vendor -> Seq(RowType)]
      BY <1>5, <2>1, <2>2 DEF TypeInv
    <2>4. UNCHANGED <<profile, documents, calls>> /\ task' = [task EXCEPT ![r] = None]
      BY <1>5 DEF MoveStep, Move, Done
    <2>5. QED BY <1>5, <2>3, <2>4 DEF TypeInv
  <1>6. ASSUME TypeInv, NEW v \in Vendor, AddDocument(v)
        PROVE  TypeInv'
    BY <1>6 DEF TypeInv, AddDocument
  <1>7. TypeInv /\ UNCHANGED vars => TypeInv'
    BY DEF TypeInv, vars, rowVars
  <1>8. QED BY <1>1, <1>2, <1>3, <1>4, <1>5, <1>6, <1>7, NextSteps

-----------------------------------------------------------------------------
(***************************************************************************)
(* Handles.  The UNIQUE constraint is on handles as they are kept, and     *)
(* what is kept is normal: normalizing it once more changes nothing.       *)
(***************************************************************************)

HandlesInv ==
  \A u, v \in Vendor :
    u # v /\ profile[u] # None /\ profile[v] # None => profile[u].handle # profile[v].handle

LEMMA HandlesStep ==
  ASSUME TypeInv, HandlesInv, NEW r \in Req, ProfileCommit(r)
  PROVE  HandlesInv'
  <1>1. PICK x \in Vendor : x = task[r].vendor
    BY TaskOf DEF ProfileCommit, ProfileTask
  <1>2. \A u \in Vendor \ {x} : profile'[u] = profile[u]
    BY <1>1 DEF ProfileCommit, TypeInv
  <1>3. \/ profile'[x].handle = task[r].handle
        \/ profile[x] # None /\ profile'[x].handle = profile[x].handle
    BY <1>1 DEF ProfileCommit, TypeInv
  <1>4. \A u \in Vendor \ {x} : profile[u] # None => profile[u].handle # task[r].handle
    BY <1>1 DEF ProfileCommit, Taken
  <1>5. \A u \in Vendor \ {x} : profile[u] # None => profile[u].handle # profile'[x].handle
    BY <1>3, <1>4 DEF HandlesInv
  <1>6. QED BY <1>2, <1>5 DEF HandlesInv

\* However requests for handles overlap, two profiles never go by the same one, whatever
\* its case.
THEOREM HandlesStayUnique == Spec => []HandlesUnique
  <1>1. Init => HandlesInv
    BY DEF Init, HandlesInv
  <1>2. TypeInv /\ HandlesInv /\ [Next]_vars => HandlesInv'
    <2>1. UNCHANGED profile /\ HandlesInv => HandlesInv'
      BY DEF HandlesInv
    <2>2. [Next]_vars => UNCHANGED profile \/ \E r \in Req : ProfileCommit(r)
      BY DEF Next, ProfileCheck, SubmitRead, ReviewRead, Begin, SubmitCommit, ApproveCommit,
         RejectCommit, Move, Abort, AddDocument, vars, rowVars
    <2>3. QED BY <2>1, <2>2, HandlesStep
  <1>3. TypeInv /\ HandlesInv => HandlesUnique
    <2> SUFFICES ASSUME TypeInv, HandlesInv, NEW u \in Vendor, NEW v \in Vendor, u # v,
                        profile[u] # None, profile[v] # None
                 PROVE  LET same(x) == IF x \in Raw THEN Normal[x] ELSE x
                        IN same(profile[u].handle) # same(profile[v].handle)
      BY DEF HandlesUnique
    <2>1. profile[u].handle \in Handle /\ profile[v].handle \in Handle
      BY DEF TypeInv, Profile
    <2>2. QED BY <2>1 DEF HandlesInv
  <1>4. QED BY <1>1, <1>2, <1>3, TypeInvInductive, PTL DEF Spec

-----------------------------------------------------------------------------
(***************************************************************************)
(* Records.  A move writes the row and appends the record in one commit.   *)
(***************************************************************************)

LEMMA RowStep ==
  ASSUME TypeInv, RowFollowsHistory, NEW r \in Req, NEW to, MoveStep(r, to), NEW v \in Vendor
  PROVE  /\ status'[v] = IF history'[v] = <<>> THEN "DRAFT" ELSE Last(history'[v]).to
         /\ reason'[v] <=> status'[v] = "REJECTED"
         /\ reviewer'[v] # None => \E i \in DOMAIN history'[v] : IsReview(history'[v][i])
         /\ \A i \in DOMAIN history'[v] :
              IsReview(history'[v][i])
              /\ (\A j \in DOMAIN history'[v] : j > i => ~IsReview(history'[v][j]))
                => reviewer'[v] = history'[v][i].actor
  <1>1. PICK w \in Vendor, x \in RowType :
           /\ x.to = to
           /\ status' = [status EXCEPT ![w] = to]
           /\ reason' = [reason EXCEPT ![w] = (to = "REJECTED")]
           /\ reviewer' = [reviewer EXCEPT ![w] = IF to = "PENDING_REVIEW" THEN @ ELSE x.actor]
           /\ history' = [history EXCEPT ![w] = Append(history[w], x)]
    BY MoveWrites
  <1>2. CASE v # w
    BY <1>1, <1>2 DEF TypeInv, RowFollowsHistory
  <1>3. CASE v = w
    <2> DEFINE h == history[v]
               k == Append(h, x)
    <2>1. h \in Seq(RowType) /\ history'[v] = k
      BY <1>1, <1>3 DEF TypeInv
    <2>2. /\ status'[v] = to /\ reason'[v] = (to = "REJECTED")
          /\ reviewer'[v] = IF to = "PENDING_REVIEW" THEN reviewer[v] ELSE x.actor
      BY <1>1, <1>3 DEF TypeInv
    <2>3. /\ reviewer[v] # None => \E i \in DOMAIN h : IsReview(h[i])
          /\ \A i \in DOMAIN h :
               IsReview(h[i]) /\ (\A j \in DOMAIN h : j > i => ~IsReview(h[j]))
                 => reviewer[v] = h[i].actor
      BY DEF RowFollowsHistory
    <2> HIDE DEF h, k
    <2>4. /\ k # <<>> /\ Last(k) = x /\ Len(h) \in Nat
          /\ DOMAIN h = 1 .. Len(h) /\ DOMAIN k = 1 .. (Len(h) + 1)
          /\ (\A i \in DOMAIN h : k[i] = h[i]) /\ k[Len(h) + 1] = x
      BY <2>1, Appended DEF k
    <2>5. CASE IsReview(x)
      <3>1. reviewer'[v] = x.actor
        BY <1>1, <2>2, <2>5 DEF IsReview
      <3>2. ASSUME NEW i \in DOMAIN k, \A j \in DOMAIN k : j > i => ~IsReview(k[j])
            PROVE  k[i] = x
        BY <2>4, <2>5, <3>2
      <3>3. Len(h) + 1 \in DOMAIN k
        BY <2>4
      <3>4. QED BY <1>1, <2>1, <2>2, <2>4, <2>5, <3>1, <3>2, <3>3
    <2>6. CASE ~IsReview(x)
      <3>1. reviewer'[v] = reviewer[v]
        BY <1>1, <2>2, <2>6 DEF IsReview
      <3>2. reviewer'[v] # None => \E i \in DOMAIN k : IsReview(k[i])
        BY <2>3, <2>4, <3>1
      <3>3. ASSUME NEW i \in DOMAIN k, IsReview(k[i]),
                   \A j \in DOMAIN k : j > i => ~IsReview(k[j])
            PROVE  reviewer'[v] = k[i].actor
        <4>1. i \in DOMAIN h /\ k[i] = h[i]
          BY <2>4, <2>6, <3>3
        <4>2. \A j \in DOMAIN h : j > i => ~IsReview(h[j])
          BY <2>4, <3>3
        <4>3. QED BY <2>3, <3>1, <3>3, <4>1, <4>2
      <3>4. /\ status'[v] = IF k = <<>> THEN "DRAFT" ELSE Last(k).to
            /\ reason'[v] <=> status'[v] = "REJECTED"
        BY <1>1, <2>2, <2>4
      <3>5. \A i \in DOMAIN k :
              IsReview(k[i]) /\ (\A j \in DOMAIN k : j > i => ~IsReview(k[j]))
                => reviewer'[v] = k[i].actor
        BY <3>3, Zenon
      <3>6. QED BY <2>1, <3>2, <3>4, <3>5, Zenon
    <2>7. QED BY <2>5, <2>6
  <1>4. QED BY <1>2, <1>3

LEMMA RowInductive ==
  /\ Init => RowFollowsHistory
  /\ TypeInv /\ RowFollowsHistory /\ [Next]_vars => RowFollowsHistory'
  <1>1. Init => RowFollowsHistory
    BY DEF Init, RowFollowsHistory
  <1>2. UNCHANGED <<status, reason, reviewer, history>> /\ RowFollowsHistory
          => RowFollowsHistory'
    BY DEF RowFollowsHistory
  <1>3. ASSUME TypeInv, RowFollowsHistory, NEW r \in Req, NEW to, MoveStep(r, to)
        PROVE  RowFollowsHistory'
    BY <1>3, RowStep DEF RowFollowsHistory
  <1>4. TypeInv /\ [Next]_vars =>
          \/ UNCHANGED <<status, reason, reviewer, history>>
          \/ \E r \in Req : \E to \in {"PENDING_REVIEW", "VERIFIED", "REJECTED"} : MoveStep(r, to)
    <2>1. TypeInv /\ Next =>
            \/ UNCHANGED <<status, reason, reviewer, history>>
            \/ \E r \in Req : \E to \in {"PENDING_REVIEW", "VERIFIED", "REJECTED"} : MoveStep(r, to)
      BY NextSteps DEF Begin, ProfileCommit, Abort, AddDocument, rowVars
    <2>2. QED BY <2>1 DEF vars, rowVars
  <1>5. QED BY <1>1, <1>2, <1>3, <1>4

\* A vendor's status, rejection reason and reviewer are those its records tell, however
\* reviews and submissions overlap.
THEOREM RowsFollowHistories == Spec => []RowFollowsHistory
  BY TypeInvInductive, RowInductive, PTL DEF Spec

\* What a request that moves a vendor has read, next to the records there are: it follows
\* the last of them, or had begun when that one was written.
Follows(from, begun, h) ==
  IF h = <<>> THEN from = "DRAFT" ELSE from = Last(h).to \/ begun <= Last(h).ended
ChainInv ==
  /\ RecordsChainUnlessTogether
  /\ \A r \in Req : task[r] # None /\ task[r] \in MoveTask =>
       /\ task[r].begun <= calls
       /\ Follows(task[r].from, task[r].begun, history[task[r].vendor])

LEMMA ChainStep ==
  ASSUME TypeInv, ChainInv, NEW r \in Req, NEW to, MoveStep(r, to)
  PROVE  ChainInv'
  <1>1. PICK w \in Vendor, x \in RowType :
           /\ w = task[r].vendor
           /\ x.from = task[r].from /\ x.begun = task[r].begun /\ x.ended = calls
           /\ history' = [history EXCEPT ![w] = Append(history[w], x)]
    BY MoveWrites
  <1> DEFINE h == history[w]
             k == Append(h, x)
  <1>2. /\ h \in Seq(RowType) /\ history'[w] = k
        /\ \A v \in Vendor \ {w} : history'[v] = history[v]
    BY <1>1 DEF TypeInv
  <1>3. Follows(x.from, x.begun, h)
    BY <1>1 DEF ChainInv, MoveStep
  <1>4. /\ \A q \in Req : task'[q] # None => task'[q] = task[q]
        /\ UNCHANGED calls
    BY DEF MoveStep, Move, Done, TypeInv
  <1> HIDE DEF h, k
  <1>5. /\ k # <<>> /\ Last(k) = x /\ Len(h) \in Nat
        /\ DOMAIN h = 1 .. Len(h) /\ DOMAIN k = 1 .. (Len(h) + 1)
        /\ (\A i \in DOMAIN h : k[i] = h[i]) /\ k[Len(h) + 1] = x
        /\ (h # <<>> => Len(h) \in DOMAIN h /\ Last(h) = h[Len(h)])
        /\ (h = <<>> => Len(h) = 0)
    BY <1>2, Appended DEF k
  <1>6. ASSUME NEW i \in DOMAIN k
        PROVE  IF i = 1 THEN k[i].from = "DRAFT"
               ELSE k[i].from = k[i - 1].to \/ k[i].begun <= k[i - 1].ended
    <2>1. CASE i \in DOMAIN h
      <3>1. IF i = 1 THEN h[i].from = "DRAFT"
            ELSE h[i].from = h[i - 1].to \/ h[i].begun <= h[i - 1].ended
        BY <2>1 DEF ChainInv, RecordsChainUnlessTogether, h
      <3>2. i # 1 => i - 1 \in DOMAIN h
        BY <1>5, <2>1
      <3>3. QED BY <1>5, <2>1, <3>1, <3>2
    <2>2. CASE i = Len(h) + 1 /\ h = <<>>
      BY <1>3, <1>5, <2>2 DEF Follows
    <2>3. CASE i = Len(h) + 1 /\ h # <<>>
      <3>1. i # 1 /\ i - 1 = Len(h) /\ k[i] = x /\ k[i - 1] = Last(h)
        BY <1>5, <2>3
      <3>2. QED BY <1>3, <2>3, <3>1 DEF Follows
    <2>4. QED BY <1>5, <2>1, <2>2, <2>3
  <1>7. RecordsChainUnlessTogether'
    <2> SUFFICES ASSUME NEW v \in Vendor, NEW i \in DOMAIN history'[v]
                 PROVE  LET y == history'[v][i]
                        IN IF i = 1 THEN y.from = "DRAFT"
                           ELSE y.from = history'[v][i - 1].to \/ y.begun <= history'[v][i - 1].ended
      BY DEF RecordsChainUnlessTogether
    <2>1. CASE v = w
      BY <1>2, <1>6, <2>1
    <2>2. CASE v # w
      BY <1>2, <2>2 DEF ChainInv, RecordsChainUnlessTogether
    <2>3. QED BY <2>1, <2>2
  <1>8. ASSUME NEW q \in Req, task'[q] # None, task'[q] \in MoveTask
        PROVE  /\ task'[q].begun <= calls'
               /\ Follows(task'[q].from, task'[q].begun, history'[task'[q].vendor])
    <2>1. /\ task'[q] = task[q] /\ task[q].begun <= calls
          /\ Follows(task[q].from, task[q].begun, history[task[q].vendor])
          /\ task[q].vendor \in Vendor
      BY <1>4, <1>8 DEF ChainInv, MoveTask
    <2>2. CASE task[q].vendor = w
      BY <1>1, <1>2, <1>4, <1>5, <2>1, <2>2 DEF Follows
    <2>3. CASE task[q].vendor # w
      BY <1>2, <1>4, <2>1, <2>3
    <2>4. QED BY <2>2, <2>3
  <1>9. QED BY <1>7, <1>8 DEF ChainInv

LEMMA ChainInductive ==
  /\ Init => ChainInv
  /\ TypeInv /\ RowFollowsHistory /\ ChainInv /\ [Next]_vars => ChainInv'
  <1>1. Init => ChainInv
    BY DEF Init, ChainInv, RecordsChainUnlessTogether
  <1>2. ASSUME UNCHANGED <<history, calls>>, ChainInv,
               \A r \in Req : task'[r] \in {None, task[r]}
        PROVE  ChainInv'
    BY <1>2 DEF ChainInv, RecordsChainUnlessTogether
  <1>3. ASSUME TypeInv, RowFollowsHistory, ChainInv, NEW r \in Req,
               NEW t \in ProfileTask \cup MoveTask, Begin(r, t),
               t \in MoveTask => t.from = status[t.vendor] /\ t.begun = calls + 1
        PROVE  ChainInv'
    <2>1. UNCHANGED history /\ calls' = calls + 1 /\ task'[r] = t
          /\ \A q \in Req \ {r} : task'[q] = task[q]
      BY <1>3 DEF Begin, rowVars, TypeInv
    <2>2. RecordsChainUnlessTogether'
      BY <1>3, <2>1 DEF ChainInv, RecordsChainUnlessTogether
    <2>3. ASSUME NEW q \in Req, task'[q] # None, task'[q] \in MoveTask
          PROVE  /\ task'[q].begun <= calls'
                 /\ Follows(task'[q].from, task'[q].begun, history'[task'[q].vendor])
      <3>1. CASE q = r
        <4>1. t \in MoveTask /\ t.vendor \in Vendor /\ t.from = status[t.vendor]
              /\ t.begun = calls + 1
          BY <1>3, <2>1, <2>3, <3>1 DEF MoveTask
        <4>2. Follows(t.from, t.begun, history[t.vendor])
          BY <1>3, <4>1 DEF RowFollowsHistory, Follows
        <4>3. QED BY <1>3, <2>1, <3>1, <4>1, <4>2 DEF TypeInv
      <3>2. CASE q # r
        BY <1>3, <2>1, <2>3, <3>2 DEF ChainInv, TypeInv, MoveTask
      <3>3. QED BY <3>1, <3>2
    <2>4. QED BY <2>2, <2>3 DEF ChainInv
  <1>4. TypeInv /\ ((\E r \in Req : ProfileCommit(r) \/ Abort(r))
                    \/ (\E v \in Vendor : AddDocument(v)) \/ UNCHANGED vars)
          => UNCHANGED <<history, calls>> /\ \A r \in Req : task'[r] \in {None, task[r]}
    BY DEF ProfileCommit, Abort, AddDocument, Done, rowVars, vars, TypeInv
  <1>5. QED BY <1>1, <1>2, <1>3, <1>4, ChainStep, NextSteps

\* Each record of a vendor starts where the one before it left the vendor, unless the
\* requests behind the two overlapped.
THEOREM RecordsChain == Spec => []RecordsChainUnlessTogether
  <1>1. Spec => [](TypeInv /\ RowFollowsHistory /\ ChainInv)
    BY TypeInvInductive, RowInductive, ChainInductive, PTL DEF Spec
  <1>2. ChainInv => RecordsChainUnlessTogether
    BY DEF ChainInv
  <1>3. QED BY <1>1, <1>2, PTL

=============================================================================
