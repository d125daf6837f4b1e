------------------------------ MODULE Vendors ------------------------------
(***************************************************************************)
(* Vendor profiles and their review (VendorsService): a vendor fills in a  *)
(* profile, uploads documents and submits them, an admin approves or       *)
(* rejects.  Every operation reads first and writes in a later statement   *)
(* of a READ COMMITTED transaction, so two requests can act on the same    *)
(* status; the UPDATE and the history row of one review commit together.   *)
(***************************************************************************)
EXTENDS Integers, Sequences, SequencesExt

CONSTANTS
  Vendor,     \* vendor users: Vendor.userId is unique
  Admin,
  Req,        \* requests in progress
  Raw,        \* handles as they are typed
  Handle,     \* handles as they are kept
  Normal,     \* normalizeHandle, from Raw to Handle
  Blank,      \* the handle that is left of white space
  MaxCalls,   \* bound: requests started
  None

ASSUME VendorsAssumption ==
  /\ Blank \in Handle /\ None \notin Handle \cup Raw \cup Admin
  /\ Normal \in [Raw -> Handle] /\ MaxCalls \in Nat
  /\ \A h \in Handle \cap Raw : Normal[h] = h  \* trim and toLowerCase change nothing twice

VARIABLES
  profile,    \* Vendor: handle, whether contactEmail and phoneNumber are there, or None
  status,
  documents,  \* the vendor has a KycDocument
  reason,     \* rejectionReason is there
  reviewer,   \* reviewedById
  history,    \* VendorStatusHistory, in the order of the commits, each row with the
              \* numbers of requests that had begun when its own did and when it ended
  task,       \* what each request has read and will write
  calls

rowVars == <<profile, status, documents, reason, reviewer, history>>
vars == <<rowVars, task, calls>>

Begin(r, t) ==
  /\ task[r] = None /\ calls < MaxCalls
  /\ task' = [task EXCEPT ![r] = t]
  /\ calls' = calls + 1
  /\ UNCHANGED rowVars

Doing(r, op) == task[r] # None /\ task[r].op = op

Done(r) == task' = [task EXCEPT ![r] = None] /\ UNCHANGED calls

\* A refusal, a constraint that the write would break, a lost connection: nothing is
\* written.
Abort(r) ==
  /\ task[r] # None
  /\ Done(r)
  /\ UNCHANGED rowVars

-----------------------------------------------------------------------------
(***************************************************************************)
(* The profile.                                                            *)
(***************************************************************************)

\* Faulty variant: the handle is kept as it was typed.
KeptAsTyped(raw) == raw

\* The handle that a request carries, when it carries one.
KeptHandle(raw) == IF raw = None THEN None ELSE Normal[raw]

Taken(handle, v) ==
  \E u \in Vendor \ {v} : profile[u] # None /\ profile[u].handle = handle

\* upsertProfile up to its transaction.  A blank handle counts as none in the checks.
ProfileCheck(r, v, named, raw, contact) ==
  /\ named \/ profile[v] # None
  /\ KeptHandle(raw) \in {None, Blank} \/ ~Taken(KeptHandle(raw), v)
  /\ Begin(r, [op |-> "profile", vendor |-> v, named |-> named,
               handle |-> KeptHandle(raw), contact |-> contact])

\* The transaction creates the row or changes the fields that are given: an undefined
\* field stays, null clears it.  The UNIQUE constraint on handle decides races.
ProfileCommit(r) ==
  /\ Doing(r, "profile")
  /\ LET t == task[r]
         v == t.vendor
         old == profile[v]
     IN /\ ~Taken(t.handle, v)
        /\ old = None => t.named /\ t.handle \notin {None, Blank}
        /\ profile' = [profile EXCEPT ![v] =
             [handle |-> IF t.handle = None THEN old.handle ELSE t.handle,
              contact |-> IF t.contact = "keep" THEN old # None /\ old.contact
                          ELSE t.contact = "set"]]
  /\ Done(r)
  /\ UNCHANGED <<status, documents, reason, reviewer, history>>

\* confirmKycUpload, addKycDocument.
AddDocument(v) ==
  /\ profile[v] # None
  /\ documents' = [documents EXCEPT ![v] = TRUE]
  /\ UNCHANGED <<profile, status, reason, reviewer, history, task, calls>>

-----------------------------------------------------------------------------
(***************************************************************************)
(* Submission and review.                                                  *)
(***************************************************************************)

\* recordStatusChange, with the status that the transaction read.
Row(t, to) ==
  [from |-> t.from, to |-> to, actor |-> t.actor, begun |-> t.begun, ended |-> calls]

\* Faulty variant: the audit row is written only for what an admin does.
RecordedReviews(t, to) ==
  IF t.actor = None THEN history[t.vendor] ELSE Append(history[t.vendor], Row(t, to))

\* Faulty variant: every change is taken for one of a draft or of a pending vendor.
RecordedFromUsual(t, to) ==
  Append(history[t.vendor],
         [Row(t, to) EXCEPT !.from = IF t.actor = None THEN "DRAFT" ELSE "PENDING_REVIEW"])

Recorded(t, to) == Append(history[t.vendor], Row(t, to))

ReasonAfter(to, old) == to = "REJECTED"

ReviewerAfter(to, t, old) == IF to = "PENDING_REVIEW" THEN old ELSE t.actor

\* The UPDATE of the row, unconditional, and the audit row, in one commit.
Move(r, to) ==
  LET t == task[r]
      v == t.vendor
  IN /\ status' = [status EXCEPT ![v] = to]
     /\ reason' = [reason EXCEPT ![v] = ReasonAfter(to, @)]
     /\ reviewer' = [reviewer EXCEPT ![v] = ReviewerAfter(to, t, @)]
     /\ history' = [history EXCEPT ![v] = Recorded(t, to)]
     /\ Done(r)
     /\ UNCHANGED <<profile, documents>>

Ready(v) == documents[v]

\* submitForReview: assertSubmissionReadiness sees the row that was read.
SubmitRead(r, v) ==
  /\ profile[v] # None /\ status[v] \notin {"PENDING_REVIEW", "VERIFIED"}
  /\ profile[v].contact /\ profile[v].handle # Blank
  /\ Begin(r, [op |-> "submit", vendor |-> v, from |-> status[v], actor |-> None,
               begun |-> calls + 1])

SubmitCommit(r) ==
  /\ Doing(r, "submit")
  /\ Ready(task[r].vendor)
  /\ Move(r, "PENDING_REVIEW")

\* adminApproveVendor, adminRejectVendor.
ReviewRead(r, v, admin, op) ==
  /\ profile[v] # None /\ status[v] = "PENDING_REVIEW"
  /\ Begin(r, [op |-> op, vendor |-> v, from |-> status[v], actor |-> admin,
               begun |-> calls + 1])

ApproveCommit(r) == Doing(r, "approve") /\ Move(r, "VERIFIED")
RejectCommit(r) == Doing(r, "reject") /\ Move(r, "REJECTED")

Init ==
  /\ profile = [v \in Vendor |-> None] /\ status = [v \in Vendor |-> "DRAFT"]
  /\ documents = [v \in Vendor |-> FALSE] /\ reason = [v \in Vendor |-> FALSE]
  /\ reviewer = [v \in Vendor |-> None] /\ history = [v \in Vendor |-> <<>>]
  /\ task = [r \in Req |-> None] /\ calls = 0

Next ==
  \/ \E r \in Req, v \in Vendor :
       \/ \E named \in BOOLEAN, raw \in Raw \cup {None}, contact \in {"keep", "set", "clear"} :
            ProfileCheck(r, v, named, raw, contact)
       \/ SubmitRead(r, v)
       \/ \E admin \in Admin, op \in {"approve", "reject"} : ReviewRead(r, v, admin, op)
  \/ \E r \in Req : \/ ProfileCommit(r) \/ SubmitCommit(r)
                    \/ ApproveCommit(r) \/ RejectCommit(r) \/ Abort(r)
  \/ \E v \in Vendor : AddDocument(v)

Spec == Init /\ [][Next]_vars

-----------------------------------------------------------------------------
(***************************************************************************)
(* Properties.                                                             *)
(***************************************************************************)

\* Two profiles never go by the same handle, whatever its case and however the
\* requests that ask for it overlap.
HandlesUnique ==
  \A u, v \in Vendor :
    u # v /\ profile[u] # None /\ profile[v] # None =>
      LET same(x) == IF x \in Raw THEN Normal[x] ELSE x
      IN same(profile[u].handle) # same(profile[v].handle)

\* The row of a vendor tells what its records tell, however reviews and submissions overlap:
\* the status is that of the last record, a reason is shown exactly if that is a rejection,
\* and the reviewer is the admin of the last review (docs/manual-tests/phase2-vendor-kyc.md,
\* Data Integrity).
IsReview(c) == c.to # "PENDING_REVIEW"
RowFollowsHistory ==
  \A v \in Vendor :
    LET h == history[v]
    IN /\ status[v] = IF h = <<>> THEN "DRAFT" ELSE Last(h).to
       /\ reason[v] <=> status[v] = "REJECTED"
       /\ reviewer[v] # None => \E i \in DOMAIN h : IsReview(h[i])
       /\ \A i \in DOMAIN h :
            IsReview(h[i]) /\ (\A j \in DOMAIN h : j > i => ~IsReview(h[j]))
              => reviewer[v] = h[i].actor

\* A change on record starts from the status that the one before it left, so that the
\* records tell how the vendor got where it is; only where two requests overlapped may
\* they not, as when an approval and a rejection both found the vendor pending.
RecordsChainUnlessTogether ==
  \A v \in Vendor : \A i \in DOMAIN history[v] :
    LET x == history[v][i]
    IN IF i = 1 THEN x.from = "DRAFT"
       ELSE x.from = history[v][i - 1].to \/ x.begun <= history[v][i - 1].ended
=============================================================================
