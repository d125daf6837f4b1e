--------------------------- MODULE ServiceImages ---------------------------
(***************************************************************************)
(* The images of one service and their order (ServicesService).  Creating  *)
(* an image is a count and then an INSERT; deleting and reordering are     *)
(* READ COMMITTED transactions that update one row after the other, each   *)
(* row locked until the end.                                               *)
(***************************************************************************)
EXTENDS Services, Integers, FiniteSets, SequencesExt

CONSTANTS
  Image,     \* identities an image row can get
  MaxImages, \* MAX_SERVICE_IMAGES_PER_SERVICE
  Positions, \* sort orders that a client may give to a new image
  Existing   \* images that are there at the start, in order

\* What a request carries from one of its steps to the next.
Task == [op : {"create", "place", "delete", "list", "write"}, image : Image \cup {None},
         place : Int \cup {None}, alone : BOOLEAN]

ASSUME ServiceImagesAssumption ==
  /\ IsFiniteSet(Image) /\ IsFiniteSet(Req) /\ Req # {}
  /\ MaxImages \in Nat \ {0} /\ MaxCalls \in Nat /\ Positions \subseteq Int
  /\ Existing \in 0 .. MaxImages /\ Existing <= Cardinality(Image)
  /\ None \notin Task \cup Int \cup Image

VARIABLES
  position,  \* ServiceImage.sortOrder, None for no row
  task,
  plan,      \* the updates that a transaction still has to make: <<image, position>>
  written,   \* the positions it has written, the row it has deleted; not yet committed
  holds,     \* the rows it has locked
  disturbed  \* history: a creation gave its own place or overlapped another request,
             \* and no request on its own has renumbered the images since

txVars == <<plan, written, holds>>
imagesVars == <<position, task, calls, txVars, disturbed>>

Rows == {i \in Image : position[i] # None}

\* A request begins; it is alone until another one is in progress beside it.
Begin(r, op, image, place) ==
  /\ task[r] = None /\ calls < MaxCalls
  /\ calls' = calls + 1
  /\ task' = [q \in Req |->
       IF q = r THEN [op |-> op, image |-> image, place |-> place,
                      alone |-> \A p \in Req : task[p] = None]
       ELSE IF task[q] = None THEN None ELSE [task[q] EXCEPT !.alone = FALSE]]
  /\ UNCHANGED <<position, written, holds, disturbed>>

Doing(r, op) == task[r] # None /\ task[r].op = op

End(r) ==
  /\ task' = [task EXCEPT ![r] = None]
  /\ plan' = [plan EXCEPT ![r] = <<>>]
  /\ written' = [written EXCEPT ![r] = [i \in {} |-> 0]]
  /\ holds' = [holds EXCEPT ![r] = {}]
  /\ UNCHANGED calls

\* A deadlock that the database resolves, a row that is gone, a lost connection.
Abort(r) ==
  /\ task[r] # None
  /\ End(r)
  /\ UNCHANGED <<position, disturbed>>

\* The orders in which a query sorted by sortOrder may return a set of rows.
Sorted(S) ==
  {s \in SetToSeqs(S) : \A i, j \in DOMAIN s : i < j => position[s[i]] <= position[s[j]]}

-----------------------------------------------------------------------------
(***************************************************************************)
(* Creation.                                                               *)
(***************************************************************************)

\* Faulty variant: the limit counts from zero.
RoomForOneMore(n) == n <= MaxImages

Room(n) == n < MaxImages

\* createServiceImageForVendor: the count, then the INSERT, at the place that the client
\* gives or after the images that were counted.
CreateRead(r, given) ==
  /\ Room(Cardinality(Rows))
  /\ Begin(r, IF given = None THEN "create" ELSE "place", None,
           IF given = None THEN Cardinality(Rows) ELSE given)
  /\ UNCHANGED plan

CreateCommit(r, i) ==
  /\ Doing(r, "create") \/ Doing(r, "place")
  /\ i \notin Rows
  /\ position' = [position EXCEPT ![i] = task[r].place]
  /\ disturbed' = (disturbed \/ Doing(r, "place") \/ ~task[r].alone)
  /\ End(r)

-----------------------------------------------------------------------------
(***************************************************************************)
(* Transactions that renumber.                                             *)
(***************************************************************************)

Numbered(s, from) == [n \in DOMAIN s |-> <<s[n], from + n - 1>>]

\* Rows keep their positions in a plan that has nothing to change for them.
Changes(s) == {u \in Range(Numbered(s, 0)) : position[u[1]] # u[2]}

Locks(r, i) ==
  /\ \A q \in Req \ {r} : i \notin holds[q]
  /\ holds' = [holds EXCEPT ![r] = @ \cup {i}]

\* Each UPDATE waits for the row's lock; a row that is gone ends the transaction.
Update(r) ==
  /\ plan[r] # <<>>
  /\ LET u == Head(plan[r])
     IN /\ Locks(r, u[1]) /\ u[1] \in Rows
        /\ written' = [written EXCEPT ![r] =
             [i \in DOMAIN @ \cup {u[1]} |-> IF i = u[1] THEN u[2] ELSE @[i]]]
  /\ plan' = [plan EXCEPT ![r] = Tail(@)]
  /\ UNCHANGED <<position, task, calls, disturbed>>

Commit(r) ==
  /\ Doing(r, "write") /\ plan[r] = <<>>
  /\ position' = [i \in Image |-> IF i \in DOMAIN written[r] THEN written[r][i] ELSE position[i]]
  /\ disturbed' = (disturbed /\ ~task[r].alone)
  /\ End(r)

\* deleteServiceImage: the row is deleted,
DeleteRead(r, i) ==
  /\ i \in Rows
  /\ Begin(r, "delete", i, None)
  /\ UNCHANGED plan

DeleteRow(r) ==
  /\ Doing(r, "delete")
  /\ LET i == task[r].image
     IN /\ i \in Rows /\ Locks(r, i)
        /\ written' = [written EXCEPT ![r] = [j \in {i} |-> None]]
  /\ task' = [task EXCEPT ![r].op = "list"]
  /\ UNCHANGED <<position, calls, plan, disturbed>>

\* Faulty variant: the images that stay keep their places.
RenumberNothing(s) == {<<>>}

\* The changes, made in the order of their new positions.
Renumber(s) ==
  {p \in SetToSeqs(Changes(s)) : \A m, n \in DOMAIN p : m < n => p[m][2] < p[n][2]}

\* then the rows that stay, as far as this transaction sees them, are numbered anew.
DeleteList(r) ==
  /\ Doing(r, "list")
  /\ \E s \in Sorted(Rows \ {task[r].image}) : \E p \in Renumber(s) :
       plan' = [plan EXCEPT ![r] = p]
  /\ task' = [task EXCEPT ![r].op = "write"]
  /\ UNCHANGED <<position, calls, written, holds, disturbed>>

\* Faulty variant: the images that are not named keep their places.
RestNowhere(named) == {<<>>}

\* reorderServiceImages: the images that are not named follow those that are, in the order
\* in which the query returns them.
Rest(named) == Sorted(Rows \ Range(named))

ReorderRead(r, named) ==
  /\ Range(named) \subseteq Rows
  /\ Begin(r, "write", None, None)
  /\ \E s \in Rest(named) :
       plan' = [plan EXCEPT ![r] = Numbered(named, 0) \o Numbered(s, Len(named))]

ImagesInit ==
  /\ \E s \in SetToSeqs(Image) :
       position = [i \in Image |-> LET n == CHOOSE m \in DOMAIN s : s[m] = i
                                   IN IF n <= Existing THEN n - 1 ELSE None]
  /\ task = [r \in Req |-> None] /\ calls = 0 /\ disturbed = FALSE
  /\ plan = [r \in Req |-> <<>>] /\ holds = [r \in Req |-> {}]
  /\ written = [r \in Req |-> [i \in {} |-> 0]]

ImagesNext ==
  \E r \in Req :
    \/ \E given \in Positions \cup {None} : CreateRead(r, given)
    \/ \E i \in Image : CreateCommit(r, i) \/ DeleteRead(r, i)
    \/ \E S \in SUBSET Rows : \E named \in SetToSeqs(S) : ReorderRead(r, named)
    \/ DeleteRow(r) \/ DeleteList(r) \/ Update(r) \/ Commit(r) \/ Abort(r)

ImagesSpec == ImagesInit /\ [][ImagesNext]_imagesVars

-----------------------------------------------------------------------------
(***************************************************************************)
(* Properties.                                                             *)
(***************************************************************************)

\* Requests that create images at once exceed the limit by no more than one image for
\* each request beyond the first.
LimitMissedOnlyTogether == Cardinality(Rows) <= MaxImages + Cardinality(Req) - 1

\* Deletions and reorderings keep the images numbered from 0 without gap or repetition,
\* however their row updates interleave and whichever of them the database aborts.  Only
\* a creation that overlaps another request or asks for a place of its own disturbs the
\* order, and the next deletion or reordering on its own restores it.
NumberedUnlessDisturbed ==
  ~disturbed => {position[i] : i \in Rows} = 0 .. Cardinality(Rows) - 1
=============================================================================
