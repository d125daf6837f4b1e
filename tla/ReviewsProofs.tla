--------------------------- MODULE ReviewsProofs ---------------------------
(***************************************************************************)
(* Safety of reviews and replies, and of the push messages that they and   *)
(* the bookings send, for every number of bookings, customers, devices and *)
(* requests.                                                               *)
(***************************************************************************)
EXTENDS Reviews, TLAPS, SequenceTheorems, FiniteSetTheorems

USE NotificationsAssumption, ReviewsAssumption

-----------------------------------------------------------------------------
(***************************************************************************)
(* Types.                                                                  *)
(***************************************************************************)

Reply == {"text", None}
Review == [booking : Booking, by : Req, reply : Reply]
ReviewTask == [op : {"review"}, booking : Booking]
ReplyTask == [op : {"reply"}, booking : Booking, reply : Reply,
              customer : Customer \cup {None}, begun : Nat]
ReplyRow == [booking : Booking, reply : Reply, begun : Nat, ended : Nat]

TypeInv ==
  /\ status \in [Booking -> {"CONFIRMED", "COMPLETED", "CANCELLED"}]
  /\ customer \in [Booking -> Customer \cup {None}]
  /\ reviews \subseteq Review /\ replies \subseteq ReplyRow
  /\ task \in [Req -> ReviewTask \cup ReplyTask \cup {None}] /\ calls \in Nat

\* A request that is at an operation has the data of that operation.
LEMMA TaskOf ==
  ASSUME TypeInv, NEW r \in Req
  PROVE  /\ Doing(r, "review") => task[r] \in ReviewTask
         /\ Doing(r, "reply") => task[r] \in ReplyTask
  BY DEF TypeInv, Doing, ReviewTask, ReplyTask

\* What a request for a review or for a reply begins with.
LEMMA ReviewBegins ==
  ASSUME TypeInv, NEW r \in Req, NEW b \in Booking, ReviewRead(r, b)
  PROVE  \E t \in ReviewTask :
           /\ task' = [task EXCEPT ![r] = t] /\ t.booking = b /\ t.op = "review"
           /\ status[b] = "COMPLETED" /\ calls' = calls + 1
           /\ UNCHANGED <<bookingVars, reviews, replies, notificationVars>>
  <1> DEFINE t == [op |-> "review", booking |-> b]
  <1>1. t \in ReviewTask /\ t.booking = b /\ t.op = "review"
    BY DEF ReviewTask
  <1> HIDE DEF t
  <1>2. QED BY <1>1 DEF ReviewRead, Begin, Reviewable, t
LEMMA ReplyBegins ==
  ASSUME TypeInv, NEW r \in Req, NEW v \in reviews, NEW reply \in Reply, ReplyRead(r, v, reply)
  PROVE  \E t \in ReplyTask :
           /\ task' = [task EXCEPT ![r] = t] /\ t.booking = v.booking /\ t.op = "reply"
           /\ t.begun = calls + 1 /\ v.reply = None /\ calls' = calls + 1
           /\ UNCHANGED <<bookingVars, reviews, replies, notificationVars>>
  <1> DEFINE t == [op |-> "reply", booking |-> v.booking, reply |-> reply,
                   customer |-> customer[v.booking], begun |-> calls + 1]
  <1>1. v.booking \in Booking
    BY DEF TypeInv, Review
  <1>2. customer[v.booking] \in Customer \cup {None} /\ calls + 1 \in Nat
    BY <1>1 DEF TypeInv
  <1>3. t \in ReplyTask /\ t.booking = v.booking /\ t.op = "reply" /\ t.begun = calls + 1
    BY <1>1, <1>2 DEF ReplyTask
  <1> HIDE DEF t
  <1>4. QED BY <1>3 DEF ReplyRead, Begin, Repliable, t

\* v is what is left of w when a booking's reviews show a reply.
Shows(v, w, b, reply) ==
  /\ v.booking = w.booking
  /\ v.booking # b => v = w
  /\ v.booking = b => v = [booking |-> w.booking, by |-> w.by, reply |-> reply]

\* What a reply writes: the reviews of the booking, and the record.
LEMMA ReplyWrites ==
  ASSUME TypeInv, NEW r \in Req, ReplyCommit(r)
  PROVE  \E x \in ReplyRow :
           /\ Doing(r, "reply") /\ x.booking = task[r].booking /\ x.reply = task[r].reply
           /\ x.begun = task[r].begun /\ x.ended = calls
           /\ replies' = replies \cup {x}
           /\ reviews' \subseteq Review
           /\ \A v \in reviews' : \E w \in reviews : Shows(v, w, x.booking, x.reply)
           /\ \A w \in reviews : \E v \in reviews' :
                /\ v.booking = w.booking
                /\ v.reply = IF w.booking = x.booking THEN x.reply ELSE w.reply
           /\ UNCHANGED <<bookingVars, calls>> /\ task' = [task EXCEPT ![r] = None]
  <1>1. task[r] \in ReplyTask /\ Doing(r, "reply")
    BY TaskOf DEF ReplyCommit
  <1>2. PICK b \in Booking, y \in Reply, n \in Nat :
          b = task[r].booking /\ y = task[r].reply /\ n = task[r].begun
    BY <1>1 DEF ReplyTask
  <1> DEFINE x == [booking |-> b, reply |-> y, begun |-> n, ended |-> calls]
             new(v) == IF v.booking = b THEN [v EXCEPT !.reply = y] ELSE v
  <1>3. x \in ReplyRow
    BY <1>2 DEF ReplyRow, TypeInv
  <1>4. /\ replies' = replies \cup {x}
        /\ reviews' = {new(v) : v \in reviews}
        /\ UNCHANGED <<bookingVars, calls>> /\ task' = [task EXCEPT ![r] = None]
    BY <1>2 DEF ReplyCommit, End
  <1>5. ASSUME NEW w \in reviews
        PROVE  /\ new(w) \in Review /\ new(w).booking = w.booking
               /\ w.booking # b => new(w) = w
               /\ w.booking = b => new(w) = [booking |-> w.booking, by |-> w.by, reply |-> y]
               /\ new(w).reply = IF w.booking = b THEN y ELSE w.reply
    BY DEF TypeInv, Review
  <1>6. /\ x.booking = b /\ x.reply = y /\ x.begun = n /\ x.ended = calls
    OBVIOUS
  <1> HIDE DEF new, x
  <1>7. ASSUME NEW v \in reviews'
        PROVE  v \in Review /\ \E w \in reviews : Shows(v, w, x.booking, x.reply)
    BY <1>4, <1>5, <1>6 DEF Shows
  <1>8. ASSUME NEW w \in reviews
        PROVE  \E v \in reviews' :
                /\ v.booking = w.booking
                /\ v.reply = IF w.booking = x.booking THEN x.reply ELSE w.reply
    BY <1>4, <1>5, <1>6
  <1>9. QED BY <1>1, <1>2, <1>3, <1>4, <1>6, <1>7, <1>8

\* What a review writes.
LEMMA ReviewWrites ==
  ASSUME TypeInv, NEW r \in Req, ReviewCommit(r)
  PROVE  \E v \in Review :
           /\ Doing(r, "review") /\ v.booking = task[r].booking /\ ReviewOf(v.booking) = {}
           /\ reviews' = reviews \cup {v}
           /\ UNCHANGED <<bookingVars, replies, calls>> /\ task' = [task EXCEPT ![r] = None]
  <1>1. task[r] \in ReviewTask /\ task[r].booking \in Booking
    BY TaskOf DEF ReviewCommit, ReviewTask
  <1> DEFINE v == [booking |-> task[r].booking, by |-> r, reply |-> None]
  <1>2. v \in Review /\ v.booking = task[r].booking
    BY <1>1 DEF Review, Reply
  <1> HIDE DEF v
  <1>3. QED BY <1>2 DEF ReviewCommit, End, Insertable, v

\* Every step, as far as reviews are concerned.
LEMMA NextSteps ==
  ASSUME TypeInv, [Next]_vars
  PROVE  \/ UNCHANGED <<bookingVars, reviews, task, calls, replies>>
         \/ \E b \in Booking : \/ Complete(b) \/ (\E c \in Customer : Claim(b, c))
                               \/ \E s \in {"CONFIRMED", "CANCELLED"} : Change(b, s)
         \/ \E r \in Req : \E b \in Booking : ReviewRead(r, b)
         \/ \E r \in Req : \E v \in reviews, reply \in Reply : ReplyRead(r, v, reply)
         \/ \E r \in Req : ReviewCommit(r) \/ ReplyCommit(r) \/ Stop(r)
  <1>1. Notify \/ UNCHANGED vars => UNCHANGED <<bookingVars, reviews, task, calls, replies>>
    BY DEF Notify, vars
  <1>2. QED BY <1>1 DEF Next, Reply

LEMMA TypeInvInductive ==
  /\ Init => TypeInv
  /\ TypeInv /\ [Next]_vars => TypeInv'
  <1>1. Init => TypeInv
    BY DEF Init, TypeInv
  <1>2. TypeInv /\ UNCHANGED <<bookingVars, reviews, task, calls, replies>> => TypeInv'
    BY DEF TypeInv, bookingVars
  <1>3. ASSUME TypeInv, NEW b \in Booking, Complete(b) \/ (\E c \in Customer : Claim(b, c))
        PROVE  TypeInv'
    <2>1. CASE Complete(b)
      BY <1>3, <2>1 DEF TypeInv, Complete
    <2>2. CASE \E c \in Customer : Claim(b, c)
      BY <1>3, <2>2 DEF TypeInv, Claim
    <2>3. QED BY <1>3, <2>1, <2>2
  <1>4. ASSUME TypeInv, NEW b \in Booking, NEW s \in {"CONFIRMED", "CANCELLED"}, Change(b, s)
        PROVE  TypeInv'
    BY <1>4 DEF TypeInv, Change
  <1>5. ASSUME TypeInv, NEW r \in Req, NEW b \in Booking, ReviewRead(r, b)
        PROVE  TypeInv'
    BY <1>5, ReviewBegins DEF TypeInv, bookingVars
  <1>6. ASSUME TypeInv, NEW r \in Req, NEW v \in reviews, NEW reply \in Reply,
               ReplyRead(r, v, reply)
        PROVE  TypeInv'
    BY <1>6, ReplyBegins DEF TypeInv, bookingVars
  <1>7. ASSUME TypeInv, NEW r \in Req, ReviewCommit(r)
        PROVE  TypeInv'
    BY <1>7, ReviewWrites DEF TypeInv, bookingVars
  <1>8. ASSUME TypeInv, NEW r \in Req, ReplyCommit(r)
        PROVE  TypeInv'
    BY <1>8, ReplyWrites DEF TypeInv, bookingVars
  <1>9. ASSUME TypeInv, NEW r \in Req, Stop(r)
        PROVE  TypeInv'
    BY <1>9 DEF TypeInv, Stop, End, bookingVars
  <1>10. QED BY <1>1, <1>2, <1>3, <1>4, <1>5, <1>6, <1>7, <1>8, <1>9, NextSteps

-----------------------------------------------------------------------------
(***************************************************************************)
(* Reviews.  A request for one has found its booking completed, which it   *)
(* was then for good; the UNIQUE constraint decides between two.           *)
(***************************************************************************)

ReviewInv ==
  /\ \A b \in Booking : status[b] = "COMPLETED" => b \in completed
  /\ \A r \in Req : Doing(r, "review") => task[r].booking \in completed
  /\ \A v \in reviews : v.booking \in completed
  /\ \A v, w \in reviews : v.booking = w.booking => v = w

LEMMA ReviewInvInductive ==
  /\ Init => ReviewInv
  /\ TypeInv /\ ReviewInv /\ [Next]_vars => ReviewInv'
  <1>1. Init => ReviewInv
    BY DEF Init, ReviewInv, Doing
  <1>2. ReviewInv /\ UNCHANGED <<bookingVars, reviews, task, calls, replies>> => ReviewInv'
    BY DEF ReviewInv, bookingVars, Doing
  <1>3. ASSUME TypeInv, ReviewInv, NEW b \in Booking, Complete(b) \/ (\E c \in Customer : Claim(b, c))
        PROVE  ReviewInv'
    <2>1. CASE Complete(b)
      BY <1>3, <2>1 DEF TypeInv, ReviewInv, Complete, Doing
    <2>2. CASE \E c \in Customer : Claim(b, c)
      BY <1>3, <2>2 DEF ReviewInv, Claim, Doing
    <2>3. QED BY <1>3, <2>1, <2>2
  <1>4. ASSUME TypeInv, ReviewInv, NEW b \in Booking, NEW s \in {"CONFIRMED", "CANCELLED"},
               Change(b, s)
        PROVE  ReviewInv'
    BY <1>4 DEF TypeInv, ReviewInv, Change, Doing
  <1>5. ASSUME TypeInv, ReviewInv, NEW r \in Req, NEW b \in Booking, ReviewRead(r, b)
        PROVE  ReviewInv'
    <2>1. PICK t \in ReviewTask :
           /\ task' = [task EXCEPT ![r] = t] /\ t.booking = b
           /\ status[b] = "COMPLETED"
           /\ UNCHANGED <<bookingVars, reviews>>
      BY <1>5, ReviewBegins
    <2>2. \A q \in Req : Doing(q, "review")' => task'[q].booking \in completed
      BY <1>5, <2>1 DEF TypeInv, ReviewInv, Doing
    <2>3. QED BY <1>5, <2>1, <2>2 DEF ReviewInv, bookingVars
  <1>6. ASSUME TypeInv, ReviewInv, NEW r \in Req, NEW v \in reviews, NEW reply \in Reply,
               ReplyRead(r, v, reply)
        PROVE  ReviewInv'
    <2>1. PICK t \in ReplyTask :
           /\ task' = [task EXCEPT ![r] = t] /\ t.op = "reply"
           /\ UNCHANGED <<bookingVars, reviews>>
      BY <1>6, ReplyBegins
    <2>2. \A q \in Req : Doing(q, "review")' => task'[q].booking \in completed
      BY <1>6, <2>1 DEF TypeInv, ReviewInv, Doing
    <2>3. QED BY <1>6, <2>1, <2>2 DEF ReviewInv, bookingVars
  <1>7. ASSUME TypeInv, ReviewInv, NEW r \in Req, ReviewCommit(r)
        PROVE  ReviewInv'
    <2>1. PICK v \in Review :
           /\ Doing(r, "review") /\ v.booking = task[r].booking /\ ReviewOf(v.booking) = {}
           /\ reviews' = reviews \cup {v}
           /\ UNCHANGED bookingVars /\ task' = [task EXCEPT ![r] = None]
      BY <1>7, ReviewWrites
    <2>2. \A q \in Req : Doing(q, "review")' => task'[q].booking \in completed
      BY <1>7, <2>1 DEF TypeInv, ReviewInv, Doing
    <2>3. v.booking \in completed /\ \A w \in reviews : w.booking # v.booking
      BY <1>7, <2>1 DEF ReviewInv, ReviewOf
    <2>4. QED BY <1>7, <2>1, <2>2, <2>3 DEF ReviewInv, bookingVars
  <1>8. ASSUME TypeInv, ReviewInv, NEW r \in Req, ReplyCommit(r)
        PROVE  ReviewInv'
    <2>1. PICK x \in ReplyRow :
           /\ \A v \in reviews' : \E w \in reviews : Shows(v, w, x.booking, x.reply)
           /\ UNCHANGED bookingVars /\ task' = [task EXCEPT ![r] = None]
      BY <1>8, ReplyWrites
    <2>2. \A q \in Req : Doing(q, "review")' => task'[q].booking \in completed
      BY <1>8, <2>1 DEF TypeInv, ReviewInv, Doing, bookingVars
    <2>6. /\ \A w \in reviews : w.booking \in completed
          /\ \A v, w \in reviews : v.booking = w.booking => v = w
      BY <1>8 DEF ReviewInv
    <2>3. ASSUME NEW v \in reviews'
          PROVE  v.booking \in completed
      <3>1. PICK w \in reviews : Shows(v, w, x.booking, x.reply)
        BY <2>1
      <3>2. QED BY <2>6, <3>1 DEF Shows
    <2>4. ASSUME NEW v \in reviews', NEW w \in reviews', v.booking = w.booking
          PROVE  v = w
      <3>1. PICK y \in reviews : Shows(v, y, x.booking, x.reply)
        BY <2>1
      <3>2. PICK z \in reviews : Shows(w, z, x.booking, x.reply)
        BY <2>1
      <3>3. y = z
        BY <2>4, <2>6, <3>1, <3>2 DEF Shows
      <3>4. QED BY <2>4, <3>1, <3>2, <3>3 DEF Shows
    <2>5. QED BY <1>8, <2>1, <2>2, <2>3, <2>4 DEF ReviewInv, bookingVars
  <1>9. ASSUME TypeInv, ReviewInv, NEW r \in Req, Stop(r)
        PROVE  ReviewInv'
    <2>1. /\ UNCHANGED <<bookingVars, reviews>> /\ task' = [task EXCEPT ![r] = None]
      BY <1>9 DEF Stop, End
    <2>2. \A q \in Req : Doing(q, "review")' => task'[q].booking \in completed
      BY <1>9, <2>1 DEF TypeInv, ReviewInv, Doing
    <2>3. QED BY <1>9, <2>1, <2>2 DEF ReviewInv, bookingVars
  <1>10. QED BY <1>1, <1>2, <1>3, <1>4, <1>5, <1>6, <1>7, <1>8, <1>9, NextSteps

\* A booking has one review at most, and only if it was completed, however the requests for
\* it overlap with each other and with what becomes of the booking.
THEOREM ReviewsUnique == Spec => []OneReviewAfterCompletion
  <1>1. ReviewInv => OneReviewAfterCompletion
    <2> SUFFICES ASSUME ReviewInv, NEW b \in Booking
                 PROVE  /\ Cardinality(ReviewOf(b)) <= 1
                        /\ ReviewOf(b) # {} => b \in completed
      BY DEF OneReviewAfterCompletion
    <2>1. CASE ReviewOf(b) = {}
      BY <2>1, FS_EmptySet
    <2>2. CASE ReviewOf(b) # {}
      <3>1. PICK v \in ReviewOf(b) : TRUE
        BY <2>2
      <3>2. ReviewOf(b) = {v} /\ b \in completed
        BY <3>1 DEF ReviewOf, ReviewInv
      <3>3. Cardinality({v}) = 1
        BY FS_Singleton
      <3>4. QED BY <3>2, <3>3
    <2>3. QED BY <2>1, <2>2
  <1>2. QED BY <1>1, TypeInvInductive, ReviewInvInductive, PTL DEF Spec

-----------------------------------------------------------------------------
(***************************************************************************)
(* Replies.  A text that was accepted is shown until a blank reply takes   *)
(* it away, and the first that does began before the text was accepted,    *)
(* for it found no reply.  A request that is to reply found no reply, too. *)
(***************************************************************************)

TakenAway(x) == \E z \in replies : z.booking = x.booking /\ z.reply = None /\ Together(x, z)
Answered(b) == \E v \in reviews : v.booking = b /\ v.reply # None

ReplyTimes ==
  /\ \A x \in replies : x.begun <= x.ended /\ x.ended <= calls
  /\ \A r \in Req : Doing(r, "reply") => /\ task[r].begun <= calls
                                         /\ \E v \in reviews : v.booking = task[r].booking
ReplyInv ==
  /\ \A x \in replies : x.reply # None => TakenAway(x) \/ Answered(x.booking)
  /\ \A r \in Req : \A x \in replies :
       Doing(r, "reply") /\ x.booking = task[r].booking /\ x.reply # None
         => task[r].begun <= x.ended \/ TakenAway(x)
  /\ \A x, y \in replies :
       x.booking = y.booking /\ x.reply # None => y.begun <= x.ended \/ TakenAway(x)

LEMMA ReplyTimesInductive ==
  /\ Init => ReplyTimes
  /\ TypeInv /\ ReplyTimes /\ [Next]_vars => ReplyTimes'
  <1>1. Init => ReplyTimes
    BY DEF Init, ReplyTimes, Doing
  <1>2. ReplyTimes /\ UNCHANGED <<reviews, task, calls, replies>> => ReplyTimes'
    BY DEF ReplyTimes, Doing
  <1>3. ASSUME TypeInv, ReplyTimes, NEW r \in Req, NEW b \in Booking, ReviewRead(r, b)
        PROVE  ReplyTimes'
    <2>1. PICK t \in ReviewTask : /\ task' = [task EXCEPT ![r] = t] /\ t.op = "review"
                                  /\ UNCHANGED <<reviews, replies>> /\ calls' = calls + 1
      BY <1>3, ReviewBegins
    <2>2. \A x \in replies : x.begun <= x.ended /\ x.ended <= calls + 1
      BY <1>3 DEF ReplyTimes, TypeInv, ReplyRow
    <2>3. ASSUME NEW q \in Req, Doing(q, "reply")'
          PROVE  task'[q].begun <= calls + 1 /\ \E v \in reviews : v.booking = task'[q].booking
      <3>1. task'[q] = task[q] /\ Doing(q, "reply")
        BY <1>3, <2>1, <2>3 DEF TypeInv, Doing
      <3>2. task[q].begun \in Nat
        BY <1>3, <3>1, TaskOf DEF ReplyTask
      <3>3. QED BY <1>3, <3>1, <3>2 DEF ReplyTimes, TypeInv
    <2>4. QED BY <2>1, <2>2, <2>3 DEF ReplyTimes
  <1>4. ASSUME TypeInv, ReplyTimes, NEW r \in Req, NEW v \in reviews, NEW reply \in Reply,
               ReplyRead(r, v, reply)
        PROVE  ReplyTimes'
    <2>1. PICK t \in ReplyTask : /\ task' = [task EXCEPT ![r] = t] /\ t.booking = v.booking
                                 /\ t.begun = calls + 1
                                 /\ UNCHANGED <<reviews, replies>> /\ calls' = calls + 1
      BY <1>4, ReplyBegins
    <2>2. \A x \in replies : x.begun <= x.ended /\ x.ended <= calls + 1
      BY <1>4 DEF ReplyTimes, TypeInv, ReplyRow
    <2>3. ASSUME NEW q \in Req, Doing(q, "reply")'
          PROVE  task'[q].begun <= calls + 1 /\ \E w \in reviews : w.booking = task'[q].booking
      <3>1. CASE q = r
        BY <1>4, <2>1, <3>1 DEF TypeInv
      <3>2. CASE q # r
        <4>1. task'[q] = task[q] /\ Doing(q, "reply")
          BY <1>4, <2>1, <2>3, <3>2 DEF TypeInv, Doing
        <4>2. task[q].begun \in Nat
          BY <1>4, <4>1, TaskOf DEF ReplyTask
        <4>3. QED BY <1>4, <4>1, <4>2 DEF ReplyTimes, TypeInv
      <3>3. QED BY <3>1, <3>2
    <2>4. QED BY <2>1, <2>2, <2>3 DEF ReplyTimes
  <1>5. ASSUME TypeInv, ReplyTimes, NEW r \in Req, ReviewCommit(r)
        PROVE  ReplyTimes'
    <2>1. PICK v \in Review : /\ reviews' = reviews \cup {v} /\ UNCHANGED <<replies, calls>>
                              /\ task' = [task EXCEPT ![r] = None]
      BY <1>5, ReviewWrites
    <2>2. \A q \in Req : Doing(q, "reply")' => task'[q] = task[q] /\ Doing(q, "reply")
      BY <1>5, <2>1 DEF TypeInv, Doing
    <2>3. QED BY <1>5, <2>1, <2>2 DEF ReplyTimes
  <1>6. ASSUME TypeInv, ReplyTimes, NEW r \in Req, ReplyCommit(r)
        PROVE  ReplyTimes'
    <2>1. PICK x \in ReplyRow :
           /\ Doing(r, "reply") /\ x.begun = task[r].begun /\ x.ended = calls
           /\ replies' = replies \cup {x}
           /\ \A w \in reviews : \E v \in reviews' : v.booking = w.booking
           /\ UNCHANGED calls /\ task' = [task EXCEPT ![r] = None]
      BY <1>6, ReplyWrites
    <2>2. \A q \in Req : Doing(q, "reply")' => task'[q] = task[q] /\ Doing(q, "reply")
      BY <1>6, <2>1 DEF TypeInv, Doing
    <2>3. calls \in Nat /\ x.begun <= x.ended
      BY <1>6, <2>1 DEF TypeInv, ReplyTimes
    <2>4. \A y \in replies' : y.begun <= y.ended /\ y.ended <= calls
      BY <1>6, <2>1, <2>3 DEF ReplyTimes
    <2>5. ASSUME NEW q \in Req, Doing(q, "reply")'
          PROVE  task'[q].begun <= calls /\ \E v \in reviews' : v.booking = task'[q].booking
      <3>1. PICK w \in reviews : w.booking = task[q].booking
        BY <1>6, <2>2, <2>5 DEF ReplyTimes
      <3>2. PICK v \in reviews' : v.booking = w.booking
        BY <2>1
      <3>3. QED BY <1>6, <2>2, <2>5, <3>1, <3>2 DEF ReplyTimes
    <2>6. QED BY <2>1, <2>4, <2>5 DEF ReplyTimes
  <1>7. ASSUME TypeInv, ReplyTimes, NEW r \in Req, Stop(r)
        PROVE  ReplyTimes'
    <2>1. UNCHANGED <<reviews, replies, calls>> /\ task' = [task EXCEPT ![r] = None]
      BY <1>7 DEF Stop, End
    <2>2. \A q \in Req : Doing(q, "reply")' => task'[q] = task[q] /\ Doing(q, "reply")
      BY <1>7, <2>1 DEF TypeInv, Doing
    <2>3. QED BY <1>7, <2>1, <2>2 DEF ReplyTimes
  <1>8. (\E b \in Booking : \/ Complete(b) \/ (\E c \in Customer : Claim(b, c))
                            \/ \E s \in {"CONFIRMED", "CANCELLED"} : Change(b, s))
          => UNCHANGED <<reviews, task, calls, replies>>
    BY DEF Complete, Claim, Change
  <1>9. QED BY <1>1, <1>2, <1>3, <1>4, <1>5, <1>6, <1>7, <1>8, NextSteps

LEMMA ReplyInvInductive ==
  /\ Init => ReplyInv
  /\ TypeInv /\ ReviewInv /\ ReplyTimes /\ ReplyInv /\ [Next]_vars => ReplyInv'
  <1>1. Init => ReplyInv
    BY DEF Init, ReplyInv, Doing
  <1>2. ASSUME TypeInv, ReplyInv, UNCHANGED replies, reviews \subseteq reviews',
               \A q \in Req : Doing(q, "reply")' =>
                 \/ task'[q] = task[q] /\ Doing(q, "reply")
                 \/ \A x \in replies : x.booking = task'[q].booking /\ x.reply # None
                                         => TakenAway(x)
        PROVE  ReplyInv'
    <2>1. \A x \in replies : TakenAway(x)' <=> TakenAway(x)
      BY <1>2 DEF TakenAway, Together
    <2>2. \A x \in replies : Answered(x.booking) => \E v \in reviews' :
                                v.booking = x.booking /\ v.reply # None
      BY <1>2 DEF Answered
    <2>3. ASSUME NEW q \in Req, NEW x \in replies, Doing(q, "reply")',
                 x.booking = task'[q].booking, x.reply # None
          PROVE  task'[q].begun <= x.ended \/ TakenAway(x)
      BY <1>2, <2>3 DEF ReplyInv
    <2>4. \A x \in replies : x.reply # None => TakenAway(x)' \/ Answered(x.booking)'
      BY <1>2, <2>1, <2>2 DEF ReplyInv, Answered
    <2>5. \A x, y \in replies :
       x.booking = y.booking /\ x.reply # None => y.begun <= x.ended \/ TakenAway(x)'
      BY <1>2, <2>1 DEF ReplyInv
    <2>6. QED BY <1>2, <2>1, <2>3, <2>4, <2>5 DEF ReplyInv, Answered, TakenAway, Together
  <1>3. ASSUME TypeInv, ReplyInv, NEW r \in Req, NEW b \in Booking, ReviewRead(r, b)
        PROVE  ReplyInv'
    <2>1. PICK t \in ReviewTask : /\ task' = [task EXCEPT ![r] = t] /\ t.op = "review"
                                  /\ UNCHANGED <<reviews, replies>>
      BY <1>3, ReviewBegins
    <2>2. \A q \in Req : Doing(q, "reply")' => task'[q] = task[q] /\ Doing(q, "reply")
      BY <1>3, <2>1 DEF TypeInv, Doing
    <2>3. QED BY <1>2, <1>3, <2>1, <2>2
  <1>4. ASSUME TypeInv, ReviewInv, ReplyInv, NEW r \in Req, NEW v \in reviews,
               NEW reply \in Reply, ReplyRead(r, v, reply)
        PROVE  ReplyInv'
    <2>1. PICK t \in ReplyTask : /\ task' = [task EXCEPT ![r] = t] /\ t.booking = v.booking
                                 /\ v.reply = None /\ UNCHANGED <<reviews, replies>>
      BY <1>4, ReplyBegins
    <2>2. ~Answered(v.booking)
      BY <1>4, <2>1 DEF Answered, ReviewInv
    <2>3. \A x \in replies : x.booking = v.booking /\ x.reply # None => TakenAway(x)
      BY <1>4, <2>2 DEF ReplyInv
    <2>4. ASSUME NEW q \in Req, Doing(q, "reply")'
          PROVE  \/ task'[q] = task[q] /\ Doing(q, "reply")
                 \/ \A x \in replies : x.booking = task'[q].booking /\ x.reply # None
                                         => TakenAway(x)
      <3>1. CASE q = r
        <4>1. task'[q] = t
          BY <1>4, <2>1, <3>1 DEF TypeInv
        <4>2. QED BY <2>1, <2>3, <4>1
      <3>2. CASE q # r
        BY <1>4, <2>1, <2>4, <3>2 DEF TypeInv, Doing
      <3>3. QED BY <3>1, <3>2
    <2>5. QED BY <1>2, <1>4, <2>1, <2>4
  <1>5. ASSUME TypeInv, ReplyInv, NEW r \in Req, ReviewCommit(r)
        PROVE  ReplyInv'
    <2>1. PICK v \in Review : /\ reviews' = reviews \cup {v} /\ UNCHANGED replies
                              /\ task' = [task EXCEPT ![r] = None]
      BY <1>5, ReviewWrites
    <2>2. \A q \in Req : Doing(q, "reply")' => task'[q] = task[q] /\ Doing(q, "reply")
      BY <1>5, <2>1 DEF TypeInv, Doing
    <2>3. QED BY <1>2, <1>5, <2>1, <2>2
  <1>6. ASSUME TypeInv, ReplyInv, NEW r \in Req, Stop(r)
        PROVE  ReplyInv'
    <2>1. UNCHANGED <<reviews, replies>> /\ task' = [task EXCEPT ![r] = None]
      BY <1>6 DEF Stop, End
    <2>2. \A q \in Req : Doing(q, "reply")' => task'[q] = task[q] /\ Doing(q, "reply")
      BY <1>6, <2>1 DEF TypeInv, Doing
    <2>3. QED BY <1>2, <1>6, <2>1, <2>2
  <1>7. ASSUME TypeInv, ReplyTimes, ReplyInv, NEW r \in Req, ReplyCommit(r)
        PROVE  ReplyInv'
    <2>1. PICK y \in ReplyRow :
           /\ Doing(r, "reply") /\ y.booking = task[r].booking
           /\ y.begun = task[r].begun /\ y.ended = calls
           /\ replies' = replies \cup {y}
           /\ \A w \in reviews : \E v \in reviews' :
                /\ v.booking = w.booking
                /\ v.reply = IF w.booking = y.booking THEN y.reply ELSE w.reply
           /\ task' = [task EXCEPT ![r] = None]
      BY <1>7, ReplyWrites
    <2>2. \A q \in Req : Doing(q, "reply")' => task'[q] = task[q] /\ Doing(q, "reply")
      BY <1>7, <2>1 DEF TypeInv, Doing
    <2>3. /\ calls \in Nat /\ y.begun \in Nat /\ y.ended \in Nat /\ y.begun <= y.ended
      BY <1>7, <2>1 DEF TypeInv, ReplyTimes, ReplyRow
    <2>4. \A x \in replies : /\ x.begun \in Nat /\ x.ended \in Nat
                             /\ x.begun <= x.ended /\ x.ended <= calls
      BY <1>7 DEF TypeInv, ReplyTimes, ReplyRow
    <2>5. \A x \in replies : TakenAway(x) => TakenAway(x)'
      BY <2>1 DEF TakenAway, Together
    <2>6. ASSUME NEW x \in replies, x.booking = y.booking, x.reply # None, ~TakenAway(x)
          PROVE  /\ y.begun <= x.ended
                 /\ y.reply = None => TakenAway(x)'
      <3>1. y.begun <= x.ended
        BY <1>7, <2>1, <2>6 DEF ReplyInv
      <3>2. Together(x, y)
        BY <2>1, <2>3, <2>4, <3>1 DEF Together
      <3>3. y.reply = None => TakenAway(x)'
        BY <2>1, <2>6, <3>2 DEF TakenAway, Together
      <3>4. QED BY <3>1, <3>3
    <2>7. ASSUME NEW x \in replies, x.reply # None
          PROVE  TakenAway(x)' \/ \E v \in reviews' : v.booking = x.booking /\ v.reply # None
      <3>1. CASE TakenAway(x)
        BY <2>5, <3>1
      <3>2. CASE ~TakenAway(x)
        <4>1. PICK w \in reviews : w.booking = x.booking /\ w.reply # None
          BY <1>7, <2>7, <3>2 DEF ReplyInv, Answered
        <4>2. PICK v \in reviews' :
                /\ v.booking = w.booking
                /\ v.reply = IF w.booking = y.booking THEN y.reply ELSE w.reply
          BY <2>1
        <4>3. CASE x.booking # y.booking \/ y.reply # None
          BY <4>1, <4>2, <4>3
        <4>4. CASE x.booking = y.booking /\ y.reply = None
          BY <2>6, <2>7, <3>2, <4>4
        <4>5. QED BY <4>3, <4>4
      <3>3. QED BY <3>1, <3>2
    <2>8. y.reply # None => \E v \in reviews' : v.booking = y.booking /\ v.reply # None
      <3>1. PICK w \in reviews : w.booking = y.booking
        BY <1>7, <2>1 DEF ReplyTimes
      <3>2. PICK v \in reviews' : v.booking = w.booking /\ v.reply = y.reply
        BY <2>1, <3>1
      <3>3. QED BY <3>1, <3>2
    <2>9. \A x \in replies' : x.reply # None => TakenAway(x)' \/ Answered(x.booking)'
      BY <2>1, <2>7, <2>8 DEF Answered
    <2>10. ASSUME NEW q \in Req, NEW x \in replies', Doing(q, "reply")',
                  x.booking = task'[q].booking, x.reply # None
           PROVE  task'[q].begun <= x.ended \/ TakenAway(x)'
      <3>1. task'[q] = task[q] /\ Doing(q, "reply")
        BY <2>2, <2>10
      <3>2. CASE x \in replies
        BY <1>7, <2>5, <2>10, <3>1, <3>2 DEF ReplyInv
      <3>3. CASE x = y
        BY <1>7, <2>1, <3>1, <3>3 DEF ReplyTimes
      <3>4. QED BY <2>1, <2>10, <3>2, <3>3
    <2>11. ASSUME NEW x \in replies', NEW z \in replies', x.booking = z.booking, x.reply # None
           PROVE  z.begun <= x.ended \/ TakenAway(x)'
      <3>1. CASE x \in replies /\ z \in replies
        BY <1>7, <2>5, <2>11, <3>1 DEF ReplyInv
      <3>2. CASE x \in replies /\ z = y
        BY <2>5, <2>6, <2>11, <3>2
      <3>3. CASE x = y
        BY <2>1, <2>3, <2>4, <3>3
      <3>4. QED BY <2>1, <2>11, <3>1, <3>2, <3>3
    <2>12. QED BY <2>9, <2>10, <2>11 DEF ReplyInv
  <1>8. (\E b \in Booking : \/ Complete(b) \/ (\E c \in Customer : Claim(b, c))
                            \/ \E s \in {"CONFIRMED", "CANCELLED"} : Change(b, s))
          => UNCHANGED <<reviews, task, replies>>
    BY DEF Complete, Claim, Change
  <1>9. ReplyInv /\ UNCHANGED <<reviews, task, replies>> => ReplyInv'
    BY DEF ReplyInv, TakenAway, Answered, Together, Doing
  <1>10. QED BY <1>1, <1>3, <1>4, <1>5, <1>6, <1>7, <1>8, <1>9, NextSteps

\* A vendor's reply is replaced by another one only where the two overlapped, or a blank one
\* that overlapped it took it away.
THEOREM RepliesHold == Spec => []RepliedOnceUnlessTogether
  <1>1. TypeInv /\ ReplyInv => RepliedOnceUnlessTogether
    <2> SUFFICES ASSUME TypeInv, ReplyInv, NEW b \in Booking,
                        NEW x \in TextReplies(b), NEW y \in TextReplies(b), x.ended < y.begun
                 PROVE  \E z \in replies : z.booking = b /\ z.reply = None /\ Together(x, z)
      BY DEF RepliedOnceUnlessTogether
    <2>1. /\ x \in replies /\ y \in replies /\ x.booking = b /\ y.booking = b /\ x.reply # None
          /\ x.ended \in Nat /\ y.begun \in Nat
      BY DEF TextReplies, TypeInv, ReplyRow
    <2>2. ~(y.begun <= x.ended)
      BY <2>1
    <2>3. QED BY <2>1, <2>2 DEF ReplyInv, TakenAway
  <1>2. QED BY <1>1, TypeInvInductive, ReviewInvInductive, ReplyTimesInductive,
               ReplyInvInductive, PTL DEF Spec

-----------------------------------------------------------------------------
(***************************************************************************)
(* Messages.  A device that was found was then of one of those the message *)
(* is for.  One that was not found is, or was when all those that have     *)
(* been read were read, of somebody else.                                  *)
(***************************************************************************)

People == User \cup {None}
Message == [booking : Booking \cup {None}, to : Seq(People), todo : Seq(People),
            found : [Device -> {0, 1}], held : [Device -> SUBSET People],
            state : {"open", "sent"}]
Lost == [state |-> "lost"]

\* The message m, while every device is now of those that are in device.
Fair(m) ==
  /\ m \in Message
  /\ ToSet(m.todo) \subseteq ToSet(m.to)
  /\ m.state = "sent" => m.todo = <<>>
  /\ m.state = "open" => \A d \in Device : device[d] \in m.held[d]
  /\ m.booking # None => \A d \in Device : m.found[d] = 0
  /\ \A d \in Device :
       /\ m.found[d] = 1 => m.held[d] \cap ToSet(m.to) # {}
       /\ m.found[d] = 0 =>
            \A u \in ToSet(m.to) \ ToSet(m.todo) : \E w \in m.held[d] : w # u
MessageInv ==
  /\ device \in [Device -> People] /\ holder = device
  /\ message = None \/ message = Lost \/ Fair(message)

\* Who a sequence is of.
LEMMA HeadAndRest ==
  ASSUME NEW S, NEW q \in Seq(S), q # <<>>
  PROVE  /\ Head(q) \in S /\ Tail(q) \in Seq(S) /\ Head(q) \in ToSet(q)
         /\ ToSet(Tail(q)) \subseteq ToSet(q)
         /\ ToSet(q) \subseteq ToSet(Tail(q)) \cup {Head(q)}
  <1>1. /\ Head(q) = q[1] /\ Len(q) \in Nat \ {0} /\ DOMAIN q = 1 .. Len(q)
        /\ Tail(q) \in Seq(S) /\ Len(Tail(q)) = Len(q) - 1
        /\ \A i \in 1 .. Len(Tail(q)) : Tail(q)[i] = q[i + 1]
    BY HeadTailProperties, EmptySeq
  <1>2. q[1] \in S /\ 1 \in DOMAIN q
    BY <1>1
  <1>3. DOMAIN Tail(q) = 1 .. (Len(q) - 1)
    BY <1>1
  <1>4. ASSUME NEW x \in ToSet(Tail(q))
        PROVE  x \in ToSet(q)
    <2>1. PICK i \in DOMAIN Tail(q) : x = Tail(q)[i]
      BY DEF ToSet
    <2>2. i + 1 \in DOMAIN q /\ x = q[i + 1]
      BY <1>1, <1>3, <2>1
    <2>3. QED BY <2>2 DEF ToSet
  <1>5. ASSUME NEW x \in ToSet(q), x # Head(q)
        PROVE  x \in ToSet(Tail(q))
    <2>1. PICK i \in DOMAIN q : x = q[i]
      BY DEF ToSet
    <2>2. PICK j \in 1 .. (Len(q) - 1) : i = j + 1
      BY <1>1, <1>5, <2>1
    <2>3. x = Tail(q)[j] /\ j \in DOMAIN Tail(q)
      BY <1>1, <1>3, <2>1, <2>2
    <2>4. QED BY <2>3 DEF ToSet
  <1>6. QED BY <1>1, <1>2, <1>4, <1>5 DEF ToSet

\* What a message is when it begins.
LEMMA Emitted ==
  ASSUME MessageInv, NEW users \in Seq(People), NEW b \in Booking \cup {None},
         Emit(users, b)
  PROVE  MessageInv'
  <1>1. UNCHANGED <<device, holder>>
    BY DEF Emit
  <1>2. CASE UNCHANGED message
    BY <1>1, <1>2 DEF MessageInv, Fair
  <1>3. CASE message = None /\ ~UNCHANGED message
    <2> DEFINE m == [booking |-> b, to |-> users, todo |-> users,
                     found |-> [d \in Device |-> 0], state |-> "open",
                     held |-> [d \in Device |-> {holder[d]}]]
    <2>1. message' = m
      BY <1>3 DEF Emit
    <2>2. [d \in Device |-> 0] \in [Device -> {0, 1}]
      OBVIOUS
    <2>3. [d \in Device |-> {holder[d]}] \in [Device -> SUBSET People]
      BY DEF MessageInv
    <2>4. m \in Message
      BY <2>2, <2>3 DEF Message
    <2>5. /\ m.todo = m.to /\ m.state = "open"
          /\ \A d \in Device : m.found[d] = 0 /\ m.held[d] = {device[d]}
      BY DEF MessageInv
    <2> HIDE DEF m
    <2>6. Fair(m)
      BY <2>4, <2>5 DEF Fair
    <2>7. QED BY <1>1, <2>1, <2>6 DEF MessageInv, Fair
  <1>4. QED BY <1>2, <1>3 DEF Emit

\* A message that is open has the data of one.
LEMMA OpenMessage ==
  ASSUME MessageInv, Open
  PROVE  /\ Fair(message) /\ message \in Message /\ message.state = "open"
         /\ message.booking \in Booking \cup {None}
         /\ message.to \in Seq(People) /\ message.todo \in Seq(People)
         /\ message.found \in [Device -> {0, 1}] /\ message.held \in [Device -> SUBSET People]
  <1>1. Lost.state = "lost"
    BY DEF Lost
  <1>2. Fair(message)
    BY <1>1 DEF MessageInv, Open
  <1>3. QED BY <1>2 DEF Open, Fair, Message

LEMMA Registered ==
  ASSUME MessageInv, NEW d \in Device, NEW u \in User, Register(d, u)
  PROVE  MessageInv'
  <1>1. /\ device' \in [Device -> People] /\ holder' = device'
        /\ device' = [device EXCEPT ![d] = u]
    BY DEF Register, MessageInv, People
  <1>2. CASE ~Open
    <2>1. message' = message
      BY <1>2 DEF Register
    <2>2. Fair(message) => message = None \/ message.state = "sent"
      BY <1>2 DEF Fair, Open, Message
    <2>3. QED BY <1>1, <2>1, <2>2 DEF MessageInv, Fair
  <1>3. CASE Open
    <2> DEFINE m == message
               held == [m.held EXCEPT ![d] = m.held[d] \cup {u}]
               n == [booking |-> m.booking, to |-> m.to, todo |-> m.todo, found |-> m.found,
                     held |-> held, state |-> m.state]
    <2>1. /\ Fair(m) /\ m \in Message /\ m.state = "open"
          /\ m.held \in [Device -> SUBSET People] /\ m.booking \in Booking \cup {None}
          /\ m.to \in Seq(People) /\ m.todo \in Seq(People)
          /\ m.found \in [Device -> {0, 1}]
      BY <1>3, OpenMessage
    <2>2. message' = n
      <3>1. message' = [message EXCEPT !.held[d] = m.held[d] \cup {u}]
        BY <1>3 DEF Register
      <3>2. QED BY <2>1, <3>1 DEF Message
    <2>3. held \in [Device -> SUBSET People]
      BY <2>1 DEF People
    <2>4. n \in Message
      BY <2>1, <2>3 DEF Message
    <2>5. \A e \in Device : m.held[e] \subseteq held[e] /\ device'[e] \in held[e]
      BY <1>1, <2>1 DEF Fair, MessageInv
    <2>6. /\ n.booking = m.booking /\ n.to = m.to /\ n.todo = m.todo /\ n.found = m.found
          /\ n.held = held /\ n.state = m.state
      OBVIOUS
    <2>7. PICK x : x = message'
      OBVIOUS
    <2>8. /\ x \in Message /\ x.booking = m.booking /\ x.to = m.to /\ x.todo = m.todo
          /\ x.found = m.found /\ x.state = "open"
          /\ \A e \in Device : m.held[e] \subseteq x.held[e] /\ device'[e] \in x.held[e]
      BY <2>1, <2>2, <2>4, <2>5, <2>6, <2>7
    <2> HIDE DEF m, held, n
    <2>9. /\ ToSet(x.todo) \subseteq ToSet(x.to)
          /\ x.booking # None => \A e \in Device : x.found[e] = 0
          /\ \A e \in Device :
               /\ x.found[e] = 1 => x.held[e] \cap ToSet(x.to) # {}
               /\ x.found[e] = 0 =>
                    \A w \in ToSet(x.to) \ ToSet(x.todo) : \E y \in x.held[e] : y # w
      <3>1. /\ ToSet(x.todo) \subseteq ToSet(x.to)
            /\ x.booking # None => \A e \in Device : x.found[e] = 0
        BY <2>1, <2>8 DEF Fair
      <3>2. ASSUME NEW e \in Device, x.found[e] = 1
            PROVE  x.held[e] \cap ToSet(x.to) # {}
        BY <2>1, <2>8, <3>2 DEF Fair
      <3>3. ASSUME NEW e \in Device, x.found[e] = 0, NEW w \in ToSet(x.to) \ ToSet(x.todo)
            PROVE  \E y \in x.held[e] : y # w
        BY <2>1, <2>8, <3>3 DEF Fair
      <3>4. QED BY <3>1, <3>2, <3>3
    <2>10. Fair(message)'
      BY <2>7, <2>8, <2>9 DEF Fair
    <2>11. QED BY <1>1, <2>10 DEF MessageInv
  <1>4. QED BY <1>2, <1>3

LEMMA PartiesRead ==
  ASSUME MessageInv, NEW c \in Customer \cup {None}, ReadParties(c)
  PROVE  MessageInv'
  <1> DEFINE m == message
             users == <<Vendor>> \o (IF c = None THEN <<>> ELSE <<c>>)
             n == [booking |-> None, to |-> users, todo |-> users, found |-> m.found,
                   held |-> m.held, state |-> m.state]
  <1>1. /\ Fair(m) /\ m \in Message /\ m.state = "open"
        /\ m.held \in [Device -> SUBSET People] /\ m.found \in [Device -> {0, 1}]
    BY OpenMessage DEF ReadParties
  <1>2. users \in Seq(People)
    <2>1. Vendor \in People /\ c \in People
      BY DEF People, User
    <2>2. <<Vendor>> \in Seq(People) /\ <<c>> \in Seq(People) /\ <<>> \in Seq(People)
      BY <2>1
    <2>3. CASE c = None
      BY <2>2, <2>3, ConcatProperties
    <2>4. CASE c # None
      BY <2>2, <2>4, ConcatProperties
    <2>5. QED BY <2>3, <2>4
  <1> HIDE DEF users
  <1>3. message' = n /\ m.booking # None /\ UNCHANGED <<device, holder>>
    <2>1. /\ message' = [message EXCEPT !.booking = None, !.to = users, !.todo = users]
          /\ m.booking # None /\ UNCHANGED <<device, holder>>
      BY DEF ReadParties, users
    <2>2. QED BY <1>1, <2>1 DEF Message
  <1>4. n \in Message
    BY <1>1, <1>2 DEF Message
  <1>5. /\ \A d \in Device : m.found[d] = 0 /\ device[d] \in m.held[d]
    BY <1>1, <1>3 DEF Fair
  <1>6. /\ n.booking = None /\ n.to = n.todo /\ n.found = m.found
        /\ n.held = m.held /\ n.state = "open"
    BY <1>1
  <1>7. PICK x : x = message'
    OBVIOUS
  <1>8. /\ x \in Message /\ x.booking = None /\ x.to = x.todo /\ x.state = "open"
        /\ \A d \in Device : x.found[d] = 0 /\ device[d] \in x.held[d]
    BY <1>3, <1>4, <1>5, <1>6, <1>7
  <1>9. Fair(message)'
    BY <1>3, <1>7, <1>8 DEF Fair
  <1>10. QED BY <1>3, <1>9 DEF MessageInv

LEMMA DevicesRead ==
  ASSUME MessageInv, ReadDevices
  PROVE  MessageInv'
  <1> DEFINE m == message
             new == {d \in Device : device[d] = Head(m.todo)}
             found == With(m.found, new)
             rest == Rest(new, m.todo)
             n == [booking |-> m.booking, to |-> m.to, todo |-> rest, found |-> found,
                   held |-> m.held, state |-> m.state]
  <1>1. /\ Fair(m) /\ m \in Message /\ m.state = "open" /\ m.booking = None
        /\ m.to \in Seq(People) /\ m.todo \in Seq(People) /\ m.todo # <<>>
        /\ m.held \in [Device -> SUBSET People] /\ m.found \in [Device -> {0, 1}]
    BY OpenMessage DEF ReadDevices
  <1>2. /\ rest \in Seq(People) /\ Head(m.todo) \in ToSet(m.todo)
        /\ ToSet(rest) \subseteq ToSet(m.todo)
        /\ ToSet(m.todo) \subseteq ToSet(rest) \cup {Head(m.todo)}
    BY <1>1, HeadAndRest DEF Rest
  <1>3. /\ found \in [Device -> {0, 1}]
        /\ \A d \in Device : found[d] = IF device[d] = Head(m.todo) THEN 1 ELSE m.found[d]
    BY <1>1 DEF With
  <1>4. message' = n /\ UNCHANGED <<device, holder>>
    <2>1. /\ message' = [message EXCEPT !.found = found, !.todo = rest]
          /\ UNCHANGED <<device, holder>>
      BY DEF ReadDevices
    <2> HIDE DEF found, rest
    <2>2. QED BY <1>1, <2>1 DEF Message
  <1> HIDE DEF found, rest, new
  <1>5. n \in Message
    BY <1>1, <1>2, <1>3 DEF Message
  <1>6. PICK x : x = message'
    OBVIOUS
  <1>7. /\ x \in Message /\ x.booking = None /\ x.to = m.to /\ x.todo = rest
        /\ x.found = found /\ x.held = m.held /\ x.state = "open"
    BY <1>1, <1>4, <1>5, <1>6
  <1>8. /\ \A d \in Device : device[d] \in m.held[d]
        /\ ToSet(m.todo) \subseteq ToSet(m.to)
    BY <1>1 DEF Fair
  <1>9. ASSUME NEW d \in Device, x.found[d] = 1
        PROVE  x.held[d] \cap ToSet(x.to) # {}
    <2>1. CASE device[d] = Head(m.todo)
      BY <1>2, <1>7, <1>8, <2>1
    <2>2. CASE device[d] # Head(m.todo)
      BY <1>1, <1>3, <1>7, <1>9, <2>2 DEF Fair
    <2>3. QED BY <2>1, <2>2
  <1>10. ASSUME NEW d \in Device, x.found[d] = 0, NEW u \in ToSet(x.to) \ ToSet(x.todo)
         PROVE  \E w \in x.held[d] : w # u
    <2>1. device[d] # Head(m.todo) /\ m.found[d] = 0
      BY <1>3, <1>7, <1>10
    <2>2. CASE u = Head(m.todo)
      BY <1>7, <1>8, <2>1, <2>2
    <2>3. CASE u # Head(m.todo)
      <3>1. u \in ToSet(m.to) \ ToSet(m.todo)
        BY <1>2, <1>7, <1>10, <2>3
      <3>2. QED BY <1>1, <1>7, <2>1, <3>1 DEF Fair
    <2>4. QED BY <2>2, <2>3
  <1>11. ToSet(x.todo) \subseteq ToSet(x.to) /\ \A d \in Device : device[d] \in x.held[d]
    BY <1>2, <1>7, <1>8
  <1>12. Fair(message)'
    BY <1>4, <1>6, <1>7, <1>9, <1>10, <1>11 DEF Fair
  <1>13. QED BY <1>4, <1>12 DEF MessageInv

LEMMA Pushed ==
  ASSUME MessageInv, NEW outcome \in {"sent", "lost"}, Push(outcome)
  PROVE  MessageInv'
  <1>1. UNCHANGED <<device, holder>> /\ Open
    BY DEF Push
  <1>2. CASE outcome = "lost"
    BY <1>1, <1>2 DEF Push, MessageInv, Lost
  <1>3. CASE outcome = "sent"
    <2> DEFINE m == message
               n == [booking |-> m.booking, to |-> m.to, todo |-> m.todo, found |-> m.found,
                     held |-> m.held, state |-> "sent"]
    <2>1. /\ Fair(m) /\ m \in Message /\ m.booking = None /\ m.todo = <<>>
      BY <1>1, <1>3, OpenMessage DEF Push
    <2>2. message' = n
      <3>1. message' = [message EXCEPT !.state = "sent"]
        BY <1>3 DEF Push
      <3>2. QED BY <2>1, <3>1 DEF Message
    <2>3. n \in Message
      BY <2>1 DEF Message
    <2>4. PICK x : x = message'
      OBVIOUS
    <2>5. /\ x \in Message /\ x.booking = None /\ x.to = m.to /\ x.todo = m.todo
          /\ x.found = m.found /\ x.held = m.held /\ x.state = "sent"
      BY <2>1, <2>2, <2>3, <2>4
    <2>6. Fair(message)'
      BY <1>1, <2>1, <2>4, <2>5 DEF Fair
    <2>7. QED BY <1>1, <2>6 DEF MessageInv
  <1>4. QED BY <1>2, <1>3

\* Whatever else is emitted, a message is to one person or about one booking.
LEMMA MessageInvInductive ==
  /\ Init => MessageInv
  /\ TypeInv /\ MessageInv /\ [Next]_vars => MessageInv'
  <1>1. Init => MessageInv
    BY DEF Init, NotificationsInit, MessageInv, People
  <1> SUFFICES ASSUME TypeInv, MessageInv, [Next]_vars
               PROVE  MessageInv'
    BY <1>1
  <1>2. CASE UNCHANGED notificationVars
    BY <1>2 DEF notificationVars, MessageInv, Fair
  <1>3. ASSUME NEW u \in People, SendTo(u)
        PROVE  MessageInv'
    <2>1. <<u>> \in Seq(People)
      OBVIOUS
    <2>2. QED BY <1>3, <2>1, Emitted DEF SendTo
  <1>4. ASSUME NEW b \in Booking, EmitEvent(b)
        PROVE  MessageInv'
    <2>1. <<>> \in Seq(People)
      OBVIOUS
    <2>2. QED BY <1>4, <2>1, Emitted DEF EmitEvent
  <1>5. ASSUME NEW r \in Req, ReviewCommit(r)
        PROVE  MessageInv'
    BY <1>3, <1>5 DEF ReviewCommit, People, User
  <1>6. ASSUME NEW r \in Req, ReplyCommit(r)
        PROVE  MessageInv'
    <2>1. task[r] \in ReplyTask
      BY <1>6, TaskOf DEF ReplyCommit
    <2>2. task[r].customer \in People
      BY <2>1 DEF ReplyTask, People, User
    <2>3. SendTo(task[r].customer)
      BY <1>6 DEF ReplyCommit
    <2>4. QED BY <1>3, <2>2, <2>3
  <1>7. CASE Notify
    <2>1. ASSUME NEW b \in Booking, ReadParties(customer[b])
          PROVE  MessageInv'
      <3>1. customer[b] \in Customer \cup {None}
        BY DEF TypeInv
      <3>2. QED BY <2>1, <3>1, PartiesRead
    <2>2. QED BY <1>7, <2>1, Registered, DevicesRead, Pushed DEF Notify
  <1>8. ASSUME NEW b \in Booking, NEW s, Change(b, s)
        PROVE  MessageInv'
    BY <1>4, <1>8 DEF Change
  <1>9. QED
    <2>1. CASE UNCHANGED vars
      BY <1>2, <2>1 DEF vars
    <2>2. ASSUME NEW b \in Booking, Complete(b) \/ \E c \in Customer : Claim(b, c)
          PROVE  UNCHANGED notificationVars
      BY <2>2 DEF Complete, Claim
    <2>3. ASSUME NEW r \in Req,
                 \/ \E b \in Booking : ReviewRead(r, b)
                 \/ \E v \in reviews, reply \in {"text", None} : ReplyRead(r, v, reply)
                 \/ Stop(r)
          PROVE  UNCHANGED notificationVars
      BY <2>3 DEF ReviewRead, ReplyRead, Stop, Begin
    <2>4. QED BY <1>2, <1>5, <1>6, <1>7, <1>8, <2>1, <2>2, <2>3 DEF Next

\* No device gets a message twice, and none that belonged to nobody the message is for while
\* it was dispatched.
THEOREM PushesReachTheirUsers == Spec => []PushedOnceToItsUsers
  <1>1. MessageInv => PushedOnceToItsUsers
    <2> SUFFICES ASSUME MessageInv, Sent
                 PROVE  PushedOnceToItsUsers
      BY DEF PushedOnceToItsUsers
    <2>1. Fair(message)
      BY DEF MessageInv, Sent, Lost
    <2>2. QED BY <2>1 DEF Fair, Message, PushedOnceToItsUsers
  <1>2. QED BY <1>1, TypeInvInductive, MessageInvInductive, PTL DEF Spec

\* A device that a sent message missed had another user than each of those it is for, at
\* some time of the dispatch.
THEOREM PushesMissOnlyMoved == Spec => []MissedOnlyIfMoved
  <1>1. MessageInv => MissedOnlyIfMoved
    <2> SUFFICES ASSUME MessageInv, Sent, NEW d \in Device, message.found[d] = 0,
                        NEW u \in ToSet(message.to)
                 PROVE  message.held[d] # {u}
      BY DEF MissedOnlyIfMoved
    <2>1. Fair(message)
      BY DEF MessageInv, Sent, Lost
    <2>2. ToSet(message.todo) = {}
      BY <2>1 DEF Fair, Sent, ToSet
    <2>3. PICK w \in message.held[d] : w # u
      BY <2>1, <2>2 DEF Fair
    <2>4. QED BY <2>3
  <1>2. QED BY <1>1, TypeInvInductive, MessageInvInductive, PTL DEF Spec
=============================================================================
