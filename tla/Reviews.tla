------------------------------ MODULE Reviews ------------------------------
(***************************************************************************)
(* Reviews of completed bookings and the vendor's reply (ReviewsService),  *)
(* and the messages that they and the events of the bookings send.  Each   *)
(* operation is a check followed by a write in a later statement; the      *)
(* bookings, all of one vendor, change meanwhile, as Bookings and FollowUps *)
(* allow.                                                                  *)
(***************************************************************************)
EXTENDS Notifications

CONSTANTS
  Booking, Req,
  MaxCalls \* bound: requests started

ASSUME ReviewsAssumption == MaxCalls \in Nat

VARIABLES
  status,    \* Booking.status: confirmed, completed or cancelled
  customer,  \* Booking.customerUserId, or None
  completed, \* history: the booking has been completed at some time
  reviews,   \* Review: the booking it is of and the reply it shows
  task, calls,
  replies    \* history: replies accepted, and between which requests

bookingVars == <<status, customer, completed>>
vars == <<bookingVars, reviews, task, calls, replies, notificationVars>>

Begin(r, t) ==
  /\ task[r] = None /\ calls < MaxCalls
  /\ calls' = calls + 1
  /\ task' = [task EXCEPT ![r] = t]
  /\ UNCHANGED <<bookingVars, reviews, replies, notificationVars>>

Doing(r, op) == task[r] # None /\ task[r].op = op
End(r) == task' = [task EXCEPT ![r] = None] /\ UNCHANGED calls

Stop(r) ==
  /\ task[r] # None
  /\ End(r)
  /\ UNCHANGED <<bookingVars, reviews, replies, notificationVars>>

\* The vendor completes a booking, which is no event.
Complete(b) ==
  /\ status[b] = "CONFIRMED"
  /\ status' = [status EXCEPT ![b] = "COMPLETED"]
  /\ completed' = completed \cup {b}
  /\ UNCHANGED <<customer, reviews, task, calls, replies, notificationVars>>

\* A cancellation, or a late payment, of any booking; its event is emitted.
Change(b, s) ==
  /\ s # status[b]
  /\ status' = [status EXCEPT ![b] = s]
  /\ EmitEvent(b)
  /\ UNCHANGED <<customer, completed, reviews, task, calls, replies>>

\* A customer claims a booking made without an account.
Claim(b, c) ==
  /\ customer[b] = None
  /\ customer' = [customer EXCEPT ![b] = c]
  /\ UNCHANGED <<status, completed, reviews, task, calls, replies, notificationVars>>

ReviewOf(b) == {v \in reviews : v.booking = b}

Reviewable(b) == status[b] = "COMPLETED" /\ customer[b] # None /\ ReviewOf(b) = {}

\* Faulty variant: no UNIQUE constraint on Review.bookingId.
InsertableAlways(b) == TRUE

\* The UNIQUE constraint on Review.bookingId.
Insertable(b) == ReviewOf(b) = {}

\* createReview, by the customer of the booking.
ReviewRead(r, b) ==
  /\ Reviewable(b)
  /\ Begin(r, [op |-> "review", booking |-> b])

ReviewCommit(r) ==
  /\ Doing(r, "review") /\ Insertable(task[r].booking)
  /\ reviews' = reviews \cup {[booking |-> task[r].booking, by |-> r, reply |-> None]}
  /\ SendTo(Vendor)
  /\ End(r)
  /\ UNCHANGED <<bookingVars, replies>>

\* Faulty variant: whether there is a reply is not looked at.
RepliableAlways(v) == TRUE

Repliable(v) == v.reply = None

\* replyToReview: a blank reply is stored as none.
ReplyRead(r, v, reply) ==
  /\ Repliable(v)
  /\ Begin(r, [op |-> "reply", booking |-> v.booking, reply |-> reply,
              customer |-> customer[v.booking], begun |-> calls + 1])

ReplyCommit(r) ==
  /\ Doing(r, "reply")
  /\ LET t == task[r]
     IN /\ reviews' = {IF v.booking = t.booking THEN [v EXCEPT !.reply = t.reply] ELSE v :
                         v \in reviews}
        /\ replies' = replies \cup
             {[booking |-> t.booking, reply |-> t.reply, begun |-> t.begun, ended |-> calls]}
        /\ SendTo(t.customer)
  /\ End(r)
  /\ UNCHANGED bookingVars

\* Devices are registered and messages dispatched beside the requests.
Notify ==
  /\ \/ \E d \in Device, u \in User : holder[d] # u /\ Register(d, u)
     \/ ReadDevices
     \/ \E b \in Booking : Open /\ message.booking = b /\ ReadParties(customer[b])
     \/ \E outcome \in {"sent", "lost"} : Push(outcome)
  /\ UNCHANGED <<bookingVars, reviews, task, calls, replies>>

Init ==
  /\ status = [b \in Booking |-> "CONFIRMED"] /\ completed = {}
  /\ customer \in [Booking -> Customer \cup {None}]
  /\ reviews = {} /\ task = [r \in Req |-> None] /\ calls = 0 /\ replies = {}
  /\ NotificationsInit

Next ==
  \/ \E b \in Booking : \/ Complete(b)
                        \/ \E s \in {"CONFIRMED", "CANCELLED"} : Change(b, s)
                        \/ \E c \in Customer : Claim(b, c)
  \/ \E r \in Req : \/ \E b \in Booking : ReviewRead(r, b)
                    \/ \E v \in reviews, reply \in {"text", None} : ReplyRead(r, v, reply)
                    \/ ReviewCommit(r) \/ ReplyCommit(r) \/ Stop(r)
  \/ Notify

Spec == Init /\ [][Next]_vars

-----------------------------------------------------------------------------
(***************************************************************************)
(* Properties.                                                             *)
(***************************************************************************)

\* One review per booking, of one that has been completed, however requests overlap.
OneReviewAfterCompletion ==
  \A b \in Booking : /\ Cardinality(ReviewOf(b)) <= 1
                     /\ ReviewOf(b) # {} => b \in completed

Together(x, y) == x.begun <= y.ended /\ y.begun <= x.ended

TextReplies(b) == {x \in replies : x.booking = b /\ x.reply # None}

\* A reply is replaced only by one sent at the same time, or after a blank reply that was
\* sent at the same time took it away (docs/prd.md:206, "vendor may reply once").
RepliedOnceUnlessTogether ==
  \A b \in Booking : \A x, y \in TextReplies(b) :
    ~Together(x, y) /\ x.ended < y.begun =>
      \E z \in replies : z.booking = b /\ z.reply = None /\ Together(x, z)
=============================================================================
