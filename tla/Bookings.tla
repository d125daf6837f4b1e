------------------------------ MODULE Bookings ------------------------------
(***************************************************************************)
(* The booking desk of one vendor: bookings, the payment intents behind    *)
(* their deposits, the vendor's gift cards and the Paystack webhook.       *)
(*                                                                         *)
(* Each HTTP request is an asynchronous handler that other handlers        *)
(* overtake at every await.  Its database work is a READ COMMITTED         *)
(* transaction: a SELECT sees what is committed, an UPDATE locks its row   *)
(* until the commit, and nothing is visible before the commit.  A request  *)
(* is therefore modelled by                                                *)
(*   - a first step, the reads and checks before or at the start of the    *)
(*     transaction, whose results the handler keeps in ctx[r];             *)
(*   - Lock steps, one per row of plan[r], in the order of its UPDATEs;    *)
(*   - a commit step, which makes all of its writes visible at once.       *)
(* Abort rolls a request back wherever it stands: a crash of the process,  *)
(* a lost connection, a statement that fails.                              *)
(***************************************************************************)
EXTENDS Naturals, Sequences, FiniteSets

CONSTANTS
  Booking,    \* identities a booking can get
  Card,       \* identities a gift card can get
  Req,        \* requests that can be in progress at the same time
  Slot,       \* start times; bookings overlap iff they start together
  Seat,       \* seats the vendor may configure
  Capacity,   \* clients one seat takes at a time
  Price,      \* price of the service, markup included, in pesewas
  Deposit,    \* the deposit a booking asks for when it asks for one
  CardValue,  \* face value of every gift card
  PaidCards,  \* gift cards that were bought and paid for before
  SeatsAtStart, \* seats configured before
  Notice,     \* MIN_MODIFICATION_NOTICE_HOURS, in units of the clock
  MaxNow,     \* bound: the clock stops here
  MaxCalls,   \* bound: requests that can be started in a behaviour
  Nobody, NoCard, NoSeat

ASSUME AmountsAssumption ==
  /\ Price \in Nat \ {0} /\ Deposit \in 1 .. Price
  /\ CardValue \in Nat \ {0} /\ Capacity \in Nat \ {0}

ASSUME ClockAssumption ==
  Slot \subseteq Nat /\ Notice \in Nat /\ MaxNow \in Nat /\ MaxCalls \in Nat

ASSUME NamesAssumption ==
  /\ Booking \cap Card = {} /\ PaidCards \subseteq Card
  /\ SeatsAtStart \subseteq Seat
  /\ Nobody \notin Booking \cup Card \cup Req
  /\ NoCard \notin Card /\ NoSeat \notin Seat

VARIABLES
  status, slot, seat, source, deposit, due, \* the columns of Booking
  gift, redeemed, redemption, \* a booking's GiftCardRedemption: card, amount, state
  intent, confirmed,          \* PaymentIntent.status, and whether confirmedAt is set
  cardStatus, balance,        \* GiftCard.status and balancePesewas
  expired,                    \* the cards whose expiresAt has passed
  activeSeats, now,           \* active ServiceSeats; the clock
  pc, ctx, plan, lock, calls, \* the requests, their local data, their row locks
  refunds, unchecked, stale   \* history variables, read by no action

bookingVars == <<status, slot, seat, source, deposit, due>>
redemptionVars == <<gift, redeemed, redemption>>
intentVars == <<intent, confirmed>>
cardVars == <<cardStatus, balance>>
worldVars == <<expired, activeSeats, now>>
requestVars == <<pc, ctx, plan, lock, calls>>
placeVars == <<unchecked, stale>>
vars == <<bookingVars, redemptionVars, intentVars, cardVars, worldVars,
          requestVars, refunds, placeVars>>

Owner == Booking \cup Card  \* what a payment intent can pay for
BookingStatus ==
  {"ABSENT", "AWAITING_PAYMENT", "CONFIRMED", "COMPLETED", "CANCELLED", "NO_SHOW"}
PaymentStatus == {"ABSENT", "REQUIRES_PAYMENT_METHOD", "SUCCEEDED", "FAILED"}
GiftCardStatus ==
  {"ABSENT", "PENDING_PAYMENT", "ACTIVE", "DEPLETED", "CANCELLED", "EXPIRED"}

\* Database rows that a transaction locks by updating them.
IntentRow(o) == <<"intent", o>>
DataRow(o) == <<"data", o>>
Row == {"intent", "data"} \X Owner

Min2(a, b) == IF a <= b THEN a ELSE b

-----------------------------------------------------------------------------
(***************************************************************************)
(* Occupancy of the calendar.                                              *)
(***************************************************************************)

\* ACTIVE_BOOKING_STATUSES
ActiveStatus == {"AWAITING_PAYMENT", "CONFIRMED"}
Active(b) == status[b] \in ActiveStatus
Occupants(t) == {b \in Booking : Active(b) /\ slot[b] = t}
OnSeat(s, t) == {b \in Occupants(t) : seat[b] = s}

\* Faulty variant: bookings taken before the vendor had seats are ignored.
SeatChoicesNoLegacy(t) ==
  IF activeSeats = {}
    THEN IF Occupants(t) = {} THEN {NoSeat} ELSE {}
    ELSE {s \in activeSeats : Cardinality(OnSeat(s, t)) < Capacity}

\* The seats a new booking at t can get.  Without seats the whole vendor must be
\* free; with seats, a booking without a seat blocks them all.  The client's
\* choice and the order of creation pick one of these seats.
SeatChoices(t) ==
  IF activeSeats = {}
    THEN IF Occupants(t) = {} THEN {NoSeat} ELSE {}
    ELSE IF OnSeat(NoSeat, t) # {} THEN {}
    ELSE {s \in activeSeats : Cardinality(OnSeat(s, t)) < Capacity}

\* assertWithinModificationWindow
Modifiable(b) == slot[b] >= now + Notice

-----------------------------------------------------------------------------
(***************************************************************************)
(* Requests, row locks and transactions.                                   *)
(***************************************************************************)

NoCtx == [target |-> Nobody, slot |-> 0, seat |-> NoSeat, source |-> "ONLINE",
          dep |-> 0, card |-> NoCard, bal |-> 0, seen |-> "ABSENT", will |-> "none"]

\* Request r starts: it goes to stage with the data c, and will lock rows.
Start(r, stage, c, rows) ==
  /\ pc[r] = "idle" /\ calls < MaxCalls
  /\ pc' = [pc EXCEPT ![r] = stage]
  /\ ctx' = [ctx EXCEPT ![r] = c]
  /\ plan' = [plan EXCEPT ![r] = rows]
  /\ calls' = calls + 1
  /\ UNCHANGED lock

\* Request r goes on to stage, where it will lock rows.
GoOn(r, stage, c, rows) ==
  /\ pc' = [pc EXCEPT ![r] = stage]
  /\ ctx' = [ctx EXCEPT ![r] = c]
  /\ plan' = [plan EXCEPT ![r] = rows]
  /\ UNCHANGED <<lock, calls>>

\* Request r ends, by a commit or a rollback, and its row locks go.
End(r) ==
  /\ pc' = [pc EXCEPT ![r] = "idle"]
  /\ ctx' = [ctx EXCEPT ![r] = NoCtx]
  /\ plan' = [plan EXCEPT ![r] = <<>>]
  /\ lock' = [w \in Row |-> IF lock[w] = r THEN Nobody ELSE lock[w]]
  /\ UNCHANGED calls

\* Request r reaches its commit: it holds every row it updates.
Ready(r, stage) == pc[r] = stage /\ plan[r] = <<>>

Lock(r) ==
  /\ plan[r] # <<>>
  /\ lock[Head(plan[r])] = Nobody
  /\ lock' = [lock EXCEPT ![Head(plan[r])] = r]
  /\ plan' = [plan EXCEPT ![r] = Tail(plan[r])]
  /\ UNCHANGED <<bookingVars, redemptionVars, intentVars, cardVars, worldVars,
                 pc, ctx, calls, refunds, placeVars>>

\* History.  A request that has checked a slot and not committed yet is stale once
\* another commit fills that slot.  A booking is unchecked while the place it holds
\* was not checked against everything committed when it took it.
Filled(r, t) ==
  stale' = (stale \cup {q \in Req : pc[q] \in {"create", "redeem", "move"}
                                    /\ ctx[q].slot = t}) \ {r}
NotFilled(r) == stale' = stale \ {r}
Placed(r, b) ==
  /\ unchecked' = IF r \in stale THEN unchecked \cup {b} ELSE unchecked \ {b}
  /\ Filled(r, ctx[r].slot)
\* b becomes CONFIRMED; when it held no place it takes one, unchecked.
Revived(r, b) ==
  IF Active(b) THEN UNCHANGED unchecked /\ NotFilled(r)
  ELSE unchecked' = unchecked \cup {b} /\ Filled(r, slot[b])

Abort(r) ==
  /\ pc[r] # "idle"
  /\ End(r) /\ NotFilled(r)
  /\ UNCHANGED <<bookingVars, redemptionVars, intentVars, cardVars, worldVars,
                 refunds, unchecked>>

-----------------------------------------------------------------------------
(***************************************************************************)
(* Creating a booking, with or without a gift card.                        *)
(***************************************************************************)

\* createBookingWithOptions up to the insert: the slot and seat checks.  The id is
\* new.  An online or a manual booking may come without a deposit.
CreateCheck(r, b, t, s, src, dep, c) ==
  /\ status[b] = "ABSENT" /\ \A q \in Req : ctx[q].target # b
  /\ s \in SeatChoices(t)
  /\ c # NoCard => cardStatus[c] # "ABSENT"
  /\ Start(r, IF c = NoCard THEN "create" ELSE "redeem",
           [NoCtx EXCEPT !.target = b, !.slot = t, !.seat = s, !.source = src,
                         !.dep = dep, !.card = c], <<>>)
  /\ UNCHANGED <<bookingVars, redemptionVars, intentVars, cardVars, worldVars,
                 refunds, placeVars>>

\* Faulty variant: whether the card is ACTIVE is not checked.
UsableIfFunded(c) == c \notin expired /\ balance[c] > 0

\* The checks of applyGiftCardToBooking.
Usable(c) == c \notin expired /\ cardStatus[c] = "ACTIVE" /\ balance[c] > 0

\* applyGiftCardToBooking reads the card.  A refusal throws, which also rolls back
\* the EXPIRED or DEPLETED it has just written.
RedeemRead(r) ==
  /\ pc[r] = "redeem"
  /\ LET c == ctx[r].card IN
       IF Usable(c)
         THEN /\ GoOn(r, "create", [ctx[r] EXCEPT !.bal = balance[c]], <<DataRow(c)>>)
              /\ UNCHANGED stale
         ELSE End(r) /\ NotFilled(r)
  /\ UNCHANGED <<bookingVars, redemptionVars, intentVars, cardVars, worldVars,
                 refunds, unchecked>>

\* The card pays the deposit first, then the rest of the price.
AppliedDeposit(bal, dep) == Min2(bal, dep)
\* Faulty variant: what the deposit took is not subtracted.
AppliedBalanceTwice(bal, dep) == Min2(bal, Price - dep)
AppliedBalance(bal, dep) == Min2(bal - AppliedDeposit(bal, dep), Price - dep)
Applied(bal, dep) == AppliedDeposit(bal, dep) + AppliedBalance(bal, dep)
\* Faulty variant: what the card pays of the rest is still asked for.
RestDueGross(bal, dep) == Price - dep
RestDue(bal, dep) == Price - dep - AppliedBalance(bal, dep)

\* Faulty variant: a card used up stays ACTIVE.
StatusNeverDepleted(left) == "ACTIVE"
StatusAfterRedemption(left) == IF left = 0 THEN "DEPLETED" ELSE "ACTIVE"

\* The commit: the booking, the card's new balance and redemption, and the payment
\* intent when a part of the deposit is left to pay.
CreateCommit(r) ==
  /\ Ready(r, "create")
  /\ LET b == ctx[r].target
         c == ctx[r].card
         bal == ctx[r].bal
         total == ctx[r].dep
         left == total - AppliedDeposit(bal, total)
         used == Applied(bal, total)
     IN
     /\ status' = [status EXCEPT ![b] = IF left > 0 THEN "AWAITING_PAYMENT" ELSE "CONFIRMED"]
     /\ slot' = [slot EXCEPT ![b] = ctx[r].slot]
     /\ seat' = [seat EXCEPT ![b] = ctx[r].seat]
     /\ source' = [source EXCEPT ![b] = ctx[r].source]
     /\ deposit' = [deposit EXCEPT ![b] = left]
     /\ due' = [due EXCEPT ![b] = RestDue(bal, total)]
     /\ intent' = IF left > 0 THEN [intent EXCEPT ![b] = "REQUIRES_PAYMENT_METHOD"]
                              ELSE intent
     /\ IF c = NoCard THEN UNCHANGED <<cardVars, redemptionVars>>
        ELSE /\ balance' = [balance EXCEPT ![c] = bal - used]
             /\ cardStatus' = [cardStatus EXCEPT ![c] = StatusAfterRedemption(bal - used)]
             /\ gift' = [gift EXCEPT ![b] = c]
             /\ redeemed' = [redeemed EXCEPT ![b] = used]
             /\ redemption' = [redemption EXCEPT ![b] = "applied"]
     /\ Placed(r, b)
  /\ End(r)
  /\ UNCHANGED <<confirmed, worldVars, refunds>>

-----------------------------------------------------------------------------
(***************************************************************************)
(* Cancelling, with the refund of the gift card; rescheduling.             *)
(***************************************************************************)

CancelRead(r, b) ==
  /\ status[b] \notin {"ABSENT", "CANCELLED"} /\ Modifiable(b)
  /\ Start(r, "cancel", [NoCtx EXCEPT !.target = b], <<DataRow(b)>>)
  /\ UNCHANGED <<bookingVars, redemptionVars, intentVars, cardVars, worldVars,
                 refunds, placeVars>>

\* Faulty variant: the query forgets that refundedAt must be null.
RefundableEvenIfRefunded(b) == redemption[b] # "none"
\* Faulty variant: a card that is used up gets nothing back.
RefundableIfActive(b) == redemption[b] = "applied" /\ cardStatus[gift[b]] = "ACTIVE"
Refundable(b) == redemption[b] = "applied"

\* The booking row is updated first; then refundGiftCardRedemptionsForBooking reads
\* the open redemption with its card.
RefundRead(r) ==
  /\ Ready(r, "cancel")
  /\ LET b == ctx[r].target
         c == gift[b]
     IN IF Refundable(b)
          THEN GoOn(r, "refund", [ctx[r] EXCEPT !.card = c, !.bal = balance[c],
                                                !.seen = cardStatus[c]], <<DataRow(c)>>)
          ELSE GoOn(r, "refund", ctx[r], <<>>)
  /\ UNCHANGED <<bookingVars, redemptionVars, intentVars, cardVars, worldVars,
                 refunds, placeVars>>

\* A refund leaves a CANCELLED or EXPIRED card as it is and revives a DEPLETED one.
StatusAfterRefund(st) == IF st \in {"CANCELLED", "EXPIRED"} THEN st ELSE "ACTIVE"

CancelCommit(r) ==
  /\ Ready(r, "refund")
  /\ LET b == ctx[r].target
         c == ctx[r].card
     IN
     /\ status' = [status EXCEPT ![b] = "CANCELLED"]
     /\ IF c = NoCard THEN UNCHANGED <<cardVars, redemption, refunds>>
        ELSE /\ balance' = [balance EXCEPT ![c] = ctx[r].bal + redeemed[b]]
             /\ cardStatus' = [cardStatus EXCEPT ![c] = StatusAfterRefund(ctx[r].seen)]
             /\ redemption' = [redemption EXCEPT ![b] = "refunded"]
             /\ refunds' = [refunds EXCEPT ![b] = @ + 1]
  /\ End(r) /\ NotFilled(r)
  /\ UNCHANGED <<slot, seat, source, deposit, due, gift, redeemed, intentVars,
                 worldVars, unchecked>>

RescheduleRead(r, b, t) ==
  /\ Active(b) /\ Modifiable(b)
  /\ Start(r, "reschedule", [NoCtx EXCEPT !.target = b, !.slot = t], <<>>)
  /\ UNCHANGED <<bookingVars, redemptionVars, intentVars, cardVars, worldVars,
                 refunds, placeVars>>

\* assertNoOverlap, vendor-wide, without the booking itself.
RescheduleCheck(r) ==
  /\ pc[r] = "reschedule"
  /\ IF Occupants(ctx[r].slot) \subseteq {ctx[r].target}
       THEN GoOn(r, "move", ctx[r], <<DataRow(ctx[r].target)>>) /\ UNCHANGED stale
       ELSE End(r) /\ NotFilled(r)
  /\ UNCHANGED <<bookingVars, redemptionVars, intentVars, cardVars, worldVars,
                 refunds, unchecked>>

RescheduleCommit(r) ==
  /\ Ready(r, "move")
  /\ slot' = [slot EXCEPT ![ctx[r].target] = ctx[r].slot]
  /\ Placed(r, ctx[r].target)
  /\ End(r)
  /\ UNCHANGED <<status, seat, source, deposit, due, redemptionVars, intentVars,
                 cardVars, worldVars, refunds>>

-----------------------------------------------------------------------------
(***************************************************************************)
(* Completing, marking a no-show, marking a manual booking paid.           *)
(***************************************************************************)

\* Faulty variant: any active booking can be completed.
FinishableIfActive(b) == Active(b)
Finishable(b) == status[b] = "CONFIRMED"

\* markBookingCompleted, markBookingNoShow, and completePastBookingsForToday on each
\* of its bookings: none of them looks at the clock in a way the others must share.
FinishRead(r, b, to) ==
  /\ Finishable(b)
  /\ Start(r, "finish", [NoCtx EXCEPT !.target = b, !.will = to], <<DataRow(b)>>)
  /\ UNCHANGED <<bookingVars, redemptionVars, intentVars, cardVars, worldVars,
                 refunds, placeVars>>

FinishCommit(r) ==
  /\ Ready(r, "finish")
  /\ status' = [status EXCEPT ![ctx[r].target] = ctx[r].will]
  /\ End(r) /\ NotFilled(r)
  /\ UNCHANGED <<slot, seat, source, deposit, due, redemptionVars, intentVars,
                 cardVars, worldVars, refunds, unchecked>>

\* Faulty variant: the booking before its payment intent.
PaidRowsBookingFirst(b) == <<DataRow(b), IntentRow(b)>>
\* markManualBookingPaid updates the payment intent, if there is one, then the booking.
PaidRows(b) ==
  IF intent[b] = "ABSENT" THEN <<DataRow(b)>> ELSE <<IntentRow(b), DataRow(b)>>

PaidRead(r, b) ==
  /\ source[b] = "MANUAL" /\ status[b] = "AWAITING_PAYMENT"
  /\ Start(r, "paid", [NoCtx EXCEPT !.target = b], PaidRows(b))
  /\ UNCHANGED <<bookingVars, redemptionVars, intentVars, cardVars, worldVars,
                 refunds, placeVars>>

PaidCommit(r) ==
  /\ Ready(r, "paid")
  /\ LET b == ctx[r].target IN
     /\ IF intent[b] = "ABSENT" THEN UNCHANGED intentVars
        ELSE /\ intent' = [intent EXCEPT ![b] = "SUCCEEDED"]
             /\ confirmed' = [confirmed EXCEPT ![b] = TRUE]
     /\ status' = [status EXCEPT ![b] = "CONFIRMED"]
     /\ due' = [due EXCEPT ![b] = 0]
     /\ Revived(r, b)
  /\ End(r)
  /\ UNCHANGED <<slot, seat, source, deposit, redemptionVars, cardVars, worldVars, refunds>>

-----------------------------------------------------------------------------
(***************************************************************************)
(* The Paystack webhook.  Events come in any order and any number of       *)
(* times: "success", "mismatch" (a success of another amount or currency)  *)
(* and "failure" (charge.failed, charge.reversed).                         *)
(***************************************************************************)

StatusOf(o) == IF o \in Booking THEN status[o] ELSE cardStatus[o]

\* What the handler makes of event ev from the intent as it reads it.
Verdict(o, ev) ==
  IF ev = "failure" THEN "fail"
  ELSE IF intent[o] = "SUCCEEDED" THEN "ignore"
  ELSE IF ev = "mismatch" THEN "fail" ELSE "settle"

\* A success always updates what was paid for; a failure only if it still waits.
TouchesOwner(verdict, st) ==
  verdict = "settle" \/ (verdict = "fail" /\ st \in {"AWAITING_PAYMENT", "PENDING_PAYMENT"})
OwnerRows(o, verdict) ==
  IF TouchesOwner(verdict, StatusOf(o)) THEN <<DataRow(o)>> ELSE <<>>

\* The data the handler keeps from its read of the intent and its owner.
HookCtx(o, ev) ==
  [NoCtx EXCEPT !.target = o, !.seen = StatusOf(o), !.will = Verdict(o, ev),
                !.bal = IF o \in Card THEN balance[o] ELSE 0]

\* The event carries the reference on record.
HookRead(r, o, ev) ==
  /\ intent[o] # "ABSENT" /\ Verdict(o, ev) # "ignore"
  /\ Start(r, "hook", HookCtx(o, ev), <<IntentRow(o)>> \o OwnerRows(o, Verdict(o, ev)))
  /\ UNCHANGED <<bookingVars, redemptionVars, intentVars, cardVars, worldVars,
                 refunds, placeVars>>

\* The event carries another reference and is recognised by its metadata: providerRef
\* is updated first, which locks the intent, and the intent is then read again.
HookRebind(r, o, ev) ==
  /\ intent[o] # "ABSENT"
  /\ Start(r, "rebind", [NoCtx EXCEPT !.target = o, !.will = ev], <<IntentRow(o)>>)
  /\ UNCHANGED <<bookingVars, redemptionVars, intentVars, cardVars, worldVars,
                 refunds, placeVars>>

HookReread(r) ==
  /\ Ready(r, "rebind")
  /\ LET o == ctx[r].target
         ev == ctx[r].will
     IN IF Verdict(o, ev) = "ignore" THEN End(r) /\ NotFilled(r)
        ELSE GoOn(r, "hook", HookCtx(o, ev), OwnerRows(o, Verdict(o, ev))) /\ UNCHANGED stale
  /\ UNCHANGED <<bookingVars, redemptionVars, intentVars, cardVars, worldVars,
                 refunds, unchecked>>

\* handleChargeSuccess: the intent SUCCEEDED, the booking CONFIRMED or the card ACTIVE.
SettleCommit(r) ==
  /\ Ready(r, "hook") /\ ctx[r].will = "settle"
  /\ LET o == ctx[r].target IN
     /\ intent' = [intent EXCEPT ![o] = "SUCCEEDED"]
     /\ confirmed' = [confirmed EXCEPT ![o] = TRUE]
     /\ IF o \in Booking
          THEN /\ status' = [status EXCEPT ![o] = "CONFIRMED"]
               /\ Revived(r, o)
               /\ UNCHANGED cardVars
          ELSE /\ cardStatus' = [cardStatus EXCEPT ![o] = "ACTIVE"]
               /\ balance' = [balance EXCEPT ![o] = IF ctx[r].bal > 0 THEN ctx[r].bal
                                                                      ELSE CardValue]
               /\ NotFilled(r) /\ UNCHANGED <<status, unchecked>>
  /\ End(r)
  /\ UNCHANGED <<slot, seat, source, deposit, due, redemptionVars, worldVars, refunds>>

\* markIntentFailure: the intent FAILED, and what waited for it CANCELLED.
FailCommit(r) ==
  /\ Ready(r, "hook") /\ ctx[r].will = "fail"
  /\ LET o == ctx[r].target
         touches == TouchesOwner("fail", ctx[r].seen)
     IN
     /\ intent' = [intent EXCEPT ![o] = "FAILED"]
     /\ status' = IF touches /\ o \in Booking
                    THEN [status EXCEPT ![o] = "CANCELLED"] ELSE status
     /\ IF touches /\ o \in Card
          THEN /\ cardStatus' = [cardStatus EXCEPT ![o] = "CANCELLED"]
               /\ balance' = [balance EXCEPT ![o] = 0]
          ELSE UNCHANGED cardVars
  /\ End(r) /\ NotFilled(r)
  /\ UNCHANGED <<slot, seat, source, deposit, due, redemptionVars, confirmed,
                 worldVars, refunds, unchecked>>

-----------------------------------------------------------------------------
(***************************************************************************)
(* Buying and looking up a gift card; the vendor's seats; time.            *)
(***************************************************************************)

\* createGiftCardPurchase inserts the card, then, in a second write, its intent.
Purchase(r, c) ==
  /\ cardStatus[c] = "ABSENT"
  /\ Start(r, "purchase", [NoCtx EXCEPT !.target = c], <<>>)
  /\ cardStatus' = [cardStatus EXCEPT ![c] = "PENDING_PAYMENT"]
  /\ balance' = [balance EXCEPT ![c] = CardValue]
  /\ UNCHANGED <<bookingVars, redemptionVars, intentVars, worldVars, refunds, placeVars>>

PurchaseIntent(r) ==
  /\ pc[r] = "purchase"
  /\ intent' = [intent EXCEPT ![ctx[r].target] = "REQUIRES_PAYMENT_METHOD"]
  /\ End(r) /\ NotFilled(r)
  /\ UNCHANGED <<bookingVars, redemptionVars, confirmed, cardVars, worldVars,
                 refunds, unchecked>>

\* getGiftCardForPublic, a single UPDATE of its own, whatever the card's status.
LookupExpired(c) ==
  /\ c \in expired /\ cardStatus[c] \notin {"ABSENT", "EXPIRED"}
  /\ lock[DataRow(c)] = Nobody
  /\ cardStatus' = [cardStatus EXCEPT ![c] = "EXPIRED"]
  /\ UNCHANGED <<bookingVars, redemptionVars, intentVars, balance, worldVars,
                 requestVars, refunds, placeVars>>

Expire(c) ==
  /\ c \notin expired
  /\ expired' = expired \cup {c}
  /\ UNCHANGED <<bookingVars, redemptionVars, intentVars, cardVars, activeSeats, now,
                 requestVars, refunds, placeVars>>

\* createSeat, and archiveSeat or updateSeat with isActive.
ChangeSeats(s) ==
  /\ activeSeats' = IF s \in activeSeats THEN activeSeats \ {s} ELSE activeSeats \cup {s}
  /\ calls < MaxCalls /\ calls' = calls + 1
  /\ UNCHANGED <<bookingVars, redemptionVars, intentVars, cardVars, expired, now,
                 pc, ctx, plan, lock, refunds, placeVars>>

Tick ==
  /\ now < MaxNow
  /\ now' = now + 1
  /\ UNCHANGED <<bookingVars, redemptionVars, intentVars, cardVars, expired, activeSeats,
                 requestVars, refunds, placeVars>>

-----------------------------------------------------------------------------
Init ==
  /\ status = [b \in Booking |-> "ABSENT"]
  /\ slot = [b \in Booking |-> 0]
  /\ seat = [b \in Booking |-> NoSeat]
  /\ source = [b \in Booking |-> "ONLINE"]
  /\ deposit = [b \in Booking |-> 0]
  /\ due = [b \in Booking |-> 0]
  /\ gift = [b \in Booking |-> NoCard]
  /\ redeemed = [b \in Booking |-> 0]
  /\ redemption = [b \in Booking |-> "none"]
  /\ intent = [o \in Owner |-> IF o \in PaidCards THEN "SUCCEEDED" ELSE "ABSENT"]
  /\ confirmed = [o \in Owner |-> o \in PaidCards]
  /\ cardStatus = [c \in Card |-> IF c \in PaidCards THEN "ACTIVE" ELSE "ABSENT"]
  /\ balance = [c \in Card |-> IF c \in PaidCards THEN CardValue ELSE 0]
  /\ expired = {} /\ activeSeats = SeatsAtStart /\ now = 0
  /\ pc = [r \in Req |-> "idle"]
  /\ ctx = [r \in Req |-> NoCtx]
  /\ plan = [r \in Req |-> <<>>]
  /\ lock = [w \in Row |-> Nobody]
  /\ calls = 0
  /\ refunds = [b \in Booking |-> 0] /\ unchecked = {} /\ stale = {}

\* A request r begins.
Begin(r) ==
  \/ \E b \in Booking, t \in Slot, s \in Seat \cup {NoSeat}, src \in {"ONLINE", "MANUAL"},
        dep \in {0, Deposit}, c \in Card \cup {NoCard} : CreateCheck(r, b, t, s, src, dep, c)
  \/ \E b \in Booking : CancelRead(r, b) \/ PaidRead(r, b)
  \/ \E b \in Booking, t \in Slot : RescheduleRead(r, b, t)
  \/ \E b \in Booking, to \in {"COMPLETED", "NO_SHOW"} : FinishRead(r, b, to)
  \/ \E o \in Owner, ev \in {"success", "mismatch", "failure"} :
       HookRead(r, o, ev) \/ HookRebind(r, o, ev)
  \/ \E c \in Card : Purchase(r, c)

\* A request r that has begun takes its next step.
Continue(r) ==
  \/ RedeemRead(r) \/ CreateCommit(r)
  \/ RefundRead(r) \/ CancelCommit(r)
  \/ RescheduleCheck(r) \/ RescheduleCommit(r)
  \/ FinishCommit(r) \/ PaidCommit(r)
  \/ HookReread(r) \/ SettleCommit(r) \/ FailCommit(r)
  \/ PurchaseIntent(r)

Environment ==
  \/ \E c \in Card : LookupExpired(c) \/ Expire(c)
  \/ \E s \in Seat : ChangeSeats(s)
  \/ Tick

Next ==
  \/ \E r \in Req : Begin(r) \/ Lock(r) \/ Continue(r) \/ Abort(r)
  \/ Environment

Spec == Init /\ [][Next]_vars
=============================================================================
