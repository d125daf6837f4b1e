------------------------- MODULE BookingsProperties -------------------------
(***************************************************************************)
(* What the booking desk of module Bookings must guarantee, whatever the   *)
(* interleaving of its requests and the order of the webhook's events, and *)
(* what its documents promise.                                             *)
(***************************************************************************)
EXTENDS Bookings, FiniteSetsExt

Stage == {"idle", "create", "redeem", "cancel", "refund", "reschedule", "move",
          "finish", "paid", "hook", "rebind", "purchase"}
CtxWill == {"none", "COMPLETED", "NO_SHOW", "success", "mismatch", "failure",
            "settle", "fail"}
CtxType ==
  [target : Owner \cup {Nobody}, slot : Nat, seat : Seat \cup {NoSeat},
   source : {"ONLINE", "MANUAL"}, dep : 0 .. Price, card : Card \cup {NoCard},
   bal : Nat, seen : BookingStatus \cup GiftCardStatus,
   will : CtxWill]

\* The columns, the requests' data and the locks keep their types; amounts of money
\* in particular never become negative.
TypeOK ==
  /\ status \in [Booking -> BookingStatus] /\ slot \in [Booking -> Nat]
  /\ seat \in [Booking -> Seat \cup {NoSeat}] /\ source \in [Booking -> {"ONLINE", "MANUAL"}]
  /\ deposit \in [Booking -> Nat] /\ due \in [Booking -> Nat]
  /\ gift \in [Booking -> Card \cup {NoCard}] /\ redeemed \in [Booking -> Nat]
  /\ redemption \in [Booking -> {"none", "applied", "refunded"}]
  /\ intent \in [Owner -> PaymentStatus] /\ confirmed \in [Owner -> BOOLEAN]
  /\ cardStatus \in [Card -> GiftCardStatus] /\ balance \in [Card -> Nat]
  /\ expired \subseteq Card /\ activeSeats \subseteq Seat /\ now \in Nat
  /\ pc \in [Req -> Stage] /\ ctx \in [Req -> CtxType]
  /\ plan \in [Req -> Seq(Row)] /\ lock \in [Row -> Req \cup {Nobody}]
  /\ calls \in Nat /\ refunds \in [Booking -> Nat]
  /\ unchecked \subseteq Booking /\ stale \subseteq Req

-----------------------------------------------------------------------------
\* A booking whose deposit goes through Paystack is CONFIRMED, COMPLETED or NO_SHOW
\* only once its payment has been confirmed, although completing, marking paid and
\* the webhook each act on a status they read earlier.
ConfirmedOnlyAfterPayment ==
  \A b \in Booking :
    status[b] \in {"CONFIRMED", "COMPLETED", "NO_SHOW"} /\ intent[b] # "ABSENT"
      => confirmed[b]

\* Deposit, rest due and gift card make up the price, until a manual booking's
\* payment settles the rest; and there is a payment intent exactly when something of
\* the deposit was left to pay.
BookingMoneyAddsUp ==
  \A b \in Booking : status[b] # "ABSENT" =>
    /\ \/ deposit[b] + due[b] + redeemed[b] = Price
       \/ source[b] = "MANUAL" /\ due[b] = 0 /\ confirmed[b]
    /\ intent[b] # "ABSENT" <=> deposit[b] > 0

\* A card that can be redeemed has money on it, one marked used up has none, and one
\* that waits for its payment has its face value, although redemptions, refunds and
\* the webhook write balance and status from what they read before.
CardStatusMatchesBalance ==
  \A c \in Card :
    /\ cardStatus[c] = "ACTIVE" => balance[c] > 0
    /\ cardStatus[c] = "DEPLETED" => balance[c] = 0
    /\ cardStatus[c] = "PENDING_PAYMENT" => balance[c] = CardValue

\* A card is redeemed, or can be, only once its own payment was confirmed: no purchase that
\* stops half-way, no event, no expiry, and no redemption or refund that writes a status it
\* worked out from an earlier read makes a card out of one that was never paid.
OnlyPaidCardsSpent ==
  /\ \A c \in Card : cardStatus[c] \in {"ACTIVE", "DEPLETED"} => confirmed[c]
  /\ \A b \in Booking : gift[b] # NoCard => confirmed[gift[b]]

\* What a booking took from a gift card is given back at most once, although
\* cancellations can overlap and a late payment can revive a cancelled booking.
RefundAtMostOnce == \A b \in Booking : refunds[b] <= 1

\* A cancelled booking that has not given back what it took from a gift card lost its
\* place to a failed payment: no cancellation that anybody asks for, however it
\* overlaps with payments and other cancellations, keeps a customer's money
\* (README.md:90, "Cancelled bookings auto-refund any gift card redemptions").
UnrefundedOnlyByFailedPayment ==
  \A b \in Booking :
    status[b] = "CANCELLED" /\ redemption[b] = "applied" => intent[b] = "FAILED"

Overbooked(t) ==
  \/ OnSeat(NoSeat, t) # {} /\ Cardinality(Occupants(t)) > 1
  \/ \E s \in Seat : Cardinality(OnSeat(s, t)) > Capacity

\* A slot is overbooked only through a booking that took its place without a check
\* against what was then committed: two checks that overlapped, or a payment that
\* revived a released booking.  No other sequence of creations, moves, releases and
\* changes of seats overbooks one.
OverbookedOnlyUnchecked ==
  \A t \in Slot : Overbooked(t) => Occupants(t) \cap unchecked # {}

\* r waits for a row that q has locked.
Waits(r, q) == r # q /\ plan[r] # <<>> /\ lock[Head(plan[r])] = q

\* No group of requests waits for one another: all lock payment intents before
\* bookings and bookings before gift cards.
NoDeadlock ==
  \A S \in SUBSET Req :
    S # {} => \E r \in S : \A q \in S : ~Waits(r, q)

-----------------------------------------------------------------------------
(***************************************************************************)
(* The desk implements AbstractDesk: requests, locks and amounts are       *)
(* hidden, and the commits are its deals.                                  *)
(***************************************************************************)

PhaseOf(st) ==
  CASE st = "ABSENT" -> "free"
    [] st = "AWAITING_PAYMENT" -> "waiting"
    [] st = "CONFIRMED" -> "confirmed"
    [] st \in {"COMPLETED", "NO_SHOW"} -> "over"
    [] st = "CANCELLED" -> "released"
PaidOf(b) ==
  IF intent[b] = "ABSENT" THEN "nothing" ELSE IF confirmed[b] THEN "paid" ELSE "open"
ClaimOf(b) ==
  CASE redemption[b] = "none" -> "none"
    [] redemption[b] = "applied" -> "held"
    [] redemption[b] = "refunded" -> "returned"

Desk == INSTANCE AbstractDesk WITH
  phase <- [b \in Booking |-> PhaseOf(status[b])],
  paid <- [b \in Booking |-> PaidOf(b)],
  claim <- [b \in Booking |-> ClaimOf(b)]

\* Although every handler acts on what it read before, its commit is one deal of the
\* abstract desk at the state it meets: nothing is over before its deposit is paid, no
\* cancellation splits from its refund, and a booking that exists is never made anew.
DeskImplemented == Desk!Spec

-----------------------------------------------------------------------------
\* PostgreSQL queues the waiters of a row, and Node.js runs every pending callback.
Fairness == \A r \in Req : SF_vars(Lock(r)) /\ WF_vars(Continue(r))
FairSpec == Spec /\ Fairness

\* Every request that begins ends, whatever it waits for.
RequestsEnd == \A r \in Req : pc[r] # "idle" ~> pc[r] = "idle"

-----------------------------------------------------------------------------
(***************************************************************************)
(* A promise of the documents that the code does not keep.                 *)
(***************************************************************************)

\* README.md:90, "unused balances stay on the card": what is on a card that was
\* bought once and what bookings have taken from it make up its value.
TakenFrom(c) == {b \in Booking : gift[b] = c /\ redemption[b] = "applied"}
CardValueConserved ==
  \A c \in Card : cardStatus[c] \in {"ACTIVE", "DEPLETED"} =>
    balance[c] + MapThenSumSet(LAMBDA b : redeemed[b], TakenFrom(c)) = CardValue
=============================================================================
