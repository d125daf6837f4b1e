--------------------------- MODULE BookingsProofs ---------------------------
(***************************************************************************)
(* Safety of the booking desk for every number of bookings, cards and      *)
(* concurrent requests, and that it implements AbstractDesk.  The          *)
(* invariant is built in layers: types and what each stage's local data    *)
(* are (TypeInv), the privacy of a booking that is being created           *)
(* (CreationInv), then payments (PaymentInv), refunds (RefundInv) and what *)
(* a cancellation leaves on the card (UnrefundedInv), which all rest on    *)
(* it; then the refinement, the amounts of bookings and cards (MoneyInv,   *)
(* CardInv), the order of locks (OrderInv) and the seats (PlaceInv).       *)
(***************************************************************************)
EXTENDS BookingsProperties, TLAPS, FiniteSetTheorems, SequenceTheorems

USE AmountsAssumption, ClockAssumption, NamesAssumption

-----------------------------------------------------------------------------
(***************************************************************************)
(* Types.  TypeInv is TypeOK, cut into the parts that actions change       *)
(* together, with what the data of each stage are.                         *)
(***************************************************************************)

BookingStages == {"create", "redeem", "cancel", "refund", "reschedule", "move",
                  "finish", "paid"}

\* What the local data c of a request at a stage are.
DataOK(stage, c) ==
  /\ stage \in Stage /\ c \in CtxType
  /\ stage \in BookingStages => c.target \in Booking
  /\ stage \in {"hook", "rebind"} => c.target \in Owner
  /\ stage = "purchase" => c.target \in Card
  /\ stage = "redeem" => c.card \in Card
  /\ stage = "cancel" => c.card = NoCard
  /\ stage = "finish" => c.will \in {"COMPLETED", "NO_SHOW"}
  /\ stage = "refund" /\ c.card # NoCard => c.seen \in GiftCardStatus

RequestsOK ==
  /\ pc \in [Req -> Stage] /\ ctx \in [Req -> CtxType]
  /\ \A r \in Req : DataOK(pc[r], ctx[r])
  /\ plan \in [Req -> Seq(Row)] /\ lock \in [Row -> Req \cup {Nobody}]
  /\ calls \in Nat
BookingsOK ==
  /\ status \in [Booking -> BookingStatus] /\ slot \in [Booking -> Nat]
  /\ seat \in [Booking -> Seat \cup {NoSeat}] /\ source \in [Booking -> {"ONLINE", "MANUAL"}]
  /\ deposit \in [Booking -> Nat] /\ due \in [Booking -> Nat]
RedemptionsOK ==
  /\ gift \in [Booking -> Card \cup {NoCard}] /\ redeemed \in [Booking -> Nat]
  /\ redemption \in [Booking -> {"none", "applied", "refunded"}]
  /\ \A b \in Booking : redemption[b] # "none" => gift[b] \in Card
IntentsOK == intent \in [Owner -> PaymentStatus] /\ confirmed \in [Owner -> BOOLEAN]
CardsOK == cardStatus \in [Card -> GiftCardStatus] /\ balance \in [Card -> Nat]
WorldOK == expired \subseteq Card /\ activeSeats \subseteq Seat /\ now \in Nat
HistoryOK ==
  refunds \in [Booking -> Nat] /\ unchecked \subseteq Booking /\ stale \subseteq Req

TypeParts == /\ RequestsOK /\ BookingsOK /\ RedemptionsOK /\ IntentsOK /\ CardsOK
             /\ WorldOK /\ HistoryOK

\* A request that refunds a redemption found its gift card there.
RefundTargetsOK ==
  \A r \in Req :
    pc[r] = "refund" /\ ctx[r].card # NoCard => gift[ctx[r].target] \in Card

TypeInv == TypeParts /\ RefundTargetsOK

LEMMA TypeInvImpliesTypeOK == TypeInv => TypeOK
  BY DEF TypeInv, TypeParts, TypeOK, RequestsOK, BookingsOK, RedemptionsOK, IntentsOK, CardsOK,
         WorldOK, HistoryOK

\* An idle request's data have the right type.
LEMMA IdleOK == DataOK("idle", NoCtx)
  BY DEF DataOK, BookingStages, Stage, NoCtx, CtxType, CtxWill, BookingStatus

\* Updating fields of well-typed data.
LEMMA CtxTarget ==
  ASSUME NEW d \in CtxType, NEW o \in Owner
  PROVE  [d EXCEPT !.target = o] \in CtxType
  BY DEF CtxType
LEMMA CtxSlot ==
  ASSUME NEW d \in CtxType, NEW o \in Owner, NEW t \in Nat
  PROVE  [d EXCEPT !.target = o, !.slot = t] \in CtxType
  BY DEF CtxType
LEMMA CtxOutcome ==
  ASSUME NEW d \in CtxType, NEW o \in Owner, NEW w \in CtxWill
  PROVE  [d EXCEPT !.target = o, !.will = w] \in CtxType
  BY DEF CtxType
LEMMA CtxBalance ==
  ASSUME NEW d \in CtxType, NEW bal \in Nat
  PROVE  [d EXCEPT !.bal = bal] \in CtxType
  BY DEF CtxType
LEMMA CtxEvent ==
  ASSUME NEW d \in CtxType, NEW o \in Owner, NEW st \in BookingStatus \cup GiftCardStatus,
         NEW w \in CtxWill, NEW bal \in Nat
  PROVE  [d EXCEPT !.target = o, !.seen = st, !.will = w, !.bal = bal] \in CtxType
  BY DEF CtxType
LEMMA CtxCard ==
  ASSUME NEW d \in CtxType, NEW c \in Card, NEW bal \in Nat,
         NEW st \in BookingStatus \cup GiftCardStatus
  PROVE  [d EXCEPT !.card = c, !.bal = bal, !.seen = st] \in CtxType
  BY DEF CtxType
LEMMA CtxNewBooking ==
  ASSUME NEW d \in CtxType, NEW o \in Owner, NEW t \in Nat, NEW s \in Seat \cup {NoSeat},
         NEW src \in {"ONLINE", "MANUAL"}, NEW dep \in 0 .. Price, NEW c \in Card \cup {NoCard}
  PROVE  [d EXCEPT !.target = o, !.slot = t, !.seat = s, !.source = src, !.dep = dep,
                   !.card = c] \in CtxType
  BY DEF CtxType

\* Start keeps the requests well typed.
LEMMA StartType ==
  ASSUME NEW r \in Req, NEW stage, NEW c, NEW rows \in Seq(Row), RequestsOK,
         DataOK(stage, c), Start(r, stage, c, rows)
  PROVE  RequestsOK'
  <1>1. stage \in Stage /\ c \in CtxType
    BY DEF DataOK
  <1>2. \A q \in Req : DataOK(pc'[q], ctx'[q])
    BY <1>1 DEF RequestsOK, Start
  <1>3. QED BY <1>1, <1>2 DEF RequestsOK, Start

\* So does going on to another stage.
LEMMA GoOnType ==
  ASSUME NEW r \in Req, NEW stage, NEW c, NEW rows \in Seq(Row), RequestsOK,
         DataOK(stage, c), GoOn(r, stage, c, rows)
  PROVE  RequestsOK'
  <1>1. stage \in Stage /\ c \in CtxType
    BY DEF DataOK
  <1>2. \A q \in Req : DataOK(pc'[q], ctx'[q])
    BY <1>1 DEF RequestsOK, GoOn
  <1>3. QED BY <1>1, <1>2 DEF RequestsOK, GoOn

\* And ending.
LEMMA EndType ==
  ASSUME NEW r \in Req, RequestsOK, End(r)
  PROVE  RequestsOK'
  <1>1. "idle" \in Stage /\ NoCtx \in CtxType /\ <<>> \in Seq(Row)
    BY IdleOK DEF DataOK
  <1>2. \A q \in Req : DataOK(pc'[q], ctx'[q])
    BY IdleOK DEF RequestsOK, End
  <1>3. QED BY <1>1, <1>2 DEF RequestsOK, End

\* The history variables keep their types.
LEMMA HistoryType ==
  ASSUME NEW r \in Req, NEW b \in Booking, HistoryOK
  PROVE  /\ NotFilled(r) => stale' \subseteq Req
         /\ Placed(r, b) => stale' \subseteq Req /\ unchecked' \subseteq Booking
         /\ Revived(r, b) => stale' \subseteq Req /\ unchecked' \subseteq Booking
  BY DEF HistoryOK, NotFilled, Filled, Placed, Revived

\* What a gift card pays is at most what is on it, and at most what is asked for.
LEMMA AppliedBounds ==
  ASSUME NEW bal \in Nat, NEW dep \in 0 .. Price
  PROVE  /\ AppliedDeposit(bal, dep) \in 0 .. dep
         /\ AppliedBalance(bal, dep) \in 0 .. (Price - dep)
         /\ Applied(bal, dep) \in 0 .. bal
  BY DEF AppliedDeposit, AppliedBalance, Applied, Min2

\* A row's place in a plan.
LEMMA RowsOK ==
  ASSUME NEW o \in Owner
  PROVE  /\ <<>> \in Seq(Row)
         /\ IntentRow(o) \in Row /\ DataRow(o) \in Row
         /\ <<DataRow(o)>> \in Seq(Row) /\ <<IntentRow(o)>> \in Seq(Row)
         /\ <<IntentRow(o), DataRow(o)>> \in Seq(Row)
         /\ \A v : OwnerRows(o, v) \in Seq(Row)
         /\ \A v : <<IntentRow(o)>> \o OwnerRows(o, v) \in Seq(Row)
         /\ o \in Booking => PaidRows(o) \in Seq(Row)
  <1>1. IntentRow(o) \in Row /\ DataRow(o) \in Row
    BY DEF IntentRow, DataRow, Row
  <1> HIDE DEF IntentRow, DataRow
  <1>2. \A v : OwnerRows(o, v) \in Seq(Row)
    BY <1>1 DEF OwnerRows
  <1>3. \A v : <<IntentRow(o)>> \o OwnerRows(o, v) \in Seq(Row)
    BY <1>1, <1>2
  <1>4. QED BY <1>1, <1>2, <1>3 DEF PaidRows

\* What an action leaves alone keeps its type.
LEMMA Frames ==
  /\ RequestsOK /\ UNCHANGED requestVars => RequestsOK'
  /\ BookingsOK /\ UNCHANGED bookingVars => BookingsOK'
  /\ RedemptionsOK /\ UNCHANGED redemptionVars => RedemptionsOK'
  /\ IntentsOK /\ UNCHANGED intentVars => IntentsOK'
  /\ CardsOK /\ UNCHANGED cardVars => CardsOK'
  /\ WorldOK /\ UNCHANGED worldVars => WorldOK'
  /\ HistoryOK /\ UNCHANGED <<refunds, placeVars>> => HistoryOK'
  /\ HistoryOK /\ UNCHANGED <<refunds, unchecked>> /\ stale' \subseteq Req => HistoryOK'
  <1>1. RequestsOK /\ UNCHANGED requestVars => RequestsOK'
    BY DEF RequestsOK, requestVars
  <1>2. /\ BookingsOK /\ UNCHANGED bookingVars => BookingsOK'
        /\ RedemptionsOK /\ UNCHANGED redemptionVars => RedemptionsOK'
        /\ IntentsOK /\ UNCHANGED intentVars => IntentsOK'
        /\ CardsOK /\ UNCHANGED cardVars => CardsOK'
    BY DEF BookingsOK, bookingVars, RedemptionsOK, redemptionVars, IntentsOK, intentVars,
           CardsOK, cardVars
  <1>3. /\ WorldOK /\ UNCHANGED worldVars => WorldOK'
        /\ HistoryOK /\ UNCHANGED <<refunds, placeVars>> => HistoryOK'
        /\ HistoryOK /\ UNCHANGED <<refunds, unchecked>> /\ stale' \subseteq Req => HistoryOK'
    BY DEF WorldOK, worldVars, HistoryOK, placeVars
  <1>4. QED BY <1>1, <1>2, <1>3

\* What the webhook handler keeps of an intent and its owner.
LEMMA HookCtxOK ==
  ASSUME TypeInv, NEW o \in Owner, NEW ev, Verdict(o, ev) # "ignore"
  PROVE  DataOK("hook", HookCtx(o, ev))
  <1>1. StatusOf(o) \in BookingStatus \cup GiftCardStatus
    BY DEF TypeInv, TypeParts, BookingsOK, CardsOK, StatusOf, Owner
  <1>2. (IF o \in Card THEN balance[o] ELSE 0) \in Nat
    BY DEF TypeInv, TypeParts, CardsOK
  <1>3. Verdict(o, ev) \in {"fail", "settle"}
    BY DEF Verdict
  <1> DEFINE v == Verdict(o, ev)
             st == StatusOf(o)
             bal == IF o \in Card THEN balance[o] ELSE 0
  <1> HIDE DEF v, st, bal
  <1>4. HookCtx(o, ev) \in CtxType /\ HookCtx(o, ev).target = o
    <2>1. HookCtx(o, ev) = [NoCtx EXCEPT !.target = o, !.seen = st, !.will = v, !.bal = bal]
      BY DEF HookCtx, v, st, bal
    <2>2. v \in CtxWill /\ st \in BookingStatus \cup GiftCardStatus /\ bal \in Nat
      BY <1>1, <1>2, <1>3 DEF v, st, bal, CtxWill
    <2>3. NoCtx \in CtxType
      BY IdleOK DEF DataOK
    <2> HIDE DEF NoCtx, CtxType
    <2>4. [NoCtx EXCEPT !.target = o, !.seen = st, !.will = v, !.bal = bal] \in CtxType
      BY <2>2, <2>3, CtxEvent, Zenon
    <2>5. QED BY <2>1, <2>4, SMT DEF NoCtx
  <1>5. QED BY <1>4 DEF DataOK, Stage, BookingStages

\* The steps that begin a request only give it well-typed data.
LEMMA BeginType ==
  ASSUME NEW r \in Req, TypeInv, Begin(r)
  PROVE  TypeParts'
  <1> USE DEF TypeInv, TypeParts
  <1>1. NoCtx \in CtxType
    BY IdleOK DEF DataOK
  <1>2. ASSUME NEW b \in Booking, NEW t \in Slot, NEW s \in Seat \cup {NoSeat},
               NEW src \in {"ONLINE", "MANUAL"}, NEW dep \in {0, Deposit},
               NEW c \in Card \cup {NoCard}, CreateCheck(r, b, t, s, src, dep, c)
        PROVE  TypeParts'
    <2> DEFINE data == [NoCtx EXCEPT !.target = b, !.slot = t, !.seat = s,
                                     !.source = src, !.dep = dep, !.card = c]
    <2>1. data \in CtxType
      <3>1. b \in Owner /\ t \in Nat /\ dep \in 0 .. Price
        BY DEF Owner
      <3>2. QED BY <1>1, <3>1, CtxNewBooking, Zenon
    <2> DEFINE stage == IF c = NoCard THEN "create" ELSE "redeem"
    <2>2. DataOK(stage, data)
      BY <2>1 DEF DataOK, Stage, BookingStages, NoCtx
    <2>3. Start(r, stage, data, <<>>)
      BY <1>2 DEF CreateCheck
    <2>4. <<>> \in Seq(Row)
      OBVIOUS
    <2> HIDE DEF data, stage
    <2>5. RequestsOK'
      BY <2>2, <2>3, <2>4, StartType
    <2>6. QED BY <1>2, <2>5, Frames DEF CreateCheck
  <1>3. ASSUME NEW b \in Booking, CancelRead(r, b) PROVE TypeParts'
    <2>1. DataOK("cancel", [NoCtx EXCEPT !.target = b])
      BY <1>1, CtxTarget, CtxSlot, CtxOutcome DEF DataOK, Stage, BookingStages, NoCtx, Owner, CtxWill
    <2>2. RequestsOK'
      BY <1>3, <2>1, StartType, RowsOK DEF CancelRead, Owner
    <2>3. QED BY <1>3, <2>2, Frames DEF CancelRead
  <1>4. ASSUME NEW b \in Booking, PaidRead(r, b) PROVE TypeParts'
    <2>1. DataOK("paid", [NoCtx EXCEPT !.target = b])
      BY <1>1, CtxTarget, CtxSlot, CtxOutcome DEF DataOK, Stage, BookingStages, NoCtx, Owner, CtxWill
    <2>2. RequestsOK'
      BY <1>4, <2>1, StartType, RowsOK DEF PaidRead, Owner
    <2>3. QED BY <1>4, <2>2, Frames DEF PaidRead
  <1>5. ASSUME NEW b \in Booking, NEW t \in Slot, RescheduleRead(r, b, t) PROVE TypeParts'
    <2>1. DataOK("reschedule", [NoCtx EXCEPT !.target = b, !.slot = t])
      BY <1>1, CtxTarget, CtxSlot, CtxOutcome DEF DataOK, Stage, BookingStages, NoCtx, Owner, CtxWill
    <2>2. RequestsOK'
      BY <1>5, <2>1, StartType, RowsOK DEF RescheduleRead, Owner
    <2>3. QED BY <1>5, <2>2, Frames DEF RescheduleRead
  <1>6. ASSUME NEW b \in Booking, NEW to \in {"COMPLETED", "NO_SHOW"}, FinishRead(r, b, to)
        PROVE  TypeParts'
    <2>1. DataOK("finish", [NoCtx EXCEPT !.target = b, !.will = to])
      BY <1>1, CtxTarget, CtxSlot, CtxOutcome DEF DataOK, Stage, BookingStages, NoCtx, Owner, CtxWill
    <2>2. RequestsOK'
      BY <1>6, <2>1, StartType, RowsOK DEF FinishRead, Owner
    <2>3. QED BY <1>6, <2>2, Frames DEF FinishRead
  <1>7. ASSUME NEW o \in Owner, NEW ev \in {"success", "mismatch", "failure"},
               HookRead(r, o, ev)
        PROVE  TypeParts'
    <2>1. DataOK("hook", HookCtx(o, ev))
      BY <1>7, HookCtxOK DEF HookRead
    <2>2. RequestsOK'
      BY <1>7, <2>1, StartType, RowsOK DEF HookRead
    <2>3. QED BY <1>7, <2>2, Frames DEF HookRead
  <1>8. ASSUME NEW o \in Owner, NEW ev \in {"success", "mismatch", "failure"},
               HookRebind(r, o, ev)
        PROVE  TypeParts'
    <2>1. DataOK("rebind", [NoCtx EXCEPT !.target = o, !.will = ev])
      BY <1>1, CtxTarget, CtxSlot, CtxOutcome DEF DataOK, Stage, BookingStages, NoCtx, Owner, CtxWill
    <2>2. RequestsOK'
      BY <1>8, <2>1, StartType, RowsOK DEF HookRebind
    <2>3. QED BY <1>8, <2>2, Frames DEF HookRebind
  <1>9. ASSUME NEW c \in Card, Purchase(r, c) PROVE TypeParts'
    <2>1. DataOK("purchase", [NoCtx EXCEPT !.target = c])
      BY <1>1, CtxTarget, CtxSlot, CtxOutcome DEF DataOK, Stage, BookingStages, NoCtx, Owner, CtxWill
    <2>2. RequestsOK'
      BY <1>9, <2>1, StartType, RowsOK DEF Purchase, Owner
    <2>3. CardsOK'
      BY <1>9 DEF Purchase, CardsOK, GiftCardStatus
    <2>4. QED BY <1>9, <2>2, <2>3, Frames DEF Purchase
  <1>10. QED
    BY <1>2, <1>3, <1>4, <1>5, <1>6, <1>7, <1>8, <1>9 DEF Begin

\* Creating a booking writes well-typed rows.
LEMMA CreateCommitType ==
  ASSUME NEW r \in Req, TypeInv, CreateCommit(r)
  PROVE  TypeParts'
  <1> USE DEF TypeInv, TypeParts
  <1> DEFINE b == ctx[r].target
             c == ctx[r].card
             bal == ctx[r].bal
             total == ctx[r].dep
             left == total - AppliedDeposit(bal, total)
             used == Applied(bal, total)
  <1>1. /\ b \in Booking /\ c \in Card \cup {NoCard} /\ bal \in Nat /\ total \in 0 .. Price
        /\ ctx[r].slot \in Nat /\ ctx[r].seat \in Seat \cup {NoSeat}
        /\ ctx[r].source \in {"ONLINE", "MANUAL"}
    BY DEF CreateCommit, Ready, RequestsOK, DataOK, CtxType, BookingStages
  <1>2. /\ left \in Nat /\ used \in Nat /\ bal - used \in Nat
        /\ RestDue(bal, total) \in Nat
    <2>1. /\ AppliedDeposit(bal, total) \in 0 .. total
          /\ AppliedBalance(bal, total) \in 0 .. (Price - total)
          /\ Applied(bal, total) \in 0 .. bal
      BY <1>1, AppliedBounds
    <2>2. QED BY <1>1, <2>1 DEF RestDue
  <1>3. BookingsOK'
    BY <1>1, <1>2 DEF CreateCommit, BookingsOK, BookingStatus
  <1>4. RedemptionsOK'
    BY <1>1, <1>2 DEF CreateCommit, RedemptionsOK, redemptionVars
  <1>5. IntentsOK'
    BY DEF CreateCommit, IntentsOK, PaymentStatus
  <1>6. CardsOK'
    BY <1>1, <1>2 DEF CreateCommit, CardsOK, cardVars, StatusAfterRedemption, GiftCardStatus
  <1>7. HistoryOK'
    BY <1>1, HistoryType DEF CreateCommit, HistoryOK
  <1>8. RequestsOK'
    BY EndType DEF CreateCommit
  <1>9. WorldOK'
    BY Frames DEF CreateCommit
  <1>10. QED BY <1>3, <1>4, <1>5, <1>6, <1>7, <1>8, <1>9

\* A step of a request in progress other than a creation's commit.
LEMMA ContinueType ==
  ASSUME NEW r \in Req, TypeInv, Continue(r)
  PROVE  TypeParts'
  <1> USE DEF TypeInv, TypeParts
  <1>1. /\ ctx[r] \in CtxType /\ pc[r] \in Stage /\ DataOK(pc[r], ctx[r])
        /\ ctx[r].bal \in Nat /\ ctx[r].slot \in Nat
    BY DEF RequestsOK, CtxType
  <1>2. CASE RedeemRead(r)
    <2>1. CASE Usable(ctx[r].card)
      <3>1. ctx[r].card \in Card /\ ctx[r].card \in Owner /\ balance[ctx[r].card] \in Nat
        BY <1>1, <1>2 DEF RedeemRead, DataOK, CardsOK, Owner
      <3>2. DataOK("create", [ctx[r] EXCEPT !.bal = balance[ctx[r].card]])
        BY <1>1, <1>2, <3>1, CtxBalance DEF RedeemRead, DataOK, BookingStages, Stage, CtxType
      <3>3. RequestsOK'
        BY <1>2, <2>1, <3>1, <3>2, GoOnType, RowsOK DEF RedeemRead
      <3>4. HistoryOK'
        BY <1>2, <2>1 DEF RedeemRead, HistoryOK
      <3>5. QED BY <1>2, <3>3, <3>4, Frames DEF RedeemRead
    <2>2. CASE ~Usable(ctx[r].card)
      <3>1. RequestsOK'
        BY <1>2, <2>2, EndType DEF RedeemRead
      <3>2. HistoryOK'
        BY <1>2, <2>2 DEF RedeemRead, HistoryOK, NotFilled
      <3>3. QED BY <1>2, <3>1, <3>2, Frames DEF RedeemRead
    <2>3. QED BY <2>1, <2>2
  <1>3. CASE CreateCommit(r)
    BY <1>3, CreateCommitType
  <1>4. CASE RefundRead(r)
    <2> DEFINE b == ctx[r].target
               c == gift[b]
    <2>1. b \in Booking
      BY <1>1, <1>4 DEF RefundRead, Ready, DataOK, BookingStages
    <2>2. CASE Refundable(b)
      <3>1. c \in Card /\ c \in Owner /\ balance[c] \in Nat /\ cardStatus[c] \in GiftCardStatus
        BY <2>1, <2>2 DEF Refundable, RedemptionsOK, CardsOK, Owner
      <3> DEFINE data == [ctx[r] EXCEPT !.card = c, !.bal = balance[c], !.seen = cardStatus[c]]
      <3>2. data \in CtxType
        BY <1>1, <3>1, CtxCard
      <3>3. DataOK("refund", data)
        BY <1>1, <2>1, <3>1, <3>2 DEF DataOK, BookingStages, Stage, CtxType
      <3>4. RequestsOK'
        BY <1>4, <2>2, <3>1, <3>3, GoOnType, RowsOK DEF RefundRead
      <3>5. QED BY <1>4, <3>4, Frames DEF RefundRead
    <2>3. CASE ~Refundable(b)
      <3>1. DataOK("refund", ctx[r])
        BY <1>1, <1>4, <2>1 DEF RefundRead, Ready, DataOK, BookingStages, Stage
      <3>2. <<>> \in Seq(Row)
        OBVIOUS
      <3>3. RequestsOK'
        BY <1>4, <2>3, <3>1, <3>2, GoOnType DEF RefundRead
      <3>4. QED BY <1>4, <3>3, Frames DEF RefundRead
    <2>4. QED BY <2>2, <2>3
  <1>5. CASE CancelCommit(r)
    <2>1. /\ ctx[r].target \in Booking /\ ctx[r].card \in Card \cup {NoCard}
          /\ ctx[r].card # NoCard => ctx[r].seen \in GiftCardStatus
      BY <1>1, <1>5 DEF CancelCommit, Ready, DataOK, BookingStages, CtxType
    <2>2. BookingsOK'
      BY <1>5, <2>1 DEF CancelCommit, BookingsOK, BookingStatus
    <2>3. RedemptionsOK'
      BY <1>5, <2>1 DEF CancelCommit, Ready, RedemptionsOK, RefundTargetsOK
    <2>4. CardsOK'
      BY <1>1, <1>5, <2>1 DEF CancelCommit, CardsOK, cardVars, RedemptionsOK,
                              StatusAfterRefund, GiftCardStatus
    <2>5. HistoryOK'
      BY <1>5, <2>1 DEF CancelCommit, HistoryOK, NotFilled
    <2>6. QED BY <1>5, <2>2, <2>3, <2>4, <2>5, EndType, Frames DEF CancelCommit
  <1>6. CASE RescheduleCheck(r)
    <2>1. ctx[r].target \in Booking /\ ctx[r].target \in Owner
      BY <1>1, <1>6 DEF RescheduleCheck, DataOK, BookingStages, Owner
    <2>2. DataOK("move", ctx[r])
      BY <1>1, <2>1 DEF DataOK, BookingStages, Stage
    <2>3. RequestsOK'
      BY <1>6, <2>1, <2>2, GoOnType, EndType, RowsOK DEF RescheduleCheck
    <2>4. stale' \subseteq Req
      BY <1>6 DEF RescheduleCheck, HistoryOK, NotFilled
    <2>5. QED BY <1>6, <2>3, <2>4, Frames DEF RescheduleCheck
  <1>7. CASE RescheduleCommit(r)
    <2>1. ctx[r].target \in Booking
      BY <1>1, <1>7 DEF RescheduleCommit, Ready, DataOK, BookingStages
    <2>2. BookingsOK'
      BY <1>1, <1>7, <2>1 DEF RescheduleCommit, BookingsOK
    <2>3. HistoryOK'
      BY <1>7, <2>1, HistoryType DEF RescheduleCommit, HistoryOK
    <2>4. QED BY <1>7, <2>2, <2>3, EndType, Frames DEF RescheduleCommit
  <1>8. CASE FinishCommit(r)
    <2>1. ctx[r].will \in BookingStatus
      BY <1>1, <1>8 DEF FinishCommit, Ready, DataOK, BookingStatus
    <2>2. BookingsOK'
      BY <1>8, <2>1 DEF FinishCommit, BookingsOK
    <2>3. HistoryOK'
      BY <1>8 DEF FinishCommit, HistoryOK, NotFilled
    <2>4. QED BY <1>8, <2>2, <2>3, EndType, Frames DEF FinishCommit
  <1>9. CASE PaidCommit(r)
    <2>1. ctx[r].target \in Booking
      BY <1>1, <1>9 DEF PaidCommit, Ready, DataOK, BookingStages
    <2>2. BookingsOK'
      BY <1>9, <2>1 DEF PaidCommit, BookingsOK, BookingStatus
    <2>3. IntentsOK'
      BY <1>9 DEF PaidCommit, IntentsOK, intentVars, PaymentStatus
    <2>4. HistoryOK'
      BY <1>9, <2>1, HistoryType DEF PaidCommit, HistoryOK
    <2>5. QED BY <1>9, <2>2, <2>3, <2>4, EndType, Frames DEF PaidCommit
  <1>10. CASE HookReread(r)
    <2> DEFINE o == ctx[r].target
               v == Verdict(o, ctx[r].will)
    <2>1. o \in Owner
      BY <1>1, <1>10 DEF HookReread, Ready, DataOK
    <2>2. CASE v = "ignore"
      <3>1. RequestsOK'
        BY <1>10, <2>2, EndType DEF HookReread
      <3>2. stale' \subseteq Req
        BY <1>10, <2>2 DEF HookReread, HistoryOK, NotFilled
      <3>3. QED BY <1>10, <3>1, <3>2, Frames DEF HookReread
    <2>3. CASE v # "ignore"
      <3>1. DataOK("hook", HookCtx(o, ctx[r].will))
        BY <2>1, <2>3, HookCtxOK
      <3>2. RequestsOK'
        BY <1>10, <2>1, <2>3, <3>1, GoOnType, RowsOK DEF HookReread
      <3>3. stale' \subseteq Req
        BY <1>10, <2>3 DEF HookReread, HistoryOK
      <3>4. QED BY <1>10, <3>2, <3>3, Frames DEF HookReread
    <2>4. QED BY <2>2, <2>3
  <1>11. CASE SettleCommit(r)
    <2>1. BookingsOK'
      BY <1>11 DEF SettleCommit, BookingsOK, BookingStatus
    <2>2. IntentsOK'
      BY <1>11 DEF SettleCommit, IntentsOK, PaymentStatus
    <2>3. CardsOK'
      BY <1>1, <1>11 DEF SettleCommit, CardsOK, cardVars, GiftCardStatus
    <2>4. HistoryOK'
      <3>1. CASE ctx[r].target \in Booking
        BY <1>11, <3>1, HistoryType DEF SettleCommit, HistoryOK
      <3>2. CASE ctx[r].target \notin Booking
        BY <1>11, <3>2 DEF SettleCommit, HistoryOK, NotFilled
      <3>3. QED BY <3>1, <3>2
    <2>5. QED BY <1>11, <2>1, <2>2, <2>3, <2>4, EndType, Frames DEF SettleCommit
  <1>12. CASE FailCommit(r)
    <2>1. BookingsOK'
      BY <1>12 DEF FailCommit, BookingsOK, BookingStatus
    <2>2. IntentsOK'
      BY <1>12 DEF FailCommit, IntentsOK, PaymentStatus
    <2>3. CardsOK'
      BY <1>12 DEF FailCommit, CardsOK, cardVars, GiftCardStatus
    <2>4. stale' \subseteq Req
      BY <1>12 DEF FailCommit, HistoryOK, NotFilled
    <2>5. QED BY <1>12, <2>1, <2>2, <2>3, <2>4, EndType, Frames DEF FailCommit
  <1>13. CASE PurchaseIntent(r)
    <2>1. IntentsOK'
      BY <1>13 DEF PurchaseIntent, IntentsOK, PaymentStatus
    <2>2. stale' \subseteq Req
      BY <1>13 DEF PurchaseIntent, HistoryOK, NotFilled
    <2>3. QED BY <1>13, <2>1, <2>2, EndType, Frames DEF PurchaseIntent
  <1>14. QED
    BY <1>2, <1>3, <1>4, <1>5, <1>6, <1>7, <1>8, <1>9, <1>10, <1>11, <1>12, <1>13
       DEF Continue

\* A request that begins was idle, takes no lock yet, changes no other request's
\* data, and goes to a first stage.
FirstStages == {"create", "redeem", "cancel", "reschedule", "finish", "paid", "hook",
                "rebind", "purchase"}
LEMMA BeginFacts ==
  ASSUME RequestsOK, NEW r \in Req, Begin(r)
  PROVE  /\ pc[r] = "idle" /\ pc'[r] \in FirstStages /\ UNCHANGED lock
         /\ \A q \in Req \ {r} : pc'[q] = pc[q] /\ ctx'[q] = ctx[q] /\ plan'[q] = plan[q]
  <1> DEFINE Facts ==
        /\ pc[r] = "idle" /\ pc'[r] \in FirstStages /\ UNCHANGED lock
        /\ \A q \in Req \ {r} : pc'[q] = pc[q] /\ ctx'[q] = ctx[q] /\ plan'[q] = plan[q]
  <1>1. ASSUME NEW stage \in FirstStages, NEW c, NEW rows, Start(r, stage, c, rows)
        PROVE  Facts
    BY <1>1 DEF Start, RequestsOK
  <1> HIDE DEF Facts
  <1>2. ASSUME NEW b \in Booking, NEW t \in Slot, NEW s \in Seat \cup {NoSeat},
               NEW src \in {"ONLINE", "MANUAL"}, NEW dep \in {0, Deposit},
               NEW c \in Card \cup {NoCard}, CreateCheck(r, b, t, s, src, dep, c)
        PROVE  Facts
    BY <1>1, <1>2 DEF CreateCheck, FirstStages
  <1>3. ASSUME NEW b \in Booking, CancelRead(r, b) \/ PaidRead(r, b)
        PROVE  Facts
    BY <1>1, <1>3 DEF CancelRead, PaidRead, FirstStages
  <1>4. ASSUME NEW b \in Booking, NEW t \in Slot, RescheduleRead(r, b, t)
        PROVE  Facts
    BY <1>1, <1>4 DEF RescheduleRead, FirstStages
  <1>5. ASSUME NEW b \in Booking, NEW to, FinishRead(r, b, to)
        PROVE  Facts
    BY <1>1, <1>5 DEF FinishRead, FirstStages
  <1>6. ASSUME NEW o \in Owner, NEW ev, HookRead(r, o, ev) \/ HookRebind(r, o, ev)
        PROVE  Facts
    BY <1>1, <1>6 DEF HookRead, HookRebind, FirstStages
  <1>7. ASSUME NEW c \in Card, Purchase(r, c)
        PROVE  Facts
    BY <1>1, <1>7 DEF Purchase, FirstStages
  <1>8. Facts
    BY <1>2, <1>3, <1>4, <1>5, <1>6, <1>7 DEF Begin
  <1>9. QED BY <1>8 DEF Facts

\* Gift cards of bookings stay, so a refund under way keeps its card.
LEMMA RefundTargetsStep ==
  ASSUME TypeInv, NEW r \in Req, Begin(r) \/ Lock(r) \/ Continue(r) \/ Abort(r)
  PROVE  RefundTargetsOK'
  <1> USE DEF TypeInv, TypeParts
  <1>1. \A b \in Booking : gift[b] \in Card => gift'[b] \in Card
    <2>1. CASE CreateCommit(r)
      <3>1. ctx[r].card \in Card \cup {NoCard}
        BY DEF RequestsOK, CtxType
      <3>2. QED BY <2>1, <3>1 DEF CreateCommit, RedemptionsOK, redemptionVars
    <2>2. CASE ~CreateCommit(r)
      <3>1. UNCHANGED gift
        BY <2>2 DEF Begin, CreateCheck, CancelRead, PaidRead, RescheduleRead, FinishRead,
             HookRead, HookRebind, Purchase, Lock, Continue, RedeemRead, RefundRead,
             CancelCommit, RescheduleCheck, RescheduleCommit, FinishCommit, PaidCommit,
             HookReread, SettleCommit, FailCommit, PurchaseIntent, Abort, redemptionVars
      <3>2. QED BY <3>1
    <2>3. QED BY <2>1, <2>2
  <1>2. ASSUME NEW q \in Req, pc'[q] = "refund", ctx'[q].card # NoCard
        PROVE  gift'[ctx'[q].target] \in Card
    <2>1. /\ ctx[q].target \in Owner \cup {Nobody} /\ pc[q] \in Stage
          /\ pc[q] = "refund" => ctx[q].target \in Booking
      BY DEF RequestsOK, CtxType, DataOK, BookingStages
    <2>2. CASE pc[q] = "refund" /\ ctx'[q] = ctx[q]
      BY <1>1, <1>2, <2>1, <2>2 DEF RefundTargetsOK
    <2>3. CASE RefundRead(r) /\ q = r
      <3>1. ctx[r].target \in Booking
        BY <2>3 DEF RefundRead, Ready, RequestsOK, DataOK, BookingStages
      <3>2. Refundable(ctx[r].target)
        BY <1>2, <2>3 DEF RefundRead, GoOn, RequestsOK, DataOK, Ready
      <3>3. ctx'[r].target = ctx[r].target
        <4> DEFINE c == gift[ctx[r].target]
                   data == [ctx[r] EXCEPT !.card = c, !.bal = balance[c], !.seen = cardStatus[c]]
        <4>1. ctx'[r] = data /\ ctx[r] \in CtxType
          BY <2>3, <3>2 DEF RefundRead, GoOn, RequestsOK
        <4>2. data.target = ctx[r].target
          BY <4>1 DEF CtxType
        <4>3. QED BY <4>1, <4>2
      <3>4. QED BY <1>1, <2>3, <3>1, <3>2, <3>3 DEF Refundable, RedemptionsOK
    <2>4. (pc[q] = "refund" /\ ctx'[q] = ctx[q]) \/ (RefundRead(r) /\ q = r)
      <3>1. CASE Begin(r)
        BY <1>2, <3>1, BeginFacts DEF FirstStages
      <3>2. CASE Lock(r)
        BY <1>2, <3>2 DEF Lock
      <3>3. CASE Continue(r) /\ ~RefundRead(r)
        BY <1>2, <3>3 DEF Continue, RedeemRead, CreateCommit, CancelCommit,
             RescheduleCheck, RescheduleCommit, FinishCommit, PaidCommit, HookReread,
             SettleCommit, FailCommit, PurchaseIntent, GoOn, End, RequestsOK
      <3>4. CASE Abort(r)
        BY <1>2, <3>4 DEF Abort, End, RequestsOK
      <3>5. CASE RefundRead(r)
        BY <1>2, <3>5 DEF RefundRead, GoOn, RequestsOK
      <3>6. QED BY <3>1, <3>2, <3>3, <3>4, <3>5
    <2>5. QED BY <2>2, <2>3, <2>4
  <1>3. QED BY <1>2 DEF RefundTargetsOK

\* What no request does: a look-up of an expired card, an expiry, seats, the clock.
LEMMA EnvironmentType ==
  ASSUME TypeInv, Environment
  PROVE  TypeInv'
  <1> USE DEF TypeInv, TypeParts
  <1>1. UNCHANGED <<pc, ctx, gift>> => RefundTargetsOK'
    BY DEF RefundTargetsOK
  <1>2. ASSUME NEW c \in Card, LookupExpired(c) PROVE TypeInv'
    <2>1. CardsOK'
      BY <1>2 DEF LookupExpired, CardsOK, GiftCardStatus
    <2>2. QED BY <1>1, <1>2, <2>1, Frames DEF LookupExpired, requestVars, redemptionVars
  <1>3. ASSUME NEW c \in Card, Expire(c) PROVE TypeInv'
    <2>1. WorldOK'
      BY <1>3 DEF Expire, WorldOK
    <2>2. QED BY <1>1, <1>3, <2>1, Frames DEF Expire, requestVars, redemptionVars
  <1>4. ASSUME NEW s \in Seat, ChangeSeats(s) PROVE TypeInv'
    <2>1. WorldOK' /\ RequestsOK'
      BY <1>4 DEF ChangeSeats, WorldOK, RequestsOK
    <2>2. QED BY <1>1, <1>4, <2>1, Frames DEF ChangeSeats, redemptionVars
  <1>5. ASSUME Tick PROVE TypeInv'
    <2>1. WorldOK'
      BY <1>5 DEF Tick, WorldOK
    <2>2. QED BY <1>1, <1>5, <2>1, Frames DEF Tick, requestVars, redemptionVars
  <1>6. QED BY <1>2, <1>3, <1>4, <1>5 DEF Environment

\* A lock step and a rollback.
LEMMA LockAbortType ==
  ASSUME NEW r \in Req, TypeInv, Lock(r) \/ Abort(r)
  PROVE  TypeParts'
  <1> USE DEF TypeInv, TypeParts
  <1>1. CASE Lock(r)
    <2>1. plan[r] \in Seq(Row) /\ plan[r] # <<>>
      BY <1>1 DEF Lock, RequestsOK
    <2>2. Head(plan[r]) \in Row /\ Tail(plan[r]) \in Seq(Row)
      BY <2>1
    <2>3. RequestsOK'
      BY <1>1, <2>2 DEF Lock, RequestsOK
    <2>4. QED BY <1>1, <2>3, Frames DEF Lock
  <1>2. CASE Abort(r)
    <2>1. stale' \subseteq Req
      BY <1>2 DEF Abort, NotFilled, HistoryOK
    <2>2. QED BY <1>2, <2>1, EndType, Frames DEF Abort
  <1>3. QED BY <1>1, <1>2

\* TypeInv holds initially and every step keeps it.
LEMMA TypeInvInductive ==
  /\ Init => TypeInv
  /\ TypeInv /\ [Next]_vars => TypeInv'
  <1>1. Init => TypeInv
    <2> SUFFICES ASSUME Init PROVE TypeInv
      OBVIOUS
    <2>1. RequestsOK
      <3>1. <<>> \in Seq(Row) /\ "idle" \in Stage /\ NoCtx \in CtxType
        BY IdleOK DEF DataOK
      <3>2. QED BY <3>1, IdleOK DEF Init, RequestsOK
    <2>2. BookingsOK /\ RedemptionsOK /\ WorldOK /\ HistoryOK
      BY DEF Init, BookingsOK, RedemptionsOK, WorldOK, HistoryOK, BookingStatus
    <2>3. IntentsOK /\ CardsOK
      BY DEF Init, IntentsOK, CardsOK, PaymentStatus, GiftCardStatus
    <2>4. RefundTargetsOK
      BY DEF Init, RefundTargetsOK
    <2>5. QED BY <2>1, <2>2, <2>3, <2>4 DEF TypeInv, TypeParts
  <1>2. TypeInv /\ Next => TypeInv'
    <2> SUFFICES ASSUME TypeInv, Next PROVE TypeInv'
      OBVIOUS
    <2>1. ASSUME NEW r \in Req, Begin(r) \/ Lock(r) \/ Continue(r) \/ Abort(r)
          PROVE  TypeInv'
      <3>1. TypeParts'
        BY <2>1, BeginType, LockAbortType, ContinueType
      <3>2. RefundTargetsOK'
        BY <2>1, RefundTargetsStep
      <3>3. QED BY <3>1, <3>2 DEF TypeInv
    <2>2. QED BY <2>1, EnvironmentType DEF Next
  <1>3. TypeInv /\ UNCHANGED vars => TypeInv'
    BY Frames DEF vars, TypeInv, TypeParts, RefundTargetsOK, requestVars, redemptionVars
  <1>4. QED BY <1>1, <1>2, <1>3

\* Type correctness: columns, request data and locks keep their types, and no amount
\* becomes negative, for any number of bookings, cards and concurrent requests.
THEOREM TypeCorrect == Spec => []TypeOK
  <1>1. Spec => []TypeInv
    BY TypeInvInductive, PTL DEF Spec
  <1>2. QED BY <1>1, TypeInvImpliesTypeOK, PTL

-----------------------------------------------------------------------------
(***************************************************************************)
(* Privacy.  Until its creation commits, a booking's row is as blank as it *)
(* was, and no other request works on it; requests that act on a booking   *)
(* otherwise act on one that exists.                                       *)
(***************************************************************************)

Creating == {"create", "redeem"}
Acting == Stage \ {"idle", "create", "redeem", "purchase"}
RequestStep(r) == Begin(r) \/ Lock(r) \/ Continue(r) \/ Abort(r)

CreationInv ==
  /\ \A b \in Booking : status[b] = "ABSENT" =>
       intent[b] = "ABSENT" /\ redemption[b] = "none" /\ refunds[b] = 0
  /\ \A r \in Req : pc[r] \in Creating =>
       /\ status[ctx[r].target] = "ABSENT"
       /\ \A q \in Req \ {r} : ctx[q].target # ctx[r].target
  /\ \A r \in Req : pc[r] \in Acting /\ ctx[r].target \in Booking =>
       status[ctx[r].target] # "ABSENT"

\* A request changes no other request's data.
LEMMA OthersKeep ==
  ASSUME TypeInv, NEW r \in Req, RequestStep(r), NEW q \in Req \ {r}
  PROVE  pc'[q] = pc[q] /\ ctx'[q] = ctx[q] /\ plan'[q] = plan[q]
  <1> USE DEF TypeInv, TypeParts, RequestsOK
  <1>1. CASE Begin(r)
    BY <1>1, BeginFacts
  <1>2. CASE Lock(r)
    BY <1>2 DEF Lock
  <1>3. CASE Continue(r)
    BY <1>3 DEF Continue, RedeemRead, CreateCommit, RefundRead, CancelCommit,
         RescheduleCheck, RescheduleCommit, FinishCommit, PaidCommit, HookReread,
         SettleCommit, FailCommit, PurchaseIntent, GoOn, End
  <1>4. CASE Abort(r)
    BY <1>4 DEF Abort, End
  <1>5. QED BY <1>1, <1>2, <1>3, <1>4 DEF RequestStep

\* A request changes the booking, intent and redemption only of its target, and only
\* in a step after its first.
LEMMA Footprint ==
  ASSUME TypeInv, NEW r \in Req, RequestStep(r), NEW b \in Booking,
         Continue(r) => ctx[r].target # b
  PROVE  /\ status'[b] = status[b] /\ intent'[b] = intent[b] /\ confirmed'[b] = confirmed[b]
         /\ redemption'[b] = redemption[b] /\ refunds'[b] = refunds[b]
  <1> USE DEF TypeInv, TypeParts, BookingsOK, RedemptionsOK, IntentsOK, HistoryOK,
              bookingVars, redemptionVars, intentVars
  <1>0. b \in Owner
    BY DEF Owner
  <1>1. CASE Begin(r)
    BY <1>1 DEF Begin, CreateCheck, CancelRead, PaidRead, RescheduleRead, FinishRead,
         HookRead, HookRebind, Purchase
  <1>2. CASE Lock(r) \/ Abort(r)
    BY <1>2 DEF Lock, Abort
  <1>3. CASE Continue(r)
    <2>1. CASE CreateCommit(r)
      BY <1>0, <1>3, <2>1 DEF CreateCommit
    <2>2. CASE CancelCommit(r)
      BY <1>0, <1>3, <2>2 DEF CancelCommit
    <2>3. CASE PaidCommit(r) \/ FinishCommit(r)
      BY <1>0, <1>3, <2>3 DEF PaidCommit, FinishCommit
    <2>4. CASE SettleCommit(r) \/ FailCommit(r)
      BY <1>0, <1>3, <2>4 DEF SettleCommit, FailCommit
    <2>5. CASE PurchaseIntent(r)
      BY <1>0, <1>3, <2>5 DEF PurchaseIntent
    <2>6. CASE RedeemRead(r) \/ RefundRead(r) \/ RescheduleCheck(r) \/ RescheduleCommit(r)
               \/ HookReread(r)
      BY <2>6 DEF RedeemRead, RefundRead, RescheduleCheck, RescheduleCommit, HookReread
    <2>7. QED BY <1>3, <2>1, <2>2, <2>3, <2>4, <2>5, <2>6 DEF Continue
  <1>4. QED BY <1>1, <1>2, <1>3 DEF RequestStep

\* A request that starts has the stage and the data it starts with.
LEMMA StartSets ==
  ASSUME NEW r \in Req, pc \in [Req -> Stage], ctx \in [Req -> CtxType],
         plan \in [Req -> Seq(Row)],
         NEW stage, NEW c, NEW rows, Start(r, stage, c, rows)
  PROVE  pc'[r] = stage /\ ctx'[r] = c /\ plan'[r] = rows
  BY DEF Start

\* What a request that begins works on.
LEMMA BeginTarget ==
  ASSUME TypeInv, CreationInv, NEW r \in Req, Begin(r)
  PROVE  /\ \/ /\ pc'[r] \in Creating /\ ctx'[r].target \in Booking
               /\ status[ctx'[r].target] = "ABSENT"
               /\ \A q \in Req : ctx[q].target # ctx'[r].target
            \/ /\ pc'[r] \in Acting /\ ctx'[r].target \in Booking
               /\ status[ctx'[r].target] # "ABSENT"
            \/ pc'[r] \in Acting \cup {"purchase"} /\ ctx'[r].target \in Card
         /\ pc'[r] = "finish" => status[ctx'[r].target] = "CONFIRMED"
         /\ pc'[r] \in {"hook", "rebind"} => intent[ctx'[r].target] # "ABSENT"
         /\ pc'[r] = "cancel" => plan'[r] = <<DataRow(ctx'[r].target)>>
  <1>0. pc \in [Req -> Stage] /\ ctx \in [Req -> CtxType] /\ plan \in [Req -> Seq(Row)]
    BY DEF TypeInv, TypeParts, RequestsOK
  <1>1. ASSUME NEW stage, NEW c, NEW rows, Start(r, stage, c, rows)
        PROVE  pc'[r] = stage /\ ctx'[r] = c /\ plan'[r] = rows
    BY <1>0, <1>1, StartSets
  <1>2. ASSUME NEW b \in Booking, NEW t \in Slot, NEW s \in Seat \cup {NoSeat},
               NEW src \in {"ONLINE", "MANUAL"}, NEW dep \in {0, Deposit},
               NEW c \in Card \cup {NoCard}, CreateCheck(r, b, t, s, src, dep, c)
        PROVE  /\ pc'[r] \in Creating /\ ctx'[r].target = b
               /\ status[b] = "ABSENT" /\ \A q \in Req : ctx[q].target # b
    <2> DEFINE d == [NoCtx EXCEPT !.target = b, !.slot = t, !.seat = s, !.source = src,
                                  !.dep = dep, !.card = c]
               st == IF c = NoCard THEN "create" ELSE "redeem"
    <2>1. Start(r, st, d, <<>>) /\ status[b] = "ABSENT" /\ \A q \in Req : ctx[q].target # b
      BY <1>2 DEF CreateCheck
    <2>2. d.target = b
      BY DEF NoCtx
    <2>3. st \in Creating
      BY DEF Creating
    <2> HIDE DEF d, st
    <2>4. QED BY <2>1, <2>2, <2>3, <1>1
  <1>3. ASSUME NEW b \in Booking, CancelRead(r, b)
        PROVE  /\ pc'[r] = "cancel" /\ ctx'[r].target = b /\ status[b] # "ABSENT"
               /\ plan'[r] = <<DataRow(b)>>
    <2> DEFINE d == [NoCtx EXCEPT !.target = b]
    <2>1. Start(r, "cancel", d, <<DataRow(b)>>) /\ status[b] # "ABSENT"
      BY <1>3 DEF CancelRead
    <2>2. d.target = b
      BY DEF NoCtx
    <2> HIDE DEF d
    <2>3. QED BY <2>1, <2>2, <1>1
  <1>4. ASSUME NEW b \in Booking, PaidRead(r, b)
        PROVE  pc'[r] = "paid" /\ ctx'[r].target = b /\ status[b] # "ABSENT"
    <2> DEFINE d == [NoCtx EXCEPT !.target = b]
    <2>1. Start(r, "paid", d, PaidRows(b)) /\ status[b] # "ABSENT"
      BY <1>4 DEF PaidRead
    <2>2. d.target = b
      BY DEF NoCtx
    <2> HIDE DEF d
    <2>3. QED BY <2>1, <2>2, <1>1
  <1>5. ASSUME NEW b \in Booking, NEW t \in Slot, RescheduleRead(r, b, t)
        PROVE  pc'[r] = "reschedule" /\ ctx'[r].target = b /\ status[b] # "ABSENT"
    <2> DEFINE d == [NoCtx EXCEPT !.target = b, !.slot = t]
    <2>1. Start(r, "reschedule", d, <<>>) /\ status[b] # "ABSENT"
      BY <1>5 DEF RescheduleRead, Active, ActiveStatus
    <2>2. d.target = b
      BY DEF NoCtx
    <2> HIDE DEF d
    <2>3. QED BY <2>1, <2>2, <1>1
  <1>6. ASSUME NEW b \in Booking, NEW to, FinishRead(r, b, to)
        PROVE  pc'[r] = "finish" /\ ctx'[r].target = b /\ status[b] = "CONFIRMED"
    <2> DEFINE d == [NoCtx EXCEPT !.target = b, !.will = to]
    <2>1. Start(r, "finish", d, <<DataRow(b)>>) /\ status[b] = "CONFIRMED"
      BY <1>6 DEF FinishRead, Finishable
    <2>2. d.target = b
      BY DEF NoCtx
    <2> HIDE DEF d
    <2>3. QED BY <2>1, <2>2, <1>1
  <1>7. ASSUME NEW o \in Owner, NEW ev, HookRead(r, o, ev) \/ HookRebind(r, o, ev)
        PROVE  /\ pc'[r] \in {"hook", "rebind"} /\ ctx'[r].target = o
               /\ intent[o] # "ABSENT"
    <2>1. CASE HookRead(r, o, ev)
      <3> DEFINE d == HookCtx(o, ev)
      <3>1. Start(r, "hook", d, <<IntentRow(o)>> \o OwnerRows(o, Verdict(o, ev))) /\ intent[o] # "ABSENT"
        BY <2>1 DEF HookRead
      <3>2. d.target = o
        BY DEF NoCtx, HookCtx
      <3> HIDE DEF d
      <3>3. QED BY <3>1, <3>2, <1>1
    <2>2. CASE HookRebind(r, o, ev)
      <3> DEFINE d == [NoCtx EXCEPT !.target = o, !.will = ev]
      <3>1. Start(r, "rebind", d, <<IntentRow(o)>>) /\ intent[o] # "ABSENT"
        BY <2>2 DEF HookRebind
      <3>2. d.target = o
        BY DEF NoCtx, HookCtx
      <3> HIDE DEF d
      <3>3. QED BY <3>1, <3>2, <1>1
    <2>3. QED BY <1>7, <2>1, <2>2
  <1>8. ASSUME NEW c \in Card, Purchase(r, c)
        PROVE  pc'[r] = "purchase" /\ ctx'[r].target = c
    <2> DEFINE d == [NoCtx EXCEPT !.target = c]
    <2>1. Start(r, "purchase", d, <<>>)
      BY <1>8 DEF Purchase
    <2>2. d.target = c
      BY DEF NoCtx
    <2> HIDE DEF d
    <2>3. QED BY <2>1, <2>2, <1>1
  <1>9. {"cancel", "paid", "reschedule", "finish", "hook", "rebind"} \subseteq Acting
    BY DEF Acting, Stage
  <1>10. CASE \E b \in Booking, t \in Slot, s \in Seat \cup {NoSeat},
                 src \in {"ONLINE", "MANUAL"}, dep \in {0, Deposit},
                 c \in Card \cup {NoCard} : CreateCheck(r, b, t, s, src, dep, c)
    BY <1>2, <1>10 DEF Creating
  <1>11. CASE \E b \in Booking : CancelRead(r, b) \/ PaidRead(r, b)
    BY <1>3, <1>4, <1>9, <1>11
  <1>12. CASE \E b \in Booking, t \in Slot : RescheduleRead(r, b, t)
    BY <1>5, <1>9, <1>12
  <1>13. CASE \E b \in Booking, to \in {"COMPLETED", "NO_SHOW"} : FinishRead(r, b, to)
    BY <1>6, <1>9, <1>13
  <1>14. CASE \E o \in Owner, ev \in {"success", "mismatch", "failure"} :
                HookRead(r, o, ev) \/ HookRebind(r, o, ev)
    BY <1>7, <1>9, <1>14 DEF Owner, CreationInv
  <1>15. CASE \E c \in Card : Purchase(r, c)
    BY <1>8, <1>15
  <1>16. QED
    BY <1>10, <1>11, <1>12, <1>13, <1>14, <1>15 DEF Begin

\* A request in progress keeps its target until it ends, and creates a booking
\* only as a creation.
LEMMA ContinueFacts ==
  ASSUME TypeInv, NEW r \in Req, Continue(r)
  PROVE  /\ pc[r] # "idle"
         /\ \/ pc'[r] = "idle" /\ ctx'[r] = NoCtx
            \/ /\ ctx'[r].target = ctx[r].target
               /\ <<pc[r], pc'[r]>> \in {<<"redeem", "create">>, <<"cancel", "refund">>,
                                       <<"reschedule", "move">>, <<"rebind", "hook">>}
  <1>0. pc \in [Req -> Stage] /\ ctx \in [Req -> CtxType]
    BY DEF TypeInv, TypeParts, RequestsOK
  <1>a. ASSUME NEW stage, NEW c, NEW rows, GoOn(r, stage, c, rows)
        PROVE  pc'[r] = stage /\ ctx'[r] = c
    BY <1>0, <1>a DEF GoOn
  <1>b. End(r) => pc'[r] = "idle" /\ ctx'[r] = NoCtx
    BY <1>0 DEF End
  <1>1. CASE RedeemRead(r)
    BY <1>0, <1>1 DEF RedeemRead, GoOn, End, CtxType
  <1>2. CASE RefundRead(r)
    <2> DEFINE c == gift[ctx[r].target]
               d == [ctx[r] EXCEPT !.card = c, !.bal = balance[c], !.seen = cardStatus[c]]
    <2>1. pc[r] = "cancel"
      BY <1>2 DEF RefundRead, Ready
    <2>2. GoOn(r, "refund", d, <<DataRow(c)>>) \/ GoOn(r, "refund", ctx[r], <<>>)
      BY <1>2 DEF RefundRead
    <2>3. d.target = ctx[r].target
      BY <1>0 DEF CtxType
    <2> HIDE DEF c, d
    <2>4. QED BY <1>a, <2>1, <2>2, <2>3
  <1>3. CASE RescheduleCheck(r)
    <2>1. pc[r] = "reschedule"
      BY <1>3 DEF RescheduleCheck
    <2>2. GoOn(r, "move", ctx[r], <<DataRow(ctx[r].target)>>) \/ End(r)
      BY <1>3 DEF RescheduleCheck
    <2>3. QED BY <1>a, <1>b, <2>1, <2>2
  <1>4. CASE HookReread(r)
    <2> DEFINE o == ctx[r].target
               ev == ctx[r].will
    <2>0. o = ctx[r].target
      OBVIOUS
    <2>1. pc[r] = "rebind"
      BY <1>4 DEF HookReread, Ready
    <2>2. GoOn(r, "hook", HookCtx(o, ev), OwnerRows(o, Verdict(o, ev))) \/ End(r)
      BY <1>4 DEF HookReread
    <2>3. HookCtx(o, ev).target = o
      BY DEF HookCtx, NoCtx
    <2> HIDE DEF o, ev
    <2>4. QED BY <1>a, <1>b, <2>0, <2>1, <2>2, <2>3
  <1>5. CASE CreateCommit(r) \/ CancelCommit(r) \/ RescheduleCommit(r) \/ FinishCommit(r)
             \/ PaidCommit(r) \/ SettleCommit(r) \/ FailCommit(r) \/ PurchaseIntent(r)
    <2>1. End(r)
      BY <1>5 DEF CreateCommit, CancelCommit, RescheduleCommit, FinishCommit, PaidCommit,
           SettleCommit, FailCommit, PurchaseIntent
    <2>2. pc[r] # "idle"
      BY <1>5 DEF CreateCommit, CancelCommit, RescheduleCommit, FinishCommit, PaidCommit,
           SettleCommit, FailCommit, PurchaseIntent, Ready
    <2>3. QED BY <1>b, <2>1, <2>2
  <1>6. QED BY <1>1, <1>2, <1>3, <1>4, <1>5 DEF Continue

\* A step of a request after its first leaves its booking in existence or as it was.
LEMMA TargetExists ==
  ASSUME TypeInv, CreationInv, NEW r \in Req, Continue(r),
         NEW b \in Booking, ctx[r].target = b
  PROVE  \/ status'[b] # "ABSENT"
         \/ /\ status'[b] = status[b] /\ intent'[b] = intent[b]
            /\ redemption'[b] = redemption[b] /\ refunds'[b] = refunds[b]
  <1>0. /\ b \in Owner /\ status \in [Booking -> BookingStatus] /\ b \notin Card
        /\ intent \in [Owner -> PaymentStatus] /\ DataOK(pc[r], ctx[r])
    BY DEF TypeInv, TypeParts, BookingsOK, IntentsOK, RequestsOK, Owner
  <1>1. CASE CreateCommit(r) \/ CancelCommit(r) \/ PaidCommit(r)
    BY <1>0, <1>1 DEF CreateCommit, CancelCommit, PaidCommit
  <1>2. CASE FinishCommit(r)
    <2>1. ctx[r].will \in {"COMPLETED", "NO_SHOW"}
      BY <1>0, <1>2 DEF FinishCommit, Ready, DataOK
    <2>2. QED BY <1>0, <1>2, <2>1 DEF FinishCommit
  <1>3. CASE SettleCommit(r)
    BY <1>0, <1>3 DEF SettleCommit
  <1>4. CASE FailCommit(r)
    <2>1. status[b] # "ABSENT"
      BY <1>4 DEF FailCommit, Ready, CreationInv, Acting, Stage
    <2>2. QED BY <1>0, <1>4, <2>1 DEF FailCommit
  <1>5. CASE PurchaseIntent(r)
    BY <1>0, <1>5 DEF PurchaseIntent, DataOK
  <1>6. CASE RedeemRead(r) \/ RefundRead(r) \/ RescheduleCheck(r) \/ RescheduleCommit(r)
             \/ HookReread(r)
    BY <1>6 DEF RedeemRead, RefundRead, RescheduleCheck, RescheduleCommit, HookReread,
         bookingVars, redemptionVars, intentVars
  <1>7. QED BY <1>1, <1>2, <1>3, <1>4, <1>5, <1>6 DEF Continue

\* Once created, a booking exists for good.
LEMMA NeverAbsentAgain ==
  ASSUME TypeInv, CreationInv, NEW r \in Req, RequestStep(r),
         NEW b \in Booking, status[b] # "ABSENT"
  PROVE  status'[b] # "ABSENT"
  <1>1. CASE Continue(r) /\ ctx[r].target = b
    BY <1>1, TargetExists
  <1>2. CASE ~(Continue(r) /\ ctx[r].target = b)
    BY <1>2, Footprint
  <1>3. QED BY <1>1, <1>2

\* A step of a request keeps bookings under creation private.
LEMMA CreationStep ==
  ASSUME TypeInv, CreationInv, NEW r \in Req, RequestStep(r)
  PROVE  CreationInv'
  <1>0. /\ \A q \in Req : DataOK(pc[q], ctx[q]) /\ ctx[q].target \in Owner \cup {Nobody}
        /\ Booking \cap Card = {} /\ Nobody \notin Booking /\ NoCtx.target = Nobody
    BY DEF TypeInv, TypeParts, RequestsOK, CtxType, NoCtx
  <1>1. ASSUME NEW b \in Booking, status'[b] = "ABSENT"
        PROVE  intent'[b] = "ABSENT" /\ redemption'[b] = "none" /\ refunds'[b] = 0
    <2>1. status[b] = "ABSENT"
      BY <1>1, NeverAbsentAgain
    <2>2. /\ intent'[b] = intent[b] /\ redemption'[b] = redemption[b]
          /\ refunds'[b] = refunds[b]
      BY <1>1, TargetExists, Footprint
    <2>3. QED BY <2>1, <2>2 DEF CreationInv
  <1>2. \/ pc'[r] = "idle" /\ ctx'[r] = NoCtx
        \/ pc'[r] = pc[r] /\ ctx'[r] = ctx[r]
        \/ Begin(r)
        \/ /\ Continue(r) /\ ctx'[r].target = ctx[r].target
           /\ \/ RedeemRead(r) /\ pc[r] = "redeem" /\ pc'[r] = "create"
              \/ pc[r] \in Acting /\ pc'[r] \in {"refund", "move", "hook"}
    <2>1. CASE Lock(r)
      BY <2>1 DEF Lock
    <2>2. CASE Abort(r)
      BY <2>2 DEF Abort, End, TypeInv, TypeParts, RequestsOK
    <2>3. CASE Continue(r)
      <3>1. pc[r] = "redeem" => RedeemRead(r)
        BY <2>3 DEF Continue, RedeemRead, CreateCommit, RefundRead, CancelCommit,
             RescheduleCheck, RescheduleCommit, FinishCommit, PaidCommit, HookReread,
             SettleCommit, FailCommit, PurchaseIntent, Ready
      <3>2. QED BY <2>3, <3>1, ContinueFacts DEF Acting, Stage
    <2>4. QED BY <2>1, <2>2, <2>3 DEF RequestStep
  <1>3. Begin(r) => ~Continue(r)
    BY BeginFacts, ContinueFacts DEF TypeInv, TypeParts
  <1>4. ASSUME NEW q \in Req \ {r}, pc'[q] \in Creating
        PROVE  /\ status'[ctx'[q].target] = "ABSENT"
               /\ \A p \in Req \ {q} : ctx'[p].target # ctx'[q].target
    <2> DEFINE b == ctx[q].target
    <2>1. pc[q] \in Creating /\ ctx'[q] = ctx[q]
      BY <1>4, OthersKeep
    <2>2. b \in Booking /\ status[b] = "ABSENT" /\ \A p \in Req \ {q} : ctx[p].target # b
      BY <1>0, <2>1 DEF CreationInv, DataOK, Creating, BookingStages
    <2> HIDE DEF b
    <2>3. status'[b] = "ABSENT"
      BY <2>2, Footprint
    <2>4. \A p \in Req \ {q, r} : ctx'[p].target # b
      BY <2>2, OthersKeep
    <2>5. ctx'[r].target # b
      <3>1. CASE Begin(r)
        <4>1. \/ ctx[q].target # ctx'[r].target
              \/ status[ctx'[r].target] # "ABSENT" \/ ctx'[r].target \in Card
          BY <3>1, BeginTarget
        <4>2. QED BY <1>0, <2>2, <4>1 DEF b
      <3>2. CASE ~Begin(r)
        <4>1. ctx[r].target # b
          BY <2>2
        <4>2. b # Nobody
          BY <1>0, <2>2
        <4>3. ctx'[r] = NoCtx \/ ctx'[r] = ctx[r] \/ ctx'[r].target = ctx[r].target
          BY <1>2, <3>2
        <4>4. NoCtx.target = Nobody
          BY <1>0
        <4>5. CASE ctx'[r] = NoCtx
          BY <4>2, <4>4, <4>5
        <4>6. CASE ctx'[r] = ctx[r] \/ ctx'[r].target = ctx[r].target
          BY <4>1, <4>6
        <4>7. QED BY <4>3, <4>5, <4>6
      <3>3. QED BY <3>1, <3>2
    <2>6. QED BY <2>1, <2>3, <2>4, <2>5 DEF b
  <1>5. ASSUME pc'[r] \in Creating
        PROVE  /\ status'[ctx'[r].target] = "ABSENT"
               /\ \A p \in Req \ {r} : ctx'[p].target # ctx'[r].target
    <2>0. \A p \in Req \ {r} : ctx'[p] = ctx[p]
      BY OthersKeep
    <2>1. CASE Begin(r)
      <3>1. /\ ctx'[r].target \in Booking /\ status[ctx'[r].target] = "ABSENT"
            /\ \A q \in Req : ctx[q].target # ctx'[r].target
        BY <1>5, <2>1, BeginTarget DEF Creating, Acting
      <3>2. status'[ctx'[r].target] = status[ctx'[r].target]
        BY <1>3, <2>1, <3>1, Footprint
      <3>3. QED BY <2>0, <3>1, <3>2
    <2>2. CASE ~Begin(r)
      <3>1. ctx'[r].target = ctx[r].target /\ pc[r] \in Creating
        BY <1>2, <1>5, <2>2 DEF Creating
      <3>2. UNCHANGED status
        <4>1. pc'[r] # "idle"
          BY <1>5 DEF Creating
        <4>2. CASE Lock(r) \/ RedeemRead(r)
          BY <4>2 DEF Lock, RedeemRead, bookingVars
        <4>3. CASE Abort(r)
          BY <4>1, <4>3 DEF Abort, End, TypeInv, TypeParts, RequestsOK
        <4>4. CASE Continue(r)
          <5>1. pc[r] = "redeem" /\ pc'[r] = "create"
            BY <1>5, <4>4, ContinueFacts DEF Creating
          <5>2. RedeemRead(r)
            BY <1>2, <2>2, <5>1
          <5>3. QED BY <4>2, <5>2
        <4>5. QED BY <2>2, <4>2, <4>3, <4>4 DEF RequestStep
      <3>3. QED BY <2>0, <3>1, <3>2 DEF CreationInv
    <2>3. QED BY <2>1, <2>2
  <1>6. ASSUME NEW q \in Req, pc'[q] \in Acting, ctx'[q].target \in Booking
        PROVE  status'[ctx'[q].target] # "ABSENT"
    <2>1. status[ctx'[q].target] # "ABSENT"
      <3>1. CASE q # r
        BY <1>6, <3>1, OthersKeep DEF CreationInv
      <3>2. CASE q = r /\ Begin(r)
        BY <1>0, <1>6, <3>2, BeginTarget DEF Creating, Acting
      <3>3. CASE q = r /\ ~Begin(r)
        BY <1>2, <1>6, <3>3 DEF CreationInv, Acting
      <3>4. QED BY <3>1, <3>2, <3>3
    <2>2. QED BY <1>6, <2>1, NeverAbsentAgain
  <1>7. QED BY <1>1, <1>4, <1>5, <1>6 DEF CreationInv

\* CreationInv holds initially and, with TypeInv, every step keeps it.
LEMMA CreationInvInductive ==
  /\ Init => CreationInv
  /\ TypeInv /\ CreationInv /\ [Next]_vars => CreationInv'
  <1>1. Init => CreationInv
    BY DEF Init, CreationInv, Creating, Acting, Owner
  <1>2. ASSUME UNCHANGED <<status, intent, redemption, refunds, pc, ctx>>, CreationInv
        PROVE  CreationInv'
    BY <1>2 DEF CreationInv
  <1>3. Environment => UNCHANGED <<status, intent, redemption, refunds, pc, ctx>>
    BY DEF Environment, LookupExpired, Expire, ChangeSeats, Tick, bookingVars,
       redemptionVars, intentVars, requestVars
  <1>4. UNCHANGED vars => UNCHANGED <<status, intent, redemption, refunds, pc, ctx>>
    BY DEF vars, bookingVars, redemptionVars, intentVars, requestVars
  <1>5. QED BY <1>1, <1>2, <1>3, <1>4, CreationStep DEF Next, RequestStep

-----------------------------------------------------------------------------
(***************************************************************************)
(* Payments.  A booking that is CONFIRMED and has a payment intent is paid *)
(* because the only writer of an intent that is not there yet is the       *)
(* booking's own creation, which no other request sees, and because a      *)
(* confirmed payment stays confirmed until a request that read the booking *)
(* CONFIRMED commits what it decided.                                      *)
(***************************************************************************)

PaidFor(b) == intent[b] = "ABSENT" \/ confirmed[b]
PaymentInv ==
  /\ ConfirmedOnlyAfterPayment
  /\ \A r \in Req : pc[r] = "finish" => PaidFor(ctx[r].target)
  /\ \A r \in Req : pc[r] \in {"hook", "rebind"} => intent[ctx[r].target] # "ABSENT"

\* An intent, once there, stays, and a booking's stays confirmed; a booking without an
\* intent gets one only as it is created.
LEMMA IntentStep ==
  ASSUME TypeInv, CreationInv, PaymentInv, NEW r \in Req, RequestStep(r), NEW o \in Owner
  PROVE  /\ intent[o] # "ABSENT" => intent'[o] # "ABSENT"
         /\ confirmed[o] => confirmed'[o]
         /\ o \in Booking /\ status[o] # "ABSENT" /\ PaidFor(o) => PaidFor(o)'
  <1>0. /\ intent \in [Owner -> PaymentStatus] /\ confirmed \in [Owner -> BOOLEAN]
        /\ DataOK(pc[r], ctx[r])
    BY DEF TypeInv, TypeParts, IntentsOK, RequestsOK
  <1>1. CASE UNCHANGED intentVars
    BY <1>1 DEF intentVars, PaidFor
  <1>2. CASE CreateCommit(r)
    <2>1. UNCHANGED confirmed /\ status[ctx[r].target] = "ABSENT"
      BY <1>2 DEF CreateCommit, Ready, CreationInv, Creating
    <2>2. \/ UNCHANGED intent
          \/ intent' = [intent EXCEPT ![ctx[r].target] = "REQUIRES_PAYMENT_METHOD"]
      BY <1>2 DEF CreateCommit
    <2>3. QED BY <1>0, <2>1, <2>2 DEF PaidFor
  <1>3. CASE PaidCommit(r)
    BY <1>0, <1>3 DEF PaidCommit, intentVars, PaidFor
  <1>4. CASE SettleCommit(r)
    BY <1>0, <1>4 DEF SettleCommit, PaidFor
  <1>5. CASE FailCommit(r)
    <2>1. intent[ctx[r].target] # "ABSENT"
      BY <1>5 DEF FailCommit, Ready, PaymentInv
    <2>2. QED BY <1>0, <1>5, <2>1 DEF FailCommit, PaidFor
  <1>6. CASE PurchaseIntent(r)
    BY <1>0, <1>6 DEF PurchaseIntent, PaidFor, DataOK
  <1>7. Begin(r) \/ Lock(r) \/ Abort(r) => UNCHANGED intentVars
    BY DEF Begin, CreateCheck, CancelRead, PaidRead, RescheduleRead, FinishRead,
       HookRead, HookRebind, Purchase, Lock, Abort
  <1>8. Continue(r) => \/ UNCHANGED intentVars \/ CreateCommit(r) \/ PaidCommit(r)
                       \/ SettleCommit(r) \/ FailCommit(r) \/ PurchaseIntent(r)
    BY DEF Continue, RedeemRead, RefundRead, CancelCommit, RescheduleCheck,
       RescheduleCommit, FinishCommit, HookReread
  <1>9. QED BY <1>1, <1>2, <1>3, <1>4, <1>5, <1>6, <1>7, <1>8 DEF RequestStep

\* What a request's status write means for the booking it writes.
LEMMA ConfirmStep ==
  ASSUME TypeInv, CreationInv, PaymentInv, NEW r \in Req, RequestStep(r),
         NEW b \in Booking, status'[b] \in {"CONFIRMED", "COMPLETED", "NO_SHOW"}
  PROVE  PaidFor(b)'
  <1>0. /\ b \in Owner /\ intent \in [Owner -> PaymentStatus] /\ DataOK(pc[r], ctx[r])
        /\ confirmed \in [Owner -> BOOLEAN] /\ status \in [Booking -> BookingStatus]
    BY DEF TypeInv, TypeParts, IntentsOK, BookingsOK, RequestsOK, Owner
  <1>1. CASE status'[b] = status[b]
    <2>1. PaidFor(b) /\ status[b] # "ABSENT"
      BY <1>1 DEF PaymentInv, ConfirmedOnlyAfterPayment, PaidFor
    <2>2. QED BY <1>0, <2>1, IntentStep
  <1>2. CASE status'[b] # status[b]
    <2>1. Continue(r) /\ ctx[r].target = b
      BY <1>2, Footprint
    <2>2. CASE CreateCommit(r)
      <3>1. status[b] = "ABSENT"
        BY <2>1, <2>2 DEF CreateCommit, Ready, CreationInv, Creating
      <3>2. intent[b] = "ABSENT"
        BY <3>1 DEF CreationInv
      <3>3. status'[b] = "CONFIRMED" => UNCHANGED intent
        BY <1>0, <2>1, <2>2 DEF CreateCommit
      <3>4. status'[b] \in {"CONFIRMED", "AWAITING_PAYMENT"}
        BY <1>0, <2>1, <2>2 DEF CreateCommit
      <3>5. QED BY <3>2, <3>3, <3>4 DEF PaidFor
    <2>3. CASE CancelCommit(r)
      BY <1>0, <2>1, <2>3 DEF CancelCommit
    <2>4. CASE FinishCommit(r)
      <3>1. PaidFor(b) /\ UNCHANGED intentVars
        BY <2>1, <2>4 DEF FinishCommit, Ready, PaymentInv
      <3>2. QED BY <3>1 DEF PaidFor, intentVars
    <2>5. CASE PaidCommit(r)
      BY <1>0, <2>1, <2>5 DEF PaidCommit, PaidFor, intentVars
    <2>6. CASE SettleCommit(r)
      BY <1>0, <2>1, <2>6 DEF SettleCommit, PaidFor
    <2>7. CASE FailCommit(r)
      BY <1>0, <1>2, <2>1, <2>7 DEF FailCommit
    <2>8. CASE UNCHANGED status
      BY <1>2, <2>8
    <2>9. Continue(r) => \/ CreateCommit(r) \/ CancelCommit(r) \/ FinishCommit(r)
                         \/ PaidCommit(r) \/ SettleCommit(r) \/ FailCommit(r)
                         \/ UNCHANGED status
      BY DEF Continue, RedeemRead, RefundRead, RescheduleCheck, RescheduleCommit,
         HookReread, PurchaseIntent, bookingVars
    <2>10. QED BY <2>1, <2>2, <2>3, <2>4, <2>5, <2>6, <2>7, <2>8, <2>9
  <1>3. QED BY <1>1, <1>2

\* A step of a request keeps PaymentInv.
LEMMA PaymentStep ==
  ASSUME TypeInv, CreationInv, PaymentInv, NEW r \in Req, RequestStep(r)
  PROVE  PaymentInv'
  <1>0. \A q \in Req : DataOK(pc[q], ctx[q]) /\ DataOK(pc'[q], ctx'[q])
    <2>1. TypeInv'
      BY TypeInvInductive DEF Next, RequestStep
    <2>2. QED BY <2>1 DEF TypeInv, TypeParts, RequestsOK
  <1>1. ConfirmedOnlyAfterPayment'
    BY ConfirmStep DEF ConfirmedOnlyAfterPayment, PaidFor
  <1>2. ASSUME NEW q \in Req, pc'[q] = "finish"
        PROVE  PaidFor(ctx[q].target)'
    <2> DEFINE b == ctx'[q].target
    <2>1. b \in Booking /\ b \in Owner
      BY <1>0, <1>2 DEF DataOK, BookingStages, Owner
    <2>2. PaidFor(b) /\ status[b] # "ABSENT"
      <3>1. CASE q # r
        BY <1>2, <2>1, <3>1, OthersKeep DEF PaymentInv, CreationInv, Acting, Stage
      <3>2. CASE q = r /\ Begin(r)
        <4>1. status[b] = "CONFIRMED"
          BY <1>2, <3>2, BeginTarget
        <4>2. QED BY <2>1, <4>1 DEF PaymentInv, ConfirmedOnlyAfterPayment, PaidFor
      <3>3. CASE q = r /\ Lock(r)
        BY <1>2, <2>1, <3>3 DEF Lock, PaymentInv, CreationInv, Acting, Stage
      <3>4. CASE q = r /\ Continue(r)
        BY <1>2, <3>4, ContinueFacts
      <3>5. CASE q = r /\ Abort(r)
        BY <1>2, <3>5 DEF Abort, End, TypeInv, TypeParts, RequestsOK
      <3>6. QED BY <3>1, <3>2, <3>3, <3>4, <3>5 DEF RequestStep
    <2>3. intent'[b] = "ABSENT" \/ confirmed'[b]
      BY <2>1, <2>2, IntentStep DEF PaidFor
    <2>4. QED BY <2>3 DEF PaidFor
  <1>3. ASSUME NEW q \in Req, pc'[q] \in {"hook", "rebind"}
        PROVE  intent'[ctx'[q].target] # "ABSENT"
    <2>1. ctx'[q].target \in Owner
      BY <1>0, <1>3 DEF DataOK
    <2>2. intent[ctx'[q].target] # "ABSENT"
      <3>1. CASE q # r
        BY <1>3, <3>1, OthersKeep DEF PaymentInv
      <3>2. CASE q = r /\ Begin(r)
        BY <1>3, <3>2, BeginTarget
      <3>3. CASE q = r /\ Lock(r)
        BY <1>3, <3>3 DEF Lock, PaymentInv
      <3>4. CASE q = r /\ Continue(r)
        BY <1>3, <3>4, ContinueFacts DEF PaymentInv
      <3>5. CASE q = r /\ Abort(r)
        BY <1>3, <3>5 DEF Abort, End, TypeInv, TypeParts, RequestsOK
      <3>6. QED BY <3>1, <3>2, <3>3, <3>4, <3>5 DEF RequestStep
    <2>3. QED BY <2>1, <2>2, IntentStep
  <1>4. QED BY <1>1, <1>2, <1>3 DEF PaymentInv

\* PaymentInv holds initially and, with the layers below it, every step keeps it.
LEMMA PaymentInvInductive ==
  /\ Init => PaymentInv
  /\ TypeInv /\ CreationInv /\ PaymentInv /\ [Next]_vars => PaymentInv'
  <1>1. Init => PaymentInv
    BY DEF Init, PaymentInv, ConfirmedOnlyAfterPayment, Owner
  <1>2. ASSUME UNCHANGED <<status, intent, confirmed, pc, ctx>>, PaymentInv
        PROVE  PaymentInv'
    BY <1>2 DEF PaymentInv, ConfirmedOnlyAfterPayment, PaidFor
  <1>3. Environment => UNCHANGED <<status, intent, confirmed, pc, ctx>>
    BY DEF Environment, LookupExpired, Expire, ChangeSeats, Tick, bookingVars,
       intentVars, requestVars
  <1>4. UNCHANGED vars => UNCHANGED <<status, intent, confirmed, pc, ctx>>
    BY DEF vars, bookingVars, intentVars, requestVars
  <1>5. QED BY <1>1, <1>2, <1>3, <1>4, PaymentStep DEF Next, RequestStep

\* A booking whose deposit goes through Paystack is CONFIRMED, COMPLETED or NO_SHOW
\* only once its payment has been confirmed, whatever the number of requests and
\* webhook events in progress and the order of their commits.
THEOREM PaymentsConfirmed == Spec => []ConfirmedOnlyAfterPayment
  <1>1. Spec => [](TypeInv /\ CreationInv /\ PaymentInv)
    BY TypeInvInductive, CreationInvInductive, PaymentInvInductive, PTL DEF Spec
  <1>2. PaymentInv => ConfirmedOnlyAfterPayment
    BY DEF PaymentInv
  <1>3. QED BY <1>1, <1>2, PTL

-----------------------------------------------------------------------------
(***************************************************************************)
(* Refunds.  Cancellations of one booking overlap freely until the UPDATE  *)
(* of its row; the row lock it takes is held to the commit, so the open    *)
(* redemption that a cancellation then finds is still open as it commits.  *)
(***************************************************************************)

Open(b) == redemption[b] = "applied"
Holds(r, w) == lock[w] = r
RefundInv ==
  /\ \A b \in Booking : refunds[b] <= 1 /\ (redemption[b] # "refunded" => refunds[b] = 0)
  /\ \A r \in Req : pc[r] = "cancel" =>
       \/ plan[r] = <<DataRow(ctx[r].target)>>
       \/ plan[r] = <<>> /\ Holds(r, DataRow(ctx[r].target))
  /\ \A r \in Req : pc[r] = "refund" =>
       /\ Holds(r, DataRow(ctx[r].target))
       /\ ctx[r].card # NoCard => Open(ctx[r].target)

\* A row lock is released only by the request that holds it.
LEMMA LocksStay ==
  ASSUME TypeInv, NEW r \in Req, RequestStep(r), NEW w \in Row, NEW q \in Req, lock[w] = q,
         q # r \/ pc'[r] # "idle"
  PROVE  lock'[w] = q
  <1>0. /\ lock \in [Row -> Req \cup {Nobody}] /\ Nobody \notin Req
        /\ pc \in [Req -> Stage] /\ plan \in [Req -> Seq(Row)]
    BY DEF TypeInv, TypeParts, RequestsOK
  <1>1. End(r) => lock'[w] = q
    BY <1>0 DEF End
  <1>2. CASE Begin(r)
    BY <1>2, BeginFacts DEF TypeInv, TypeParts
  <1>3. CASE Lock(r)
    BY <1>0, <1>3 DEF Lock
  <1>4. CASE Abort(r)
    BY <1>1, <1>4 DEF Abort
  <1>5. CASE Continue(r)
    <2>1. End(r) \/ UNCHANGED lock
      BY <1>5 DEF Continue, RedeemRead, CreateCommit, RefundRead, CancelCommit,
         RescheduleCheck, RescheduleCommit, FinishCommit, PaidCommit, HookReread,
         SettleCommit, FailCommit, PurchaseIntent, GoOn
    <2>2. QED BY <1>1, <2>1
  <1>6. QED BY <1>2, <1>3, <1>4, <1>5 DEF RequestStep

\* Refunds are counted, and redemptions closed, by cancellations alone, and a
\* redemption is opened by the creation of its booking alone.
LEMMA RedemptionStep ==
  ASSUME TypeInv, CreationInv, RefundInv, NEW r \in Req, RequestStep(r), NEW b \in Booking
  PROVE  \/ redemption'[b] = redemption[b] /\ refunds'[b] = refunds[b]
         \/ /\ status[b] = "ABSENT" /\ redemption'[b] = "applied" /\ refunds'[b] = refunds[b]
         \/ /\ pc[r] = "refund" /\ ctx[r].target = b /\ redemption[b] = "applied"
            /\ redemption'[b] = "refunded" /\ refunds'[b] = refunds[b] + 1
  <1>0. /\ redemption \in [Booking -> {"none", "applied", "refunded"}]
        /\ refunds \in [Booking -> Nat]
    BY DEF TypeInv, TypeParts, RedemptionsOK, HistoryOK
  <1>1. CASE ~(Continue(r) /\ ctx[r].target = b)
    BY <1>1, Footprint
  <1>2. CASE Continue(r) /\ ctx[r].target = b
    <2>1. CASE CreateCommit(r)
      <3>1. status[b] = "ABSENT" /\ UNCHANGED refunds
        BY <1>2, <2>1 DEF CreateCommit, Ready, CreationInv, Creating
      <3>2. UNCHANGED redemption \/ redemption' = [redemption EXCEPT ![b] = "applied"]
        BY <1>2, <2>1 DEF CreateCommit, redemptionVars
      <3>3. QED BY <1>0, <3>1, <3>2
    <2>2. CASE CancelCommit(r)
      <3>1. pc[r] = "refund"
        BY <2>2 DEF CancelCommit, Ready
      <3>2. CASE ctx[r].card = NoCard
        BY <2>2, <3>2 DEF CancelCommit
      <3>3. CASE ctx[r].card # NoCard
        <4>1. redemption[b] = "applied"
          BY <1>2, <3>1, <3>3 DEF RefundInv, Open
        <4>2. /\ redemption' = [redemption EXCEPT ![b] = "refunded"]
              /\ refunds' = [refunds EXCEPT ![b] = @ + 1]
          BY <1>2, <2>2, <3>3 DEF CancelCommit
        <4>3. QED BY <1>0, <1>2, <3>1, <4>1, <4>2
      <3>4. QED BY <3>2, <3>3
    <2>3. CASE UNCHANGED <<redemption, refunds>>
      BY <2>3
    <2>4. QED
      BY <1>2, <2>1, <2>2, <2>3 DEF Continue, RedeemRead, RefundRead, RescheduleCheck,
         RescheduleCommit, FinishCommit, PaidCommit, HookReread, SettleCommit, FailCommit,
         PurchaseIntent, redemptionVars
  <1>3. QED BY <1>1, <1>2

\* A request that is about to commit a cancellation was so before, or reads its
\* redemption now.
LEMMA RefundStage ==
  ASSUME TypeInv, CreationInv, NEW r \in Req, RequestStep(r), NEW q \in Req,
         pc'[q] = "refund"
  PROVE  (pc[q] = "refund" /\ ctx'[q] = ctx[q]) \/ (q = r /\ RefundRead(r))
  <1>0. /\ pc \in [Req -> Stage] /\ ctx \in [Req -> CtxType] /\ plan \in [Req -> Seq(Row)]
    BY DEF TypeInv, TypeParts, RequestsOK
  <1>1. CASE q # r
    BY <1>1, OthersKeep
  <1>2. CASE q = r /\ Begin(r)
    BY <1>2, BeginFacts DEF FirstStages, TypeInv, TypeParts
  <1>3. CASE Lock(r)
    BY <1>3 DEF Lock
  <1>4. CASE q = r /\ Continue(r)
    <2>1. pc[r] = "cancel"
      BY <1>4, ContinueFacts
    <2>2. RefundRead(r)
      BY <1>4, <2>1 DEF Continue, RedeemRead, CreateCommit, RefundRead, CancelCommit,
         RescheduleCheck, RescheduleCommit, FinishCommit, PaidCommit, HookReread,
         SettleCommit, FailCommit, PurchaseIntent, Ready
    <2>3. QED BY <1>4, <2>2
  <1>5. CASE q = r /\ Abort(r)
    BY <1>0, <1>5 DEF Abort, End
  <1>6. QED BY <1>1, <1>2, <1>3, <1>4, <1>5 DEF RequestStep

\* A step of a request keeps RefundInv.
LEMMA RefundStep ==
  ASSUME TypeInv, CreationInv, RefundInv, NEW r \in Req, RequestStep(r)
  PROVE  RefundInv'
  <1>0. /\ pc \in [Req -> Stage] /\ ctx \in [Req -> CtxType] /\ plan \in [Req -> Seq(Row)]
        /\ refunds \in [Booking -> Nat] /\ \A q \in Req : DataOK(pc[q], ctx[q])
        /\ lock \in [Row -> Req \cup {Nobody}]
    BY DEF TypeInv, TypeParts, RequestsOK, HistoryOK
  <1>1. ASSUME NEW b \in Booking
        PROVE  refunds'[b] <= 1 /\ (redemption'[b] # "refunded" => refunds'[b] = 0)
    <2>1. /\ refunds[b] \in Nat /\ refunds[b] <= 1
          /\ redemption[b] # "refunded" => refunds[b] = 0
          /\ status[b] = "ABSENT" => refunds[b] = 0
      BY <1>0 DEF RefundInv, CreationInv
    <2>2. QED BY <2>1, RedemptionStep
  <1>2. \A b \in Booking : DataRow(b) \in Row
    BY DEF DataRow, Row, Owner
  <1>3. ASSUME NEW q \in Req, pc'[q] = "cancel"
        PROVE  \/ plan'[q] = <<DataRow(ctx'[q].target)>>
               \/ plan'[q] = <<>> /\ lock'[DataRow(ctx'[q].target)] = q
    <2>1. CASE q # r
      <3>1. /\ pc[q] = "cancel" /\ ctx'[q] = ctx[q] /\ plan'[q] = plan[q]
            /\ ctx[q].target \in Booking
        BY <1>0, <1>3, <2>1, OthersKeep DEF DataOK, BookingStages
      <3>2. \/ plan[q] = <<DataRow(ctx[q].target)>>
            \/ plan[q] = <<>> /\ lock[DataRow(ctx[q].target)] = q
        BY <3>1 DEF RefundInv, Holds
      <3>3. lock[DataRow(ctx[q].target)] = q => lock'[DataRow(ctx[q].target)] = q
        BY <1>2, <2>1, <3>1, LocksStay
      <3>4. QED BY <3>1, <3>2, <3>3
    <2>2. CASE q = r /\ Begin(r)
      BY <1>3, <2>2, BeginTarget
    <2>3. CASE q = r /\ Lock(r)
      <3>1. /\ pc[r] = "cancel" /\ ctx'[r] = ctx[r] /\ ctx[r].target \in Booking
            /\ plan[r] # <<>>
        BY <1>0, <1>3, <2>3 DEF Lock, DataOK, BookingStages
      <3>2. plan[r] = <<DataRow(ctx[r].target)>>
        BY <3>1 DEF RefundInv
      <3>3. /\ plan' = [plan EXCEPT ![r] = Tail(plan[r])]
            /\ lock' = [lock EXCEPT ![Head(plan[r])] = r]
        BY <2>3 DEF Lock
      <3>4. Head(plan[r]) = DataRow(ctx[r].target) /\ Tail(plan[r]) = <<>>
        BY <3>2
      <3>5. QED BY <1>0, <1>2, <2>3, <3>1, <3>3, <3>4
    <2>4. CASE q = r /\ Continue(r)
      BY <1>3, <2>4, ContinueFacts
    <2>5. CASE q = r /\ Abort(r)
      BY <1>0, <1>3, <2>5 DEF Abort, End
    <2>6. QED BY <2>1, <2>2, <2>3, <2>4, <2>5 DEF RequestStep
  <1>4. ASSUME NEW q \in Req, pc'[q] = "refund"
        PROVE  /\ lock'[DataRow(ctx'[q].target)] = q
               /\ ctx'[q].card # NoCard => redemption'[ctx'[q].target] = "applied"
    <2>1. CASE pc[q] = "refund" /\ ctx'[q] = ctx[q]
      <3> DEFINE b == ctx[q].target
      <3>1. b \in Booking /\ lock[DataRow(b)] = q /\ (ctx[q].card # NoCard => Open(b))
        BY <1>0, <2>1 DEF RefundInv, DataOK, BookingStages, Holds
      <3>2. lock'[DataRow(b)] = q
        BY <1>2, <1>4, <3>1, LocksStay
      <3>3. ctx[q].card # NoCard => redemption'[b] = "applied"
        <4>1. status[b] # "ABSENT"
          BY <2>1, <3>1 DEF CreationInv, Acting, Stage
        <4>2. ~(pc[r] = "refund" /\ ctx[r].target = b /\ r # q)
          BY <3>1 DEF RefundInv, Holds
        <4>3. q = r => redemption'[b] = redemption[b]
          <5>1. q = r => ~Continue(r)
            BY <1>4, <2>1, ContinueFacts
          <5>2. QED BY <3>1, <5>1, Footprint
        <4>4. QED BY <3>1, <4>1, <4>2, <4>3, RedemptionStep DEF Open
      <3>4. QED BY <2>1, <3>2, <3>3
    <2>2. CASE q = r /\ RefundRead(r)
      <3> DEFINE b == ctx[r].target
      <3>1. pc[r] = "cancel" /\ plan[r] = <<>> /\ b \in Booking /\ ctx[r].card = NoCard
        BY <1>0, <2>2 DEF RefundRead, Ready, DataOK, BookingStages
      <3>2. lock[DataRow(b)] = r
        BY <3>1 DEF RefundInv, Holds
      <3>3. UNCHANGED <<lock, redemption>>
        BY <2>2 DEF RefundRead, GoOn, redemptionVars
      <3>4. ctx'[r].target = b
        BY <1>4, <2>2, ContinueFacts DEF Continue
      <3>5. ~Refundable(b) => ctx'[r] = ctx[r]
        BY <1>0, <2>2 DEF RefundRead, GoOn
      <3>6. QED BY <2>2, <3>1, <3>2, <3>3, <3>4, <3>5 DEF Refundable
    <2>3. (pc[q] = "refund" /\ ctx'[q] = ctx[q]) \/ (q = r /\ RefundRead(r))
      BY <1>4, RefundStage
    <2>4. QED BY <2>1, <2>2, <2>3
  <1>5. QED BY <1>1, <1>3, <1>4 DEF RefundInv, Holds, Open

\* RefundInv holds initially and, with the layers below it, every step keeps it.
LEMMA RefundInvInductive ==
  /\ Init => RefundInv
  /\ TypeInv /\ CreationInv /\ RefundInv /\ [Next]_vars => RefundInv'
  <1>1. Init => RefundInv
    BY DEF Init, RefundInv
  <1>2. ASSUME UNCHANGED <<redemption, refunds, pc, ctx, plan, lock>>, RefundInv
        PROVE  RefundInv'
    BY <1>2 DEF RefundInv, Holds, Open
  <1>3. Environment => UNCHANGED <<redemption, refunds, pc, ctx, plan, lock>>
    BY DEF Environment, LookupExpired, Expire, ChangeSeats, Tick, redemptionVars, requestVars
  <1>4. UNCHANGED vars => UNCHANGED <<redemption, refunds, pc, ctx, plan, lock>>
    BY DEF vars, redemptionVars, requestVars
  <1>5. QED BY <1>1, <1>2, <1>3, <1>4, RefundStep DEF Next, RequestStep

\* What a booking took from a gift card is given back at most once, however many
\* cancellations of it overlap with payments that revive it.
THEOREM RefundsOnce == Spec => []RefundAtMostOnce
  <1>1. Spec => [](TypeInv /\ CreationInv /\ RefundInv)
    BY TypeInvInductive, CreationInvInductive, RefundInvInductive, PTL DEF Spec
  <1>2. RefundInv => RefundAtMostOnce
    BY DEF RefundInv, RefundAtMostOnce
  <1>3. QED BY <1>1, <1>2, PTL

-----------------------------------------------------------------------------
(***************************************************************************)
(* Cancellations and the money on the card.  A cancellation that found     *)
(* nothing to refund holds the booking's row lock, and no redemption opens *)
(* on a booking that exists; only a failed payment cancels a booking       *)
(* without looking for one.                                                *)
(***************************************************************************)

UnrefundedInv ==
  /\ UnrefundedOnlyByFailedPayment
  /\ \A r \in Req : pc[r] = "refund" /\ ctx[r].card = NoCard => ~Open(ctx[r].target)

\* A step that leaves a booking cancelled and its redemption open is a failed payment's.
LEMMA UnrefundedStep ==
  ASSUME TypeInv, CreationInv, RefundInv, UnrefundedInv, NEW r \in Req, RequestStep(r),
         NEW b \in Booking, status'[b] = "CANCELLED", redemption'[b] = "applied"
  PROVE  intent'[b] = "FAILED"
  <1>0. /\ b \in Owner /\ intent \in [Owner -> PaymentStatus] /\ DataOK(pc[r], ctx[r])
        /\ status \in [Booking -> BookingStatus]
        /\ redemption \in [Booking -> {"none", "applied", "refunded"}]
    BY DEF TypeInv, TypeParts, IntentsOK, BookingsOK, RedemptionsOK, RequestsOK, Owner
  <1>1. CASE UNCHANGED <<status, redemption, intent>>
    BY <1>1 DEF UnrefundedInv, UnrefundedOnlyByFailedPayment
  <1>2. CASE ~(Continue(r) /\ ctx[r].target = b)
    BY <1>2, Footprint DEF UnrefundedInv, UnrefundedOnlyByFailedPayment
  <1>3. CASE Continue(r) /\ ctx[r].target = b
    <2>1. CASE CreateCommit(r)
      BY <1>0, <1>3, <2>1 DEF CreateCommit
    <2>2. CASE CancelCommit(r)
      <3>1. CASE ctx[r].card = NoCard
        <4>1. redemption[b] # "applied"
          BY <1>3, <2>2, <3>1 DEF CancelCommit, Ready, UnrefundedInv, Open
        <4>2. QED BY <2>2, <3>1, <4>1 DEF CancelCommit
      <3>2. CASE ctx[r].card # NoCard
        BY <1>0, <1>3, <2>2, <3>2 DEF CancelCommit
      <3>3. QED BY <3>1, <3>2
    <2>3. CASE FinishCommit(r)
      BY <1>0, <1>3, <2>3 DEF FinishCommit, Ready, DataOK
    <2>4. CASE PaidCommit(r)
      BY <1>0, <1>3, <2>4 DEF PaidCommit
    <2>5. CASE SettleCommit(r)
      BY <1>0, <1>3, <2>5 DEF SettleCommit
    <2>6. CASE FailCommit(r)
      BY <1>0, <1>3, <2>6 DEF FailCommit
    <2>7. CASE PurchaseIntent(r)
      BY <1>0, <1>3, <2>7 DEF PurchaseIntent, DataOK
    <2>8. QED
      BY <1>1, <1>3, <2>1, <2>2, <2>3, <2>4, <2>5, <2>6, <2>7
      DEF Continue, RedeemRead, RefundRead, RescheduleCheck, RescheduleCommit, HookReread,
          bookingVars, redemptionVars, intentVars
  <1>4. QED BY <1>2, <1>3

\* What a cancellation that found nothing to refund relies on.
LEMMA NothingToRefund ==
  ASSUME TypeInv, CreationInv, RefundInv, UnrefundedInv, NEW r \in Req, RequestStep(r),
         NEW q \in Req, pc'[q] = "refund", ctx'[q].card = NoCard
  PROVE  redemption'[ctx'[q].target] # "applied"
  <1>0. \A p \in Req : DataOK(pc[p], ctx[p])
    BY DEF TypeInv, TypeParts, RequestsOK
  <1>1. CASE pc[q] = "refund" /\ ctx'[q] = ctx[q]
    <2> DEFINE b == ctx[q].target
    <2>1. b \in Booking /\ redemption[b] # "applied"
      BY <1>0, <1>1 DEF UnrefundedInv, Open, DataOK, BookingStages
    <2>2. status[b] # "ABSENT"
      BY <1>1, <2>1 DEF CreationInv, Acting, Stage
    <2>3. QED BY <1>1, <2>1, <2>2, RedemptionStep
  <1>2. CASE q = r /\ RefundRead(r)
    <2> DEFINE b == ctx[r].target
               c == gift[b]
               d == [ctx[r] EXCEPT !.card = c, !.bal = balance[c], !.seen = cardStatus[c]]
    <2>1. pc[r] = "cancel" /\ b \in Booking /\ ctx \in [Req -> CtxType]
      BY <1>0, <1>2 DEF RefundRead, Ready, DataOK, BookingStages, TypeInv, TypeParts, RequestsOK
    <2>2. CASE redemption[b] = "applied"
      <3>1. c \in Card
        BY <2>1, <2>2 DEF TypeInv, TypeParts, RedemptionsOK
      <3>2. d.card = c
        BY <2>1 DEF CtxType
      <3>3. GoOn(r, "refund", d, <<DataRow(c)>>)
        BY <1>2, <2>2 DEF RefundRead, Refundable
      <3> HIDE DEF c, d
      <3>4. ctx'[r] = d
        BY <2>1, <3>3 DEF GoOn
      <3>5. QED BY <1>2, <3>1, <3>2, <3>4
    <2>3. CASE redemption[b] # "applied"
      <3>1. ctx'[r] = ctx[r]
        BY <1>2, <2>1, <2>3 DEF RefundRead, Refundable, GoOn
      <3>2. UNCHANGED redemption
        BY <1>2 DEF RefundRead, redemptionVars
      <3>3. QED BY <1>2, <2>3, <3>1, <3>2
    <2>4. QED BY <2>2, <2>3
  <1>3. QED BY <1>1, <1>2, RefundStage

\* UnrefundedInv holds initially and, with the layers below it, every step keeps it.
LEMMA UnrefundedInvInductive ==
  /\ Init => UnrefundedInv
  /\ TypeInv /\ CreationInv /\ RefundInv /\ UnrefundedInv /\ [Next]_vars => UnrefundedInv'
  <1>1. Init => UnrefundedInv
    BY DEF Init, UnrefundedInv, UnrefundedOnlyByFailedPayment
  <1>2. ASSUME UNCHANGED <<status, redemption, intent, pc, ctx>>, UnrefundedInv
        PROVE  UnrefundedInv'
    BY <1>2 DEF UnrefundedInv, UnrefundedOnlyByFailedPayment, Open
  <1>3. Environment => UNCHANGED <<status, redemption, intent, pc, ctx>>
    BY DEF Environment, LookupExpired, Expire, ChangeSeats, Tick, bookingVars,
       redemptionVars, intentVars, requestVars
  <1>4. UNCHANGED vars => UNCHANGED <<status, redemption, intent, pc, ctx>>
    BY DEF vars, bookingVars, redemptionVars, intentVars, requestVars
  <1>5. ASSUME TypeInv, CreationInv, RefundInv, UnrefundedInv, NEW r \in Req, RequestStep(r)
        PROVE  UnrefundedInv'
    BY <1>5, UnrefundedStep, NothingToRefund
    DEF UnrefundedInv, UnrefundedOnlyByFailedPayment, Open
  <1>6. QED BY <1>1, <1>2, <1>3, <1>4, <1>5 DEF Next, RequestStep

\* A cancelled booking that has not given back what it took from a gift card was cancelled
\* by a failed payment, and by nothing else, however cancellations, payments and failures of
\* any number of bookings overlap.
THEOREM CancellationsRefund == Spec => []UnrefundedOnlyByFailedPayment
  <1>1. Spec => [](TypeInv /\ CreationInv /\ RefundInv /\ UnrefundedInv)
    BY TypeInvInductive, CreationInvInductive, RefundInvInductive, UnrefundedInvInductive,
       PTL DEF Spec
  <1>2. UnrefundedInv => UnrefundedOnlyByFailedPayment
    BY DEF UnrefundedInv
  <1>3. QED BY <1>1, <1>2, PTL

-----------------------------------------------------------------------------
(***************************************************************************)
(* The abstract desk.  A booking waits for its deposit only if there is an *)
(* intent to pay it with, and an intent that is not there is not           *)
(* confirmed; so marking a booking paid finds its intent.                  *)
(***************************************************************************)

Base == TypeInv /\ CreationInv /\ PaymentInv /\ RefundInv /\ UnrefundedInv

\* The layers above hold together.
LEMMA BaseInductive ==
  /\ Init => Base
  /\ Base /\ [Next]_vars => Base'
  BY TypeInvInductive, CreationInvInductive, PaymentInvInductive, RefundInvInductive,
     UnrefundedInvInductive DEF Base

DepositInv ==
  /\ \A b \in Booking : intent[b] = "ABSENT" => ~confirmed[b]
  /\ \A b \in Booking : status[b] = "AWAITING_PAYMENT" => intent[b] # "ABSENT"
  /\ \A r \in Req : pc[r] = "paid" =>
       intent[ctx[r].target] # "ABSENT" /\ source[ctx[r].target] = "MANUAL"

\* What type correctness says of a request and of a booking.
LEMMA Typed ==
  ASSUME TypeInv
  PROVE  /\ pc \in [Req -> Stage] /\ ctx \in [Req -> CtxType] /\ plan \in [Req -> Seq(Row)]
         /\ lock \in [Row -> Req \cup {Nobody}]
         /\ \A r \in Req : DataOK(pc[r], ctx[r])
         /\ status \in [Booking -> BookingStatus] /\ slot \in [Booking -> Nat]
         /\ seat \in [Booking -> Seat \cup {NoSeat}]
         /\ source \in [Booking -> {"ONLINE", "MANUAL"}]
         /\ deposit \in [Booking -> Nat] /\ due \in [Booking -> Nat]
         /\ intent \in [Owner -> PaymentStatus] /\ confirmed \in [Owner -> BOOLEAN]
         /\ redemption \in [Booking -> {"none", "applied", "refunded"}]
         /\ redeemed \in [Booking -> Nat] /\ gift \in [Booking -> Card \cup {NoCard}]
         /\ cardStatus \in [Card -> GiftCardStatus] /\ balance \in [Card -> Nat]
         /\ \A b \in Booking : b \in Owner /\ b \notin Card
  BY DEF TypeInv, TypeParts, RequestsOK, BookingsOK, IntentsOK, RedemptionsOK, CardsOK, Owner

\* A booking's columns that only its creation writes.
LEMMA ColumnStep ==
  ASSUME TypeInv, CreationInv, NEW r \in Req, RequestStep(r), NEW b \in Booking,
         ~(CreateCommit(r) /\ ctx[r].target = b)
  PROVE  /\ seat'[b] = seat[b] /\ source'[b] = source[b] /\ deposit'[b] = deposit[b]
         /\ redeemed'[b] = redeemed[b] /\ gift'[b] = gift[b]
         /\ ~(PaidCommit(r) /\ ctx[r].target = b) => due'[b] = due[b]
  <1> USE Typed DEF bookingVars, redemptionVars
  <1>1. CASE Begin(r)
    BY <1>1 DEF Begin, CreateCheck, CancelRead, PaidRead, RescheduleRead, FinishRead,
         HookRead, HookRebind, Purchase
  <1>2. CASE Lock(r) \/ Abort(r)
    BY <1>2 DEF Lock, Abort
  <1>3. CASE CreateCommit(r)
    BY <1>3 DEF CreateCommit
  <1>4. CASE Continue(r) /\ ~CreateCommit(r)
    BY <1>4 DEF Continue, RedeemRead, RefundRead, CancelCommit, RescheduleCheck,
         RescheduleCommit, FinishCommit, PaidCommit, HookReread, SettleCommit, FailCommit,
         PurchaseIntent
  <1>5. QED BY <1>1, <1>2, <1>3, <1>4 DEF RequestStep

\* The steps of a request after its first that write no booking's status.
LEMMA OtherSteps ==
  ASSUME NEW r \in Req, Continue(r)
  PROVE  \/ CreateCommit(r) \/ CancelCommit(r) \/ FinishCommit(r) \/ PaidCommit(r)
         \/ SettleCommit(r) \/ FailCommit(r)
         \/ UNCHANGED <<status, source, deposit, due, seat>>
  BY DEF Continue, RedeemRead, RefundRead, RescheduleCheck, RescheduleCommit, HookReread,
         PurchaseIntent, bookingVars

\* How a request at each first stage has begun.
LEMMA BeginBy ==
  ASSUME TypeInv, NEW r \in Req, Begin(r)
  PROVE  /\ pc'[r] \in Creating =>
              \E b \in Booking, t \in Slot, s \in Seat \cup {NoSeat}, src \in {"ONLINE", "MANUAL"},
                 dep \in {0, Deposit}, c \in Card \cup {NoCard} :
                   CreateCheck(r, b, t, s, src, dep, c)
         /\ pc'[r] = "cancel" => \E b \in Booking : CancelRead(r, b)
         /\ pc'[r] = "paid" => \E b \in Booking : PaidRead(r, b)
         /\ pc'[r] = "reschedule" => \E b \in Booking, t \in Slot : RescheduleRead(r, b, t)
         /\ pc'[r] = "finish" =>
              \E b \in Booking, to \in {"COMPLETED", "NO_SHOW"} : FinishRead(r, b, to)
         /\ pc'[r] \in {"hook", "rebind"} =>
              \E o \in Owner, ev \in {"success", "mismatch", "failure"} :
                HookRead(r, o, ev) \/ HookRebind(r, o, ev)
         /\ pc'[r] = "purchase" => \E c \in Card : Purchase(r, c)
  <1>0. pc \in [Req -> Stage] /\ ctx \in [Req -> CtxType] /\ plan \in [Req -> Seq(Row)]
    BY Typed
  <1>1. \A stage, c, rows : Start(r, stage, c, rows) => pc'[r] = stage
    BY <1>0 DEF Start
  <1>2. /\ \A b, t, s, src, dep, c : CreateCheck(r, b, t, s, src, dep, c) => pc'[r] \in Creating
        /\ \A b : CancelRead(r, b) => pc'[r] = "cancel"
        /\ \A b : PaidRead(r, b) => pc'[r] = "paid"
        /\ \A b, t : RescheduleRead(r, b, t) => pc'[r] = "reschedule"
        /\ \A b, to : FinishRead(r, b, to) => pc'[r] = "finish"
        /\ \A o, ev : HookRead(r, o, ev) => pc'[r] = "hook"
        /\ \A o, ev : HookRebind(r, o, ev) => pc'[r] = "rebind"
        /\ \A c : Purchase(r, c) => pc'[r] = "purchase"
    BY <1>1, Zenon DEF CreateCheck, CancelRead, PaidRead, RescheduleRead, FinishRead, HookRead, HookRebind,
         Purchase, Creating
  <1>3. QED BY <1>2 DEF Begin, Creating

\* What it then has.
LEMMA BeginHas ==
  ASSUME TypeInv, NEW r \in Req
  PROVE  /\ \A b : CancelRead(r, b) \/ PaidRead(r, b) => ctx'[r].target = b
         /\ \A b, t : RescheduleRead(r, b, t) => ctx'[r].target = b /\ ctx'[r].slot = t
         /\ \A b, to : FinishRead(r, b, to) => ctx'[r].target = b
         /\ \A b, t, s, src, dep, c : CreateCheck(r, b, t, s, src, dep, c) =>
              /\ ctx'[r].target = b /\ ctx'[r].slot = t /\ ctx'[r].seat = s
              /\ ctx'[r].card = c /\ ctx'[r].bal = 0
              /\ pc'[r] = IF c = NoCard THEN "create" ELSE "redeem"
  <1>0. pc \in [Req -> Stage] /\ ctx \in [Req -> CtxType] /\ plan \in [Req -> Seq(Row)]
    BY Typed
  <1>1. \A stage, c, rows : Start(r, stage, c, rows) => pc'[r] = stage /\ ctx'[r] = c
    BY <1>0 DEF Start
  <1>2. ASSUME NEW b, CancelRead(r, b) \/ PaidRead(r, b) PROVE ctx'[r].target = b
    <2>1. ctx'[r] = [NoCtx EXCEPT !.target = b]
      BY <1>1, <1>2 DEF CancelRead, PaidRead
    <2>2. QED BY <2>1 DEF NoCtx
  <1>3. ASSUME NEW b, NEW t, RescheduleRead(r, b, t)
        PROVE  ctx'[r].target = b /\ ctx'[r].slot = t
    <2>1. ctx'[r] = [NoCtx EXCEPT !.target = b, !.slot = t]
      BY <1>1, <1>3 DEF RescheduleRead
    <2>2. QED BY <2>1 DEF NoCtx
  <1>4. ASSUME NEW b, NEW to, FinishRead(r, b, to) PROVE ctx'[r].target = b
    <2>1. ctx'[r] = [NoCtx EXCEPT !.target = b, !.will = to]
      BY <1>1, <1>4 DEF FinishRead
    <2>2. QED BY <2>1 DEF NoCtx
  <1>5. ASSUME NEW b, NEW t, NEW s, NEW src, NEW dep, NEW c, CreateCheck(r, b, t, s, src, dep, c)
        PROVE  /\ ctx'[r].target = b /\ ctx'[r].slot = t /\ ctx'[r].seat = s
               /\ ctx'[r].card = c /\ ctx'[r].bal = 0
               /\ pc'[r] = IF c = NoCard THEN "create" ELSE "redeem"
    <2>1. /\ ctx'[r] = [NoCtx EXCEPT !.target = b, !.slot = t, !.seat = s, !.source = src,
                                     !.dep = dep, !.card = c]
          /\ pc'[r] = IF c = NoCard THEN "create" ELSE "redeem"
      BY <1>1, <1>5 DEF CreateCheck
    <2>2. QED BY <2>1 DEF NoCtx
  <1>6. QED BY <1>2, <1>3, <1>4, <1>5

\* A step that waits for a deposit or marks an intent keeps DepositInv.
LEMMA DepositStep ==
  ASSUME Base, DepositInv, NEW r \in Req, RequestStep(r)
  PROVE  DepositInv'
  <1> USE Typed DEF Base
  <1>1. ASSUME NEW b \in Booking, intent'[b] = "ABSENT"
        PROVE  ~confirmed'[b]
    <2>1. intent[b] = "ABSENT"
      BY <1>1, IntentStep
    <2>2. CASE ~(Continue(r) /\ ctx[r].target = b)
      BY <2>1, <2>2, Footprint DEF DepositInv
    <2>3. CASE Continue(r) /\ ctx[r].target = b
      BY <1>1, <2>1, <2>3 DEF DepositInv, Continue, RedeemRead, CreateCommit, RefundRead,
           CancelCommit, RescheduleCheck, RescheduleCommit, FinishCommit, PaidCommit,
           HookReread, SettleCommit, FailCommit, PurchaseIntent, intentVars
    <2>4. QED BY <2>2, <2>3
  <1>2. ASSUME NEW b \in Booking, status'[b] = "AWAITING_PAYMENT"
        PROVE  intent'[b] # "ABSENT"
    <2>1. CASE status[b] = "AWAITING_PAYMENT"
      BY <2>1, IntentStep DEF DepositInv
    <2>2. CASE status[b] # "AWAITING_PAYMENT"
      <3>1. Continue(r) /\ ctx[r].target = b
        BY <1>2, <2>2, Footprint
      <3>2. CreateCommit(r)
        <4>1. status' # status
          BY <1>2, <2>2
        <4>2. ~(CancelCommit(r) \/ PaidCommit(r) \/ SettleCommit(r) \/ FailCommit(r))
          BY <1>2, <2>2, <3>1 DEF CancelCommit, PaidCommit, SettleCommit, FailCommit
        <4>3. ~FinishCommit(r)
          <5>1. FinishCommit(r) => ctx[r].will \in {"COMPLETED", "NO_SHOW"}
            BY DEF FinishCommit, Ready, DataOK
          <5>2. QED BY <1>2, <3>1, <5>1 DEF FinishCommit
        <4>4. QED BY <3>1, <4>1, <4>2, <4>3, OtherSteps
      <3>3. QED BY <1>2, <3>1, <3>2 DEF CreateCommit
    <2>3. QED BY <2>1, <2>2
  <1>3. ASSUME NEW q \in Req, pc'[q] = "paid"
        PROVE  intent'[ctx'[q].target] # "ABSENT" /\ source'[ctx'[q].target] = "MANUAL"
    <2> DEFINE b == ctx'[q].target
    <2>1. /\ b \in Booking /\ intent[b] # "ABSENT" /\ source[b] = "MANUAL"
          /\ status[b] # "ABSENT"
      <3>1. CASE q # r
        BY <1>3, <3>1, OthersKeep DEF DepositInv, CreationInv, Acting, Stage, DataOK, BookingStages
      <3>2. CASE q = r /\ Begin(r)
        <4>1. PICK x \in Booking : PaidRead(r, x)
          BY <1>3, <3>2, BeginBy
        <4>2. /\ source[x] = "MANUAL" /\ status[x] = "AWAITING_PAYMENT"
              /\ ctx'[r].target = x
          BY <4>1, BeginHas DEF PaidRead
        <4>3. QED BY <3>2, <4>2 DEF DepositInv
      <3>3. CASE q = r /\ Lock(r)
        BY <1>3, <3>3 DEF Lock, DepositInv, CreationInv, Acting, Stage, DataOK, BookingStages
      <3>4. CASE q = r /\ Continue(r)
        BY <1>3, <3>4, ContinueFacts
      <3>5. CASE q = r /\ Abort(r)
        BY <1>3, <3>5 DEF Abort, End
      <3>6. QED BY <3>1, <3>2, <3>3, <3>4, <3>5 DEF RequestStep
    <2>2. ~(CreateCommit(r) /\ ctx[r].target = b)
      BY <2>1 DEF CreateCommit, Ready, CreationInv, Creating
    <2>3. QED BY <2>1, <2>2, IntentStep, ColumnStep
  <1>4. QED BY <1>1, <1>2, <1>3 DEF DepositInv

LEMMA DepositInvInductive ==
  /\ Init => DepositInv
  /\ Base /\ DepositInv /\ [Next]_vars => DepositInv'
  <1>1. Init => DepositInv
    <2>1. ASSUME Init, NEW b \in Booking
          PROVE  b \in Owner /\ status[b] = "ABSENT" /\ ~confirmed[b]
      BY <2>1 DEF Init, Owner
    <2>2. Init => \A r \in Req : pc[r] = "idle"
      BY DEF Init
    <2>3. QED BY <2>1, <2>2 DEF DepositInv
  <1>2. ASSUME UNCHANGED <<bookingVars, intentVars, pc, ctx>>, DepositInv
        PROVE  DepositInv'
    BY <1>2 DEF DepositInv, bookingVars, intentVars
  <1>3. Environment => UNCHANGED <<bookingVars, intentVars, pc, ctx>>
    BY DEF Environment, LookupExpired, Expire, ChangeSeats, Tick, requestVars
  <1>4. UNCHANGED vars => UNCHANGED <<bookingVars, intentVars, pc, ctx>>
    BY DEF vars, requestVars
  <1>5. QED BY <1>1, <1>2, <1>3, <1>4, DepositStep DEF Next, RequestStep

\* The three columns of a booking that the abstract desk sees.
Seen(b) == <<PhaseOf(status[b]), PaidOf(b), ClaimOf(b)>>

\* A step that leaves every booking but one as it is changes the abstract desk there only.
LEMMA OneDeal ==
  ASSUME NEW x \in Booking, \A b \in Booking \ {x} : Seen(b)' = Seen(b)
  PROVE  /\ [b \in Booking |-> PhaseOf(status[b])]'
              = [[b \in Booking |-> PhaseOf(status[b])] EXCEPT ![x] = PhaseOf(status'[x])]
         /\ [b \in Booking |-> PaidOf(b)]'
              = [[b \in Booking |-> PaidOf(b)] EXCEPT ![x] = PaidOf(x)']
         /\ [b \in Booking |-> ClaimOf(b)]'
              = [[b \in Booking |-> ClaimOf(b)] EXCEPT ![x] = ClaimOf(x)']
         /\ PaidOf(x)' = PaidOf(x) =>
              [b \in Booking |-> PaidOf(b)]' = [b \in Booking |-> PaidOf(b)]
         /\ ClaimOf(x)' = ClaimOf(x) =>
              [b \in Booking |-> ClaimOf(b)]' = [b \in Booking |-> ClaimOf(b)]
  BY DEF Seen

\* A step that leaves every booking as it is does not show.
LEMMA NoDeal ==
  ASSUME \A b \in Booking : Seen(b)' = Seen(b)
  PROVE  UNCHANGED Desk!deskVars
  BY DEF Seen, Desk!deskVars

\* The commit of a creation takes a booking.
LEMMA CreateTakes ==
  ASSUME Base, DepositInv, NEW r \in Req, CreateCommit(r), RequestStep(r)
  PROVE  Desk!Next
  <1> USE Typed DEF Base
  <1>0. PICK x \in Booking : x = ctx[r].target
    BY DEF CreateCommit, Ready, DataOK, BookingStages
  <1> DEFINE left == ctx[r].dep - AppliedDeposit(ctx[r].bal, ctx[r].dep)
  <1>1. /\ x \in Booking /\ status[x] = "ABSENT" /\ intent[x] = "ABSENT"
        /\ redemption[x] = "none" /\ ~confirmed[x] /\ x \in Owner
    BY <1>0 DEF CreateCommit, Ready, CreationInv, Creating, DepositInv
  <1>2. \A b \in Booking \ {x} : Seen(b)' = Seen(b)
    BY <1>0, Footprint DEF Seen, PaidOf, ClaimOf
  <1>3. /\ status'[x] = IF left > 0 THEN "AWAITING_PAYMENT" ELSE "CONFIRMED"
        /\ intent'[x] = IF left > 0 THEN "REQUIRES_PAYMENT_METHOD" ELSE "ABSENT"
        /\ confirmed'[x] = FALSE
        /\ redemption'[x] \in {"none", "applied"}
    BY <1>0, <1>1 DEF CreateCommit, redemptionVars
  <1> HIDE DEF left
  <1>4. PICK p \in {"nothing", "open"}, c \in {"none", "held"} :
          /\ p = PaidOf(x)' /\ c = ClaimOf(x)'
          /\ PhaseOf(status'[x]) = IF p = "open" THEN "waiting" ELSE "confirmed"
    BY <1>3 DEF PaidOf, ClaimOf, PhaseOf
  <1>5. PhaseOf(status[x]) = "free"
    BY <1>1 DEF PhaseOf
  <1>6. Desk!Take(x, p, c)
    BY <1>1, <1>2, <1>4, <1>5, OneDeal DEF Desk!Take, Desk!Taken, Desk!Move
  <1>7. QED BY <1>1, <1>4, <1>6 DEF Desk!Next

\* Where a step of the webhook or of markManualBookingPaid confirms a booking, the
\* deposit is paid.
LEMMA ConfirmPays ==
  ASSUME Base, DepositInv, NEW r \in Req, RequestStep(r), ctx[r].target \in Booking,
         PaidCommit(r) \/ SettleCommit(r)
  PROVE  Desk!Next
  <1> USE Typed DEF Base
  <1>0. PICK x \in Booking : x = ctx[r].target
    OBVIOUS
  <1>1. /\ x \in Owner /\ status[x] # "ABSENT" /\ intent[x] # "ABSENT"
    BY <1>0 DEF PaidCommit, SettleCommit, Ready, CreationInv, Acting, Stage, PaymentInv, DepositInv
  <1>2. \A b \in Booking \ {x} : Seen(b)' = Seen(b)
    BY <1>0, Footprint DEF Seen, PaidOf, ClaimOf
  <1>3. /\ status'[x] = "CONFIRMED" /\ intent'[x] = "SUCCEEDED" /\ confirmed'[x] = TRUE
        /\ redemption'[x] = redemption[x]
    BY <1>0, <1>1 DEF PaidCommit, SettleCommit, redemptionVars
  <1>4. /\ PhaseOf(status'[x]) = "confirmed" /\ PaidOf(x)' = "paid" /\ ClaimOf(x)' = ClaimOf(x)
        /\ PhaseOf(status[x]) # "free" /\ PaidOf(x) # "nothing"
    BY <1>1, <1>3 DEF PaidOf, ClaimOf, PhaseOf, BookingStatus
  <1>5. Desk!Pay(x)
    BY <1>0, <1>1, <1>2, <1>4, OneDeal DEF Desk!Pay, Desk!Taken, Desk!Move
  <1>6. QED BY <1>1, <1>5 DEF Desk!Next

\* Completing a booking, or marking it a no-show, finishes it: its deposit is paid.
LEMMA FinishFinishes ==
  ASSUME Base, DepositInv, NEW r \in Req, RequestStep(r), FinishCommit(r)
  PROVE  Desk!Next
  <1> USE Typed DEF Base
  <1>0. PICK x \in Booking : x = ctx[r].target
    BY DEF FinishCommit, Ready, DataOK, BookingStages
  <1>1. /\ status[x] # "ABSENT" /\ PaidFor(x)
        /\ ctx[r].will \in {"COMPLETED", "NO_SHOW"}
    BY <1>0 DEF FinishCommit, Ready, CreationInv, Acting, Stage, PaymentInv, DataOK, BookingStages
  <1>2. \A b \in Booking \ {x} : Seen(b)' = Seen(b)
    BY <1>0, Footprint DEF Seen, PaidOf, ClaimOf
  <1>3. /\ status'[x] \in {"COMPLETED", "NO_SHOW"} /\ intent'[x] = intent[x]
        /\ confirmed'[x] = confirmed[x] /\ redemption'[x] = redemption[x]
    BY <1>0, <1>1 DEF FinishCommit, redemptionVars, intentVars
  <1>4. /\ PhaseOf(status'[x]) = "over" /\ PaidOf(x)' = PaidOf(x) /\ ClaimOf(x)' = ClaimOf(x)
        /\ PhaseOf(status[x]) # "free" /\ PaidOf(x) # "open"
    BY <1>1, <1>3 DEF PaidOf, ClaimOf, PhaseOf, BookingStatus, PaidFor
  <1>5. Desk!Finish(x)
    BY <1>0, <1>1, <1>2, <1>4, OneDeal DEF Desk!Finish, Desk!Taken, Desk!Move, Desk!deskVars
  <1>6. QED BY <1>1, <1>5 DEF Desk!Next

\* A cancellation returns what the gift card paid, if it paid anything.
LEMMA CancelReturns ==
  ASSUME Base, DepositInv, NEW r \in Req, RequestStep(r), CancelCommit(r)
  PROVE  Desk!Next
  <1> USE Typed DEF Base
  <1>0. PICK x \in Booking : x = ctx[r].target
    BY DEF CancelCommit, Ready, DataOK, BookingStages
  <1>1. /\ status[x] # "ABSENT"
        /\ ctx[r].card # NoCard <=> redemption[x] = "applied"
    BY <1>0 DEF CancelCommit, Ready, CreationInv, Acting, Stage, RefundInv, UnrefundedInv, Open,
           DataOK, BookingStages
  <1>2. \A b \in Booking \ {x} : Seen(b)' = Seen(b)
    BY <1>0, Footprint DEF Seen, PaidOf, ClaimOf
  <1>3. /\ status'[x] = "CANCELLED" /\ intent'[x] = intent[x]
        /\ confirmed'[x] = confirmed[x]
        /\ redemption'[x] = IF redemption[x] = "applied" THEN "refunded" ELSE redemption[x]
    BY <1>0, <1>1 DEF CancelCommit, intentVars
  <1>4. /\ PhaseOf(status'[x]) = "released" /\ PaidOf(x)' = PaidOf(x)
        /\ ClaimOf(x)' = IF ClaimOf(x) = "held" THEN "returned" ELSE ClaimOf(x)
        /\ PhaseOf(status[x]) # "free"
    BY <1>1, <1>3 DEF PaidOf, ClaimOf, PhaseOf, BookingStatus
  <1>5. Desk!Cancel(x)
    BY <1>0, <1>1, <1>2, <1>4, OneDeal DEF Desk!Cancel, Desk!Taken, Desk!Move, Desk!deskVars
  <1>6. QED BY <1>1, <1>5 DEF Desk!Next

\* A failed payment releases a booking that waits for it, and does not show otherwise.
LEMMA FailureLapses ==
  ASSUME Base, DepositInv, NEW r \in Req, RequestStep(r), ctx[r].target \in Booking,
         FailCommit(r)
  PROVE  Desk!Next \/ UNCHANGED Desk!deskVars
  <1> USE Typed DEF Base
  <1>0. PICK x \in Booking : x = ctx[r].target
    OBVIOUS
  <1>1. /\ x \in Owner /\ status[x] # "ABSENT" /\ intent[x] # "ABSENT"
    BY <1>0 DEF FailCommit, Ready, CreationInv, Acting, Stage, PaymentInv
  <1>2. \A b \in Booking \ {x} : Seen(b)' = Seen(b)
    BY <1>0, Footprint DEF Seen, PaidOf, ClaimOf
  <1>3. /\ status'[x] \in {status[x], "CANCELLED"} /\ intent'[x] = "FAILED"
        /\ confirmed'[x] = confirmed[x] /\ redemption'[x] = redemption[x]
    BY <1>0, <1>1 DEF FailCommit, redemptionVars
  <1>4. /\ PaidOf(x)' = PaidOf(x) /\ ClaimOf(x)' = ClaimOf(x)
        /\ PhaseOf(status[x]) # "free" /\ PaidOf(x) # "nothing"
    BY <1>1, <1>3 DEF PaidOf, ClaimOf, PhaseOf, BookingStatus
  <1>5. CASE status'[x] = status[x]
    <2>1. \A b \in Booking : Seen(b)' = Seen(b)
      BY <1>2, <1>4, <1>5 DEF Seen
    <2>2. QED BY <2>1, NoDeal
  <1>6. CASE status'[x] = "CANCELLED"
    <2>1. PhaseOf(status'[x]) = "released"
      BY <1>6 DEF PhaseOf
    <2>2. Desk!Lapse(x)
      BY <1>0, <1>1, <1>2, <1>4, <2>1, OneDeal DEF Desk!Lapse, Desk!Taken, Desk!Move, Desk!deskVars
    <2>3. QED BY <1>1, <2>2 DEF Desk!Next
  <1>7. QED BY <1>3, <1>5, <1>6

\* A step of a request is a deal or does not show.
LEMMA StepDeals ==
  ASSUME Base, DepositInv, NEW r \in Req, RequestStep(r)
  PROVE  Desk!Next \/ UNCHANGED Desk!deskVars
  <1> USE Typed DEF Base
  <1>1. CASE ~(Continue(r) /\ ctx[r].target \in Booking)
    <2>1. \A b \in Booking : Seen(b)' = Seen(b)
      BY <1>1, Footprint DEF Seen, PaidOf, ClaimOf
    <2>2. QED BY <2>1, NoDeal
  <1>2. CASE Continue(r) /\ ctx[r].target \in Booking
    <2>1. CASE UNCHANGED <<status, intentVars, redemption>>
      BY <2>1, NoDeal DEF Seen, PaidOf, ClaimOf, intentVars
    <2>2. CASE CreateCommit(r)
      BY <2>2, CreateTakes
    <2>3. CASE PaidCommit(r) \/ SettleCommit(r)
      BY <1>2, <2>3, ConfirmPays
    <2>4. CASE FinishCommit(r)
      BY <2>4, FinishFinishes
    <2>5. CASE CancelCommit(r)
      BY <2>5, CancelReturns
    <2>6. CASE FailCommit(r)
      BY <1>2, <2>6, FailureLapses
    <2>7. ~PurchaseIntent(r)
      BY <1>2 DEF PurchaseIntent, DataOK
    <2>8. \/ UNCHANGED <<status, intentVars, redemption>>
          \/ CreateCommit(r) \/ PaidCommit(r) \/ SettleCommit(r) \/ FinishCommit(r)
          \/ CancelCommit(r) \/ FailCommit(r)
      BY <1>2, <2>7 DEF Continue, RedeemRead, RefundRead, RescheduleCheck, RescheduleCommit,
           HookReread, bookingVars, redemptionVars
    <2>9. QED BY <2>1, <2>2, <2>3, <2>4, <2>5, <2>6, <2>8
  <1>3. QED BY <1>1, <1>2

\* The desk of requests, locks and stale reads does to each booking only what the abstract
\* desk allows: every commit is one indivisible deal, at the state it meets.
THEOREM DeskRefines == Spec => DeskImplemented
  <1>1. Spec => [](Base /\ DepositInv)
    BY BaseInductive, DepositInvInductive, PTL DEF Spec
  <1>2. Init => Desk!Init
    BY DEF Init, Desk!Init, PhaseOf, PaidOf, ClaimOf, Owner
  <1>3. Environment \/ UNCHANGED vars => UNCHANGED Desk!deskVars
    <2>1. Environment \/ UNCHANGED vars => UNCHANGED <<status, intentVars, redemption>>
      BY DEF Environment, LookupExpired, Expire, ChangeSeats, Tick, vars, bookingVars,
             redemptionVars
    <2>2. UNCHANGED <<status, intentVars, redemption>> => UNCHANGED Desk!deskVars
      BY NoDeal DEF Seen, PaidOf, ClaimOf, intentVars
    <2>3. QED BY <2>1, <2>2
  <1>4. Base /\ DepositInv /\ [Next]_vars => [Desk!Next]_Desk!deskVars
    BY <1>3, StepDeals DEF Next, RequestStep
  <1>5. QED BY <1>1, <1>2, <1>4, PTL DEF Spec, DeskImplemented, Desk!Spec

-----------------------------------------------------------------------------
(***************************************************************************)
(* Amounts.  A creation computes them all from the deposit and the balance *)
(* it has read; afterwards only markManualBookingPaid writes one, the rest *)
(* due, and it confirms the payment in the same commit.                    *)
(***************************************************************************)

MoneyInv ==
  /\ BookingMoneyAddsUp
  /\ \A b \in Booking : status[b] = "ABSENT" => redeemed[b] = 0
  /\ \A r \in Req : pc[r] \in Creating /\ ctx[r].card = NoCard => ctx[r].bal = 0

\* A booking, and its intent, only come to exist by its creation.
LEMMA OnlyCreationMakes ==
  ASSUME Base, DepositInv, NEW r \in Req, RequestStep(r), NEW b \in Booking,
         ~(CreateCommit(r) /\ ctx[r].target = b)
  PROVE  /\ status'[b] # "ABSENT" => status[b] # "ABSENT"
         /\ intent'[b] # "ABSENT" <=> intent[b] # "ABSENT"
  <1> USE Typed DEF Base
  <1>1. CASE ~(Continue(r) /\ ctx[r].target = b)
    BY <1>1, Footprint
  <1>2. CASE Continue(r) /\ ctx[r].target = b
    <2>1. CASE CancelCommit(r) \/ FinishCommit(r) \/ PaidCommit(r) \/ SettleCommit(r)
               \/ FailCommit(r)
      <3>1. status[b] # "ABSENT"
        BY <1>2, <2>1 DEF CancelCommit, FinishCommit, PaidCommit, SettleCommit, FailCommit,
             Ready, CreationInv, Acting, Stage
      <3>2. CASE CancelCommit(r) \/ FinishCommit(r)
        BY <3>1, <3>2 DEF CancelCommit, FinishCommit, intentVars
      <3>3. CASE PaidCommit(r) \/ SettleCommit(r) \/ FailCommit(r)
        <4>1. intent[b] # "ABSENT"
          BY <1>2, <3>3 DEF PaidCommit, SettleCommit, FailCommit, Ready, PaymentInv, DepositInv
        <4>2. QED BY <3>1, <4>1, IntentStep
      <3>4. QED BY <2>1, <3>2, <3>3
    <2>2. CASE UNCHANGED <<status, intent>>
      BY <2>2
    <2>3. ~PurchaseIntent(r)
      BY <1>2 DEF PurchaseIntent, DataOK
    <2>4. QED
      BY <1>2, <2>1, <2>2, <2>3 DEF Continue, RedeemRead, RefundRead, RescheduleCheck,
         RescheduleCommit, HookReread, bookingVars, intentVars
  <1>3. QED BY <1>1, <1>2

\* What the gift card, the deposit left and the rest due come to is the price.
LEMMA ChargeAddsUp ==
  ASSUME NEW bal \in Nat, NEW dep \in 0 .. Price
  PROVE  /\ dep - AppliedDeposit(bal, dep) + RestDue(bal, dep) + Applied(bal, dep) = Price
         /\ bal = 0 => Applied(bal, dep) = 0
  <1>1. /\ AppliedDeposit(bal, dep) \in 0 .. dep
        /\ AppliedBalance(bal, dep) \in 0 .. (Price - dep)
        /\ Applied(bal, dep) \in 0 .. bal
    BY AppliedBounds
  <1>2. QED BY <1>1 DEF RestDue, Applied

\* The amounts of a booking as it is created.
LEMMA CreateAmounts ==
  ASSUME Base, DepositInv, MoneyInv, NEW r \in Req, NEW b \in Booking, CreateCommit(r),
         ctx[r].target = b
  PROVE  /\ deposit'[b] + due'[b] + redeemed'[b] = Price
         /\ intent'[b] # "ABSENT" <=> deposit'[b] > 0
  <1> USE Typed DEF Base
  <1> DEFINE bal == ctx[r].bal
             dep == ctx[r].dep
             left == dep - AppliedDeposit(bal, dep)
  <1>1. /\ bal \in Nat /\ dep \in 0 .. Price /\ left \in Nat
        /\ intent[b] = "ABSENT" /\ redeemed[b] = 0 /\ b \in Owner
        /\ ctx[r].card = NoCard => bal = 0
    <2>1. ctx[r] \in CtxType
      OBVIOUS
    <2>2. bal \in Nat /\ dep \in 0 .. Price
      BY <2>1 DEF CtxType
    <2>3. left \in Nat
      <3>1. AppliedDeposit(bal, dep) \in 0 .. dep
        BY <2>2, AppliedBounds
      <3>2. QED BY <2>2, <3>1
    <2>4. QED
      BY <2>2, <2>3 DEF CreateCommit, Ready, CreationInv, MoneyInv, Creating
  <1>2. /\ deposit'[b] = left /\ due'[b] = RestDue(bal, dep)
        /\ redeemed'[b] = IF ctx[r].card = NoCard THEN redeemed[b] ELSE Applied(bal, dep)
        /\ intent'[b] = IF left > 0 THEN "REQUIRES_PAYMENT_METHOD" ELSE intent[b]
    BY <1>1 DEF CreateCommit, redemptionVars
  <1>3. left + RestDue(bal, dep) + Applied(bal, dep) = Price
    BY <1>1, ChargeAddsUp
  <1>4. ctx[r].card = NoCard => Applied(bal, dep) = 0
    BY <1>1, ChargeAddsUp
  <1> HIDE DEF bal, dep, left
  <1>5. QED BY <1>1, <1>2, <1>3, <1>4

\* A step of a request keeps the amounts.
LEMMA MoneyStep ==
  ASSUME Base, DepositInv, MoneyInv, NEW r \in Req, RequestStep(r)
  PROVE  MoneyInv'
  <1> USE Typed DEF Base
  <1>1. ASSUME NEW b \in Booking, status'[b] # "ABSENT"
        PROVE  /\ \/ deposit'[b] + due'[b] + redeemed'[b] = Price
                  \/ source'[b] = "MANUAL" /\ due'[b] = 0 /\ confirmed'[b]
               /\ intent'[b] # "ABSENT" <=> deposit'[b] > 0
    <2>1. CASE CreateCommit(r) /\ ctx[r].target = b
      BY <2>1, CreateAmounts
    <2>2. CASE ~(CreateCommit(r) /\ ctx[r].target = b)
      <3>1. /\ \/ deposit[b] + due[b] + redeemed[b] = Price
               \/ source[b] = "MANUAL" /\ due[b] = 0 /\ confirmed[b]
            /\ intent'[b] # "ABSENT" <=> deposit[b] > 0
        BY <1>1, <2>2, OnlyCreationMakes DEF MoneyInv, BookingMoneyAddsUp
      <3>2. /\ source'[b] = source[b] /\ deposit'[b] = deposit[b]
            /\ redeemed'[b] = redeemed[b] /\ (confirmed[b] => confirmed'[b])
        BY <2>2, ColumnStep, IntentStep
      <3>3. CASE PaidCommit(r) /\ ctx[r].target = b
        <4>1. source[b] = "MANUAL" /\ due'[b] = 0 /\ confirmed'[b]
          BY <3>3 DEF PaidCommit, Ready, DepositInv
        <4>2. QED BY <3>1, <3>2, <4>1
      <3>4. CASE ~(PaidCommit(r) /\ ctx[r].target = b)
        BY <2>2, <3>1, <3>2, <3>4, ColumnStep
      <3>5. QED BY <3>3, <3>4
    <2>3. QED BY <2>1, <2>2
  <1>2. ASSUME NEW b \in Booking, status'[b] = "ABSENT"
        PROVE  redeemed'[b] = 0
    <2>1. status[b] = "ABSENT" /\ ~(CreateCommit(r) /\ ctx[r].target = b)
      BY <1>2, NeverAbsentAgain DEF CreateCommit
    <2>2. QED BY <2>1, ColumnStep DEF MoneyInv
  <1>3. ASSUME NEW q \in Req, pc'[q] \in Creating, ctx'[q].card = NoCard
        PROVE  ctx'[q].bal = 0
    <2>1. CASE q # r
      BY <1>3, <2>1, OthersKeep DEF MoneyInv
    <2>2. CASE q = r /\ Begin(r)
      BY <1>3, <2>2, BeginBy, BeginHas
    <2>3. CASE q = r /\ Lock(r)
      BY <1>3, <2>3 DEF Lock, MoneyInv
    <2>4. CASE q = r /\ Continue(r)
      <3>1. pc[r] = "redeem" /\ ctx[r].card \in Card
        BY <1>3, <2>4, ContinueFacts DEF Creating, DataOK
      <3>2. RedeemRead(r)
        BY <2>4, <3>1 DEF Continue, CreateCommit, RefundRead, CancelCommit, RescheduleCheck,
           RescheduleCommit, FinishCommit, PaidCommit, HookReread, SettleCommit, FailCommit,
           PurchaseIntent, Ready
      <3>3. ctx'[r] = [ctx[r] EXCEPT !.bal = balance[ctx[r].card]]
        BY <1>3, <2>4, <3>2 DEF RedeemRead, GoOn, End, Creating
      <3>4. ctx'[r].card = ctx[r].card
        BY <3>3 DEF CtxType
      <3>5. QED BY <1>3, <2>4, <3>1, <3>4
    <2>5. CASE q = r /\ Abort(r)
      BY <1>3, <2>5 DEF Abort, End, Creating
    <2>6. QED BY <2>1, <2>2, <2>3, <2>4, <2>5 DEF RequestStep
  <1>4. QED BY <1>1, <1>2, <1>3 DEF MoneyInv, BookingMoneyAddsUp

LEMMA MoneyInvInductive ==
  /\ Init => MoneyInv
  /\ Base /\ DepositInv /\ MoneyInv /\ [Next]_vars => MoneyInv'
  <1>1. Init => MoneyInv
    BY DEF Init, MoneyInv, BookingMoneyAddsUp, Creating
  <1>2. ASSUME UNCHANGED <<bookingVars, redemptionVars, intentVars, pc, ctx>>, MoneyInv
        PROVE  MoneyInv'
    BY <1>2 DEF MoneyInv, BookingMoneyAddsUp, bookingVars, redemptionVars, intentVars
  <1>3. Environment => UNCHANGED <<bookingVars, redemptionVars, intentVars, pc, ctx>>
    BY DEF Environment, LookupExpired, Expire, ChangeSeats, Tick, requestVars
  <1>4. UNCHANGED vars => UNCHANGED <<bookingVars, redemptionVars, intentVars, pc, ctx>>
    BY DEF vars, requestVars
  <1>5. QED BY <1>1, <1>2, <1>3, <1>4, MoneyStep DEF Next, RequestStep

\* Deposit, rest due and gift card make up a booking's price, and there is an intent
\* exactly when something of the deposit was left to pay, for every price, deposit and
\* balance of the cards.
THEOREM AmountsAddUp == Spec => []BookingMoneyAddsUp
  <1>1. Spec => [](Base /\ DepositInv /\ MoneyInv)
    BY BaseInductive, DepositInvInductive, MoneyInvInductive, PTL DEF Spec
  <1>2. MoneyInv => BookingMoneyAddsUp
    BY DEF MoneyInv
  <1>3. QED BY <1>1, <1>2, PTL

-----------------------------------------------------------------------------
(***************************************************************************)
(* Gift cards.  Whoever writes a card's balance writes its status with it; *)
(* the two come from what the request read before, so what it read must    *)
(* already fit: a redemption starts from a positive balance, takes         *)
(* something of it, and a refund gives something back.                     *)
(***************************************************************************)

CardInv ==
  /\ CardStatusMatchesBalance
  /\ \A b \in Booking : Open(b) => redeemed[b] > 0
  /\ \A r \in Req : pc[r] = "create" /\ ctx[r].card # NoCard => ctx[r].bal > 0

CardFits(st, bal) ==
  /\ st = "ACTIVE" => bal > 0
  /\ st = "DEPLETED" => bal = 0
  /\ st = "PENDING_PAYMENT" => bal = CardValue

\* A redemption takes something.
LEMMA SomethingApplied ==
  ASSUME NEW bal \in Nat \ {0}, NEW dep \in 0 .. Price
  PROVE  Applied(bal, dep) > 0
  BY DEF Applied, AppliedDeposit, AppliedBalance, Min2

\* What a commit makes of a card fits.
LEMMA CardWrites ==
  ASSUME Base, CardInv, NEW r \in Req, NEW c \in Card, CardFits(cardStatus[c], balance[c]),
         Continue(r)
  PROVE  CardFits(cardStatus'[c], balance'[c])
  <1> USE Typed DEF Base
  <1>0. ctx[r] \in CtxType
    OBVIOUS
  <1>1. CASE CreateCommit(r)
    <2> DEFINE left == ctx[r].bal - Applied(ctx[r].bal, ctx[r].dep)
    <2>1. left \in Nat
      <3>1. ctx[r].bal \in Nat /\ ctx[r].dep \in 0 .. Price
        BY <1>0 DEF CtxType
      <3>2. Applied(ctx[r].bal, ctx[r].dep) \in 0 .. ctx[r].bal
        BY <3>1, AppliedBounds
      <3>3. QED BY <3>1, <3>2
    <2>2. \/ cardStatus'[c] = cardStatus[c] /\ balance'[c] = balance[c]
          \/ cardStatus'[c] = StatusAfterRedemption(left) /\ balance'[c] = left
      BY <1>1 DEF CreateCommit, cardVars
    <2> HIDE DEF left
    <2>3. QED BY <2>1, <2>2 DEF CardFits, StatusAfterRedemption
  <1>2. CASE CancelCommit(r)
    <2> DEFINE b == ctx[r].target
               back == ctx[r].bal + redeemed[b]
    <2>1. CASE ctx[r].card = NoCard
      BY <1>2, <2>1 DEF CancelCommit, cardVars
    <2>2. CASE ctx[r].card # NoCard
      <3>1. /\ b \in Booking /\ ctx[r].bal \in Nat /\ redeemed[b] \in Nat /\ redeemed[b] > 0
            /\ ctx[r].seen \in GiftCardStatus
        <4>1. b \in Booking /\ Open(b) /\ ctx[r].seen \in GiftCardStatus
          BY <1>2, <2>2 DEF CancelCommit, Ready, RefundInv, DataOK, BookingStages
        <4>2. ctx[r].bal \in Nat
          BY <1>0 DEF CtxType
        <4>3. QED BY <4>1, <4>2 DEF CardInv
      <3>2. back \in Nat /\ back > 0
        BY <3>1
      <3>3. \/ cardStatus'[c] = cardStatus[c] /\ balance'[c] = balance[c]
            \/ cardStatus'[c] = StatusAfterRefund(ctx[r].seen) /\ balance'[c] = back
        BY <1>2, <2>2 DEF CancelCommit
      <3> HIDE DEF back
      <3>4. QED BY <3>2, <3>3 DEF CardFits, StatusAfterRefund
    <2>3. QED BY <2>1, <2>2
  <1>3. CASE SettleCommit(r)
    <2>1. ctx[r].bal \in Nat
      BY <1>0 DEF CtxType
    <2>2. QED BY <1>3, <2>1 DEF SettleCommit, CardFits, cardVars
  <1>4. CASE FailCommit(r)
    BY <1>4 DEF FailCommit, CardFits, cardVars
  <1>5. CASE UNCHANGED cardVars
    BY <1>5 DEF cardVars
  <1>6. QED
    BY <1>1, <1>2, <1>3, <1>4, <1>5 DEF Continue, RedeemRead, RefundRead, RescheduleCheck,
       RescheduleCommit, FinishCommit, PaidCommit, HookReread, PurchaseIntent

\* A step of a request keeps the cards.
LEMMA CardStep ==
  ASSUME Base, DepositInv, CardInv, NEW r \in Req, RequestStep(r)
  PROVE  CardInv'
  <1> USE Typed DEF Base
  <1>1. ASSUME NEW c \in Card PROVE CardFits(cardStatus'[c], balance'[c])
    <2>0. CardFits(cardStatus[c], balance[c])
      BY DEF CardInv, CardStatusMatchesBalance, CardFits
    <2>1. CASE UNCHANGED cardVars
      BY <2>0, <2>1 DEF cardVars
    <2>2. CASE \E d \in Card : Purchase(r, d)
      BY <2>0, <2>2 DEF Purchase, CardFits
    <2>3. CASE Continue(r)
      BY <2>0, <2>3, CardWrites
    <2>4. QED
      BY <2>1, <2>2, <2>3 DEF RequestStep, Begin, CreateCheck, CancelRead, PaidRead,
         RescheduleRead, FinishRead, HookRead, HookRebind, Lock, Abort
  <1>2. ASSUME NEW b \in Booking, redemption'[b] = "applied"
        PROVE  redeemed'[b] > 0
    <2>1. CASE CreateCommit(r) /\ ctx[r].target = b
      <3>1. redemption[b] = "none"
        BY <2>1 DEF CreateCommit, Ready, CreationInv, Creating
      <3>2. ctx[r].card # NoCard
        BY <1>2, <2>1, <3>1 DEF CreateCommit, redemptionVars
      <3>3. /\ ctx[r].bal \in Nat /\ ctx[r].dep \in 0 .. Price /\ ctx[r].bal > 0
        <4>1. ctx[r] \in CtxType
          OBVIOUS
        <4>2. ctx[r].bal \in Nat /\ ctx[r].dep \in 0 .. Price
          BY <4>1 DEF CtxType
        <4>3. QED BY <2>1, <3>2, <4>2 DEF CreateCommit, Ready, CardInv
      <3>4. redeemed'[b] = Applied(ctx[r].bal, ctx[r].dep)
        BY <2>1, <3>2 DEF CreateCommit
      <3>5. QED BY <3>3, <3>4, SomethingApplied
    <2>2. CASE ~(CreateCommit(r) /\ ctx[r].target = b)
      <3>1. redemption[b] = "applied"
        <4>1. CASE status[b] = "ABSENT"
          <5>1. status'[b] = "ABSENT"
            BY <2>2, <4>1, OnlyCreationMakes
          <5>2. QED BY <1>2, <5>1, CreationInvInductive DEF CreationInv, Next, RequestStep
        <4>2. CASE status[b] # "ABSENT"
          BY <1>2, <4>2, RedemptionStep
        <4>3. QED BY <4>1, <4>2
      <3>2. QED BY <2>2, <3>1, ColumnStep DEF CardInv, Open
    <2>3. QED BY <2>1, <2>2
  <1>3. ASSUME NEW q \in Req, pc'[q] = "create", ctx'[q].card # NoCard
        PROVE  ctx'[q].bal > 0
    <2>1. CASE q # r
      BY <1>3, <2>1, OthersKeep DEF CardInv
    <2>2. CASE q = r /\ Begin(r)
      <3>1. PICK b \in Booking, t \in Slot, s \in Seat \cup {NoSeat},
                 src \in {"ONLINE", "MANUAL"}, dep \in {0, Deposit}, c \in Card \cup {NoCard} :
                   CreateCheck(r, b, t, s, src, dep, c)
        BY <1>3, <2>2, BeginBy DEF Creating
      <3>2. ctx'[r].card = c /\ pc'[r] = IF c = NoCard THEN "create" ELSE "redeem"
        BY <3>1, BeginHas
      <3>3. QED BY <1>3, <2>2, <3>2
    <2>3. CASE q = r /\ Lock(r)
      BY <1>3, <2>3 DEF Lock, CardInv
    <2>4. CASE q = r /\ Continue(r)
      <3>1. pc[r] = "redeem" /\ ctx[r].card \in Card
        BY <1>3, <2>4, ContinueFacts DEF DataOK
      <3>2. RedeemRead(r)
        BY <2>4, <3>1 DEF Continue, CreateCommit, RefundRead, CancelCommit, RescheduleCheck,
           RescheduleCommit, FinishCommit, PaidCommit, HookReread, SettleCommit, FailCommit,
           PurchaseIntent, Ready
      <3>3. /\ ctx'[r] = [ctx[r] EXCEPT !.bal = balance[ctx[r].card]]
            /\ balance[ctx[r].card] > 0
        BY <1>3, <2>4, <3>2 DEF RedeemRead, GoOn, End, Usable
      <3>4. ctx'[r].bal = balance[ctx[r].card]
        BY <3>3 DEF CtxType
      <3>5. QED BY <2>4, <3>3, <3>4
    <2>5. CASE q = r /\ Abort(r)
      BY <1>3, <2>5 DEF Abort, End
    <2>6. QED BY <2>1, <2>2, <2>3, <2>4, <2>5 DEF RequestStep
  <1>4. QED
    BY <1>1, <1>2, <1>3 DEF CardInv, CardStatusMatchesBalance, CardFits, Open

LEMMA CardInvInductive ==
  /\ Init => CardInv
  /\ Base /\ DepositInv /\ CardInv /\ [Next]_vars => CardInv'
  <1>1. Init => CardInv
    BY DEF Init, CardInv, CardStatusMatchesBalance, Open
  <1>2. ASSUME UNCHANGED <<cardVars, redemptionVars, pc, ctx>>, CardInv
        PROVE  CardInv'
    BY <1>2 DEF CardInv, CardStatusMatchesBalance, Open, cardVars, redemptionVars
  <1>3. ASSUME CardInv, Environment, UNCHANGED cardVars
        PROVE  CardInv'
    BY <1>2, <1>3 DEF Environment, LookupExpired, Expire, ChangeSeats, Tick, requestVars
  <1>4. ASSUME CardInv, Base, NEW c \in Card, LookupExpired(c)
        PROVE  CardInv'
    BY <1>4, Typed DEF Base, LookupExpired, CardInv, CardStatusMatchesBalance, Open,
       redemptionVars, requestVars
  <1>5. Environment => UNCHANGED cardVars \/ \E c \in Card : LookupExpired(c)
    BY DEF Environment, Expire, ChangeSeats, Tick
  <1>6. UNCHANGED vars => UNCHANGED <<cardVars, redemptionVars, pc, ctx>>
    BY DEF vars, requestVars
  <1>7. QED BY <1>1, <1>2, <1>3, <1>4, <1>5, <1>6, CardStep DEF Next, RequestStep

\* A gift card's status fits its balance, although redemptions, refunds and the webhook
\* write both from what they read before.
THEOREM CardsFit == Spec => []CardStatusMatchesBalance
  <1>1. Spec => [](Base /\ DepositInv /\ CardInv)
    BY BaseInductive, DepositInvInductive, CardInvInductive, PTL DEF Spec
  <1>2. CardInv => CardStatusMatchesBalance
    BY DEF CardInv
  <1>3. QED BY <1>1, <1>2, PTL

-----------------------------------------------------------------------------
(***************************************************************************)
(* Unpaid gift cards.  A confirmation is never taken back, so a request    *)
(* that read a card as paid for may write ACTIVE or DEPLETED later,        *)
(* whatever has become of the card meanwhile.                              *)
(***************************************************************************)

Spending == {"create", "refund"}
SpentInv ==
  /\ OnlyPaidCardsSpent
  /\ \A r \in Req : pc[r] \in Spending /\ ctx[r].card # NoCard => confirmed[ctx[r].card]

\* Of the steps that begin, wait or abort, only a purchase writes a card.
LEMMA CardsKept ==
  ASSUME NEW r \in Req, Begin(r) \/ Lock(r) \/ Abort(r)
  PROVE  UNCHANGED cardVars \/ \E c \in Card : Purchase(r, c)
  <1>1. ASSUME NEW b, NEW t, NEW s, NEW src, NEW dep, NEW c, CreateCheck(r, b, t, s, src, dep, c)
        PROVE  UNCHANGED cardVars
    BY <1>1, Zenon DEF CreateCheck
  <1>2. ASSUME NEW b, NEW t, CancelRead(r, b) \/ PaidRead(r, b) \/ RescheduleRead(r, b, t)
                             \/ FinishRead(r, b, t)
        PROVE  UNCHANGED cardVars
    BY <1>2, Zenon DEF CancelRead, PaidRead, RescheduleRead, FinishRead
  <1>3. ASSUME NEW o, NEW ev, HookRead(r, o, ev) \/ HookRebind(r, o, ev)
        PROVE  UNCHANGED cardVars
    BY <1>3, Zenon DEF HookRead, HookRebind
  <1>4. CASE Begin(r)
    BY <1>1, <1>2, <1>3, <1>4, Zenon DEF Begin
  <1>5. CASE Lock(r) \/ Abort(r)
    BY <1>5 DEF Lock, Abort
  <1>6. QED BY <1>4, <1>5

\* A card that is ACTIVE or DEPLETED after a step was so before, or the step's request
\* read it as paid for, or is the one that confirms its payment.
LEMMA SpentByPaid ==
  ASSUME Base, SpentInv, NEW r \in Req, RequestStep(r), NEW c \in Card,
         cardStatus'[c] \in {"ACTIVE", "DEPLETED"}
  PROVE  confirmed'[c]
  <1> USE Typed DEF Base
  <1>0. c \in Owner /\ c # NoCard /\ (confirmed[c] => confirmed'[c])
    BY IntentStep, NamesAssumption DEF Owner
  <1>1. CASE cardStatus'[c] = cardStatus[c]
    BY <1>0, <1>1 DEF SpentInv, OnlyPaidCardsSpent
  <1>2. CASE cardStatus'[c] # cardStatus[c] /\ CreateCommit(r)
    <2>1. pc[r] = "create" /\ ctx[r].card = c
      BY <1>2 DEF CreateCommit, Ready, cardVars
    <2>2. QED BY <1>0, <2>1 DEF SpentInv, Spending
  <1>3. CASE cardStatus'[c] # cardStatus[c] /\ CancelCommit(r)
    <2>1. pc[r] = "refund" /\ ctx[r].card = c
      BY <1>3 DEF CancelCommit, Ready, cardVars
    <2>2. QED BY <1>0, <2>1 DEF SpentInv, Spending
  <1>4. CASE cardStatus'[c] # cardStatus[c] /\ SettleCommit(r)
    <2>1. ctx[r].target = c
      BY <1>4 DEF SettleCommit, cardVars
    <2>2. QED BY <1>0, <1>4, <2>1 DEF SettleCommit
  <1>5. CASE FailCommit(r)
    BY <1>1, <1>5 DEF FailCommit, cardVars
  <1>6. CASE \E d \in Card : Purchase(r, d)
    BY <1>1, <1>6 DEF Purchase
  <1>7. CASE UNCHANGED cardVars
    BY <1>1, <1>7 DEF cardVars
  <1>8. CASE Continue(r)
    <2>1. \/ CreateCommit(r) \/ CancelCommit(r) \/ SettleCommit(r)
          \/ FailCommit(r) \/ UNCHANGED cardVars
      BY <1>8 DEF Continue, RedeemRead, RefundRead, RescheduleCheck, RescheduleCommit,
         FinishCommit, PaidCommit, HookReread, PurchaseIntent
    <2>2. QED BY <1>1, <1>2, <1>3, <1>4, <1>5, <1>7, <2>1
  <1>9. QED BY <1>6, <1>7, <1>8, CardsKept DEF RequestStep

\* A step of a request keeps SpentInv.
LEMMA SpentStep ==
  ASSUME Base, SpentInv, NEW r \in Req, RequestStep(r)
  PROVE  SpentInv'
  <1> USE Typed DEF Base
  <1>0. \A c \in Card : c \in Owner /\ c # NoCard /\ (confirmed[c] => confirmed'[c])
    BY IntentStep, NamesAssumption DEF Owner
  <1>1. ASSUME NEW b \in Booking, gift'[b] # NoCard
        PROVE  confirmed'[gift'[b]]
    <2>1. CASE gift'[b] = gift[b]
      BY <1>0, <1>1, <2>1 DEF SpentInv, OnlyPaidCardsSpent
    <2>2. CASE gift'[b] # gift[b]
      <3>1. CreateCommit(r) /\ ctx[r].target = b
        BY <2>2, ColumnStep
      <3>2. gift'[b] = ctx[r].card /\ pc[r] = "create" /\ ctx[r].card \in Card \cup {NoCard}
        BY <2>2, <3>1 DEF CreateCommit, Ready, redemptionVars, DataOK, CtxType
      <3>3. QED BY <1>0, <1>1, <3>2 DEF SpentInv, Spending
    <2>3. QED BY <2>1, <2>2
  <1>2. ASSUME NEW q \in Req, pc'[q] \in Spending, ctx'[q].card # NoCard
        PROVE  confirmed'[ctx'[q].card]
    <2>1. CASE pc[q] \in Spending /\ ctx'[q] = ctx[q]
      <3>1. ctx[q].card \in Card
        BY <1>2, <2>1 DEF DataOK, CtxType
      <3>2. QED BY <1>0, <1>2, <2>1, <3>1 DEF SpentInv
    <2>2. CASE pc'[q] = "refund" /\ q = r /\ RefundRead(r)
      <3> DEFINE b == ctx[r].target
                 d == [ctx[r] EXCEPT !.card = gift[b], !.bal = balance[gift[b]],
                                     !.seen = cardStatus[gift[b]]]
      <3>1. pc[r] = "cancel" /\ b \in Booking /\ ctx[r].card = NoCard
        BY <2>2 DEF RefundRead, Ready, DataOK, BookingStages
      <3>2. ctx'[r].card \in {NoCard, gift[b]}
        <4>1. \/ GoOn(r, "refund", d, <<DataRow(gift[b])>>)
              \/ GoOn(r, "refund", ctx[r], <<>>)
          BY <2>2 DEF RefundRead
        <4>2. d.card = gift[b]
          BY DEF CtxType
        <4> HIDE DEF d
        <4>3. ctx'[r] = d \/ ctx'[r] = ctx[r]
          BY <4>1 DEF GoOn
        <4>4. QED BY <3>1, <4>2, <4>3
      <3>3. gift[b] \in Card /\ confirmed[gift[b]] /\ ctx'[r].card = gift[b]
        BY <1>2, <2>2, <3>1, <3>2 DEF SpentInv, OnlyPaidCardsSpent
      <3>4. QED BY <1>0, <2>2, <3>3
    <2>3. CASE pc'[q] = "create" /\ q = r /\ Begin(r)
      <3>1. PICK b \in Booking, t \in Slot, s \in Seat \cup {NoSeat},
                 src \in {"ONLINE", "MANUAL"}, dep \in {0, Deposit}, c \in Card \cup {NoCard} :
                   CreateCheck(r, b, t, s, src, dep, c)
        BY <2>3, BeginBy DEF Creating
      <3>2. ctx'[r].card = c /\ pc'[r] = IF c = NoCard THEN "create" ELSE "redeem"
        BY <3>1, BeginHas
      <3>3. QED BY <1>2, <2>3, <3>2
    <2>4. CASE pc'[q] = "create" /\ q = r /\ Continue(r)
      <3>1. pc[r] = "redeem" /\ ctx[r].card \in Card
        BY <2>4, ContinueFacts DEF DataOK
      <3>2. RedeemRead(r)
        BY <2>4, <3>1 DEF Continue, CreateCommit, RefundRead, CancelCommit, RescheduleCheck,
           RescheduleCommit, FinishCommit, PaidCommit, HookReread, SettleCommit, FailCommit,
           PurchaseIntent, Ready
      <3>3. /\ ctx'[r] = [ctx[r] EXCEPT !.bal = balance[ctx[r].card]]
            /\ cardStatus[ctx[r].card] = "ACTIVE"
        BY <2>4, <3>2 DEF RedeemRead, GoOn, End, Usable
      <3>4. ctx'[r].card = ctx[r].card
        BY <3>3 DEF CtxType
      <3>5. QED BY <1>0, <2>4, <3>1, <3>3, <3>4 DEF SpentInv, OnlyPaidCardsSpent
    <2>5. CASE pc'[q] = "create" /\ q # r
      BY <2>1, <2>5, OthersKeep DEF Spending
    <2>6. CASE pc'[q] = "create" /\ q = r /\ (Lock(r) \/ Abort(r))
      BY <2>1, <2>6 DEF Lock, Abort, End, Spending
    <2>7. CASE pc'[q] = "refund"
      BY <2>1, <2>2, <2>7, RefundStage DEF Spending
    <2>8. QED BY <1>2, <2>3, <2>4, <2>5, <2>6, <2>7 DEF Spending, RequestStep
  <1>3. QED BY <1>1, <1>2, SpentByPaid DEF SpentInv, OnlyPaidCardsSpent

LEMMA SpentInvInductive ==
  /\ Init => SpentInv
  /\ Base /\ SpentInv /\ [Next]_vars => SpentInv'
  <1>1. Init => SpentInv
    <2>1. ASSUME Init, NEW c \in Card PROVE cardStatus[c] \in {"ACTIVE", "DEPLETED"} => confirmed[c]
      BY <2>1 DEF Init, Owner
    <2>2. QED BY <2>1 DEF Init, SpentInv, OnlyPaidCardsSpent, Spending
  <1>2. ASSUME UNCHANGED <<cardStatus, gift, confirmed, pc, ctx>>, SpentInv
        PROVE  SpentInv'
    BY <1>2 DEF SpentInv, OnlyPaidCardsSpent
  <1>3. ASSUME SpentInv, Base, NEW c \in Card, LookupExpired(c)
        PROVE  SpentInv'
    BY <1>3, Typed DEF Base, LookupExpired, SpentInv, OnlyPaidCardsSpent, redemptionVars,
       requestVars, intentVars
  <1>4. Environment => \/ UNCHANGED <<cardStatus, gift, confirmed, pc, ctx>>
                       \/ \E c \in Card : LookupExpired(c)
    BY DEF Environment, Expire, ChangeSeats, Tick, cardVars, redemptionVars, intentVars,
       requestVars
  <1>5. UNCHANGED vars => UNCHANGED <<cardStatus, gift, confirmed, pc, ctx>>
    BY DEF vars, cardVars, redemptionVars, intentVars, requestVars
  <1>6. QED BY <1>1, <1>2, <1>3, <1>4, <1>5, SpentStep DEF Next, RequestStep

\* A gift card is redeemed, or can be, only once its own payment was confirmed, wherever
\* its purchase stopped and whatever redemptions and refunds write after stale reads.
THEOREM PaidCardsSpent == Spec => []OnlyPaidCardsSpent
  <1>1. Spec => [](Base /\ SpentInv)
    BY BaseInductive, SpentInvInductive, PTL DEF Spec
  <1>2. SpentInv => OnlyPaidCardsSpent
    BY DEF SpentInv
  <1>3. QED BY <1>1, <1>2, PTL

-----------------------------------------------------------------------------
(***************************************************************************)
(* Deadlock.  Rows are ordered: payment intents, then bookings, then gift  *)
(* cards.  A request takes its rows in this order, and where it goes on to *)
(* a stage with more rows, every row it holds comes before them.           *)
(***************************************************************************)

Rank(w) == IF w[1] = "intent" THEN 0 ELSE IF w[2] \in Booking THEN 1 ELSE 2
\* The rows of a request at a stage come before this rank.
Bound(stage) == CASE stage \in {"idle", "redeem", "reschedule"} -> 0
                  [] stage = "rebind" -> 1
                  [] stage = "cancel" -> 2
                  [] OTHER -> 3
Increasing(p) == \A i, j \in 1 .. Len(p) : i < j => Rank(p[i]) < Rank(p[j])
Below(p, hi) == \A i \in 1 .. Len(p) : Rank(p[i]) < hi
Above(p, w) == \A i \in 1 .. Len(p) : Rank(w) < Rank(p[i])
InOrder(r) ==
  /\ Increasing(plan[r]) /\ Below(plan[r], Bound(pc[r]))
  /\ \A w \in Row : Holds(r, w) => Rank(w) < Bound(pc[r]) /\ Above(plan[r], w)
OrderInv == \A r \in Req : InOrder(r)

\* The ranks of the rows.
LEMMA RankOf ==
  /\ \A o \in Owner : Rank(IntentRow(o)) = 0
  /\ \A o \in Owner : Rank(DataRow(o)) = IF o \in Booking THEN 1 ELSE 2
  /\ \A c \in Card : Rank(DataRow(c)) = 2 /\ c \in Owner
  /\ \A b \in Booking : Rank(DataRow(b)) = 1 /\ b \in Owner
  /\ \A w \in Row : Rank(w) \in 0 .. 2
  BY DEF Rank, IntentRow, DataRow, Owner, Row

\* A plan of no row, of one row, and of an intent with what it pays for.
LEMMA NoRows ==
  ASSUME NEW hi \in 0 .. 3
  PROVE  Increasing(<<>>) /\ Below(<<>>, hi)
  BY DEF Increasing, Below
LEMMA OneRow ==
  ASSUME NEW w \in Row, NEW hi \in 0 .. 3, Rank(w) < hi
  PROVE  Increasing(<<w>>) /\ Below(<<w>>, hi)
  BY RankOf DEF Increasing, Below
LEMMA TwoRows ==
  ASSUME NEW o \in Owner
  PROVE  Increasing(<<IntentRow(o), DataRow(o)>>) /\ Below(<<IntentRow(o), DataRow(o)>>, 3)
  <1>1. /\ Rank(IntentRow(o)) = 0 /\ Rank(DataRow(o)) \in {1, 2}
    BY RankOf
  <1> HIDE DEF IntentRow, DataRow, Rank
  <1>2. QED BY <1>1 DEF Increasing, Below

\* A row comes before the rows of such a plan.
LEMMA AboveShort ==
  ASSUME NEW x \in Row
  PROVE  /\ Above(<<>>, x)
         /\ \A w \in Row : Rank(x) < Rank(w) => Above(<<w>>, x)
  BY DEF Above

\* The bound of a stage is a rank or one more than all of them.
LEMMA BoundType == \A stage : Bound(stage) \in 0 .. 3
  BY DEF Bound

\* Two rows one after the other.
LEMMA Pair ==
  ASSUME NEW T, NEW a \in T, NEW b \in T
  PROVE  <<a>> \o <<b>> = <<a, b>>
  <1>1. <<a>> \in Seq(T) /\ <<b>> \in Seq(T) /\ <<a, b>> \in Seq(T)
    OBVIOUS
  <1>2. /\ <<a>> \o <<b>> \in Seq(T) /\ Len(<<a>> \o <<b>>) = 2
        /\ (<<a>> \o <<b>>)[1] = a /\ (<<a>> \o <<b>>)[2] = b
    BY <1>1
  <1>3. \A i \in 1 .. 2 : (<<a>> \o <<b>>)[i] = <<a, b>>[i]
    BY <1>2
  <1>4. QED BY <1>1, <1>2, <1>3, SeqEqual

\* The rows a webhook's event locks.
LEMMA HookPlans ==
  ASSUME NEW o \in Owner, NEW v
  PROVE  /\ OwnerRows(o, v) = <<>> \/ OwnerRows(o, v) = <<DataRow(o)>>
         /\ \/ <<IntentRow(o)>> \o OwnerRows(o, v) = <<IntentRow(o)>>
            \/ <<IntentRow(o)>> \o OwnerRows(o, v) = <<IntentRow(o), DataRow(o)>>
  <1>1. OwnerRows(o, v) = <<>> \/ OwnerRows(o, v) = <<DataRow(o)>>
    BY DEF OwnerRows
  <1>2. IntentRow(o) \in Row /\ DataRow(o) \in Row
    BY RowsOK
  <1> HIDE DEF IntentRow, DataRow, OwnerRows, Row
  <1>3. CASE OwnerRows(o, v) = <<>>
    BY <1>2, <1>3
  <1>4. CASE OwnerRows(o, v) = <<DataRow(o)>>
    <2>1. <<IntentRow(o)>> \o <<DataRow(o)>> = <<IntentRow(o), DataRow(o)>>
      BY <1>2, Pair, Zenon
    <2>2. QED BY <1>4, <2>1
  <1>5. QED BY <1>1, <1>3, <1>4

\* Locking a row: what is left of the plan comes after it.
LEMMA TailOrdered ==
  ASSUME NEW p \in Seq(Row), p # <<>>, Increasing(p), NEW hi \in 0 .. 3, Below(p, hi)
  PROVE  /\ Increasing(Tail(p)) /\ Below(Tail(p), hi)
         /\ Above(Tail(p), Head(p)) /\ Rank(Head(p)) < hi /\ Head(p) \in Row
         /\ \A w : Above(p, w) => Above(Tail(p), w)
  <1>1. /\ Len(Tail(p)) = Len(p) - 1 /\ Len(p) \in Nat \ {0}
        /\ \A i \in 1 .. Len(Tail(p)) : Tail(p)[i] = p[i + 1] /\ i + 1 \in 1 .. Len(p)
        /\ Head(p) = p[1] /\ Head(p) \in Row
    OBVIOUS
  <1>2. Increasing(Tail(p))
    <2> SUFFICES ASSUME NEW i \in 1 .. Len(Tail(p)), NEW j \in 1 .. Len(Tail(p)), i < j
                 PROVE  Rank(Tail(p)[i]) < Rank(Tail(p)[j])
      BY DEF Increasing
    <2>1. i + 1 < j + 1
      BY <1>1
    <2>2. QED BY <1>1, <2>1 DEF Increasing
  <1>3. Below(Tail(p), hi)
    BY <1>1 DEF Below
  <1>4. Above(Tail(p), Head(p))
    <2> SUFFICES ASSUME NEW i \in 1 .. Len(Tail(p))
                 PROVE  Rank(p[1]) < Rank(Tail(p)[i])
      BY <1>1 DEF Above
    <2>1. 1 < i + 1 /\ 1 \in 1 .. Len(p)
      BY <1>1
    <2>2. QED BY <1>1, <2>1 DEF Increasing
  <1>5. Rank(Head(p)) < hi
    BY <1>1 DEF Below
  <1>6. \A w : Above(p, w) => Above(Tail(p), w)
    BY <1>1 DEF Above
  <1>7. QED BY <1>1, <1>2, <1>3, <1>4, <1>5, <1>6

\* The plan a request begins with.
LEMMA BeginOrdered ==
  ASSUME Base, NEW r \in Req, Begin(r)
  PROVE  Increasing(plan'[r]) /\ Below(plan'[r], Bound(pc'[r]))
  <1>0. \A stage, c, rows : Start(r, stage, c, rows) => pc'[r] = stage /\ plan'[r] = rows
    BY Typed DEF Start, Base
  <1>1. ASSUME NEW b \in Booking, NEW t, NEW s, NEW src, NEW dep, NEW c,
               CreateCheck(r, b, t, s, src, dep, c)
        PROVE  Increasing(plan'[r]) /\ Below(plan'[r], Bound(pc'[r]))
    <2>1. plan'[r] = <<>>
      BY <1>0, <1>1 DEF CreateCheck
    <2>2. QED BY <2>1, NoRows, BoundType
  <1>2. ASSUME NEW b \in Booking, CancelRead(r, b)
        PROVE  Increasing(plan'[r]) /\ Below(plan'[r], Bound(pc'[r]))
    <2>1. pc'[r] = "cancel" /\ plan'[r] = <<DataRow(b)>>
      BY <1>0, <1>2 DEF CancelRead
    <2>2. b \in Owner /\ DataRow(b) \in Row /\ Rank(DataRow(b)) = 1
      BY RankOf, RowsOK DEF Owner
    <2>3. Bound("cancel") = 2
      BY DEF Bound
    <2>4. QED BY <2>1, <2>2, <2>3, OneRow
  <1>3. ASSUME NEW b \in Booking, PaidRead(r, b)
        PROVE  Increasing(plan'[r]) /\ Below(plan'[r], Bound(pc'[r]))
    <2>1. pc'[r] = "paid" /\ plan'[r] = PaidRows(b)
      BY <1>0, <1>3 DEF PaidRead
    <2>2. b \in Owner /\ DataRow(b) \in Row /\ Rank(DataRow(b)) = 1
      BY RankOf, RowsOK DEF Owner
    <2>3. Bound("paid") = 3
      BY DEF Bound
    <2>4. PaidRows(b) = <<DataRow(b)>> \/ PaidRows(b) = <<IntentRow(b), DataRow(b)>>
      BY DEF PaidRows
    <2>5. QED BY <2>1, <2>2, <2>3, <2>4, OneRow, TwoRows
  <1>4. ASSUME NEW b \in Booking, NEW t, RescheduleRead(r, b, t)
        PROVE  Increasing(plan'[r]) /\ Below(plan'[r], Bound(pc'[r]))
    <2>1. plan'[r] = <<>>
      BY <1>0, <1>4 DEF RescheduleRead
    <2>2. QED BY <2>1, NoRows, BoundType
  <1>5. ASSUME NEW b \in Booking, NEW to, FinishRead(r, b, to)
        PROVE  Increasing(plan'[r]) /\ Below(plan'[r], Bound(pc'[r]))
    <2>1. pc'[r] = "finish" /\ plan'[r] = <<DataRow(b)>>
      BY <1>0, <1>5 DEF FinishRead
    <2>2. b \in Owner /\ DataRow(b) \in Row /\ Rank(DataRow(b)) = 1
      BY RankOf, RowsOK DEF Owner
    <2>3. Bound("finish") = 3
      BY DEF Bound
    <2>4. QED BY <2>1, <2>2, <2>3, OneRow
  <1>6. ASSUME NEW o \in Owner, NEW ev, HookRead(r, o, ev)
        PROVE  Increasing(plan'[r]) /\ Below(plan'[r], Bound(pc'[r]))
    <2>1. pc'[r] = "hook" /\ plan'[r] = <<IntentRow(o)>> \o OwnerRows(o, Verdict(o, ev))
      BY <1>0, <1>6 DEF HookRead
    <2>2. IntentRow(o) \in Row /\ Bound("hook") = 3 /\ Rank(IntentRow(o)) = 0
      BY RowsOK, RankOf DEF Bound
    <2>3. plan'[r] = <<IntentRow(o)>> \/ plan'[r] = <<IntentRow(o), DataRow(o)>>
      BY <2>1, HookPlans
    <2>4. /\ Increasing(<<IntentRow(o)>>) /\ Below(<<IntentRow(o)>>, 3)
          /\ Increasing(<<IntentRow(o), DataRow(o)>>) /\ Below(<<IntentRow(o), DataRow(o)>>, 3)
      BY <2>2, OneRow, TwoRows
    <2> HIDE DEF IntentRow, DataRow
    <2>5. Bound(pc'[r]) = 3
      BY <2>1, <2>2
    <2>6. CASE plan'[r] = <<IntentRow(o)>>
      BY <2>4, <2>5, <2>6, Zenon
    <2>7. CASE plan'[r] = <<IntentRow(o), DataRow(o)>>
      BY <2>4, <2>5, <2>7, Zenon
    <2>8. QED BY <2>3, <2>6, <2>7
  <1>7. ASSUME NEW o \in Owner, NEW ev, HookRebind(r, o, ev)
        PROVE  Increasing(plan'[r]) /\ Below(plan'[r], Bound(pc'[r]))
    <2>1. pc'[r] = "rebind" /\ plan'[r] = <<IntentRow(o)>>
      BY <1>0, <1>7 DEF HookRebind
    <2>2. IntentRow(o) \in Row /\ Bound("rebind") = 1 /\ Rank(IntentRow(o)) = 0
      BY RowsOK, RankOf DEF Bound
    <2>3. QED BY <2>1, <2>2, OneRow
  <1>8. ASSUME NEW c \in Card, Purchase(r, c)
        PROVE  Increasing(plan'[r]) /\ Below(plan'[r], Bound(pc'[r]))
    <2>1. plan'[r] = <<>>
      BY <1>0, <1>8 DEF Purchase
    <2>2. QED BY <2>1, NoRows, BoundType
  <1>9. QED BY <1>1, <1>2, <1>3, <1>4, <1>5, <1>6, <1>7, <1>8 DEF Begin

\* A row that a request holds after a step, it held before, or has just locked.
LEMMA HeldBefore ==
  ASSUME TypeInv, NEW r \in Req, RequestStep(r), NEW q \in Req, NEW w \in Row, lock'[w] = q
  PROVE  \/ lock[w] = q /\ (q = r => ~End(r))
         \/ q = r /\ Lock(r) /\ w = Head(plan[r])
  <1> USE Typed
  <1>1. CASE UNCHANGED lock /\ ~End(r)
    <2>1. lock'[w] = lock[w]
      BY <1>1
    <2>2. QED BY <1>1, <2>1
  <1>2. CASE End(r)
    BY <1>2 DEF End
  <1>3. CASE Lock(r)
    BY <1>2, <1>3 DEF Lock
  <1>4. Begin(r) => UNCHANGED lock
    BY BeginFacts DEF TypeInv, TypeParts
  <1>5. Continue(r) \/ Abort(r) => UNCHANGED lock \/ End(r)
    BY DEF Continue, RedeemRead, CreateCommit, RefundRead, CancelCommit, RescheduleCheck,
       RescheduleCommit, FinishCommit, PaidCommit, HookReread, SettleCommit, FailCommit,
       PurchaseIntent, GoOn, Abort
  <1>6. QED BY <1>1, <1>2, <1>3, <1>4, <1>5 DEF RequestStep

\* Before its first row, a request holds none.
LEMMA NothingHeld ==
  ASSUME OrderInv, NEW r \in Req, pc[r] \in {"idle", "redeem", "reschedule"}
  PROVE  \A w \in Row : lock[w] # r
  <1> SUFFICES ASSUME NEW w \in Row, lock[w] = r PROVE FALSE
    OBVIOUS
  <1>1. Bound(pc[r]) = 0
    BY DEF Bound
  <1>2. Rank(w) < 0
    BY <1>1 DEF OrderInv, InOrder, Holds
  <1>3. QED BY <1>2, RankOf

\* A step of a request keeps its rows in order.
LEMMA OrderStep ==
  ASSUME Base, OrderInv, NEW r \in Req, RequestStep(r), NEW q \in Req
  PROVE  InOrder(q)'
  <1> USE Typed DEF Base
  <1>1. CASE q # r
    <2>1. pc'[q] = pc[q] /\ plan'[q] = plan[q]
      BY <1>1, OthersKeep
    <2>2. \A w \in Row : lock'[w] = q => lock[w] = q
      BY <1>1, HeldBefore
    <2>3. QED BY <2>1, <2>2 DEF OrderInv, InOrder, Holds
  <1>2. CASE q = r /\ Begin(r)
    <2>1. pc[r] = "idle" /\ UNCHANGED lock
      BY <1>2, BeginFacts DEF TypeInv, TypeParts
    <2>2. \A w \in Row : lock'[w] # r
      BY <2>1, NothingHeld
    <2>3. QED BY <1>2, <2>2, BeginOrdered DEF InOrder, Holds
  <1>3. CASE q = r /\ Lock(r)
    <2> DEFINE p == plan[r]
               hi == Bound(pc[r])
    <2>1. p \in Seq(Row) /\ p # <<>> /\ Increasing(p) /\ Below(p, hi) /\ hi \in 0 .. 3
      BY <1>3 DEF Lock, OrderInv, InOrder, Bound
    <2>2. plan'[r] = Tail(p) /\ pc'[r] = pc[r]
      BY <1>3 DEF Lock
    <2>3. \A w \in Row : lock'[w] = r => lock[w] = r \/ w = Head(p)
      BY <1>3, HeldBefore
    <2>4. \A w \in Row : lock[w] = r => Rank(w) < hi /\ Above(p, w)
      BY DEF OrderInv, InOrder, Holds
    <2> HIDE DEF p, hi
    <2>5. /\ Increasing(Tail(p)) /\ Below(Tail(p), hi)
          /\ Above(Tail(p), Head(p)) /\ Rank(Head(p)) < hi
          /\ \A w : Above(p, w) => Above(Tail(p), w)
      BY <2>1, TailOrdered
    <2>6. QED BY <1>3, <2>2, <2>3, <2>4, <2>5 DEF InOrder, Holds, hi
  <1>4. CASE q = r /\ End(r)
    <2>1. pc'[r] = "idle" /\ plan'[r] = <<>>
      BY <1>4 DEF End
    <2>2. \A w \in Row : lock'[w] # r
      BY <1>4 DEF End
    <2>3. Increasing(<<>>) /\ \A hi : Below(<<>>, hi)
      BY DEF Increasing, Below
    <2>4. QED BY <1>4, <2>1, <2>2, <2>3 DEF InOrder, Holds
  <1>5. ASSUME q = r, NEW stage, NEW c, NEW rows, GoOn(r, stage, c, rows),
               Increasing(rows), Below(rows, Bound(stage)),
               \A w \in Row : lock[w] = r => Rank(w) < Bound(stage) /\ Above(rows, w)
        PROVE  InOrder(q)'
    <2>1. pc'[r] = stage /\ plan'[r] = rows /\ UNCHANGED lock
      BY <1>5 DEF GoOn
    <2>2. QED BY <1>5, <2>1 DEF InOrder, Holds
  <1>6. CASE q = r /\ RedeemRead(r) /\ ~End(r)
    <2> DEFINE c == ctx[r].card
    <2>1. c \in Card /\ c \in Owner /\ DataRow(c) \in Row
      BY <1>6, RowsOK DEF RedeemRead, DataOK, Owner
    <2>2. GoOn(r, "create", [ctx[r] EXCEPT !.bal = balance[c]], <<DataRow(c)>>)
      BY <1>6 DEF RedeemRead
    <2>3. \A w \in Row : lock[w] # r
      BY <1>6, NothingHeld DEF RedeemRead
    <2>4. Increasing(<<DataRow(c)>>) /\ Below(<<DataRow(c)>>, Bound("create"))
      <3>1. Bound("create") = 3 /\ Rank(DataRow(c)) < 3
        BY <2>1, RankOf DEF Bound
      <3>2. QED BY <2>1, <3>1, OneRow
    <2>5. QED BY <1>5, <1>6, <2>2, <2>3, <2>4
  <1>7. CASE q = r /\ RescheduleCheck(r) /\ ~End(r)
    <2> DEFINE b == ctx[r].target
    <2>1. b \in Owner /\ DataRow(b) \in Row
      BY <1>7, RowsOK DEF RescheduleCheck, DataOK, Owner, BookingStages
    <2>2. GoOn(r, "move", ctx[r], <<DataRow(b)>>)
      BY <1>7 DEF RescheduleCheck
    <2>3. \A w \in Row : lock[w] # r
      BY <1>7, NothingHeld DEF RescheduleCheck
    <2>4. Increasing(<<DataRow(b)>>) /\ Below(<<DataRow(b)>>, Bound("move"))
      <3>1. Bound("move") = 3 /\ Rank(DataRow(b)) < 3
        BY <2>1, RankOf DEF Bound
      <3>2. QED BY <2>1, <3>1, OneRow
    <2>5. QED BY <1>5, <1>7, <2>2, <2>3, <2>4
  <1>8. CASE q = r /\ RefundRead(r)
    <2> DEFINE c == gift[ctx[r].target]
    <2>1. ctx[r].target \in Booking /\ (Refundable(ctx[r].target) => c \in Card)
      BY <1>8 DEF RefundRead, Ready, DataOK, BookingStages, Refundable, TypeInv, TypeParts,
           RedemptionsOK
    <2>2. \A w \in Row : lock[w] = r => Rank(w) < 2
      BY <1>8 DEF RefundRead, Ready, OrderInv, InOrder, Holds, Bound
    <2>3. Bound("refund") = 3
      BY DEF Bound
    <2>4. CASE Refundable(ctx[r].target)
      <3>1. c \in Card /\ c \in Owner /\ DataRow(c) \in Row /\ Rank(DataRow(c)) = 2
        BY <2>1, <2>4, RowsOK, RankOf DEF Owner
      <3>2. \E d : GoOn(r, "refund", d, <<DataRow(c)>>)
        BY <1>8, <2>4 DEF RefundRead
      <3>3. Increasing(<<DataRow(c)>>) /\ Below(<<DataRow(c)>>, Bound("refund"))
        BY <2>3, <3>1, OneRow
      <3>4. \A w \in Row : lock[w] = r => Rank(w) < Bound("refund") /\ Above(<<DataRow(c)>>, w)
        <4> SUFFICES ASSUME NEW w \in Row, lock[w] = r
                     PROVE  Rank(w) < Bound("refund") /\ Above(<<DataRow(c)>>, w)
          OBVIOUS
        <4>1. Rank(w) < 2 /\ Rank(w) \in 0 .. 2
          BY <2>2, RankOf
        <4>2. QED BY <2>3, <3>1, <4>1, AboveShort
      <3> HIDE DEF c
      <3>5. QED BY <1>5, <1>8, <3>2, <3>3, <3>4
    <2>5. CASE ~Refundable(ctx[r].target)
      <3>1. GoOn(r, "refund", ctx[r], <<>>)
        BY <1>8, <2>5 DEF RefundRead
      <3>2. Increasing(<<>>) /\ Below(<<>>, Bound("refund"))
        BY <2>3, NoRows
      <3>3. \A w \in Row : lock[w] = r => Rank(w) < Bound("refund") /\ Above(<<>>, w)
        <4> SUFFICES ASSUME NEW w \in Row, lock[w] = r
                     PROVE  Rank(w) < Bound("refund") /\ Above(<<>>, w)
          OBVIOUS
        <4>1. Rank(w) < 2 /\ Rank(w) \in 0 .. 2
          BY <2>2, RankOf
        <4>2. Above(<<>>, w)
          BY AboveShort
        <4>3. QED BY <2>3, <4>1, <4>2
      <3>4. QED BY <1>5, <1>8, <3>1, <3>2, <3>3
    <2>6. QED BY <2>4, <2>5
  <1>9. CASE q = r /\ HookReread(r) /\ ~End(r)
    <2> DEFINE o == ctx[r].target
               rows == OwnerRows(o, Verdict(o, ctx[r].will))
    <2>1. o \in Owner /\ DataRow(o) \in Row /\ Rank(DataRow(o)) \in {1, 2}
      BY <1>9, RowsOK, RankOf DEF HookReread, Ready, DataOK
    <2>2. \E d : GoOn(r, "hook", d, rows)
      BY <1>9 DEF HookReread
    <2>3. \A w \in Row : lock[w] = r => Rank(w) < 1
      BY <1>9 DEF HookReread, Ready, OrderInv, InOrder, Holds, Bound
    <2>4. rows = <<>> \/ rows = <<DataRow(o)>>
      BY <2>1, HookPlans
    <2> HIDE DEF rows, o
    <2>5. Bound("hook") = 3 /\ Rank(DataRow(o)) < 3
      BY <2>1 DEF Bound
    <2>6. Increasing(rows) /\ Below(rows, Bound("hook"))
      BY <2>1, <2>4, <2>5, NoRows, OneRow
    <2>7. \A w \in Row : lock[w] = r => Rank(w) < Bound("hook") /\ Above(rows, w)
      <3> SUFFICES ASSUME NEW w \in Row, lock[w] = r
                   PROVE  Rank(w) < 3 /\ Above(rows, w)
        BY <2>5
      <3>1. Rank(w) < 1 /\ Rank(w) \in 0 .. 2
        BY <2>3, RankOf
      <3>2. Rank(w) < Rank(DataRow(o))
        BY <2>1, <3>1
      <3>3. QED BY <2>1, <2>4, <3>1, <3>2, AboveShort
    <2>8. QED BY <1>5, <1>9, <2>2, <2>6, <2>7
  <1>10. Continue(r) \/ Abort(r) =>
           End(r) \/ RedeemRead(r) \/ RescheduleCheck(r) \/ RefundRead(r) \/ HookReread(r)
    BY DEF Continue, CreateCommit, CancelCommit, RescheduleCommit, FinishCommit, PaidCommit,
       SettleCommit, FailCommit, PurchaseIntent, Abort
  <1>11. QED
    BY <1>1, <1>2, <1>3, <1>4, <1>6, <1>7, <1>8, <1>9, <1>10 DEF RequestStep

LEMMA OrderInvInductive ==
  /\ Init => OrderInv
  /\ Base /\ OrderInv /\ [Next]_vars => OrderInv'
  <1>1. Init => OrderInv
    <2>1. ASSUME Init, NEW r \in Req
          PROVE  plan[r] = <<>> /\ \A w \in Row : lock[w] # r
      BY <2>1 DEF Init
    <2>2. Increasing(<<>>) /\ \A hi : Below(<<>>, hi)
      BY DEF Increasing, Below
    <2>3. QED BY <2>1, <2>2 DEF OrderInv, InOrder, Holds
  <1>2. ASSUME UNCHANGED <<pc, plan, lock>>, OrderInv
        PROVE  OrderInv'
    BY <1>2 DEF OrderInv, InOrder, Holds
  <1>3. Environment => UNCHANGED <<pc, plan, lock>>
    BY DEF Environment, LookupExpired, Expire, ChangeSeats, Tick, requestVars
  <1>4. UNCHANGED vars => UNCHANGED <<pc, plan, lock>>
    BY DEF vars, requestVars
  <1>5. ASSUME Base, OrderInv, NEW r \in Req, RequestStep(r) PROVE OrderInv'
    BY <1>5, OrderStep DEF OrderInv
  <1>6. QED BY <1>1, <1>2, <1>3, <1>4, <1>5 DEF Next, RequestStep

\* Rows that are locked in order cannot close a circle: whom the last waiter of a group
\* waits for would wait for a row still later.
LEMMA NoCircle ==
  ASSUME TypeInv, OrderInv
  PROVE  NoDeadlock
  <1>0. plan \in [Req -> Seq(Row)]
    BY Typed
  <1> SUFFICES ASSUME NEW S \in SUBSET Req, S # {},
                      \A r \in S : \E q \in S : Waits(r, q)
               PROVE  FALSE
    BY DEF NoDeadlock
  <1> DEFINE W(r) == Rank(Head(plan[r]))
  <1>1. \A r \in S : W(r) \in 0 .. 2
    <2>1. ASSUME NEW r \in S PROVE Head(plan[r]) \in Row
      <3>1. plan[r] # <<>> /\ plan[r] \in Seq(Row)
        BY <1>0 DEF Waits
      <3>2. QED BY <3>1
    <2>2. QED BY <2>1, RankOf
  <1>2. \A r \in S : \E q \in S : W(r) < W(q)
    <2> SUFFICES ASSUME NEW r \in S PROVE \E q \in S : W(r) < W(q)
      OBVIOUS
    <2>1. PICK q \in S : Waits(r, q)
      OBVIOUS
    <2>2. plan[q] # <<>> /\ plan[q] \in Seq(Row) /\ plan[r] # <<>> /\ plan[r] \in Seq(Row)
      BY <1>0, <2>1 DEF Waits
    <2>3. /\ Head(plan[r]) \in Row /\ lock[Head(plan[r])] = q
          /\ Head(plan[q]) = plan[q][1] /\ 1 \in 1 .. Len(plan[q])
      BY <2>1, <2>2 DEF Waits
    <2>4. Above(plan[q], Head(plan[r]))
      BY <2>3 DEF OrderInv, InOrder, Holds
    <2>5. QED BY <2>3, <2>4 DEF Above
  <1> HIDE DEF W
  <1>3. \A r \in S : W(r) # 2
    <2> SUFFICES ASSUME NEW r \in S, W(r) = 2 PROVE FALSE
      OBVIOUS
    <2>1. PICK q \in S : W(r) < W(q)
      BY <1>2
    <2>2. QED BY <1>1, <2>1
  <1>4. \A r \in S : W(r) # 1
    <2> SUFFICES ASSUME NEW r \in S, W(r) = 1 PROVE FALSE
      OBVIOUS
    <2>1. PICK q \in S : W(r) < W(q)
      BY <1>2
    <2>2. QED BY <1>1, <1>3, <2>1
  <1>5. \A r \in S : W(r) # 0
    <2> SUFFICES ASSUME NEW r \in S, W(r) = 0 PROVE FALSE
      OBVIOUS
    <2>1. PICK q \in S : W(r) < W(q)
      BY <1>2
    <2>2. QED BY <1>1, <1>3, <1>4, <2>1
  <1>6. QED BY <1>1, <1>3, <1>4, <1>5

\* However many requests run, and on whatever rows, no group of them waits for one another.
THEOREM NeverDeadlocked == Spec => []NoDeadlock
  <1>1. Spec => [](Base /\ OrderInv)
    BY BaseInductive, OrderInvInductive, PTL DEF Spec
  <1>2. Base /\ OrderInv => NoDeadlock
    BY NoCircle DEF Base
  <1>3. QED BY <1>1, <1>2, PTL

-----------------------------------------------------------------------------
(***************************************************************************)
(* Places.  The occupants of a slot whose place was checked never overbook *)
(* it, whoever else is there.  What a request has found free stays free    *)
(* until it commits, unless the request becomes stale; so a place that is  *)
(* taken by a request that is not stale fits the checked ones.             *)
(***************************************************************************)

Made == {b \in Booking : status[b] # "ABSENT"}
Checked(t) == Occupants(t) \ unchecked
CheckedOn(s, t) == {b \in Checked(t) : seat[b] = s}
CheckedFit(t) ==
  /\ \A b \in Checked(t) : seat[b] = NoSeat => Checked(t) = {b}
  /\ \A s \in Seat : Cardinality(CheckedOn(s, t)) <= Capacity

\* What a request that has checked a slot, and is not stale, still finds there.
Fits(s, t) ==
  IF s = NoSeat THEN Occupants(t) = {}
  ELSE OnSeat(NoSeat, t) = {} /\ Cardinality(OnSeat(s, t)) < Capacity
Fresh(r) ==
  /\ pc[r] \in Creating => Fits(ctx[r].seat, ctx[r].slot)
  /\ pc[r] = "move" => Occupants(ctx[r].slot) \subseteq {ctx[r].target}

PlaceInv ==
  /\ IsFiniteSet(Made)
  /\ \A t \in Nat : CheckedFit(t)
  /\ \A r \in Req \ stale : Fresh(r)

\* All sets of bookings on a calendar are finite.
LEMMA FinitePlaces ==
  ASSUME IsFiniteSet(Made), NEW t
  PROVE  /\ IsFiniteSet(Checked(t))
         /\ \A s : IsFiniteSet(CheckedOn(s, t)) /\ Cardinality(CheckedOn(s, t)) \in Nat
         /\ \A s : IsFiniteSet(OnSeat(s, t)) /\ Cardinality(OnSeat(s, t)) \in Nat
         /\ \A s : Cardinality(CheckedOn(s, t)) <= Cardinality(OnSeat(s, t))
  <1>1. Checked(t) \subseteq Made
    BY DEF Checked, Occupants, Active, ActiveStatus, Made
  <1>2. ASSUME NEW s
        PROVE  CheckedOn(s, t) \subseteq OnSeat(s, t) /\ OnSeat(s, t) \subseteq Made
    BY DEF CheckedOn, Checked, OnSeat, Occupants, Active, ActiveStatus, Made
  <1>3. ASSUME NEW s
        PROVE  /\ IsFiniteSet(CheckedOn(s, t)) /\ IsFiniteSet(OnSeat(s, t))
               /\ Cardinality(CheckedOn(s, t)) <= Cardinality(OnSeat(s, t))
    <2>1. IsFiniteSet(OnSeat(s, t))
      BY <1>2, FS_Subset
    <2>2. QED BY <1>2, <2>1, FS_Subset
  <1>4. IsFiniteSet(Checked(t))
    BY <1>1, FS_Subset
  <1>5. QED BY <1>3, <1>4, FS_CardinalityType

\* The checked occupants of a slot fit if they did and none came.
Shrinks(t) == Checked(t)' \subseteq Checked(t) /\ \A b \in Checked(t)' : seat'[b] = seat[b]
LEMMA ShrunkFit ==
  ASSUME IsFiniteSet(Made), NEW t, CheckedFit(t), Shrinks(t)
  PROVE  CheckedFit(t)'
  <1>1. ASSUME NEW b \in Checked(t)', seat'[b] = NoSeat
        PROVE  Checked(t)' = {b}
    BY <1>1 DEF CheckedFit, Shrinks
  <1>2. ASSUME NEW s \in Seat
        PROVE  Cardinality(CheckedOn(s, t)') <= Capacity
    <2>1. CheckedOn(s, t)' \subseteq CheckedOn(s, t)
      BY DEF Shrinks, CheckedOn
    <2>2. IsFiniteSet(CheckedOn(s, t)) /\ Cardinality(CheckedOn(s, t)) \in Nat
      BY FinitePlaces
    <2>3. /\ IsFiniteSet(CheckedOn(s, t)')
          /\ Cardinality(CheckedOn(s, t)') <= Cardinality(CheckedOn(s, t))
      BY <2>1, <2>2, FS_Subset
    <2>4. Cardinality(CheckedOn(s, t)') \in Nat
      BY <2>3, FS_CardinalityType
    <2>5. QED BY <2>2, <2>3, <2>4 DEF CheckedFit
  <1>3. QED BY <1>1, <1>2 DEF CheckedFit

\* A single checked occupant fits.
LEMMA AloneFit ==
  ASSUME NEW t, NEW x, Checked(t)' \subseteq {x}
  PROVE  CheckedFit(t)'
  <1>1. \A b \in Checked(t)' : Checked(t)' = {b}
    OBVIOUS
  <1>2. ASSUME NEW s \in Seat
        PROVE  Cardinality(CheckedOn(s, t)') <= Capacity
    <2>1. CheckedOn(s, t)' \in SUBSET {x}
      BY DEF CheckedOn
    <2>2. IsFiniteSet({x}) /\ Cardinality({x}) = 1
      BY FS_Singleton
    <2>3. IsFiniteSet(CheckedOn(s, t)') /\ Cardinality(CheckedOn(s, t)') <= 1
      BY <2>1, <2>2, FS_Subset
    <2>4. Cardinality(CheckedOn(s, t)') \in Nat
      BY <2>3, FS_CardinalityType
    <2>5. QED BY <2>3, <2>4
  <1>3. QED BY <1>1, <1>2 DEF CheckedFit

\* One more occupant fits if its seat was checked for it.
LEMMA GrownFit ==
  ASSUME IsFiniteSet(Made), NEW t, CheckedFit(t), NEW x, Fits(seat'[x], t),
         Checked(t)' \subseteq Checked(t) \cup {x},
         \A b \in Checked(t)' \ {x} : seat'[b] = seat[b]
  PROVE  CheckedFit(t)'
  <1>1. CASE seat'[x] = NoSeat
    <2>1. Checked(t)' \subseteq {x}
      BY <1>1 DEF Fits, Checked
    <2>2. QED BY <2>1, AloneFit
  <1>2. CASE seat'[x] # NoSeat
    <2>1. \A b \in Checked(t) : seat[b] # NoSeat
      BY <1>2 DEF Fits, OnSeat, Checked
    <2>2. \A b \in Checked(t)' : seat'[b] # NoSeat
      BY <1>2, <2>1
    <2>3. ASSUME NEW s \in Seat
          PROVE  Cardinality(CheckedOn(s, t)') <= Capacity
      <3>0. /\ IsFiniteSet(CheckedOn(s, t)) /\ Cardinality(CheckedOn(s, t)) \in Nat
            /\ Cardinality(CheckedOn(s, t)) <= Cardinality(OnSeat(s, t))
            /\ Cardinality(OnSeat(s, t)) \in Nat
        BY FinitePlaces
      <3>1. CASE s = seat'[x]
        <4>1. CheckedOn(s, t)' \subseteq CheckedOn(s, t) \cup {x}
          BY DEF CheckedOn
        <4>2. /\ IsFiniteSet(CheckedOn(s, t) \cup {x})
              /\ Cardinality(CheckedOn(s, t) \cup {x}) \in Nat
              /\ Cardinality(CheckedOn(s, t) \cup {x}) <= Cardinality(CheckedOn(s, t)) + 1
          <5>1. /\ IsFiniteSet(CheckedOn(s, t) \cup {x})
                /\ Cardinality(CheckedOn(s, t) \cup {x}) =
                     IF x \in CheckedOn(s, t) THEN Cardinality(CheckedOn(s, t))
                     ELSE Cardinality(CheckedOn(s, t)) + 1
            BY <3>0, FS_AddElement
          <5>2. QED BY <3>0, <5>1
        <4>3. /\ IsFiniteSet(CheckedOn(s, t)')
              /\ Cardinality(CheckedOn(s, t)') <= Cardinality(CheckedOn(s, t) \cup {x})
          BY <4>1, <4>2, FS_Subset
        <4>4. Cardinality(CheckedOn(s, t)') \in Nat
          BY <4>3, FS_CardinalityType
        <4>5. Cardinality(OnSeat(s, t)) < Capacity
          BY <1>2, <3>1 DEF Fits
        <4>6. QED BY <3>0, <4>2, <4>3, <4>4, <4>5
      <3>2. CASE s # seat'[x]
        <4>1. CheckedOn(s, t)' \subseteq CheckedOn(s, t)
          BY <3>2 DEF CheckedOn
        <4>2. /\ IsFiniteSet(CheckedOn(s, t)')
              /\ Cardinality(CheckedOn(s, t)') <= Cardinality(CheckedOn(s, t))
          BY <3>0, <4>1, FS_Subset
        <4>3. Cardinality(CheckedOn(s, t)') \in Nat
          BY <4>2, FS_CardinalityType
        <4>4. QED BY <3>0, <4>2, <4>3 DEF CheckedFit
      <3>3. QED BY <3>1, <3>2
    <2>4. QED BY <2>2, <2>3 DEF CheckedFit
  <1>3. QED BY <1>1, <1>2

\* What each step does to the calendar: nothing, a booking released or otherwise ended, a
\* booking confirmed, a booking made, or a booking moved.
Placeless(r) == UNCHANGED <<status, slot, seat, unchecked>> /\ stale \subseteq stale' \cup {r}
Ended(r, x) ==
  /\ status' = [status EXCEPT ![x] = status'[x]] /\ status'[x] \notin ActiveStatus \cup {"ABSENT"}
  /\ UNCHANGED <<slot, seat, unchecked>> /\ NotFilled(r)
Confirmed(r, x) ==
  /\ status' = [status EXCEPT ![x] = "CONFIRMED"]
  /\ UNCHANGED <<slot, seat>> /\ Revived(r, x)

LEMMA PlaceSteps ==
  ASSUME Base, NEW r \in Req, RequestStep(r)
  PROVE  \/ Placeless(r)
         \/ \E x \in Booking : x = ctx[r].target /\ (Ended(r, x) \/ Confirmed(r, x))
         \/ CreateCommit(r) \/ RescheduleCommit(r)
  <1> USE Typed DEF Base
  <1>1. CASE Begin(r) \/ Lock(r) \/ Abort(r)
    <2>1. Begin(r) \/ Lock(r) => UNCHANGED <<bookingVars, placeVars>>
      BY DEF Begin, CreateCheck, CancelRead, PaidRead, RescheduleRead, FinishRead, HookRead,
         HookRebind, Purchase, Lock
    <2>2. Abort(r) => UNCHANGED <<bookingVars, unchecked>> /\ NotFilled(r)
      BY DEF Abort
    <2>3. QED BY <1>1, <2>1, <2>2 DEF Placeless, bookingVars, placeVars, NotFilled
  <1>2. CASE RedeemRead(r) \/ RefundRead(r) \/ RescheduleCheck(r) \/ HookReread(r)
             \/ PurchaseIntent(r)
    BY <1>2 DEF RedeemRead, RefundRead, RescheduleCheck, HookReread, PurchaseIntent, NotFilled,
         Placeless, bookingVars, placeVars
  <1>3. CASE CancelCommit(r) \/ FinishCommit(r)
    <2>1. ctx[r].target \in Booking
      BY <1>3 DEF CancelCommit, FinishCommit, Ready, DataOK, BookingStages
    <2>2. FinishCommit(r) => ctx[r].will \in {"COMPLETED", "NO_SHOW"}
      BY DEF FinishCommit, Ready, DataOK
    <2>3. Ended(r, ctx[r].target)
      BY <1>3, <2>1, <2>2 DEF CancelCommit, FinishCommit, Ended, ActiveStatus
    <2>4. QED BY <2>1, <2>3
  <1>4. CASE PaidCommit(r)
    <2>1. ctx[r].target \in Booking
      BY <1>4 DEF PaidCommit, Ready, DataOK, BookingStages
    <2>2. QED BY <1>4, <2>1 DEF PaidCommit, Confirmed
  <1>5. CASE SettleCommit(r)
    BY <1>5 DEF SettleCommit, Confirmed, Placeless, NotFilled
  <1>6. CASE FailCommit(r)
    <2> DEFINE o == ctx[r].target
    <2>1. CASE UNCHANGED status
      BY <1>6, <2>1 DEF FailCommit, Placeless, NotFilled
    <2>2. CASE o \in Booking /\ status' = [status EXCEPT ![o] = "CANCELLED"]
      <3>1. Ended(r, o)
        BY <1>6, <2>2 DEF FailCommit, Ended, ActiveStatus
      <3>2. QED BY <2>2, <3>1
    <2>3. QED BY <1>6, <2>1, <2>2 DEF FailCommit
  <1>7. QED
    BY <1>1, <1>2, <1>3, <1>4, <1>5, <1>6 DEF RequestStep, Continue

\* A new booking exists from its commit on, and a moved one did before.
LEMMA MadeStep ==
  ASSUME Base, NEW r \in Req, RequestStep(r), IsFiniteSet(Made)
  PROVE  IsFiniteSet(Made')
  <1> USE Typed DEF Base
  <1>1. Made' \subseteq Made \cup {ctx[r].target}
    <2> SUFFICES ASSUME NEW b \in Booking, status'[b] # "ABSENT", b # ctx[r].target
                 PROVE  status[b] # "ABSENT"
      BY DEF Made
    <2>1. QED BY Footprint
  <1>2. IsFiniteSet(Made \cup {ctx[r].target})
    BY FS_AddElement
  <1>3. QED BY <1>1, <1>2, FS_Subset

\* After a step the checked occupants of every slot still fit.
LEMMA CheckedStep ==
  ASSUME Base, PlaceInv, NEW r \in Req, RequestStep(r), NEW t \in Nat
  PROVE  CheckedFit(t)'
  <1> USE Typed DEF Base
  <1>0. CheckedFit(t) /\ IsFiniteSet(Made)
    BY DEF PlaceInv
  <1>1. CASE Placeless(r)
    <2>1. Shrinks(t)
      BY <1>1 DEF Placeless, Shrinks, Checked, Occupants, Active
    <2>2. QED BY <1>0, <2>1, ShrunkFit
  <1>2. ASSUME NEW x \in Booking, Ended(r, x)
        PROVE  CheckedFit(t)'
    <2>1. ASSUME NEW b \in Checked(t)'
          PROVE  b \in Checked(t) /\ seat'[b] = seat[b]
      <3>1. b # x
        BY <1>2, <2>1 DEF Ended, Checked, Occupants, Active
      <3>2. QED BY <1>2, <2>1, <3>1 DEF Ended, Checked, Occupants, Active
    <2>2. QED BY <1>0, <2>1, ShrunkFit DEF Shrinks
  <1>3. ASSUME NEW x \in Booking, Confirmed(r, x)
        PROVE  CheckedFit(t)'
    <2>1. ASSUME NEW b \in Checked(t)'
          PROVE  b \in Checked(t) /\ seat'[b] = seat[b]
      <3>1. CASE b # x
        BY <1>3, <2>1, <3>1 DEF Confirmed, Revived, Checked, Occupants, Active
      <3>2. CASE b = x
        <4>1. Active(x)
          BY <1>3, <2>1, <3>2 DEF Confirmed, Revived, Checked
        <4>2. QED BY <1>3, <2>1, <3>2, <4>1 DEF Confirmed, Revived, Checked, Occupants, Active
      <3>3. QED BY <3>1, <3>2
    <2>2. QED BY <1>0, <2>1, ShrunkFit DEF Shrinks
  <1>4. CASE CreateCommit(r)
    <2>0. PICK x \in Booking : x = ctx[r].target
      BY <1>4 DEF CreateCommit, Ready, DataOK, BookingStages
    <2>1. ASSUME NEW b \in Checked(t)', b # x
          PROVE  b \in Checked(t) /\ seat'[b] = seat[b]
      BY <1>4, <2>0, <2>1 DEF CreateCommit, Placed, Checked, Occupants, Active
    <2>2. CASE x \notin Checked(t)'
      BY <1>0, <2>1, <2>2, ShrunkFit DEF Shrinks
    <2>3. CASE x \in Checked(t)'
      <3>1. slot'[x] = t /\ slot'[x] = ctx[r].slot /\ seat'[x] = ctx[r].seat
        BY <1>4, <2>0, <2>3 DEF CreateCommit, Checked, Occupants
      <3>2. r \notin stale
        BY <1>4, <2>0, <2>3 DEF CreateCommit, Placed, Checked
      <3>3. Fits(seat'[x], t)
        BY <1>4, <3>1, <3>2 DEF PlaceInv, Fresh, CreateCommit, Ready, Creating
      <3>4. QED BY <1>0, <2>1, <3>3, GrownFit
    <2>4. QED BY <2>2, <2>3
  <1>5. CASE RescheduleCommit(r)
    <2>0. PICK x \in Booking : x = ctx[r].target
      BY <1>5 DEF RescheduleCommit, Ready, DataOK, BookingStages
    <2>1. ASSUME NEW b \in Checked(t)', b # x
          PROVE  b \in Checked(t) /\ seat'[b] = seat[b]
      BY <1>5, <2>0, <2>1 DEF RescheduleCommit, Placed, Checked, Occupants, Active
    <2>2. CASE x \notin Checked(t)'
      BY <1>0, <2>1, <2>2, ShrunkFit DEF Shrinks
    <2>3. CASE x \in Checked(t)'
      <3>1. ctx[r].slot = t
        BY <1>5, <2>0, <2>3 DEF RescheduleCommit, Checked, Occupants
      <3>2. r \notin stale
        BY <1>5, <2>0, <2>3 DEF RescheduleCommit, Placed, Checked
      <3>3. Occupants(t) \subseteq {x}
        BY <1>5, <2>0, <3>1, <3>2 DEF PlaceInv, Fresh, RescheduleCommit, Ready
      <3>4. Checked(t)' \subseteq {x}
        BY <2>1, <3>3 DEF Checked
      <3>5. QED BY <3>4, AloneFit
    <2>4. QED BY <2>2, <2>3
  <1>6. QED BY <1>1, <1>2, <1>3, <1>4, <1>5, PlaceSteps

\* A slot that another request has checked gets no new occupant, or that request is stale.
Keeps(t) == Occupants(t)' \subseteq Occupants(t) /\ \A b \in Occupants(t)' : seat'[b] = seat[b]
LEMMA KeptSlot ==
  ASSUME Base, NEW r \in Req, RequestStep(r), NEW q \in Req \ {r}, q \notin stale',
         pc[q] \in Creating \cup {"move"}, NEW t \in Nat, t = ctx[q].slot
  PROVE  q \notin stale /\ Keeps(t)
  <1> USE Typed DEF Base
  <1>0. pc[q] \in {"create", "redeem", "move"}
    BY DEF Creating
  <1>1. CASE Placeless(r)
    BY <1>1 DEF Placeless, Keeps, Occupants, Active
  <1>2. ASSUME NEW x \in Booking, Ended(r, x)
        PROVE  q \notin stale /\ Keeps(t)
    <2>1. ASSUME NEW b \in Occupants(t)'
          PROVE  b \in Occupants(t) /\ seat'[b] = seat[b]
      <3>1. b # x
        BY <1>2, <2>1 DEF Ended, Occupants, Active
      <3>2. QED BY <1>2, <2>1, <3>1 DEF Ended, Occupants, Active
    <2>2. QED BY <1>2, <2>1 DEF Keeps, Ended, NotFilled
  <1>3. ASSUME NEW x \in Booking, Confirmed(r, x)
        PROVE  q \notin stale /\ Keeps(t)
    <2>1. q \notin stale /\ (~Active(x) => slot[x] # t)
      BY <1>0, <1>3 DEF Confirmed, Revived, Filled, NotFilled
    <2>2. ASSUME NEW b \in Occupants(t)'
          PROVE  b \in Occupants(t) /\ seat'[b] = seat[b]
      <3>1. CASE b # x
        BY <1>3, <2>2, <3>1 DEF Confirmed, Occupants, Active
      <3>2. CASE b = x
        BY <1>3, <2>1, <2>2, <3>2 DEF Confirmed, Occupants
      <3>3. QED BY <3>1, <3>2
    <2>3. QED BY <2>1, <2>2 DEF Keeps
  <1>4. CASE CreateCommit(r) \/ RescheduleCommit(r)
    <2>0. PICK x \in Booking : x = ctx[r].target
      BY <1>4 DEF CreateCommit, RescheduleCommit, Ready, DataOK, BookingStages
    <2>1. q \notin stale /\ ctx[r].slot # t
      BY <1>0, <1>4 DEF CreateCommit, RescheduleCommit, Placed, Filled
    <2>2. ASSUME NEW b \in Occupants(t)'
          PROVE  b \in Occupants(t) /\ seat'[b] = seat[b]
      <3>1. b # x
        BY <1>4, <2>0, <2>1, <2>2 DEF CreateCommit, RescheduleCommit, Occupants
      <3>2. QED
        BY <1>4, <2>0, <2>2, <3>1 DEF CreateCommit, RescheduleCommit, Occupants, Active
    <2>3. QED BY <2>1, <2>2 DEF Keeps
  <1>5. QED BY <1>1, <1>2, <1>3, <1>4, PlaceSteps

\* What was found free stays so.
LEMMA KeptFits ==
  ASSUME IsFiniteSet(Made), NEW t, Keeps(t), NEW s, Fits(s, t)
  PROVE  Fits(s, t)'
  <1>1. CASE s = NoSeat
    BY <1>1 DEF Fits, Keeps
  <1>2. CASE s # NoSeat
    <2>1. OnSeat(NoSeat, t)' = {}
      BY <1>2 DEF Fits, Keeps, OnSeat
    <2>2. OnSeat(s, t)' \subseteq OnSeat(s, t)
      BY DEF Keeps, OnSeat
    <2>3. /\ IsFiniteSet(OnSeat(s, t)) /\ Cardinality(OnSeat(s, t)) \in Nat
          /\ Cardinality(OnSeat(s, t)) < Capacity
      BY <1>2, FinitePlaces DEF Fits
    <2>4. /\ IsFiniteSet(OnSeat(s, t)')
          /\ Cardinality(OnSeat(s, t)') <= Cardinality(OnSeat(s, t))
      BY <2>2, <2>3, FS_Subset
    <2>5. Cardinality(OnSeat(s, t)') \in Nat
      BY <2>4, FS_CardinalityType
    <2>6. QED BY <1>2, <2>1, <2>3, <2>4, <2>5 DEF Fits
  <1>3. QED BY <1>1, <1>2

\* After a step every request that is not stale still finds what it found.
LEMMA FreshStep ==
  ASSUME Base, PlaceInv, NEW r \in Req, RequestStep(r), NEW q \in Req, q \notin stale'
  PROVE  Fresh(q)'
  <1> USE Typed DEF Base
  <1>0. IsFiniteSet(Made) /\ \A p \in Req : ctx[p].slot \in Nat
    BY DEF PlaceInv, CtxType
  <1>1. CASE q # r
    <2>0. pc'[q] = pc[q] /\ ctx'[q] = ctx[q]
      BY <1>1, OthersKeep
    <2>1. PICK t \in Nat : t = ctx[q].slot
      BY <1>0
    <2>2. PICK s : s = ctx[q].seat
      OBVIOUS
    <2>3. PICK x : x = ctx[q].target
      OBVIOUS
    <2>4. CASE pc[q] \in Creating
      <3>1. q \notin stale /\ Keeps(t)
        BY <1>1, <2>1, <2>4, KeptSlot
      <3>2. Fits(s, t)
        BY <2>1, <2>2, <2>4, <3>1 DEF PlaceInv, Fresh
      <3>3. Fits(s, t)'
        BY <1>0, <3>1, <3>2, KeptFits
      <3>4. QED BY <2>0, <2>1, <2>2, <2>4, <3>3 DEF Fresh, Creating
    <2>5. CASE pc[q] = "move"
      <3>1. q \notin stale /\ Keeps(t)
        BY <1>1, <2>1, <2>5, KeptSlot
      <3>2. Occupants(t) \subseteq {x}
        BY <2>1, <2>3, <2>5, <3>1 DEF PlaceInv, Fresh
      <3>3. Occupants(t)' \subseteq {x}
        BY <3>1, <3>2 DEF Keeps
      <3>4. QED BY <2>0, <2>1, <2>3, <2>5, <3>3 DEF Fresh, Creating
    <2>6. CASE pc[q] \notin Creating \cup {"move"}
      BY <2>0, <2>6 DEF Fresh
    <2>7. QED BY <2>4, <2>5, <2>6
  <1>2. CASE q = r /\ Begin(r)
    <2>0. pc'[r] # "move"
      BY <1>2, BeginFacts DEF FirstStages, TypeInv, TypeParts
    <2>1. CASE pc'[r] \in Creating
      <3>1. PICK b \in Booking, t \in Slot, s \in Seat \cup {NoSeat},
                 src \in {"ONLINE", "MANUAL"}, dep \in {0, Deposit}, c \in Card \cup {NoCard} :
                   CreateCheck(r, b, t, s, src, dep, c)
        BY <1>2, <2>1, BeginBy
      <3>2. ctx'[r].slot = t /\ ctx'[r].seat = s
        BY <3>1, BeginHas
      <3>3. Fits(s, t)
        <4>1. s \in SeatChoices(t) /\ activeSeats \subseteq Seat
          BY <3>1 DEF CreateCheck, TypeInv, TypeParts, WorldOK
        <4>2. QED BY <4>1 DEF SeatChoices, Fits
      <3>4. UNCHANGED <<status, slot, seat>>
        BY <3>1 DEF CreateCheck, bookingVars
      <3>5. Fits(s, t)'
        BY <3>3, <3>4 DEF Fits, OnSeat, Occupants, Active
      <3>6. QED BY <1>2, <2>0, <3>2, <3>5 DEF Fresh
    <2>2. CASE pc'[r] \notin Creating
      BY <1>2, <2>0, <2>2 DEF Fresh
    <2>3. QED BY <2>1, <2>2
  <1>3. CASE q = r /\ Lock(r)
    <2>1. UNCHANGED <<status, slot, seat, pc, ctx, stale>>
      BY <1>3 DEF Lock, bookingVars, placeVars
    <2>2. Fresh(q)
      BY <2>1 DEF PlaceInv
    <2>3. QED BY <2>1, <2>2 DEF Fresh, Fits, OnSeat, Occupants, Active
  <1>4. CASE q = r /\ Continue(r)
    <2>1. CASE RedeemRead(r) /\ pc'[r] # "idle"
      <3>1. /\ pc'[r] = "create" /\ pc[r] = "redeem"
            /\ ctx'[r] = [ctx[r] EXCEPT !.bal = balance[ctx[r].card]]
            /\ UNCHANGED <<status, slot, seat, stale>>
        BY <2>1 DEF RedeemRead, GoOn, End, bookingVars
      <3>2. ctx'[r].slot = ctx[r].slot /\ ctx'[r].seat = ctx[r].seat
        BY <3>1 DEF CtxType
      <3>3. PICK s, t : s = ctx[r].seat /\ t = ctx[r].slot
        OBVIOUS
      <3>4. Fits(s, t)
        BY <1>4, <3>1, <3>3 DEF PlaceInv, Fresh, Creating
      <3>5. Fits(s, t)'
        BY <3>1, <3>4 DEF Fits, OnSeat, Occupants, Active
      <3>6. QED BY <1>4, <3>1, <3>2, <3>3, <3>5 DEF Fresh
    <2>2. CASE RescheduleCheck(r) /\ pc'[r] # "idle"
      <3>1. /\ pc'[r] = "move" /\ ctx'[r] = ctx[r]
            /\ Occupants(ctx[r].slot) \subseteq {ctx[r].target}
            /\ UNCHANGED <<status, slot, seat>>
        BY <2>2 DEF RescheduleCheck, GoOn, End, bookingVars
      <3>2. PICK t, x : t = ctx[r].slot /\ x = ctx[r].target
        OBVIOUS
      <3>3. Occupants(t)' \subseteq {x}
        BY <3>1, <3>2 DEF Occupants, Active
      <3>4. QED BY <1>4, <3>1, <3>2, <3>3 DEF Fresh, Creating
    <2>3. CASE pc'[r] \notin Creating \cup {"move"}
      BY <1>4, <2>3 DEF Fresh
    <2>4. QED
      <3>1. pc'[r] \in Creating \cup {"move"} => pc[r] \in {"redeem", "reschedule"}
        BY <1>4, ContinueFacts DEF Creating
      <3>2. pc[r] \in {"redeem", "reschedule"} => RedeemRead(r) \/ RescheduleCheck(r)
        BY <1>4 DEF Continue, CreateCommit, RefundRead, CancelCommit, RescheduleCommit,
           FinishCommit, PaidCommit, HookReread, SettleCommit, FailCommit, PurchaseIntent, Ready
      <3>3. QED BY <2>1, <2>2, <2>3, <3>1, <3>2 DEF Creating
  <1>5. CASE q = r /\ Abort(r)
    BY <1>5 DEF Abort, End, Fresh, Creating
  <1>6. QED BY <1>1, <1>2, <1>3, <1>4, <1>5 DEF RequestStep

LEMMA PlaceInvInductive ==
  /\ Init => PlaceInv
  /\ Base /\ PlaceInv /\ [Next]_vars => PlaceInv'
  <1>1. Init => PlaceInv
    <2> SUFFICES ASSUME Init PROVE PlaceInv
      OBVIOUS
    <2>1. Made = {} /\ \A t : Occupants(t) = {}
      BY DEF Init, Made, Occupants, Active, ActiveStatus
    <2>2. IsFiniteSet({}) /\ Cardinality({}) = 0
      BY FS_EmptySet
    <2>3. \A t : Checked(t) = {} /\ \A s : CheckedOn(s, t) = {}
      BY <2>1 DEF Checked, CheckedOn
    <2>4. \A t \in Nat : CheckedFit(t)
      BY <2>2, <2>3 DEF CheckedFit
    <2>5. \A r \in Req : pc[r] = "idle"
      BY DEF Init
    <2>6. QED BY <2>1, <2>2, <2>4, <2>5 DEF PlaceInv, Fresh, Creating
  <1>2. ASSUME UNCHANGED <<status, slot, seat, pc, ctx, unchecked, stale>>, PlaceInv
        PROVE  PlaceInv'
    <2>1. Made' = Made /\ \A t : Occupants(t)' = Occupants(t)
      BY <1>2 DEF Made, Occupants, Active
    <2>2. \A t : /\ Checked(t)' = Checked(t)
                 /\ \A s : CheckedOn(s, t)' = CheckedOn(s, t) /\ OnSeat(s, t)' = OnSeat(s, t)
      BY <1>2, <2>1 DEF Checked, CheckedOn, OnSeat
    <2>3. \A t \in Nat : CheckedFit(t)'
      BY <1>2, <2>2 DEF PlaceInv, CheckedFit
    <2>4. ASSUME NEW r \in Req, r \notin stale'
          PROVE  Fresh(r)'
      BY <1>2, <2>1, <2>2, <2>4 DEF PlaceInv, Fresh, Fits
    <2>5. QED BY <1>2, <2>1, <2>3, <2>4 DEF PlaceInv
  <1>3. Environment => UNCHANGED <<status, slot, seat, pc, ctx, unchecked, stale>>
    BY DEF Environment, LookupExpired, Expire, ChangeSeats, Tick, bookingVars, requestVars,
       placeVars
  <1>4. UNCHANGED vars => UNCHANGED <<status, slot, seat, pc, ctx, unchecked, stale>>
    BY DEF vars, bookingVars, requestVars, placeVars
  <1>5. ASSUME Base, PlaceInv, NEW r \in Req, RequestStep(r) PROVE PlaceInv'
    <2>1. IsFiniteSet(Made)'
      BY <1>5, MadeStep DEF PlaceInv
    <2>2. \A t \in Nat : CheckedFit(t)'
      BY <1>5, CheckedStep
    <2>3. \A q \in Req \ stale' : Fresh(q)'
      BY <1>5, FreshStep
    <2>4. QED BY <2>1, <2>2, <2>3 DEF PlaceInv
  <1>6. QED BY <1>1, <1>2, <1>3, <1>4, <1>5 DEF Next, RequestStep

\* A slot is overbooked only through a booking that took its place without a check against
\* what was then committed, however many bookings, requests, seats and slots there are.
THEOREM NeverOverbookedUnchecked == Spec => []OverbookedOnlyUnchecked
  <1>1. Spec => [](Base /\ PlaceInv)
    BY BaseInductive, PlaceInvInductive, PTL DEF Spec
  <1>2. PlaceInv => OverbookedOnlyUnchecked
    <2> SUFFICES ASSUME PlaceInv, NEW t \in Slot, Overbooked(t), Occupants(t) \cap unchecked = {}
                 PROVE  FALSE
      BY DEF OverbookedOnlyUnchecked
    <2>1. Checked(t) = Occupants(t) /\ \A s : CheckedOn(s, t) = OnSeat(s, t)
      BY DEF Checked, CheckedOn, OnSeat
    <2>2. CheckedFit(t) /\ IsFiniteSet(Made)
      BY DEF PlaceInv
    <2>3. CASE OnSeat(NoSeat, t) # {} /\ Cardinality(Occupants(t)) > 1
      <3>1. PICK b : Occupants(t) = {b}
        BY <2>1, <2>2, <2>3 DEF OnSeat, CheckedFit
      <3>2. Cardinality(Occupants(t)) = 1
        BY <3>1, FS_Singleton
      <3>3. QED BY <2>3, <3>2
    <2>4. CASE \E s \in Seat : Cardinality(OnSeat(s, t)) > Capacity
      <3>1. PICK s \in Seat : Cardinality(OnSeat(s, t)) > Capacity
        BY <2>4
      <3>2. Cardinality(OnSeat(s, t)) <= Capacity /\ Cardinality(OnSeat(s, t)) \in Nat
        BY <2>1, <2>2, FinitePlaces DEF CheckedFit
      <3>3. QED BY <3>1, <3>2
    <2>5. QED BY <2>3, <2>4 DEF Overbooked
  <1>3. QED BY <1>1, <1>2, PTL

=============================================================================
