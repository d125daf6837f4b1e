# GlamLink backend: a TLA+ verification project

GlamLink's backend (NestJS, Prisma, PostgreSQL, Paystack) lets vendors of beauty
services take bookings, sell gift cards, publish opening hours, be reviewed, and order
supplies. This directory holds TLA+ modules of its state-changing components, TLC
configurations that check them on small instances, and TLAPS proofs of their safety.

Paths below are relative to the repository (`src/...`); constants and actions are in
`monospace`.

## 1. The system

### Where the difficulty is

The backend is one kind of process: an HTTP server whose handlers are asynchronous
functions. Nothing is scheduled inside it (no timer, no cron; reminders and the closing
of past bookings are started through endpoints). All durable state is in PostgreSQL at the
default isolation, READ COMMITTED. Therefore:

- A handler is overtaken by others at every `await`, also inside a transaction: a SELECT
  sees what is committed when it runs, an UPDATE locks its row until the commit.
- Almost every handler is *read, decide, write*, and most UPDATEs name only the id. What
  was decided may be stale when it is written. What does hold, holds because of a row lock,
  a UNIQUE constraint, or a transaction that throws.
- Some operations are several statements without a transaction (gift card purchase, supply
  checkout, image creation, the calendar after a booking's commit), so a process that stops
  leaves the first ones behind.
- Paystack's webhook delivers events late, repeatedly, in any order, and sometimes under
  another reference.

### Components

| Component (source) | State | Operations | Interacts with | What makes it correct |
|---|---|---|---|---|
| Bookings desk (`bookings/bookings.service.ts`) | `Booking`: status, time, seat, source, deposit, balance due | create (online, manual, with a gift card), cancel, reschedule, complete, no-show, complete past ones, mark paid, claim | gift cards and payment intents in one transaction; calendar and events after the commit | confirmed only when paid; amounts make up the price; slots are not overbooked; requests end |
| Paystack (`payments/paystack.service.ts`) | `PaymentIntent`: status, confirmedAt, reference | webhook: success, mismatch, failure, rebinding of a reference | updates bookings, gift cards, supply orders | events in any order leave intent and owner consistent |
| Gift cards (`gift-cards/gift-cards.service.ts`) | `GiftCard`: status, balance; `GiftCardRedemption` | purchase, lookup (expires), redeem, refund | called inside the booking's transactions | value is conserved; status agrees with balance; only paid cards are redeemed; one refund |
| Availability (`services/services.service.ts`) | `WeeklyAvailability`, `AvailabilityOverride` | replace the week, create and delete overrides, generate slots, list them with their free seats | read by the desk and by clients | open exactly when the vendor means it, which takes a weekly schedule; slots do not overlap; what is listed as full is |
| Service catalogue (`services/services.service.ts`) | `Service`: price, length, active | create, change, archive, restore | read by the desk twice in a request, by discovery | the price charged is one that was shown; a booking fills a slot |
| Service images (`services/services.service.ts`) | `ServiceImage`: sortOrder | create, delete, reorder | object storage | numbered without gaps; limit of images |
| Vendor review (`vendors/vendors.service.ts`) | `Vendor`: status, reason, reviewer, handle; `KycDocument`; `VendorStatusHistory` | upsert profile, add documents, submit, approve, reject | users | audit trail tells the status; handles unique |
| Staff and seats (`vendors/vendors.service.ts`) | `ServiceSeat` with its services and capacity, `StaffMember` | create, update, archive | the desk chooses a seat | no seat is booked beyond its capacity or over a booking without a seat; vendors stay apart |
| Platform settings (`platform-settings/`) | `PlatformSetting`: the markup | read, set | prices charged and shown | both make the same price |
| Public discovery (`public/public.service.ts`) | none | highlights, searches, nearby search, service page, availability | catalogue, slots | a search misses only what its limits cut |
| Authentication (`auth/auth.service.ts`) | `EmailOtp`, `User`, `Session`; signed tokens | request and verify a code, Firebase login with a session or a token, register, validate a token | mail, Firebase | a link is kept; a code signs in once; a token admits the linked user |
| Calendar (`calendar/calendar.service.ts`) | `BookingCalendarEntry` per owner | upsert both entries after a commit | bookings, webhook, claims | entries show the booking |
| Reminders (`bookings/reminders.service.ts`) | `Booking.reminderSentAt` | one run per call | bookings, events | one reminder per booking |
| Reviews (`reviews/reviews.service.ts`) | `Review` | create, reply | bookings | one review of a completed booking, one reply |
| Supply orders (`supply-orders/supply-orders.service.ts`), supplies (`supplies/supplies.service.ts`) | `SupplyOrder`, items, history; `SupplyProduct`, `SupplyPrice` | checkout; update of products and prices | Paystack | the charge is the delivery fee and the items; order follows payment |
| Events and notifications (`events/`, `notifications/`) | `PushToken` | register a device, dispatch a push message | emitted by the desk, the webhook, reminders and reviews; nobody waits for the former | a device is reached once, and only for its user |
| Profiles, storage, mail, users, health, seed | own rows or none | single writes, calls out | | not modelled (section 7) |

The hazards of this code, each at its line, are listed in `PROJECT.json` with the properties
that watch them.

## 2. Modules

| Module | Models | Composed with |
|---|---|---|
| `Bookings` | bookings desk, its payment intents, gift cards, webhook, seats, clock | |
| `AbstractDesk` | what the desk promises of a booking, one indivisible deal per step | implemented by `Bookings` |
| `BookingsProperties` | what the desk guarantees; fairness; the refinement mapping | EXTENDS `Bookings`, INSTANCE `AbstractDesk` |
| `Services` | what the two parts of `ServicesService` share: requests in progress | |
| `Slots` | weekly schedule, overrides, generated slots | EXTENDS `Services` |
| `Catalogue` | services, seats, staff, the vendors' standing, the markup; the public queries | |
| `Seats` | bookings of services of different lengths on seats of different capacity; listed slots; prices charged | EXTENDS `Catalogue` |
| `Vendors` | vendor profiles, documents, review, audit trail | |
| `Auth` | one-time codes, Firebase accounts, sessions, signed tokens | |
| `FollowUps` | one booking's calendar entries, reminders and claims | |
| `Notifications` | devices and the dispatch of a push message | |
| `Reviews` | reviews and replies, and the messages they and the bookings' events send | EXTENDS `Notifications` |
| `ServiceImages` | the images of one service; its specification is `ImagesSpec`, next to the `Spec` of `Slots` | EXTENDS `Services` |
| `SupplyOrders` | catalogue, checkout, webhook events of supply orders | |
| `MC*` | instances for TLC: symmetry, the schedules, spans and handles of the small instances | EXTENDS the module it is named after |
| `BookingsProofs` | theorems on the desk: payments, refunds, refinement, amounts, locks, places | EXTENDS `BookingsProperties` |
| `SeatsProofs` | theorems on seats, prices, slots and the nearby search | EXTENDS `Seats` |
| `ServicesProofs` | theorems on schedules, opening hours, slots and images | EXTENDS `Slots`, `ServiceImages` |
| `VendorsProofs`, `AuthProofs`, `FollowUpsProofs`, `ReviewsProofs`, `SupplyOrdersProofs` | theorems on the module each is named after | EXTENDS that module |

`Bookings` puts bookings, payments and gift cards into one module because in the code they
share transactions: a creation redeems a card and makes an intent in one commit, a
cancellation refunds in one commit, and the webhook updates the intent together with what
it pays for. The other components share only single columns with it, and read what it
writes as an environment: `FollowUps` has each handler's status check and UPDATE without the
money behind it, `Reviews` has confirmed, completed or cancelled and the customer.

`Seats` is the other half of the desk. `Bookings` has the money with one service and equal seats;
`Seats` has times, lengths and places with bookings that only hold a place or have released it, and
composes them with everything of the catalogue that a handler reads more than once. `Release` stands for
every update that ends a booking's hold of its place, `Revive` for the late payment that takes it back
unchecked.

`Reviews` composes two components through their calls: a commit of a review starts a dispatch
(`SendTo`), an event of a booking starts another kind (`EmitEvent`) that reads the booking when it gets to it.
Messages do not touch each other, so one is followed, whichever of those that are sent; `Emit` may pass
a message by for that reason.

### How a request is modelled

`Bookings` uses one scheme for all handlers. A request `r` has a stage `pc[r]`, the local
data `ctx[r]` that its handler holds across awaits, the rows `plan[r]` that it still has to
lock, and the locks it holds (`lock`).

1. A *begin* action (`CreateCheck`, `CancelRead`, `HookRead`, ...) is the reads and checks of
   the handler. Refused calls change nothing and are left out.
2. `Lock(r)` takes the next row of `plan[r]`, in the order of the code's UPDATEs, once no
   other request holds it.
3. Some handlers read again after a lock: `RedeemRead`, `RefundRead`, `RescheduleCheck`,
   `HookReread`.
4. The *commit* action (`CreateCommit`, `CancelCommit`, `SettleCommit`, ...) makes all writes
   of the transaction visible and releases the locks. Values computed from `ctx[r]` are those
   the code computed before it waited, such as the balance of a gift card.
5. `Abort(r)` rolls back: a refusal, a lost connection, a stopped process.

`Seats`, `Slots`, `Vendors`, `Auth`, `FollowUps`, `Reviews`, `ServiceImages` and `SupplyOrders` use the
same idea with a record `task[r]` (or `pc` and its data): what was read, then one action per
committed statement, and `Abort` or `Stop` at any point. `ServiceImages` has one action per row
update, because there the order of row locks decides; PostgreSQL's deadlock victim is an `Abort`.
`Slots` has the two statements of `setWeeklyAvailability` apart, with the snapshot of the DELETE,
because in READ COMMITTED rows inserted meanwhile are not seen by it. `Overridden` is what the overrides
make of a day's windows, `WindowsOf` what slots are cut from: nothing while the vendor has no weekly rows, since
both listings return before they look at the overrides (`services.service.ts:473` and `537`).
`FollowUps` has the re-read of a created or a claimed booking as a step of its own (`Reread`), between the commit
and the calendar, so what is entered there may already be another handler's row.

Data are abstracted to what the properties tell apart. In `Bookings` a time is a number and two bookings overlap
iff they start together; price, deposit and card value are constants with the code's arithmetic (deposit first,
then the rest) on them; seats are counted with their capacity. In `FollowUps` a row is status, start and
customer. In `Auth` codes are records without digits. In `SupplyOrders` `vendorPriceCents` is a number that the
catalogue gives, 0 included; the total starts from the delivery fee that the caller sends, and a checkout whose
total is not positive is refused. In `Seats` a day is open throughout and has no buffers, since windows are the
subject of `Slots`; what vendors type is a record of the fields that are given, which is laid over the row as
Prisma does; `Distance` is a constant, since vendors do not move.

History variables record what happened and are read by no action: `refunds`, `unchecked`, `stale` (Bookings,
Seats), `widest`, `shown`, `saw` and `fits` (Seats), `holder` and `held` (Notifications), `together` (Slots),
`begun` and `ended` on records (Vendors, Auth, FollowUps, Reviews, SupplyOrders: how many requests had begun
when one began and ended), `links` and `wrong` (Auth), `left` (FollowUps), `disturbed` (ServiceImages),
`quoted` (SupplyOrders).

## 3. What is checked

Because handlers decide on stale reads, many plain statements ("a slot has one booking") are
false of this code. The properties therefore say *exactly when* they fail: only when two requests
overlapped. Each such property is violated at once by a change that loses a check, and
shows that no long sequence of calls one after the other can do the harm.

| Run | Instance | Properties | Shows |
|---|---|---|---|
| `bookings_money` | 2 bookings, 1 bought card, 3 requests at a time, 4 calls; price 3, deposit 2, card 4 | `TypeOK`, `ConfirmedOnlyAfterPayment`, `BookingMoneyAddsUp`, `CardStatusMatchesBalance`, `RefundAtMostOnce`, `UnrefundedOnlyByFailedPayment`, `NoDeadlock`, `DeskImplemented` | money and payment states under any interleaving and any order of webhook events |
| `bookings_desk` | 2 bookings, 2 slots, 1 seat, 1 card (to be bought), clock of 2 instants, 2 requests at a time, 3 calls | `OverbookedOnlyUnchecked`, `OnlyPaidCardsSpent`, `RequestsEnd` | overbooking takes overlapping checks or a payment that revives a released booking; only a paid card is redeemed; every request ends |
| `card_value` | 2 bookings, 1 card, 2 calls | `CardValueConserved` (violated) | overlapping redemptions lose an update of the balance |
| `slots` | 2 days of 6 units, 8 schedules, 2 overrides, 2 replacements at a time, 3 calls | `OpenAsMeant`, `BufferMissedOnlyAtSeams`, `OverlapOnlyByExtension`, `ScheduleFromOneUpdate` | the window arithmetic against a pointwise definition of "open", for every order of overrides, with and without weekly rows |
| `seats` | 2 vendors, 3 services and up to 1 more, up to 2 seats, 2 bookings, 2 requests at a time, 3 calls, day of 2 units | `CrowdedOnlyUnchecked`, `ListedAsBookable`, `ChargedWasShown`, `BookedForASlot`, `NearbyMissesOnlyCut`, `VendorsApart` | a catalogue that changes under the desk's requests |
| `vendors` | 2 vendors, 2 admins, 4 typed handles, 5 calls | `HandlesUnique`, `RowFollowsHistory`, `RecordsChainUnlessTogether` | review rounds that overlap keep row and audit trail in agreement |
| `auth` | 2 addresses, 2 Firebase accounts, 3 users, 4 calls, clock | `LinkReplacedOnlyTogether`, `CodeReusedOnlyTogether`, `CodesApartUnlessTogether`, `TokenOfLinkedAccount` | accounts, codes and tokens under overlapping sign-ins |
| `auth_attempts` | 1 address, 1 wrong code | `AttemptsCounted` (violated) | the increment is rolled back with the refusal |
| `followups` | 2 customers, 2 times, 2 reminder windows, 3 calls on a booking that may exist already | `CalendarsSettle`, `ClaimedOnceUnlessTogether`, `RemindedOnceUnlessTogether` | what trails behind a commit, with stops between the steps |
| `reviews` | 1 booking, its vendor, 2 customers, 1 device, 2 requests at a time, 5 calls | `OneReviewAfterCompletion`, `RepliedOnceUnlessTogether`, `PushedOnceToItsUsers`, `MissedOnlyIfMoved` | reviews and replies; what a dispatch makes of a device that changes hands |
| `images` | 3 of 3 images, 5 identities, 6 calls | `LimitMissedOnlyTogether`, `NumberedUnlessDisturbed` | renumbering transactions that interleave row by row |
| `supply` | 2 products, 2 orders, 4 calls; prices 0 and 3, delivery fees 0 and 1 | `ItemsAddUpToCharge`, `OrderFollowsIntent`, `PaidCancelledOnlyTogether` | checkouts with and without a delivery fee that stop half-way, prices that change, events in any order |

### Bounds, and why they are enough

- *Requests at a time.* All the disagreements met are between two handlers; a third can only
  repeat the part of one of them, and `bookings_money` allows three to see it do so (two that overlap
  while a webhook event arrives). `Lock`'s order (intent, booking, card) is global, so larger cycles
  would show as a pair in another order; the proofs are for any number of requests and calls.
- *`MaxCalls`* is the length of a scenario: creation, payment, cancellation and a late event;
  submission, rejection, resubmission, approval, and one beside it for vendors; for reviews, a confirmed
  booking, its completion, the device that changes hands, a review and a reply. Two runs start later, so
  that every call counts: `followups` may begin with a booking that was created and entered in the
  calendars, `seats` with a booking that holds a place and with a seat or none, so that two requests and a
  change of the catalogue, or a request and two changes, make its three calls.
- *Amounts* 3, 2 and 4 make a first booking leave one unit on the card and a second one use it for
  half of a deposit: full, partial and no cover, and a card used up, all happen. `card_value` and
  `bookings_desk` use a card smaller than the price. In `supply`, prices 0 and 3 and fees 0 and 1 make orders of
  which only the items, only the fee, both or nothing is charged; the last is refused.
- *Days of 6 units, slots of 2 with a buffer of 1*: windows hold none, one or two slots, touch, have
  gaps, are split by blocks and cross midnight. `MaxOverride` is 8 units for the code's seven days.
- *`seats`*: a day of 2 units and services of length 1 and 2 are the smallest at which slots of one
  service overlap those of another. Prices 2, 3 and 4 with a markup of 0 and of half (an input of 9000 basis
  points, which the code clamps to 5000) make different displayed prices, one of them rounded. The nearby
  search reads 2 services and shows 1 where the code has 200 and 24; three services, two within the client's
  radius of 2 and one vendor who serves nobody outside its own place, reach both limits.
- *`reviews`* follows one message and one device, which any of the vendor and the two customers may have
  registered before; messages do not touch each other and devices are looked up one by one.
- *Clocks* stop after the instants at which guards change (modification notice, code expiry and
  cooldown, token expiry, reminder windows).
- `CHECK_DEADLOCK FALSE` everywhere: a run ends when its calls are used up. Real deadlock is
  `NoDeadlock` and `RequestsEnd`.
- Symmetry is used for requests and for identities that the code only compares. Users in `Auth` are
  not symmetric (the new row is picked with CHOOSE), and the run with the liveness
  property, `bookings_desk`, uses none.

### The abstract desk

`AbstractDesk` knows of each booking its *phase* (free, waiting, confirmed, over, released), its deposit
(nothing to pay, open, paid) and what a gift card paid (none, held, returned), and has one deal per
operation: `Take`, `Pay`, `Finish`, `Cancel`, `Lapse`. `DeskImplemented` says that `Bookings` implements it
under `PhaseOf`, `PaidOf` and `ClaimOf`, which forget requests, locks, cards, seats and times. The commit of
a creation is a `Take`, of mark-paid or of a successful event a `Pay`, of completing or a no-show a
`Finish`, of a cancellation a `Cancel`, of a failed event a `Lapse`; every other step stutters.

What this adds to the invariants: handlers decide on what they read long before they commit, and yet each
commit must be a deal that is possible *in the state it meets*. It excludes an appointment that is over
while its deposit is open, a cancellation apart from its refund, a second creation of one booking, and a
payment that disappears. It allows what the code allows: a deposit that revives a released booking, a
no-show that is cancelled, a failed payment that keeps the card's share.

### Fairness

`FairSpec`, used by `bookings_desk`, assumes strong fairness of `Lock(r)` (PostgreSQL queues the waiters of a
row lock, so a request whose row becomes free again and again gets it) and weak fairness of `Continue(r)`
(Node.js runs every callback whose await is over). Nothing is assumed of clients, of the webhook or of `Abort`:
a request may never be made, and an aborted one has ended.

## 4. What the runs show that the documents do not say

Two runs end in a counterexample on purpose and are the project's findings:

- `card_value`: `applyGiftCardToBooking` and `refundGiftCardRedemptionsForBooking` write an absolute
  balance computed from an unlocked read. Two of them that overlap lose one. The README promises
  "unused balances stay on the card".
- `auth_attempts`: `verifyEmailOtp` increments `attemptCount` and then throws in the same transaction, so the
  increment is rolled back; the manual test expects it to stay.

Further disagreements are stated in the passing runs by what the property excepts:

- *Double booking.* `assertNoOverlap` is a plain SELECT; two creations that check before either commits
  take one slot, and a late payment revives a booking whose slot is taken (`OverbookedOnlyUnchecked`;
  `docs/prd.md:151` "System prevents double-booking").
- *Failed payment.* `markIntentFailure` cancels a booking without refunding its gift card
  (`UnrefundedOnlyByFailedPayment`; `README.md:90`).
- *No-shows.* `cancelBooking` refuses only CANCELLED ones, so a no-show marked ahead of its start can be
  cancelled and refunded (`docs/prd.md:203`).
- *Extended hours.* Both listings of slots return early when the vendor has no weekly rows
  (`services.service.ts:473` and `537`), so an EXTEND override opens nothing for a vendor who never set weekly
  hours, or took the last of them away. `docs/prd.md:150` promises extended hours as one-off exceptions and line
  152 slots that reflect them. `OpenAsMeant` states the exception: nothing is open without weekly rows, and with
  any the last override decides.
- *Slots overlap* where an EXTEND override covers open hours (`OverlapOnlyByExtension`;
  `services.service.spec.ts:98`), and keep no buffer between windows that touch (`docs/prd.md:151`).
- *Buffers* are kept within a window and missed only where two windows meet (`BufferMissedOnlyAtSeams`).
- *Listed slots.* A slot is listed as free by bookings of the same service, the desk refuses by those of the
  whole vendor; `ListedAsBookable` holds with that exception (`docs/prd.md:152`).
- *Prices.* A creation reads the service, then the slots, then the markup; if both factors change in
  between, the booking is charged a price that nobody was shown (`ChargedWasShown`).
- *Moves* compute the new end from the length the service had when the booking was read, and the slot's
  start from the current one; a booking can end off its slot (`BookedForASlot`).
- *Nearby search* filters by distance after a limit of 200 rows, so a near service can be missing when more
  than 200 were updated later (`NearbyMissesOnlyCut`).
- *Devices.* A dispatch reads the two recipients' devices one after the other: one that changes hands in
  between can be passed over (`MissedOnlyIfMoved`).
- *Tokens* are not revoked: one that was signed is accepted until it expires as long as its user has the
  account it names (`TokenOfLinkedAccount`).
- *Weekly schedules* of two replacements at once both stay (`ScheduleFromOneUpdate`).
- *Vendor review.* An approval and a rejection that both read PENDING_REVIEW both commit, and a verified
  vendor is rejected (`RecordsChainUnlessTogether`; `docs/manual-tests/phase2-vendor-kyc.md:30`).
- *Codes* can sign in twice, and Firebase links be replaced, by requests that overlap
  (`CodeReusedOnlyTogether`, `LinkReplacedOnlyTogether`).
- *Calendars* may keep an older row when handlers overlap, until the next change (`CalendarsSettle`).
- *Reminders* are not sent again for a booking that moves after its reminder (`docs/prd.md:109`).
- *Replies and image limits* are checked before the write (`RepliedOnceUnlessTogether`,
  `LimitMissedOnlyTogether`).

## 5. What is proved

Every property of every passing run is a theorem except one, `RequestsEnd`: what TLC checks on a small
instance holds for all values of the constants that satisfy the assumptions below. Each proof module covers
one part of the system; no theorem rests on an unproved statement.

| Theorem | Property | Rests on |
|---|---|---|
| `BookingsProofs` | | |
| `TypeCorrect` | `TypeOK` | `TypeInv` |
| `PaymentsConfirmed` | `ConfirmedOnlyAfterPayment` | `CreationInv`, `PaymentInv` |
| `RefundsOnce` | `RefundAtMostOnce` | `CreationInv`, `RefundInv` |
| `CancellationsRefund` | `UnrefundedOnlyByFailedPayment` | the same, `UnrefundedInv` |
| `DeskRefines` | `DeskImplemented`, the refinement of `AbstractDesk` | `Base` (all of these), `DepositInv` |
| `AmountsAddUp` | `BookingMoneyAddsUp` | `Base`, `DepositInv`, `MoneyInv` |
| `CardsFit` | `CardStatusMatchesBalance` | `Base`, `DepositInv`, `CardInv` |
| `PaidCardsSpent` | `OnlyPaidCardsSpent` | `Base`, `SpentInv` |
| `NeverDeadlocked` | `NoDeadlock` | `Base`, `OrderInv` |
| `NeverOverbookedUnchecked` | `OverbookedOnlyUnchecked` | `Base`, `PlaceInv` |
| `VendorsProofs` | | |
| `HandlesStayUnique` | `HandlesUnique` | `HandlesInv` |
| `RowsFollowHistories` | `RowFollowsHistory` | itself |
| `RecordsChain` | `RecordsChainUnlessTogether` | `RowFollowsHistory`, `ChainInv` |
| `AuthProofs` | | |
| `TokensTellTheirAccount` | `TokenOfLinkedAccount` | `TokenInv` |
| `LinksStay` | `LinkReplacedOnlyTogether` | `TimesInv`, `LinkInv` |
| `CodesSignInOnce` | `CodeReusedOnlyTogether` | `TimesInv`, `UsedInv` |
| `CodesApart` | `CodesApartUnlessTogether` | `TimesInv`, `CooldownInv` |
| `FollowUpsProofs` | | |
| `CalendarsShowBooking` | `CalendarsSettle` | `AloneInv`, `SettledInv` |
| `ClaimsHold` | `ClaimedOnceUnlessTogether` | `TimesInv`, `ClaimInv` |
| `RemindersHold` | `RemindedOnceUnlessTogether` | `TimesInv`, `RemindInv` |
| `ReviewsProofs` | | |
| `ReviewsUnique` | `OneReviewAfterCompletion` | `ReviewInv` |
| `RepliesHold` | `RepliedOnceUnlessTogether` | `ReviewInv`, `ReplyTimes`, `ReplyInv` |
| `PushesReachTheirUsers` | `PushedOnceToItsUsers` | `MessageInv` |
| `PushesMissOnlyMoved` | `MissedOnlyIfMoved` | `MessageInv` |
| `SupplyOrdersProofs` | | |
| `ChargesAddUp` | `ItemsAddUpToCharge` | `CheckoutInv` |
| `OrdersFollowIntents` | `OrderFollowsIntent` | itself, `CheckoutInv` |
| `PaidCancelledTogether` | `PaidCancelledOnlyTogether` | `CheckoutInv`, `HistoryInv` |
| `SeatsProofs` | | |
| `VendorsStayApart` | `VendorsApart` | `ApartInv` |
| `ChargesWereShown` | `ChargedWasShown` | `ApartInv`, `ReadInv` |
| `BookingsFillSlots` | `BookedForASlot` | `ApartInv`, `ReadInv` |
| `ListsAreBookable` | `ListedAsBookable` | `ApartInv` |
| `SeatsTakeNoMore` | `CrowdedOnlyUnchecked` | `ApartInv`, `WidthInv`, `CrowdInv` |
| `NearbySearchesHold` | `NearbyMissesOnlyCut` | `RecentInv` |
| `ServicesProofs` | | |
| `SchedulesReplaced` | `ScheduleFromOneUpdate` | `UpdateInv` |
| `HoursOpenAsMeant` | `OpenAsMeant` | `UpdateInv`, `HoursInv` |
| `SlotsKeepBufferButAtSeams` | `BufferMissedOnlyAtSeams` | the same |
| `SlotsOverlapOnlyByExtension` | `OverlapOnlyByExtension` | the same |
| `ImagesStayNumbered` | `NumberedUnlessDisturbed` | `ImagesInv` |
| `LimitMissedByFew` | `LimitMissedOnlyTogether` | `ImagesInv`, `RoomInv` |

Every row also rests on the module's `TypeInv`, and two theorems of `ServicesProofs` are about operators alone:
`OverrideAppliedExactly` (what one override does to the windows of a day) and `SlotsKeepBuffer`.

### Assumptions

The theorems assume what the modules assume of their constants, and TLC evaluates the same formulas on
every run:

- `AmountsAssumption`, `ClockAssumption`, `NamesAssumption`: positive amounts, a deposit of at most the
  price, disjoint names. Bookings, cards, requests, seats and slots may be any sets, finite or not.
- `VendorsAssumption`: normalizing a handle twice is normalizing it once (`trim`, `toLowerCase`).
- `AuthAssumption`: the cooldown is shorter than the life of a code (60 s and 5 min in the code).
- `SupplyOrdersAssumption`: prices and delivery fees are natural numbers, 0 included, and quantities positive.
- `CatalogueAssumption`, `SeatsAssumption`, `SlotsAssumption`, `ServiceImagesAssumption`,
  `FollowUpsAssumption`, `NotificationsAssumption`, `ReviewsAssumption`: types of
  the constants, `None` different from everything else, an initial state that the code could have
  stored, and finitely many bookings (`Seats`), images and requests (`ServiceImages`) where a property counts them.

### Arguments

*Bookings* are proved in layers, each inductive given the ones before it.

- `TypeInv` is `TypeOK` plus what the local data are at each stage (the target of a refund is a card
  that the booking has redeemed, a finishing request carries COMPLETED or NO_SHOW). `TypeOK` itself is not
  inductive: that no balance goes negative needs `AppliedBounds`, the lemma on the split of the deposit.
- `CreationInv`: a booking that does not exist has no intent, redemption or refund; a request that creates
  one is the only one that refers to it; any other request refers to one that exists. It makes the commit of
  a creation independent of everything else.
- `PaymentInv`: `ConfirmedOnlyAfterPayment` alone is not inductive, because completing writes from an
  earlier read. It is strengthened by "whoever is finishing a booking read it paid", which holds because
  `confirmed` is never reset, and by "a webhook request has an intent".
- `RefundInv`: a request between its refund read and its commit holds the booking's row lock and found an
  open redemption. Two cancellations can both pass the status check, but the second reaches its refund read
  only after the first has committed, and then finds the redemption refunded.
- `UnrefundedInv`: a cancellation that found nothing to refund stays right until it commits, because it
  holds the booking's row lock and no redemption is opened on a booking that exists already. Only
  `FailCommit` cancels without looking for a redemption, and it marks the intent FAILED.
- `DepositInv` says what else the refinement needs (a waiting booking has its intent, an intent that does not
  exist is not confirmed). Then there is one lemma per commit, that it is the deal of section 3 in the state
  it meets, and one that every other step leaves what `AbstractDesk` sees.
- `MoneyInv`, `CardInv`: amounts are written by a creation from what it read, and by mark-paid. A card's
  status and balance are written together but computed from a stale read, so the invariant says that
  the reads fit: a redemption starts from a positive balance and takes something of it.
- `SpentInv`: a card is ACTIVE or DEPLETED, and a booking has redeemed it, only after its payment; whoever is about
  to write such a status read the card as paid for. A confirmation is never taken back, so it does not matter
  how old that read is.
- `OrderInv`: rows have a rank (intent, booking, card), a request still has to lock only rows of a
  higher rank than those it holds, also where it goes on to a stage with more rows. A set of requests that
  all wait for one another would then have no greatest rank.
- `PlaceInv` splits a slot's occupants into those whose place was checked and the rest. The checked ones
  never overbook it; for a request that has checked and is not `stale`, the room it found is still there.

*Together.* The properties that say "only when two requests overlapped" (`Vendors`, `Auth`, `FollowUps`,
`Reviews`, `SupplyOrders`) have one shape of proof. A request at work began before everything ended that it
did not see when it looked: it found no link, no reply, no reminder, so whatever there is now ended later. When it
commits, its record overlaps the others. Where the database decides (UNIQUE handles
and reviews) the request's check is not needed.

*Messages.* `MessageInv` follows who has held each device since the dispatch began. A user whose devices have been
read and who was not found did not hold this one at that moment, so somebody else did.

*Seats.* `CrowdInv` is `PlaceInv` for seats of different capacity, lengths of time, and capacities that
vendors reduce: the bound is the largest capacity the seat has had (`widest`). `ReadInv` says which of a request's
reads are still current; what is not current is noted in its `saw`.

*Nearby search.* `Nearby` is defined by the orders it sorts by, with CHOOSE, so the proof must show that such
orders exist for any finite set of services. `CanBeOrdered` does so without induction: each service gets
the number of services before it as its place.

*Opening hours.* `applyOverrides` is a fold over overrides in the order of creation. `Counted`, an induction over
a set of naturals by its least counterexample, gives the state after each override, and
`OverrideAppliedExactly` what one step changes; together they make "the last override that covers a
unit decides" an invariant of the fold (`OverriddenAsMeant`). Without weekly rows there is no fold, and nothing open
is what `OpenAsMeant` says (`WindowsAsMeant`). That slots keep their buffer is then arithmetic of one window, and
that windows of one replacement are disjoint is in `HoursInv`.

*Images.* Transactions renumber row by row and any may abort between. `ImagesInv` says of each request what
it has written and still has to write, taken together: for a reordering a numbering of all rows, for a deletion one
of the rows that stay. Rows it holds are held by no other. Of two
deletions that overlap, the one of the earlier image still has to renumber the later one, which the other has
deleted: it is *doomed*, it will abort. So is a reordering, which writes every row, once one of them is gone.
`RoomInv` counts the rows together with the creations on their way.

### Only model-checked

`RequestsEnd`: liveness under fairness and ENABLED are out of the prover's reach. The two findings,
`CardValueConserved` and `AttemptsCounted`, are false of the code and have counterexamples instead. Sums that are
defined by a fold (`Value`, the items of a supply order) are never computed in a proof; it is enough that two
places take the value of the same items and add the same fee.

## 6. Plan

Done: the core (`Bookings`) with its properties; `AbstractDesk` and the proof that the desk implements it;
a module, a run and the proofs for every component that keeps a protocol; the catalogue, seats and
public queries (`Catalogue`, `Seats`); notifications composed with reviews; signed tokens; images and opening
hours for any data.

Next:

1. An abstract specification of what the calendar and the reminders promise, implemented by `FollowUps`, and one
   of a supply order's life, implemented by `SupplyOrders`, with their refinements proved as `DeskRefines` is.
2. The two hazards without a property: a late cancellation of a finished booking, and a reminder that is marked
   and then lost.

## 7. What is not modelled

- *Money and places in one module.* `Bookings` has one vendor, one service and equal seats; the rest is in
  `Seats`, which has no payments. They meet in two updates: a booking's end (`Release`) and the late payment
  that takes its place back (`Revive`).
- *Reads of one handler between which nothing is decided* are one step, and a Prisma query with its
  includes is one read. A refused call changes nothing and is not a step.
- *Amounts in floating point.* The service markup is rounded half up, exactly; the `Math.ceil` of supply
  prices (`supplies.service.ts:288`) happens before the amounts that `SupplyOrders` takes as given, and
  TLA+ has no binary fractions to state its error with.
- *`activateGiftCard` and `markGiftCardCancelled`* have no caller.
- *Roles, logout, session expiry*: checks and single-row writes on the caller's own rows.
- *Queries.* Of public discovery, text, handle and category searches, ratings and pictures are plain reads
  with a LIMIT; the distance formula is a constant. Listings of a user's own rows are left out.
- *Calls out of the process* (mail, texts, object storage, Paystack's API, Firebase, the push service) keep
  no state that is read back. A lost event after a commit is a stop in `FollowUps`; a lost push message is a
  stop of its dispatch in `Reviews`.
- *Customer profiles* are one upsert per operation on the user's own row.
- *Health, configuration, seed* have no state of the system.

## 8. Running

    tlc -workers 2 -config bookings_money.cfg MCBookings
    tlapm BookingsProofs.tla

From nothing, `BookingsProofs` takes tlapm about six minutes, `SeatsProofs` and `ServicesProofs` about three
each, the others less than two.

Each configuration names its module in `PROJECT.json`. The runs take from seconds to a few minutes; `reviews`
(2 million states), `followups` (1.8 million), `supply` (1.7 million) and `auth` (1.1 million) are the largest;
`supply`, `seats` and both `bookings` runs take the longest, about two minutes each.
