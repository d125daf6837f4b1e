---------------------------- MODULE Notifications ----------------------------
(***************************************************************************)
(* Push messages (NotificationsService): the devices that users register   *)
(* and the dispatch of a message, which reads who is to get it and then    *)
(* the devices of one user after the other, while devices change hands.    *)
(* BookingEventsService does not wait for a dispatch and only logs its     *)
(* failure; a review waits for it, after it is stored.  Messages do not    *)
(* touch each other: one is followed, whichever of all that are sent.      *)
(***************************************************************************)
EXTENDS Integers, Sequences, FiniteSets, SequencesExt

CONSTANTS
  Vendor,   \* the user who is the vendor
  Customer, \* users who are customers
  Device,   \* Expo push tokens
  None

ASSUME NotificationsAssumption ==
  Vendor \notin Customer /\ None \notin Customer \cup {Vendor}

User == Customer \cup {Vendor}

VARIABLES
  device,  \* PushToken: the user of each device, or None
  message, \* None, or the message that is followed: the booking, if that is still to be
           \* read, who it is for and who of them is still to be read, how often each
           \* device was found, "open", "sent" or "lost"
  holder   \* history: the user who last registered each device

notificationVars == <<device, message, holder>>

Open == message # None /\ message.state = "open"

\* The upsert of registerPushToken.  History: an open message has the users of each device since it began.
Register(d, u) ==
  /\ device' = [device EXCEPT ![d] = u]
  /\ holder' = [holder EXCEPT ![d] = u]
  /\ message' = IF Open THEN [message EXCEPT !.held[d] = @ \cup {u}] ELSE message

\* The dispatch of a message begins.
Emit(users, booking) ==
  /\ \/ UNCHANGED message
     \/ /\ message = None
        /\ message' = [booking |-> booking, to |-> users, todo |-> users,
                       found |-> [d \in Device |-> 0], state |-> "open",
                       held |-> [d \in Device |-> {holder[d]}]]
  /\ UNCHANGED <<device, holder>>

\* sendMessageToUsers.
SendTo(u) == Emit(<<u>>, None)

\* BookingEventsService.emit, for every kind of event.
EmitEvent(b) == Emit(<<>>, b)

\* dispatchBookingNotification reads the booking, now of customer c: its vendor is to get
\* the message, and its customer if it has one.
ReadParties(c) ==
  /\ Open /\ message.booking # None
  /\ LET users == <<Vendor>> \o (IF c = None THEN <<>> ELSE <<c>>)
     IN message' = [message EXCEPT !.booking = None, !.to = users, !.todo = users]
  /\ UNCHANGED <<device, holder>>

\* Faulty variant: the devices of each user are appended.
WithRepeats(found, new) == [d \in Device |-> found[d] + (IF d \in new THEN 1 ELSE 0)]

\* A Set of tokens.
With(found, new) == [d \in Device |-> IF d \in new THEN 1 ELSE found[d]]

\* Faulty variant: no more users are read when one has no device.
RestIfFound(new, todo) == IF new = {} THEN <<>> ELSE Tail(todo)

Rest(new, todo) == Tail(todo)

\* getTokensForUser.
ReadDevices ==
  /\ Open /\ message.booking = None /\ message.todo # <<>>
  /\ LET new == {d \in Device : device[d] = Head(message.todo)}
     IN message' = [message EXCEPT !.found = With(@, new), !.todo = Rest(new, @)]
  /\ UNCHANGED <<device, holder>>

\* sendExpoPush: one call for all devices.  A failure of it, of a query, or a process that
\* stops loses the message.
Push(outcome) ==
  /\ Open
  /\ outcome = "sent" => message.booking = None /\ message.todo = <<>>
  /\ message' = IF outcome = "lost" THEN [state |-> "lost"] ELSE [message EXCEPT !.state = "sent"]
  /\ UNCHANGED <<device, holder>>

NotificationsInit ==
  /\ device \in [Device -> User \cup {None}] /\ holder = device
  /\ message = None

-----------------------------------------------------------------------------
(***************************************************************************)
(* Properties.                                                             *)
(***************************************************************************)

Sent == message # None /\ message.state = "sent"

\* A device gets a message at most once, and only if one of those it is for has held it
\* while the message was dispatched, whoever registers it meanwhile
\* (notifications.service.ts:130-143).
PushedOnceToItsUsers ==
  Sent => \A d \in Device : message.found[d] > 0 =>
    message.found[d] = 1 /\ message.held[d] \cap ToSet(message.to) # {}

\* A message that is sent misses a device of those it is for only if the device changed
\* hands meanwhile, from one of them to the other included.
MissedOnlyIfMoved ==
  Sent => \A d \in Device : message.found[d] = 0 =>
    \A u \in ToSet(message.to) : message.held[d] # {u}
=============================================================================
