---------------------------- MODULE AbstractDesk ----------------------------
(***************************************************************************)
(* What the booking desk promises of each booking, without requests, rows  *)
(* or locks: every step is one indivisible deal.  A deposit is paid before *)
(* the appointment is over, and a cancellation gives back what a gift card *)
(* paid in the same step.                                                  *)
(***************************************************************************)
CONSTANT Booking

VARIABLES
  phase, \* "free", "waiting" for the deposit, "confirmed", "over", "released"
  paid,  \* the deposit: "nothing" to pay, "open", "paid"
  claim  \* what a gift card paid: "none", "held" by the booking, "returned"

deskVars == <<phase, paid, claim>>

Init ==
  /\ phase = [b \in Booking |-> "free"]
  /\ paid = [b \in Booking |-> "nothing"]
  /\ claim = [b \in Booking |-> "none"]

Taken(b) == phase[b] # "free"
Move(b, to) == phase' = [phase EXCEPT ![b] = to]

\* A booking is made; it waits exactly when something of its deposit is open.
Take(b, p, c) ==
  /\ ~Taken(b)
  /\ Move(b, IF p = "open" THEN "waiting" ELSE "confirmed")
  /\ paid' = [paid EXCEPT ![b] = p]
  /\ claim' = [claim EXCEPT ![b] = c]

\* The deposit arrives, whenever it does: also for a booking that is released or over.
Pay(b) ==
  /\ Taken(b) /\ paid[b] # "nothing"
  /\ Move(b, "confirmed")
  /\ paid' = [paid EXCEPT ![b] = "paid"]
  /\ UNCHANGED claim

\* The appointment is over: completed or a no-show.
Finish(b) ==
  /\ Taken(b) /\ paid[b] # "open"
  /\ Move(b, "over")
  /\ UNCHANGED <<paid, claim>>

\* A cancellation returns what the gift card paid.
Cancel(b) ==
  /\ Taken(b)
  /\ Move(b, "released")
  /\ claim' = [claim EXCEPT ![b] = IF @ = "held" THEN "returned" ELSE @]
  /\ UNCHANGED paid

\* The payment fails: the place goes, and what the gift card paid stays with the desk.
Lapse(b) ==
  /\ Taken(b) /\ paid[b] # "nothing"
  /\ Move(b, "released")
  /\ UNCHANGED <<paid, claim>>

Next ==
  \E b \in Booking :
    \/ \E p \in {"nothing", "open"}, c \in {"none", "held"} : Take(b, p, c)
    \/ Pay(b) \/ Finish(b) \/ Cancel(b) \/ Lapse(b)

Spec == Init /\ [][Next]_deskVars
=============================================================================
