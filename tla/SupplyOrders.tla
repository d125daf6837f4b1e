---------------------------- MODULE SupplyOrders ----------------------------
(***************************************************************************)
(* Vendors order supplies (SupplyOrdersService) from a catalogue whose     *)
(* prices change (SuppliesService) and pay through Paystack.  A checkout   *)
(* is three statements, each committed on its own; an update of a product  *)
(* is two; a webhook event is one transaction, which decides from what it  *)
(* read before it waited for the payment intent's row lock.                *)
(***************************************************************************)
EXTENDS Integers, Sequences, FiniteSetsExt

CONSTANTS
  Product,
  Order,     \* identities of a supply order and of the payment intent made for it
  Req,       \* requests in progress
  Price,     \* vendorPriceCents that a product can get
  Quantity,
  Fee,       \* deliveryFeeCents that a client can give, 0 when none is given
  MaxCalls,  \* bound: requests started
  None

\* The items of an order: how many of which products, at which prices; and what they cost.
Items == UNION {[S -> [quantity : Quantity, price : Price]] : S \in SUBSET Product}

Value(items) == MapThenSumSet(LAMBDA p : items[p].price * items[p].quantity, DOMAIN items)

\* The sum starts from the delivery fee.
Total(items, fee) == fee + Value(items)

Totals == {Total(items, fee) : items \in Items, fee \in Fee}

PaymentIntent == [status : {"REQUIRES_PAYMENT_METHOD", "SUCCEEDED", "FAILED"},
                  amount : Totals]
SupplyOrder == [status : {"REQUIRES_PAYMENT", "WAITING_ON_SUPPLIER", "CANCELLED"},
                total : Totals, fee : Fee, items : Items]

ASSUME SupplyOrdersAssumption ==
  /\ Price \cup Fee \subseteq Nat /\ Quantity \subseteq Nat \ {0} /\ MaxCalls \in Nat
  /\ None \notin PaymentIntent \cup SupplyOrder

VARIABLES
  active, price, \* SupplyProduct.isActive, the newest SupplyPrice
  intent,        \* PaymentIntent: status and amount, or None
  order,         \* SupplyOrder: status, total, delivery fee and items, or None
  history,       \* SupplyOrderStatusHistory, each row with the requests it fell between
  quoted,        \* orders whose checkout was answered: their reference can be paid
  task, calls

catalogueVars == <<active, price>>
paymentVars == <<intent, order, history, quoted>>
vars == <<catalogueVars, paymentVars, task, calls>>

Begin(r, t) ==
  /\ task[r] = None /\ calls < MaxCalls
  /\ calls' = calls + 1
  /\ task' = [task EXCEPT ![r] = t]

Doing(r, op) == task[r] # None /\ task[r].op = op
End(r) == task' = [task EXCEPT ![r] = None] /\ UNCHANGED calls

\* A refusal, a lost connection, a process that stops: what is committed stays.
Stop(r) ==
  /\ task[r] # None
  /\ End(r)
  /\ UNCHANGED <<catalogueVars, paymentVars>>

-----------------------------------------------------------------------------
(***************************************************************************)
(* The catalogue.                                                          *)
(***************************************************************************)

\* updateProduct: the row, then a new price when one is given.
UpdateProduct(r, p, on, cost) ==
  /\ Begin(r, [op |-> "price", product |-> p, price |-> cost])
  /\ active' = [active EXCEPT ![p] = on]
  /\ UNCHANGED <<price, paymentVars>>

AddPrice(r) ==
  /\ Doing(r, "price")
  /\ price' = [price EXCEPT ![task[r].product] =
                 IF task[r].price = None THEN @ ELSE task[r].price]
  /\ End(r)
  /\ UNCHANGED <<active, paymentVars>>

-----------------------------------------------------------------------------
(***************************************************************************)
(* Checkout.                                                               *)
(***************************************************************************)

\* The products and prices are read, the total is summed up and must be positive.
CheckoutRead(r, amounts, fee) ==
  /\ DOMAIN amounts # {} /\ \A p \in DOMAIN amounts : active[p]
  /\ LET items == [p \in DOMAIN amounts |-> [quantity |-> amounts[p], price |-> price[p]]]
         total == Total(items, fee)
     IN /\ total > 0
        /\ Begin(r, [op |-> "intent", items |-> items, fee |-> fee, total |-> total])
  /\ UNCHANGED <<catalogueVars, paymentVars>>

CreateIntent(r, o) ==
  /\ Doing(r, "intent") /\ intent[o] = None
  /\ intent' = [intent EXCEPT ![o] =
       [status |-> "REQUIRES_PAYMENT_METHOD", amount |-> task[r].total]]
  /\ task' = [task EXCEPT ![r] = [op |-> "order", order |-> o, items |-> task[r].items,
                                  fee |-> task[r].fee, total |-> task[r].total]]
  /\ UNCHANGED <<catalogueVars, order, history, quoted, calls>>

\* Faulty variant: the items are priced when the order is stored.
PricedWhenStored(items) == [p \in DOMAIN items |-> [items[p] EXCEPT !.price = price[p]]]

\* The items as the checkout read them.
Priced(items) == items

\* The order with its items and the first row of its history, in one statement.
CreateOrder(r) ==
  /\ Doing(r, "order")
  /\ LET o == task[r].order
     IN /\ order' = [order EXCEPT ![o] =
             [status |-> "REQUIRES_PAYMENT", total |-> task[r].total, fee |-> task[r].fee,
              items |-> Priced(task[r].items)]]
        /\ history' = [history EXCEPT ![o] =
             <<[from |-> "DRAFT", to |-> "REQUIRES_PAYMENT", begun |-> calls, ended |-> calls]>>]
        /\ task' = [task EXCEPT ![r] = [op |-> "answer", order |-> o]]
  /\ UNCHANGED <<catalogueVars, intent, quoted, calls>>

\* The intent's metadata is updated and the reference handed out.
Answer(r) ==
  /\ Doing(r, "answer")
  /\ quoted' = quoted \cup {task[r].order}
  /\ End(r)
  /\ UNCHANGED <<catalogueVars, intent, order, history>>

-----------------------------------------------------------------------------
(***************************************************************************)
(* Webhook events.                                                         *)
(***************************************************************************)

\* What a webhook transaction works with, once it has read the intent and its order.
Snapshot(o) == [intent |-> intent[o].status, status |-> order[o].status]

\* An event, of the right amount and currency or not, under the reference that is on the
\* intent or another one that its metadata leads to the intent from.
HookRead(r, o, kind, right, rebind) ==
  /\ o \in quoted
  /\ Begin(r, [op |-> IF rebind THEN "rebind" ELSE "hook", order |-> o, kind |-> kind,
               right |-> right, saw |-> Snapshot(o), begun |-> calls + 1])
  /\ UNCHANGED <<catalogueVars, paymentVars>>

\* The intent's row is locked by a transaction that has rebound it.
Locked(o, r) == \E q \in Req \ {r} : Doing(q, "held") /\ task[q].order = o

\* The new reference is written, which takes the lock, and the rows are read again.
HookRebind(r) ==
  /\ Doing(r, "rebind") /\ ~Locked(task[r].order, r)
  /\ task' = [task EXCEPT ![r].op = "held", ![r].saw = Snapshot(task[r].order)]
  /\ UNCHANGED <<catalogueVars, paymentVars, calls>>

Hook(r) == Doing(r, "hook") \/ Doing(r, "held")

Verdict(t) ==
  IF t.kind = "failed" THEN "fail"
  ELSE IF t.saw.intent = "SUCCEEDED" THEN "ignore"
  ELSE IF t.right THEN "settle" ELSE "fail"

\* Faulty variant: a payment settles only an order that still waits for it.
SettledIfWaiting(status) ==
  IF status = "REQUIRES_PAYMENT" THEN "WAITING_ON_SUPPLIER" ELSE status

Settled(status) == "WAITING_ON_SUPPLIER"

\* Faulty variant: an order is cancelled whatever its status.
CancellableAlways(status) == TRUE

Cancellable(status) == status = "REQUIRES_PAYMENT"

Move(t, to) ==
  /\ order' = [order EXCEPT ![t.order].status = to]
  /\ history' = [history EXCEPT ![t.order] =
       Append(@, [from |-> t.saw.status, to |-> to, begun |-> t.begun, ended |-> calls])]

HookCommit(r) ==
  /\ Hook(r) /\ ~Locked(task[r].order, r)
  /\ LET t == task[r]
     IN \/ /\ Verdict(t) = "ignore"
           /\ UNCHANGED paymentVars
        \/ /\ Verdict(t) = "settle"
           /\ intent' = [intent EXCEPT ![t.order].status = "SUCCEEDED"]
           /\ Move(t, Settled(order[t.order].status))
           /\ UNCHANGED quoted
        \/ /\ Verdict(t) = "fail"
           /\ intent' = [intent EXCEPT ![t.order].status = "FAILED"]
           /\ IF Cancellable(t.saw.status) THEN Move(t, "CANCELLED")
                                           ELSE UNCHANGED <<order, history>>
           /\ UNCHANGED quoted
  /\ End(r)
  /\ UNCHANGED catalogueVars

Init ==
  /\ active = [p \in Product |-> TRUE] /\ price \in [Product -> Price]
  /\ intent = [o \in Order |-> None] /\ order = [o \in Order |-> None]
  /\ history = [o \in Order |-> <<>>] /\ quoted = {}
  /\ task = [r \in Req |-> None] /\ calls = 0

Next ==
  \E r \in Req :
    \/ \E p \in Product, on \in BOOLEAN, cost \in Price \cup {None} :
         UpdateProduct(r, p, on, cost)
    \/ \E S \in SUBSET Product : \E amounts \in [S -> Quantity], fee \in Fee :
         CheckoutRead(r, amounts, fee)
    \/ \E o \in Order : CreateIntent(r, o)
    \/ \E o \in Order, kind \in {"success", "failed"}, right, rebind \in BOOLEAN :
         HookRead(r, o, kind, right, rebind)
    \/ AddPrice(r) \/ CreateOrder(r) \/ Answer(r)
    \/ HookRebind(r) \/ HookCommit(r) \/ Stop(r)

Spec == Init /\ [][Next]_vars

-----------------------------------------------------------------------------
(***************************************************************************)
(* Properties.                                                             *)
(***************************************************************************)

\* An order and its payment intent never contradict each other, whatever events arrive
\* together and wherever a checkout stops: what is paid waits on its supplier, what is
\* cancelled has a failed payment, and what has no order is never charged.
OrderFollowsIntent ==
  \A o \in Order : intent[o] # None =>
    /\ order[o] = None => intent[o].status = "REQUIRES_PAYMENT_METHOD"
    /\ order[o] # None =>
         /\ intent[o].status = "SUCCEEDED" => order[o].status = "WAITING_ON_SUPPLIER"
         /\ order[o].status = "CANCELLED" => intent[o].status = "FAILED"

\* What the vendor is asked to pay is the total of the order, and that is its delivery fee
\* and the sum of its items, also when prices change while the checkout goes on, and when
\* some of them, but never all with the fee, are nothing.
ItemsAddUpToCharge ==
  \A o \in Order : order[o] # None =>
    /\ order[o].total = order[o].fee + Value(order[o].items)
    /\ order[o].total = intent[o].amount /\ order[o].total > 0

Together(x, y) == x.begun <= y.ended /\ y.begun <= x.ended

\* A failure cancels an order that has been paid only when the two events overlapped.
PaidCancelledOnlyTogether ==
  \A o \in Order : \A i \in DOMAIN history[o] \ {1} :
    history[o][i].to = "CANCELLED" /\ history[o][i - 1].to = "WAITING_ON_SUPPLIER" =>
      Together(history[o][i - 1], history[o][i])
=============================================================================
