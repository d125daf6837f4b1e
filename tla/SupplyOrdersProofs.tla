-------------------------- MODULE SupplyOrdersProofs --------------------------
(***************************************************************************)
(* Safety of supply orders and of their payments, for every number of      *)
(* products, orders, prices, fees and requests.  Value is never expanded:  *)
(* that it is taken of the same items is all that is needed.               *)
(***************************************************************************)
EXTENDS SupplyOrders, TLAPS, SequenceTheorems

USE SupplyOrdersAssumption

-----------------------------------------------------------------------------
(***************************************************************************)
(* Types, and what a checkout has done when a request is at each stage.    *)
(***************************************************************************)

Rows == [from : {"DRAFT", "REQUIRES_PAYMENT", "WAITING_ON_SUPPLIER", "CANCELLED"},
         to : {"REQUIRES_PAYMENT", "WAITING_ON_SUPPLIER", "CANCELLED"},
         begun : Nat, ended : Nat]
Snapshots == [intent : {"REQUIRES_PAYMENT_METHOD", "SUCCEEDED", "FAILED"},
              status : {"REQUIRES_PAYMENT", "WAITING_ON_SUPPLIER", "CANCELLED"}]

PriceTask == [op : {"price"}, product : Product, price : Price \cup {None}]

\* What a checkout stands at, or an order, adds up.
AddsUp(x) == x.total = Total(x.items, x.fee) /\ x.total > 0

IntentTask == {t \in [op : {"intent"}, items : Items, fee : Fee, total : Totals] : AddsUp(t)}
OrderTask ==
  {t \in [op : {"order"}, order : Order, items : Items, fee : Fee, total : Totals] : AddsUp(t)}
AnswerTask == [op : {"answer"}, order : Order]
HookTask == [op : {"hook", "rebind", "held"}, order : Order, kind : {"success", "failed"},
             right : BOOLEAN, saw : Snapshots, begun : Nat]
Task == PriceTask \cup IntentTask \cup OrderTask \cup AnswerTask \cup HookTask

InHook(r) == Doing(r, "hook") \/ Doing(r, "rebind") \/ Doing(r, "held")

TypeInv ==
  /\ price \in [Product -> Price]
  /\ intent \in [Order -> PaymentIntent \cup {None}]
  /\ order \in [Order -> SupplyOrder \cup {None}]
  /\ history \in [Order -> Seq(Rows)]
  /\ quoted \subseteq Order /\ calls \in Nat
  /\ task \in [Req -> Task \cup {None}]

\* An order adds up and has its intent, over its total, and can be paid only then; a request
\* that is to store an order is the only one with that intent.
CheckoutInv ==
  /\ \A o \in Order : order[o] # None =>
       /\ intent[o] # None
       /\ AddsUp(order[o]) /\ intent[o].amount = order[o].total
  /\ \A o \in quoted : order[o] # None
  /\ \A r \in Req : Doing(r, "order") =>
       /\ intent[task[r].order] # None /\ order[task[r].order] = None
       /\ intent[task[r].order].amount = task[r].total
       /\ \A q \in Req : Doing(q, "order") /\ task[q].order = task[r].order => q = r
  /\ \A r \in Req : Doing(r, "answer") \/ InHook(r) => order[task[r].order] # None

\* A request that is at a stage has the data of that stage.
LEMMA TaskOf ==
  ASSUME TypeInv, NEW r \in Req
  PROVE  /\ Doing(r, "price") => task[r] \in PriceTask
         /\ Doing(r, "intent") => task[r] \in IntentTask
         /\ Doing(r, "order") => task[r] \in OrderTask
         /\ Doing(r, "answer") => task[r] \in AnswerTask
         /\ InHook(r) => task[r] \in HookTask
  BY DEF TypeInv, Doing, InHook, Task, PriceTask, IntentTask, OrderTask, AnswerTask, HookTask

\* What a webhook transaction reads of an order.
LEMMA Snapped ==
  ASSUME TypeInv, CheckoutInv, NEW o \in Order, order[o] # None
  PROVE  Snapshot(o) \in Snapshots /\ Snapshot(o).status = order[o].status
  <1>1. intent[o] \in PaymentIntent /\ order[o] \in SupplyOrder
    BY DEF TypeInv, CheckoutInv
  <1>2. QED BY <1>1 DEF Snapshot, Snapshots, PaymentIntent, SupplyOrder

\* A transaction with data t leaves the intent as x and the order alone, or the order as y
\* with the row h of its history.
Refused(t, x) ==
  /\ intent' = [intent EXCEPT ![t.order] = x]
  /\ x.amount = intent[t.order].amount /\ x.status = "FAILED"
  /\ UNCHANGED <<order, history>>
Moved(t, x, y, h) ==
  /\ intent' = [intent EXCEPT ![t.order] = x]
  /\ order' = [order EXCEPT ![t.order] = y]
  /\ history' = [history EXCEPT ![t.order] = Append(history[t.order], h)]
  /\ x.amount = intent[t.order].amount
  /\ y.total = order[t.order].total /\ y.items = order[t.order].items
  /\ y.fee = order[t.order].fee
  /\ h.to = y.status /\ h.begun = t.begun /\ h.ended = calls
  /\ \/ y.status = "WAITING_ON_SUPPLIER" /\ x.status = "SUCCEEDED"
     \/ /\ y.status = "CANCELLED" /\ x.status = "FAILED"
        /\ t.saw.status = "REQUIRES_PAYMENT"

\* What the commit of a webhook transaction does.
LEMMA Committed ==
  ASSUME TypeInv, CheckoutInv, NEW r \in Req, HookCommit(r)
  PROVE  /\ InHook(r) /\ order[task[r].order] # None
         /\ task' = [task EXCEPT ![r] = None] /\ UNCHANGED <<catalogueVars, quoted, calls>>
         /\ \/ UNCHANGED <<intent, order, history>>
            \/ \E x \in PaymentIntent : Refused(task[r], x)
            \/ \E x \in PaymentIntent, y \in SupplyOrder, h \in Rows : Moved(task[r], x, y, h)
  <1>1. PICK t \in HookTask : t = task[r]
    BY TaskOf DEF HookCommit, Hook, InHook
  <1>2. InHook(r)
    BY DEF HookCommit, Hook, InHook
  <1>3. PICK o \in Order : o = t.order
    BY <1>1 DEF HookTask
  <1>4. order[o] # None
    BY <1>1, <1>2, <1>3 DEF CheckoutInv
  <1>5. PICK i \in PaymentIntent : i = intent[o]
    BY <1>4 DEF TypeInv, CheckoutInv
  <1>6. PICK w \in SupplyOrder : w = order[o]
    BY <1>4 DEF TypeInv
  <1>7. task' = [task EXCEPT ![r] = None] /\ UNCHANGED <<catalogueVars, quoted, calls>>
    BY DEF HookCommit, End, paymentVars
  <1> DEFINE paid(s) == [status |-> s, amount |-> i.amount]
             now(s) == [status |-> s, total |-> w.total, fee |-> w.fee, items |-> w.items]
             row(s) == [from |-> t.saw.status, to |-> s, begun |-> t.begun, ended |-> calls]
  <1>8. /\ \A s \in {"SUCCEEDED", "FAILED"} :
             /\ paid(s) \in PaymentIntent /\ paid(s).amount = i.amount /\ paid(s).status = s
             /\ [intent EXCEPT ![o].status = s] = [intent EXCEPT ![o] = paid(s)]
        /\ \A s \in {"WAITING_ON_SUPPLIER", "CANCELLED"} :
             /\ now(s) \in SupplyOrder /\ now(s).status = s
             /\ now(s).total = w.total /\ now(s).items = w.items /\ now(s).fee = w.fee
             /\ [order EXCEPT ![o].status = s] = [order EXCEPT ![o] = now(s)]
             /\ row(s) \in Rows /\ row(s).to = s /\ row(s).begun = t.begun
             /\ row(s).ended = calls
    <2>1. ASSUME NEW s \in {"SUCCEEDED", "FAILED"}
          PROVE  /\ paid(s) \in PaymentIntent /\ paid(s).amount = i.amount /\ paid(s).status = s
                 /\ [i EXCEPT !.status = s] = paid(s)
      BY DEF PaymentIntent
    <2>2. ASSUME NEW s \in {"WAITING_ON_SUPPLIER", "CANCELLED"}
          PROVE  /\ now(s) \in SupplyOrder /\ now(s).status = s
                 /\ now(s).total = w.total /\ now(s).items = w.items /\ now(s).fee = w.fee
                 /\ [w EXCEPT !.status = s] = now(s)
      BY DEF SupplyOrder
    <2>3. ASSUME NEW s \in {"WAITING_ON_SUPPLIER", "CANCELLED"}
          PROVE  /\ row(s) \in Rows /\ row(s).to = s /\ row(s).begun = t.begun
                 /\ row(s).ended = calls
      BY DEF Rows, HookTask, Snapshots, TypeInv
    <2> HIDE DEF paid, now, row
    <2>4. ASSUME NEW s
          PROVE  /\ [intent EXCEPT ![o].status = s] = [intent EXCEPT ![o] = [i EXCEPT !.status = s]]
                 /\ [order EXCEPT ![o].status = s] = [order EXCEPT ![o] = [w EXCEPT !.status = s]]
      BY <1>5, <1>6, Zenon
    <2>5. ASSUME NEW s \in {"SUCCEEDED", "FAILED"}
          PROVE  [intent EXCEPT ![o].status = s] = [intent EXCEPT ![o] = paid(s)]
      BY <2>1, <2>4
    <2>6. ASSUME NEW s \in {"WAITING_ON_SUPPLIER", "CANCELLED"}
          PROVE  [order EXCEPT ![o].status = s] = [order EXCEPT ![o] = now(s)]
      BY <2>2, <2>4
    <2>7. QED BY <2>1, <2>2, <2>3, <2>5, <2>6
  <1> HIDE DEF paid, now, row
  <1> DEFINE Outcome == \/ UNCHANGED <<intent, order, history>>
                        \/ \E x \in PaymentIntent : Refused(t, x)
                        \/ \E x \in PaymentIntent, y \in SupplyOrder, h \in Rows :
                             Moved(t, x, y, h)
  <1>9. ASSUME Verdict(t) = "ignore" /\ UNCHANGED paymentVars
        PROVE  Outcome
    BY <1>9 DEF paymentVars
  <1>10. ASSUME intent' = [intent EXCEPT ![o].status = "SUCCEEDED"],
                Move(t, "WAITING_ON_SUPPLIER")
         PROVE  Outcome
    <2>1. /\ intent' = [intent EXCEPT ![o] = paid("SUCCEEDED")]
          /\ order' = [order EXCEPT ![o] = now("WAITING_ON_SUPPLIER")]
          /\ history' = [history EXCEPT ![o] = Append(history[o], row("WAITING_ON_SUPPLIER"))]
      BY <1>3, <1>8, <1>10 DEF Move, row
    <2>2. Moved(t, paid("SUCCEEDED"), now("WAITING_ON_SUPPLIER"), row("WAITING_ON_SUPPLIER"))
      BY <1>3, <1>5, <1>6, <1>8, <2>1 DEF Moved
    <2>3. QED BY <1>8, <2>2
  <1>11. ASSUME intent' = [intent EXCEPT ![o].status = "FAILED"],
                t.saw.status = "REQUIRES_PAYMENT", Move(t, "CANCELLED")
         PROVE  Outcome
    <2>1. /\ intent' = [intent EXCEPT ![o] = paid("FAILED")]
          /\ order' = [order EXCEPT ![o] = now("CANCELLED")]
          /\ history' = [history EXCEPT ![o] = Append(history[o], row("CANCELLED"))]
      BY <1>3, <1>8, <1>11 DEF Move, row
    <2>2. Moved(t, paid("FAILED"), now("CANCELLED"), row("CANCELLED"))
      BY <1>3, <1>5, <1>6, <1>8, <1>11, <2>1 DEF Moved
    <2>3. QED BY <1>8, <2>2
  <1>12. ASSUME intent' = [intent EXCEPT ![o].status = "FAILED"], UNCHANGED <<order, history>>
         PROVE  Outcome
    <2>1. Refused(t, paid("FAILED"))
      BY <1>3, <1>5, <1>8, <1>12 DEF Refused
    <2>2. QED BY <1>8, <2>1
  <1>13. Outcome
    <2> HIDE DEF Outcome
    <2>1. QED BY <1>1, <1>3, <1>9, <1>10, <1>11, <1>12 DEF HookCommit, Settled, Cancellable
  <1>14. QED BY <1>1, <1>2, <1>3, <1>4, <1>7, <1>13

\* A request that works with a snapshot of an order keeps its data as long as that is stored.
Live == {t \in HookTask : order[t.order] # None}

\* What a webhook transaction has at its beginning and once it holds the intent.
LEMMA HookBegins ==
  ASSUME TypeInv, CheckoutInv, NEW r \in Req, NEW o \in Order, NEW kind \in {"success", "failed"},
         NEW right \in BOOLEAN, NEW rebind \in BOOLEAN, HookRead(r, o, kind, right, rebind)
  PROVE  \E t \in Live : /\ task' = [task EXCEPT ![r] = t] /\ calls' = calls + 1
                         /\ t.order = o /\ t.begun = calls + 1 /\ t.saw.status = order[o].status
                         /\ UNCHANGED <<catalogueVars, paymentVars>>
  <1> DEFINE t == [op |-> IF rebind THEN "rebind" ELSE "hook", order |-> o, kind |-> kind,
                   right |-> right, saw |-> Snapshot(o), begun |-> calls + 1]
  <1>1. order[o] # None /\ calls + 1 \in Nat
    BY DEF HookRead, CheckoutInv, TypeInv
  <1>2. Snapshot(o) \in Snapshots /\ Snapshot(o).status = order[o].status
    BY <1>1, Snapped
  <1>3. t \in HookTask /\ t.order = o /\ t.begun = calls + 1 /\ t.saw.status = order[o].status
    BY <1>1, <1>2 DEF HookTask
  <1>4. task' = [task EXCEPT ![r] = t] /\ calls' = calls + 1
        /\ UNCHANGED <<catalogueVars, paymentVars>>
    BY DEF HookRead, Begin
  <1> HIDE DEF t
  <1>5. t \in Live
    BY <1>1, <1>3 DEF Live
  <1>6. QED BY <1>3, <1>4, <1>5
LEMMA HookHolds ==
  ASSUME TypeInv, CheckoutInv, NEW r \in Req, HookRebind(r)
  PROVE  \E t \in Live : /\ task' = [task EXCEPT ![r] = t] /\ InHook(r)
                         /\ t.order = task[r].order /\ t.begun = task[r].begun
                         /\ t.saw.status = order[t.order].status
                         /\ UNCHANGED <<catalogueVars, paymentVars, calls>>
  <1>1. PICK h \in HookTask : h = task[r]
    BY TaskOf DEF HookRebind, InHook
  <1>2. PICK o \in Order : o = h.order
    BY <1>1 DEF HookTask
  <1>3. InHook(r) /\ order[o] # None
    BY <1>1, <1>2 DEF HookRebind, InHook, CheckoutInv
  <1>4. Snapshot(o) \in Snapshots /\ Snapshot(o).status = order[o].status
    BY <1>3, Snapped
  <1> DEFINE t == [op |-> "held", order |-> o, kind |-> h.kind, right |-> h.right,
                   saw |-> Snapshot(o), begun |-> h.begun]
  <1>5. /\ t \in HookTask /\ t.order = o /\ t.begun = h.begun
        /\ t.saw.status = order[o].status
    BY <1>2, <1>4 DEF HookTask
  <1>6. [h EXCEPT !.op = "held", !.saw = Snapshot(o)] = t
    <2>1. PICK g : g = [h EXCEPT !.op = "held"]
      OBVIOUS
    <2>2. g = [op |-> "held", order |-> h.order, kind |-> h.kind, right |-> h.right,
               saw |-> h.saw, begun |-> h.begun]
      BY <2>1 DEF HookTask
    <2>3. g \in HookTask
      BY <2>2 DEF HookTask
    <2>4. [g EXCEPT !.saw = Snapshot(o)] = t
      BY <1>2, <2>2, <2>3 DEF HookTask
    <2>5. QED BY <2>1, <2>4
  <1> HIDE DEF t
  <1>7. task' = [task EXCEPT ![r].op = "held", ![r].saw = Snapshot(o)]
        /\ UNCHANGED <<catalogueVars, paymentVars, calls>>
    BY <1>1, <1>2 DEF HookRebind
  <1>8. [task EXCEPT ![r].op = "held", ![r].saw = Snapshot(o)] =
          [task EXCEPT ![r] = [h EXCEPT !.op = "held", !.saw = Snapshot(o)]]
    BY <1>1 DEF TypeInv
  <1>9. t \in Live
    BY <1>2, <1>3, <1>5 DEF Live
  <1>10. QED BY <1>1, <1>2, <1>3, <1>5, <1>6, <1>7, <1>8, <1>9

\* A step that leaves intents and orders alone.
LEMMA PaymentsKept ==
  ASSUME TypeInv, CheckoutInv, NEW r \in Req,
         NEW t \in {None} \cup PriceTask \cup IntentTask \cup Live,
         task' = [task EXCEPT ![r] = t], UNCHANGED paymentVars,
         calls' \in Nat, price' \in [Product -> Price]
  PROVE  TypeInv' /\ CheckoutInv'
  <1>1. /\ UNCHANGED <<intent, order, history, quoted>>
        /\ task'[r] = t /\ \A q \in Req \ {r} : task'[q] = task[q]
    BY DEF paymentVars, TypeInv
  <1>2. t \in Task \cup {None}
    BY DEF Task, Live
  <1>3. TypeInv'
    BY <1>1, <1>2 DEF TypeInv
  <1>4. ~Doing(r, "order")' /\ ~Doing(r, "answer")' /\ (InHook(r)' => order[t.order] # None)
    BY <1>1 DEF Doing, InHook, PriceTask, IntentTask, HookTask, Live
  <1>5. \A q \in Req \ {r} : /\ Doing(q, "order")' <=> Doing(q, "order")
                             /\ Doing(q, "answer")' <=> Doing(q, "answer")
                             /\ InHook(q)' <=> InHook(q)
    BY <1>1 DEF Doing, InHook
  <1>6. ASSUME NEW q \in Req, Doing(q, "order")'
        PROVE  /\ q # r /\ Doing(q, "order") /\ task'[q] = task[q]
    BY <1>1, <1>4, <1>5, <1>6
  <1>7. CheckoutInv'
    <2>1. /\ \A o \in Order : (order'[o] # None =>
               /\ intent'[o] # None
               /\ AddsUp(order'[o]) /\ intent'[o].amount = order'[o].total)
          /\ \A o \in quoted' : order'[o] # None
      BY <1>1 DEF CheckoutInv
    <2>2. ASSUME NEW q \in Req, Doing(q, "order")'
          PROVE  /\ intent'[task'[q].order] # None /\ order'[task'[q].order] = None
                 /\ intent'[task'[q].order].amount = task'[q].total
                 /\ \A p \in Req : Doing(p, "order")' /\ task'[p].order = task'[q].order => p = q
      <3>1. Doing(q, "order") /\ task'[q] = task[q]
        BY <1>6, <2>2
      <3>2. \A p \in Req : Doing(p, "order")' => Doing(p, "order") /\ task'[p] = task[p]
        BY <1>6
      <3>3. QED BY <1>1, <3>1, <3>2 DEF CheckoutInv
    <2>3. ASSUME NEW q \in Req, Doing(q, "answer")' \/ InHook(q)'
          PROVE  order'[task'[q].order] # None
      BY <1>1, <1>4, <1>5, <2>3 DEF CheckoutInv
    <2>4. QED BY <2>1, <2>2, <2>3 DEF CheckoutInv
  <1>8. QED BY <1>3, <1>7

\* The three statements of a checkout.
LEMMA IntentCreated ==
  ASSUME TypeInv, CheckoutInv, NEW r \in Req, NEW o \in Order, CreateIntent(r, o)
  PROVE  \E x \in PaymentIntent, t \in OrderTask :
           /\ intent' = [intent EXCEPT ![o] = x] /\ task' = [task EXCEPT ![r] = t]
           /\ intent[o] = None /\ x.status = "REQUIRES_PAYMENT_METHOD"
           /\ t.order = o /\ x.amount = t.total /\ t.op = "order"
           /\ UNCHANGED <<catalogueVars, order, history, quoted, calls>>
  <1>1. PICK k \in IntentTask : k = task[r]
    BY TaskOf DEF CreateIntent
  <1> DEFINE x == [status |-> "REQUIRES_PAYMENT_METHOD", amount |-> k.total]
             t == [op |-> "order", order |-> o, items |-> k.items, fee |-> k.fee,
                   total |-> k.total]
  <1>2. /\ x \in PaymentIntent /\ t \in OrderTask /\ t.order = o /\ t.op = "order"
        /\ x.amount = t.total /\ x.status = "REQUIRES_PAYMENT_METHOD"
    BY DEF PaymentIntent, IntentTask, OrderTask, AddsUp
  <1>3. /\ intent' = [intent EXCEPT ![o] = x] /\ task' = [task EXCEPT ![r] = t]
        /\ intent[o] = None /\ UNCHANGED <<catalogueVars, order, history, quoted, calls>>
    BY <1>1 DEF CreateIntent
  <1> HIDE DEF x, t
  <1>4. QED BY <1>2, <1>3
LEMMA OrderCreated ==
  ASSUME TypeInv, CheckoutInv, NEW r \in Req, CreateOrder(r)
  PROVE  \E o \in Order, y \in SupplyOrder, h \in Rows, t \in AnswerTask :
           /\ Doing(r, "order") /\ o = task[r].order /\ y.total = task[r].total
           /\ order' = [order EXCEPT ![o] = y] /\ history' = [history EXCEPT ![o] = <<h>>]
           /\ task' = [task EXCEPT ![r] = t] /\ t.order = o /\ t.op = "answer"
           /\ AddsUp(y) /\ y.status = "REQUIRES_PAYMENT"
           /\ h.to = "REQUIRES_PAYMENT" /\ h.begun = calls /\ h.ended = calls
           /\ UNCHANGED <<catalogueVars, intent, quoted, calls>>
  <1>1. Doing(r, "order") /\ task[r] \in OrderTask
    BY TaskOf DEF CreateOrder
  <1>2. PICK k \in OrderTask, o \in Order : k = task[r] /\ o = k.order
    BY <1>1 DEF OrderTask
  <1> DEFINE y == [status |-> "REQUIRES_PAYMENT", total |-> k.total, fee |-> k.fee,
                   items |-> k.items]
             h == [from |-> "DRAFT", to |-> "REQUIRES_PAYMENT", begun |-> calls, ended |-> calls]
             t == [op |-> "answer", order |-> o]
  <1>3. /\ y \in SupplyOrder /\ h \in Rows /\ t \in AnswerTask /\ t.order = o /\ t.op = "answer"
        /\ y.total = k.total /\ AddsUp(y) /\ y.status = "REQUIRES_PAYMENT"
        /\ h.to = "REQUIRES_PAYMENT" /\ h.begun = calls /\ h.ended = calls
    BY DEF SupplyOrder, Rows, OrderTask, AnswerTask, AddsUp, TypeInv
  <1>4. /\ order' = [order EXCEPT ![o] = y] /\ history' = [history EXCEPT ![o] = <<h>>]
        /\ task' = [task EXCEPT ![r] = t] /\ UNCHANGED <<catalogueVars, intent, quoted, calls>>
    BY <1>2 DEF CreateOrder, Priced
  <1> HIDE DEF y, h, t
  <1>5. QED BY <1>1, <1>2, <1>3, <1>4

\* The steps that write intents, orders or what is quoted preserve the invariant.
LEMMA CheckoutKept ==
  ASSUME TypeInv, CheckoutInv, NEW r \in Req,
         (\E o \in Order : CreateIntent(r, o)) \/ CreateOrder(r) \/ Answer(r)
  PROVE  TypeInv' /\ CheckoutInv'
  <1>1. ASSUME NEW o \in Order, CreateIntent(r, o)
        PROVE  TypeInv' /\ CheckoutInv'
    <2>1. PICK x \in PaymentIntent, t \in OrderTask :
           /\ intent' = [intent EXCEPT ![o] = x] /\ task' = [task EXCEPT ![r] = t]
           /\ intent[o] = None /\ x.status = "REQUIRES_PAYMENT_METHOD"
           /\ t.order = o /\ x.amount = t.total /\ t.op = "order"
           /\ UNCHANGED <<catalogueVars, order, history, quoted, calls>>
      BY <1>1, IntentCreated
    <2>2. TypeInv'
      BY <2>1 DEF TypeInv, Task, catalogueVars
    <2>3. /\ order[o] = None /\ intent'[o] = x /\ x # None
          /\ \A p \in Order \ {o} : intent'[p] = intent[p]
          /\ task'[r] = t /\ \A q \in Req \ {r} : task'[q] = task[q]
      BY <2>1 DEF TypeInv, CheckoutInv
    <2>4. /\ Doing(r, "intent") /\ ~Doing(r, "answer")' /\ ~InHook(r)'
          /\ \A q \in Req \ {r} : /\ Doing(q, "order")' <=> Doing(q, "order")
                                  /\ Doing(q, "answer")' <=> Doing(q, "answer")
                                  /\ InHook(q)' <=> InHook(q)
      BY <1>1, <2>1, <2>3 DEF Doing, InHook, CreateIntent
    <2>5. \A q \in Req : Doing(q, "order") => task[q].order # o /\ task[q].order \in Order
      BY <2>1, TaskOf DEF CheckoutInv, OrderTask
    <2>6. ASSUME NEW q \in Req, Doing(q, "order")'
          PROVE  /\ intent'[task'[q].order] # None /\ order'[task'[q].order] = None
                 /\ intent'[task'[q].order].amount = task'[q].total
                 /\ \A p \in Req : Doing(p, "order")' /\ task'[p].order = task'[q].order => p = q
      <3>1. CASE q = r
        BY <2>1, <2>3, <2>4, <2>5, <3>1
      <3>2. CASE q # r
        <4>1. task'[q] = task[q] /\ Doing(q, "order") /\ intent'[task[q].order] = intent[task[q].order]
          BY <2>3, <2>4, <2>5, <2>6, <3>2
        <4>2. QED BY <2>1, <2>3, <2>4, <2>5, <3>2, <4>1 DEF CheckoutInv
      <3>3. QED BY <3>1, <3>2
    <2>7. /\ \A p \in Order : (order'[p] # None =>
               /\ intent'[p] # None
               /\ AddsUp(order'[p]) /\ intent'[p].amount = order'[p].total)
          /\ \A p \in quoted' : order'[p] # None
          /\ \A q \in Req : Doing(q, "answer")' \/ InHook(q)' => order'[task'[q].order] # None
      BY <2>1, <2>3, <2>4 DEF CheckoutInv
    <2>8. QED BY <2>2, <2>6, <2>7 DEF CheckoutInv
  <1>2. CASE CreateOrder(r)
    <2>1. PICK o \in Order, y \in SupplyOrder, h \in Rows, t \in AnswerTask :
           /\ Doing(r, "order") /\ o = task[r].order /\ y.total = task[r].total
           /\ order' = [order EXCEPT ![o] = y] /\ history' = [history EXCEPT ![o] = <<h>>]
           /\ task' = [task EXCEPT ![r] = t] /\ t.order = o /\ t.op = "answer"
           /\ AddsUp(y) /\ y.status = "REQUIRES_PAYMENT"
           /\ h.to = "REQUIRES_PAYMENT" /\ h.begun = calls /\ h.ended = calls
           /\ UNCHANGED <<catalogueVars, intent, quoted, calls>>
      BY <1>2, OrderCreated
    <2>2. <<h>> \in Seq(Rows)
      OBVIOUS
    <2>3. TypeInv'
      BY <2>1, <2>2 DEF TypeInv, Task, catalogueVars
    <2>4. /\ order'[o] = y /\ y # None /\ \A p \in Order \ {o} : order'[p] = order[p]
          /\ task'[r] = t /\ \A q \in Req \ {r} : task'[q] = task[q]
          /\ intent[o] # None /\ intent[o].amount = y.total
      BY <2>1 DEF TypeInv, CheckoutInv
    <2>5. /\ ~Doing(r, "order")' /\ ~InHook(r)'
          /\ \A q \in Req \ {r} : /\ Doing(q, "order")' <=> Doing(q, "order")
                                  /\ Doing(q, "answer")' <=> Doing(q, "answer")
                                  /\ InHook(q)' <=> InHook(q)
      BY <2>1, <2>4 DEF Doing, InHook
    <2>6. \A q \in Req \ {r} : Doing(q, "order") => task[q].order # o /\ task[q].order \in Order
      BY <2>1, TaskOf DEF CheckoutInv, OrderTask
    <2>7. ASSUME NEW q \in Req, Doing(q, "order")'
          PROVE  /\ intent'[task'[q].order] # None /\ order'[task'[q].order] = None
                 /\ intent'[task'[q].order].amount = task'[q].total
                 /\ \A p \in Req : Doing(p, "order")' /\ task'[p].order = task'[q].order => p = q
      <3>1. q # r /\ task'[q] = task[q] /\ Doing(q, "order")
            /\ order'[task[q].order] = order[task[q].order]
        BY <2>4, <2>5, <2>6, <2>7
      <3>2. QED BY <2>1, <2>4, <2>5, <3>1 DEF CheckoutInv
    <2>8. ASSUME NEW q \in Req, Doing(q, "answer")' \/ InHook(q)'
          PROVE  order'[task'[q].order] # None
      <3>1. CASE q = r
        BY <2>1, <2>4, <3>1
      <3>2. CASE q # r
        <4>1. task'[q] = task[q] /\ (Doing(q, "answer") \/ InHook(q))
          BY <2>4, <2>5, <2>8, <3>2
        <4>2. task[q].order \in Order
          BY <4>1, TaskOf DEF AnswerTask, HookTask
        <4>3. QED BY <2>4, <4>1, <4>2 DEF CheckoutInv
      <3>3. QED BY <3>1, <3>2
    <2>9. /\ \A p \in Order : (order'[p] # None =>
               /\ intent'[p] # None
               /\ AddsUp(order'[p]) /\ intent'[p].amount = order'[p].total)
          /\ \A p \in quoted' : order'[p] # None
      BY <2>1, <2>4 DEF CheckoutInv, TypeInv
    <2>10. QED BY <2>3, <2>7, <2>8, <2>9 DEF CheckoutInv
  <1>3. CASE Answer(r)
    <2>1. PICK o \in Order : o = task[r].order /\ order[o] # None
      BY <1>3, TaskOf DEF Answer, AnswerTask, CheckoutInv
    <2>2. /\ quoted' = quoted \cup {o} /\ task' = [task EXCEPT ![r] = None]
          /\ UNCHANGED <<catalogueVars, intent, order, history, calls>>
      BY <1>3, <2>1 DEF Answer, End
    <2>3. TypeInv'
      BY <2>2 DEF TypeInv, catalogueVars
    <2>4. ASSUME NEW q \in Req, task'[q] # None
          PROVE  task'[q] = task[q]
      BY <2>2, <2>4 DEF TypeInv
    <2>5. /\ \A q \in Req : Doing(q, "order")' => Doing(q, "order") /\ task'[q] = task[q]
          /\ \A q \in Req : Doing(q, "answer")' => Doing(q, "answer") /\ task'[q] = task[q]
          /\ \A q \in Req : InHook(q)' => InHook(q) /\ task'[q] = task[q]
      BY <2>4 DEF Doing, InHook
    <2>6. \A q \in Req : (Doing(q, "order")' =>
            /\ intent'[task'[q].order] # None /\ order'[task'[q].order] = None
            /\ intent'[task'[q].order].amount = task'[q].total
            /\ \A p \in Req : Doing(p, "order")' /\ task'[p].order = task'[q].order => p = q)
      BY <2>2, <2>5 DEF CheckoutInv
    <2>7. /\ \A p \in Order : (order'[p] # None =>
               /\ intent'[p] # None
               /\ AddsUp(order'[p]) /\ intent'[p].amount = order'[p].total)
          /\ \A p \in quoted' : order'[p] # None
          /\ \A q \in Req : Doing(q, "answer")' \/ InHook(q)' => order'[task'[q].order] # None
      BY <2>1, <2>2, <2>5 DEF CheckoutInv
    <2>8. QED BY <2>3, <2>6, <2>7 DEF CheckoutInv
  <1>4. QED BY <1>1, <1>2, <1>3
LEMMA CommitKept ==
  ASSUME TypeInv, CheckoutInv, NEW r \in Req, HookCommit(r)
  PROVE  TypeInv' /\ CheckoutInv'
  <1>1. /\ InHook(r) /\ order[task[r].order] # None
        /\ task' = [task EXCEPT ![r] = None] /\ UNCHANGED <<catalogueVars, quoted, calls>>
        /\ \/ UNCHANGED <<intent, order, history>>
           \/ \E x \in PaymentIntent : Refused(task[r], x)
           \/ \E x \in PaymentIntent, y \in SupplyOrder, h \in Rows : Moved(task[r], x, y, h)
    BY Committed
  <1>2. PICK o \in Order : o = task[r].order /\ order[o] # None
    BY <1>1, TaskOf DEF HookTask
  <1> DEFINE Same ==
        /\ intent' \in [Order -> PaymentIntent \cup {None}]
        /\ order' \in [Order -> SupplyOrder \cup {None}]
        /\ history' \in [Order -> Seq(Rows)]
        /\ \A p \in Order : /\ (order'[p] = None <=> order[p] = None)
                            /\ (intent'[p] = None <=> intent[p] = None)
                            /\ intent[p] # None => intent'[p].amount = intent[p].amount
                            /\ order[p] # None => /\ order'[p].total = order[p].total
                                                  /\ order'[p].fee = order[p].fee
                                                  /\ order'[p].items = order[p].items
  <1>3. Same
    <2>1. ASSUME UNCHANGED <<intent, order, history>>
          PROVE  Same
      BY <2>1 DEF TypeInv
    <2>2. ASSUME NEW x \in PaymentIntent, Refused(task[r], x)
          PROVE  Same
      <3>1. intent' = [intent EXCEPT ![o] = x] /\ x.amount = intent[o].amount /\ x # None
            /\ intent[o] # None /\ UNCHANGED <<order, history>>
        BY <1>2, <2>2 DEF Refused, CheckoutInv
      <3>2. QED BY <3>1 DEF TypeInv
    <2>3. ASSUME NEW x \in PaymentIntent, NEW y \in SupplyOrder, NEW h \in Rows,
                 Moved(task[r], x, y, h)
          PROVE  Same
      <3>1. /\ intent' = [intent EXCEPT ![o] = x] /\ x.amount = intent[o].amount /\ x # None
            /\ order' = [order EXCEPT ![o] = y] /\ y # None
            /\ y.total = order[o].total /\ y.items = order[o].items /\ y.fee = order[o].fee
            /\ history' = [history EXCEPT ![o] = Append(history[o], h)]
            /\ intent[o] # None
        BY <1>2, <2>3 DEF Moved, CheckoutInv
      <3>2. Append(history[o], h) \in Seq(Rows)
        BY DEF TypeInv
      <3>3. QED BY <1>2, <3>1, <3>2 DEF TypeInv
    <2> HIDE DEF Same
    <2>4. QED BY <1>1, <2>1, <2>2, <2>3
  <1>4. TypeInv'
    BY <1>1, <1>3 DEF TypeInv, catalogueVars
  <1>5. ASSUME NEW q \in Req, task'[q] # None
        PROVE  task'[q] = task[q]
    BY <1>1, <1>5 DEF TypeInv
  <1>6. /\ \A q \in Req : Doing(q, "order")' => Doing(q, "order") /\ task'[q] = task[q]
        /\ \A q \in Req : Doing(q, "answer")' => Doing(q, "answer") /\ task'[q] = task[q]
        /\ \A q \in Req : InHook(q)' => InHook(q) /\ task'[q] = task[q]
    BY <1>5 DEF Doing, InHook
  <1>7. \A q \in Req : Doing(q, "order") \/ Doing(q, "answer") \/ InHook(q) => task[q].order \in Order
    BY TaskOf DEF OrderTask, AnswerTask, HookTask
  <1>8. ASSUME NEW q \in Req, Doing(q, "order")'
        PROVE  /\ intent'[task'[q].order] # None /\ order'[task'[q].order] = None
               /\ intent'[task'[q].order].amount = task'[q].total
               /\ \A p \in Req : Doing(p, "order")' /\ task'[p].order = task'[q].order => p = q
    <2>1. task'[q] = task[q] /\ Doing(q, "order") /\ task[q].order \in Order
      BY <1>6, <1>7, <1>8
    <2>2. intent[task[q].order] # None /\ order[task[q].order] = None
          /\ intent[task[q].order].amount = task[q].total
      BY <2>1 DEF CheckoutInv
    <2>3. intent'[task[q].order] # None /\ order'[task[q].order] = None
          /\ intent'[task[q].order].amount = task[q].total
      BY <1>3, <2>1, <2>2
    <2>4. QED BY <1>6, <2>1, <2>3 DEF CheckoutInv
  <1>9. /\ \A p \in Order : (order'[p] # None =>
             /\ intent'[p] # None
             /\ AddsUp(order'[p]) /\ intent'[p].amount = order'[p].total)
        /\ \A p \in quoted' : order'[p] # None
    BY <1>1, <1>3 DEF CheckoutInv, TypeInv, AddsUp
  <1>10. ASSUME NEW q \in Req, Doing(q, "answer")' \/ InHook(q)'
         PROVE  order'[task'[q].order] # None
    <2>1. task'[q] = task[q] /\ (Doing(q, "answer") \/ InHook(q)) /\ task[q].order \in Order
      BY <1>6, <1>7, <1>10
    <2>2. order[task[q].order] # None
      BY <2>1 DEF CheckoutInv
    <2>3. QED BY <1>3, <2>1, <2>2
  <1>11. QED BY <1>4, <1>8, <1>9, <1>10 DEF CheckoutInv

\* A step that leaves intents, orders and their history alone begins, goes on with or ends one
\* request, which may now be at an event with what it has just read.
Fresh(r, t) ==
  \/ t \in {None} \cup PriceTask \cup IntentTask
  \/ /\ t \in Live /\ t.saw.status = order[t.order].status
     /\ \/ t.begun = calls + 1 /\ calls' = calls + 1
        \/ InHook(r) /\ t.begun = task[r].begun /\ calls' = calls
Quiet(r) ==
  \/ Stop(r) \/ AddPrice(r) \/ HookRebind(r)
  \/ \E p \in Product, on \in BOOLEAN, cost \in Price \cup {None} : UpdateProduct(r, p, on, cost)
  \/ \E S \in SUBSET Product : \E amounts \in [S -> Quantity], fee \in Fee :
       CheckoutRead(r, amounts, fee)
  \/ \E o \in Order, kind \in {"success", "failed"}, right, rebind \in BOOLEAN :
       HookRead(r, o, kind, right, rebind)

LEMMA QuietStep ==
  ASSUME TypeInv, CheckoutInv, NEW r \in Req, Quiet(r)
  PROVE  /\ UNCHANGED paymentVars /\ calls' \in {calls, calls + 1}
         /\ price' \in [Product -> Price]
         /\ \E t : Fresh(r, t) /\ task' = [task EXCEPT ![r] = t]
  <1> DEFINE Goal == /\ UNCHANGED paymentVars /\ calls' \in {calls, calls + 1}
                     /\ price' \in [Product -> Price]
                     /\ \E t : Fresh(r, t) /\ task' = [task EXCEPT ![r] = t]
  <1>1. ASSUME Stop(r)
        PROVE  Goal
    <2>1. /\ UNCHANGED <<paymentVars, calls, price>> /\ task' = [task EXCEPT ![r] = None]
      BY <1>1 DEF Stop, End, catalogueVars
    <2>2. QED BY <2>1 DEF Fresh, TypeInv
  <1>2. ASSUME AddPrice(r)
        PROVE  Goal
    <2>1. PICK k \in PriceTask : k = task[r]
      BY <1>2, TaskOf DEF AddPrice
    <2>2. k.product \in Product /\ (k.price # None => k.price \in Price)
      BY DEF PriceTask
    <2>3. /\ UNCHANGED <<paymentVars, calls>> /\ task' = [task EXCEPT ![r] = None]
          /\ price' \in [Product -> Price]
      BY <1>2, <2>1, <2>2 DEF AddPrice, End, TypeInv
    <2>4. QED BY <2>3 DEF Fresh
  <1>3. ASSUME HookRebind(r)
        PROVE  Goal
    <2>1. PICK t \in Live : /\ task' = [task EXCEPT ![r] = t] /\ InHook(r)
                            /\ t.order = task[r].order /\ t.begun = task[r].begun
                            /\ t.saw.status = order[t.order].status
                            /\ UNCHANGED <<catalogueVars, paymentVars, calls>>
      BY <1>3, HookHolds
    <2>2. QED BY <2>1 DEF Fresh, TypeInv, catalogueVars
  <1>4. ASSUME NEW p \in Product, NEW on \in BOOLEAN, NEW cost \in Price \cup {None},
               UpdateProduct(r, p, on, cost)
        PROVE  Goal
    <2> DEFINE t == [op |-> "price", product |-> p, price |-> cost]
    <2>1. t \in PriceTask
      BY DEF PriceTask
    <2>2. /\ UNCHANGED <<paymentVars, price>> /\ calls' = calls + 1
          /\ task' = [task EXCEPT ![r] = t]
      BY <1>4 DEF UpdateProduct, Begin
    <2> HIDE DEF t
    <2>3. QED BY <2>1, <2>2 DEF Fresh, TypeInv
  <1>5. ASSUME NEW S \in SUBSET Product, NEW amounts \in [S -> Quantity], NEW fee \in Fee,
               CheckoutRead(r, amounts, fee)
        PROVE  Goal
    <2> DEFINE i == [p \in DOMAIN amounts |-> [quantity |-> amounts[p], price |-> price[p]]]
               t == [op |-> "intent", items |-> i, fee |-> fee, total |-> Total(i, fee)]
    <2>1. i \in [S -> [quantity : Quantity, price : Price]]
      BY DEF TypeInv
    <2>2. i \in Items
      BY <2>1 DEF Items
    <2>3. /\ UNCHANGED <<paymentVars, price>> /\ calls' = calls + 1
          /\ task' = [task EXCEPT ![r] = t] /\ Total(i, fee) > 0
      BY <1>5 DEF CheckoutRead, Begin, catalogueVars
    <2> HIDE DEF i
    <2>4. t \in IntentTask
      BY <2>2, <2>3 DEF IntentTask, AddsUp, Totals
    <2> HIDE DEF t
    <2>5. QED BY <2>3, <2>4 DEF Fresh, TypeInv
  <1>6. ASSUME NEW o \in Order, NEW kind \in {"success", "failed"}, NEW right \in BOOLEAN,
               NEW rebind \in BOOLEAN, HookRead(r, o, kind, right, rebind)
        PROVE  Goal
    <2>1. PICK t \in Live : /\ task' = [task EXCEPT ![r] = t] /\ calls' = calls + 1
                         /\ t.order = o /\ t.begun = calls + 1 /\ t.saw.status = order[o].status
                         /\ UNCHANGED <<catalogueVars, paymentVars>>
      BY <1>6, HookBegins
    <2>2. QED BY <2>1 DEF Fresh, TypeInv, catalogueVars
  <1>7. QED
    <2> HIDE DEF Goal
    <2>1. Goal
      BY <1>1, <1>2, <1>3, <1>4, <1>5, <1>6 DEF Quiet
    <2>2. QED BY <2>1 DEF Goal

LEMMA StepsSplit ==
  ASSUME Next
  PROVE  \E r \in Req : \/ Quiet(r) \/ HookCommit(r)
                        \/ (\E o \in Order : CreateIntent(r, o)) \/ CreateOrder(r) \/ Answer(r)
  BY Zenon DEF Next, Quiet

LEMMA TypeInvInductive ==
  /\ Init => TypeInv /\ CheckoutInv
  /\ TypeInv /\ CheckoutInv /\ [Next]_vars => TypeInv' /\ CheckoutInv'
  <1>1. Init => TypeInv /\ CheckoutInv
    <2> SUFFICES ASSUME Init
                 PROVE  TypeInv /\ CheckoutInv
      OBVIOUS
    <2>1. <<>> \in Seq(Rows)
      OBVIOUS
    <2>2. QED BY <2>1 DEF Init, TypeInv, CheckoutInv, Doing, InHook
  <1> SUFFICES ASSUME TypeInv, CheckoutInv, [Next]_vars
               PROVE  TypeInv' /\ CheckoutInv'
    BY <1>1
  <1>2. CASE UNCHANGED vars
    BY <1>2 DEF vars, catalogueVars, paymentVars, TypeInv, CheckoutInv, Doing, InHook
  <1>3. ASSUME NEW r \in Req, Quiet(r)
        PROVE  TypeInv' /\ CheckoutInv'
    <2>1. PICK t : Fresh(r, t) /\ task' = [task EXCEPT ![r] = t]
      BY <1>3, QuietStep
    <2>2. /\ UNCHANGED paymentVars /\ calls' \in Nat /\ price' \in [Product -> Price]
          /\ t \in {None} \cup PriceTask \cup IntentTask \cup Live
      BY <1>3, <2>1, QuietStep DEF Fresh, TypeInv
    <2>3. QED BY <2>1, <2>2, PaymentsKept
  <1>4. QED BY <1>2, <1>3, CheckoutKept, CommitKept, StepsSplit

-----------------------------------------------------------------------------
(***************************************************************************)
(* What orders promise.                                                    *)
(***************************************************************************)

\* The vendor is asked to pay the sum of the items on the order.
THEOREM ChargesAddUp == Spec => []ItemsAddUpToCharge
  <1>1. CheckoutInv => ItemsAddUpToCharge
    BY DEF CheckoutInv, ItemsAddUpToCharge, AddsUp, Total
  <1>2. QED BY <1>1, TypeInvInductive, PTL DEF Spec

\* An order never contradicts its payment intent.
LEMMA FollowsInductive ==
  /\ Init => OrderFollowsIntent
  /\ TypeInv /\ CheckoutInv /\ OrderFollowsIntent /\ [Next]_vars => OrderFollowsIntent'
  <1>1. Init => OrderFollowsIntent
    BY DEF Init, OrderFollowsIntent
  <1> SUFFICES ASSUME TypeInv, CheckoutInv, OrderFollowsIntent, [Next]_vars
               PROVE  OrderFollowsIntent'
    BY <1>1
  <1>2. CASE UNCHANGED <<intent, order>>
    BY <1>2 DEF OrderFollowsIntent
  <1>3. ASSUME NEW r \in Req, NEW o \in Order, CreateIntent(r, o)
        PROVE  OrderFollowsIntent'
    <2>1. PICK x \in PaymentIntent : /\ intent' = [intent EXCEPT ![o] = x] /\ intent[o] = None
                                     /\ x.status = "REQUIRES_PAYMENT_METHOD" /\ order' = order
      BY <1>3, IntentCreated
    <2>2. /\ order[o] = None /\ intent'[o] = x
          /\ \A p \in Order \ {o} : intent'[p] = intent[p]
      BY <2>1 DEF TypeInv, CheckoutInv
    <2>3. QED BY <2>1, <2>2 DEF OrderFollowsIntent
  <1>4. ASSUME NEW r \in Req, CreateOrder(r)
        PROVE  OrderFollowsIntent'
    <2>1. PICK o \in Order, y \in SupplyOrder :
            /\ Doing(r, "order") /\ o = task[r].order /\ order' = [order EXCEPT ![o] = y]
            /\ y.status = "REQUIRES_PAYMENT" /\ intent' = intent
      BY <1>4, OrderCreated
    <2>2. /\ intent[o] # None /\ order[o] = None /\ order'[o] = y /\ y # None
          /\ \A p \in Order \ {o} : order'[p] = order[p]
      BY <2>1 DEF TypeInv, CheckoutInv
    <2>3. intent[o].status = "REQUIRES_PAYMENT_METHOD"
      BY <2>2 DEF OrderFollowsIntent
    <2>4. QED BY <2>1, <2>2, <2>3 DEF OrderFollowsIntent
  <1>5. ASSUME NEW r \in Req, HookCommit(r)
        PROVE  OrderFollowsIntent'
    <2>1. PICK o \in Order : o = task[r].order /\ order[o] # None
      BY <1>5, Committed, TaskOf DEF HookTask
    <2>2. ASSUME NEW x \in PaymentIntent, Refused(task[r], x)
          PROVE  OrderFollowsIntent'
      <3>1. /\ intent'[o] = x /\ x.status = "FAILED" /\ order' = order
            /\ \A p \in Order \ {o} : intent'[p] = intent[p]
        BY <2>1, <2>2 DEF Refused, TypeInv
      <3>2. QED BY <2>1, <3>1 DEF OrderFollowsIntent
    <2>3. ASSUME NEW x \in PaymentIntent, NEW y \in SupplyOrder, NEW h \in Rows,
                 Moved(task[r], x, y, h)
          PROVE  OrderFollowsIntent'
      <3>1. /\ intent'[o] = x /\ order'[o] = y /\ y # None
            /\ \A p \in Order \ {o} : intent'[p] = intent[p] /\ order'[p] = order[p]
            /\ \/ y.status = "WAITING_ON_SUPPLIER" /\ x.status = "SUCCEEDED"
               \/ y.status = "CANCELLED" /\ x.status = "FAILED"
        BY <2>1, <2>3 DEF Moved, TypeInv
      <3>2. QED BY <3>1 DEF OrderFollowsIntent
    <2>4. QED BY <1>2, <1>5, <2>2, <2>3, Committed
  <1>6. ASSUME NEW r \in Req, Quiet(r) \/ Answer(r)
        PROVE  UNCHANGED <<intent, order>>
    BY <1>6, QuietStep DEF paymentVars, Answer
  <1>7. QED BY <1>2, <1>3, <1>4, <1>5, <1>6, StepsSplit DEF vars, paymentVars

\* What is paid waits on its supplier, what is cancelled has a failed payment, and what was
\* never stored is never charged.
THEOREM OrdersFollowIntents == Spec => []OrderFollowsIntent
  BY TypeInvInductive, FollowsInductive, PTL DEF Spec

-----------------------------------------------------------------------------
(***************************************************************************)
(* The history of an order.  An event that still believes its order to     *)
(* wait for payment began before any later row was written, so that the    *)
(* cancellation it may write overlaps the row before its own.              *)
(***************************************************************************)

\* Rows written up to request n.
RowsFit(q, n) ==
  \A i \in 1 .. Len(q) :
    /\ q[i].begun <= q[i].ended /\ q[i].ended <= n
    /\ i = 1 => q[i].to = "REQUIRES_PAYMENT"
    /\ i > 2 /\ q[i].to = "CANCELLED" => Together(q[i - 1], q[i])

\* An event with data t had begun when each row of q but the first was written.
BeganBefore(t, q) == \A i \in 1 .. Len(q) : i > 1 => t.begun <= q[i].ended

HistoryInv ==
  /\ \A o \in Order :
       /\ RowsFit(history[o], calls)
       /\ order[o] # None =>
            Len(history[o]) > 0 /\ (order[o].status = "REQUIRES_PAYMENT" => Len(history[o]) = 1)
  /\ \A r \in Req : InHook(r) =>
       /\ task[r].begun <= calls
       /\ task[r].saw.status = "REQUIRES_PAYMENT" => BeganBefore(task[r], history[task[r].order])

\* The rows of an order, once another one is written.
LEMMA RowAdded ==
  ASSUME NEW q \in Seq(Rows), NEW h \in Rows, NEW n \in Nat, RowsFit(q, n), Len(q) > 0,
         h.begun <= n, h.ended = n, h.to = "CANCELLED" => BeganBefore(h, q)
  PROVE  /\ Append(q, h) \in Seq(Rows) /\ Len(Append(q, h)) = Len(q) + 1
         /\ RowsFit(Append(q, h), n)
         /\ \A t : t.begun \in Nat /\ t.begun <= n /\ BeganBefore(t, q) =>
                BeganBefore(t, Append(q, h))
  <1> DEFINE w == Append(q, h)
  <1>1. /\ w \in Seq(Rows) /\ Len(w) = Len(q) + 1 /\ Len(q) \in Nat
        /\ w[Len(q) + 1] = h /\ \A i \in 1 .. Len(q) : w[i] = q[i]
    BY AppendProperties
  <1> HIDE DEF w
  <1>2. ASSUME NEW i \in 1 .. Len(q)
        PROVE  q[i] \in Rows /\ q[i].begun \in Nat /\ q[i].ended \in Nat
    <2>1. q[i] \in Rows
      BY ElementOfSeq
    <2>2. QED BY <2>1 DEF Rows
  <1>3. h.begun \in Nat /\ h.ended \in Nat
    BY DEF Rows
  <1>4. ASSUME NEW i \in 1 .. Len(w)
        PROVE  /\ w[i].begun <= w[i].ended /\ w[i].ended <= n
               /\ i = 1 => w[i].to = "REQUIRES_PAYMENT"
               /\ i > 2 /\ w[i].to = "CANCELLED" => Together(w[i - 1], w[i])
    <2>1. CASE i \in 1 .. Len(q)
      <3>1. i > 2 => w[i - 1] = q[i - 1]
        BY <1>1, <2>1
      <3>2. QED BY <1>1, <2>1, <3>1 DEF RowsFit
    <2>2. CASE i = Len(q) + 1
      <3>1. w[i] = h /\ i > 1 /\ i - 1 \in 1 .. Len(q) /\ w[i - 1] = q[i - 1]
        BY <1>1, <2>2
      <3>2. /\ q[i - 1].begun <= q[i - 1].ended /\ q[i - 1].ended <= n
            /\ q[i - 1].begun \in Nat /\ q[i - 1].ended \in Nat
        BY <1>2, <3>1 DEF RowsFit
      <3>3. ASSUME i > 2, h.to = "CANCELLED"
            PROVE  h.begun <= q[i - 1].ended
        BY <3>1, <3>3 DEF BeganBefore
      <3>4. QED BY <1>3, <3>1, <3>2, <3>3 DEF Together
    <2>3. QED BY <1>1, <2>1, <2>2
  <1>5. ASSUME NEW t, t.begun \in Nat, t.begun <= n, BeganBefore(t, q)
        PROVE  BeganBefore(t, w)
    BY <1>1, <1>5 DEF BeganBefore
  <1>6. RowsFit(w, n)
    BY <1>4 DEF RowsFit
  <1>7. QED BY <1>1, <1>5, <1>6 DEF w

\* Requests that write no history.
LEMMA HistoryKept ==
  ASSUME TypeInv, CheckoutInv, HistoryInv, UNCHANGED <<order, history>>,
         calls' \in Nat, calls <= calls',
         NEW r \in Req, \A q \in Req \ {r} : task'[q] # None => task'[q] = task[q],
         InHook(r)' =>
           /\ task'[r].begun <= calls'
           /\ task'[r].saw.status = "REQUIRES_PAYMENT" =>
                BeganBefore(task'[r], history[task'[r].order])
  PROVE  HistoryInv'
  <1>1. ASSUME NEW q \in Req, InHook(q)'
        PROVE  /\ task'[q].begun <= calls'
               /\ task'[q].saw.status = "REQUIRES_PAYMENT" =>
                    BeganBefore(task'[q], history[task'[q].order])
    <2>1. CASE q = r
      BY <1>1, <2>1
    <2>2. CASE q # r
      <3>1. task'[q] = task[q] /\ InHook(q)
        BY <1>1, <2>2 DEF InHook, Doing
      <3>2. task[q].begun \in Nat /\ calls \in Nat
        BY <3>1, TaskOf DEF HookTask, TypeInv
      <3>3. QED BY <3>1, <3>2 DEF HistoryInv
    <2>3. QED BY <2>1, <2>2
  <1>2. ASSUME NEW o \in Order
        PROVE  RowsFit(history[o], calls')
    <2>1. ASSUME NEW i \in 1 .. Len(history[o])
          PROVE  history[o][i].ended <= calls'
      <3>1. history[o] \in Seq(Rows) /\ calls \in Nat
        BY DEF TypeInv
      <3>2. history[o][i] \in Rows
        BY <3>1, ElementOfSeq
      <3>3. history[o][i].ended \in Nat
        BY <3>2 DEF Rows
      <3>4. QED BY <3>1, <3>3 DEF HistoryInv, RowsFit
    <2>2. QED BY <2>1 DEF HistoryInv, RowsFit
  <1>3. QED BY <1>1, <1>2 DEF HistoryInv, RowsFit, BeganBefore

LEMMA HistoryInvInductive ==
  /\ Init => HistoryInv
  /\ TypeInv /\ CheckoutInv /\ HistoryInv /\ [Next]_vars => HistoryInv'
  <1>1. Init => HistoryInv
    BY DEF Init, HistoryInv, RowsFit, InHook, Doing
  <1> SUFFICES ASSUME TypeInv, CheckoutInv, HistoryInv, [Next]_vars
               PROVE  HistoryInv'
    BY <1>1
  <1>2. TypeInv' /\ CheckoutInv'
    BY TypeInvInductive
  <1>3. CASE UNCHANGED vars
    BY <1>3 DEF vars, paymentVars, HistoryInv, RowsFit, BeganBefore, InHook, Doing
  <1>4. ASSUME NEW r \in Req, Quiet(r)
        PROVE  HistoryInv'
    <2>1. PICK t : Fresh(r, t) /\ task' = [task EXCEPT ![r] = t]
      BY <1>4, QuietStep
    <2>2. /\ task'[r] = t /\ \A q \in Req \ {r} : task'[q] = task[q]
          /\ UNCHANGED <<order, history>> /\ calls' \in Nat /\ calls <= calls' /\ calls \in Nat
      <3>1. UNCHANGED <<order, history>> /\ calls' \in {calls, calls + 1}
        BY <1>4, QuietStep DEF paymentVars
      <3>2. task \in [Req -> Task \cup {None}] /\ calls \in Nat
        BY DEF TypeInv
      <3>3. QED BY <2>1, <3>1, <3>2
    <2>3. ASSUME InHook(r)'
          PROVE  /\ t.begun <= calls'
                 /\ t.saw.status = "REQUIRES_PAYMENT" => BeganBefore(t, history[t.order])
      <3>1. /\ t \in Live /\ t.saw.status = order[t.order].status
            /\ \/ t.begun = calls + 1 /\ calls' = calls + 1
               \/ InHook(r) /\ t.begun = task[r].begun /\ calls' = calls
        BY <2>1, <2>2, <2>3 DEF Fresh, InHook, Doing, PriceTask, IntentTask
      <3>2. t.order \in Order /\ order[t.order] # None
        BY <3>1 DEF Live, HookTask
      <3>3. t.begun <= calls'
        BY <2>2, <3>1 DEF HistoryInv
      <3>4. t.saw.status = "REQUIRES_PAYMENT" => Len(history[t.order]) = 1
        BY <3>1, <3>2 DEF HistoryInv
      <3>5. QED BY <3>3, <3>4 DEF BeganBefore
    <2>4. QED BY <2>2, <2>3, HistoryKept
  <1>5. ASSUME NEW r \in Req, (\E o \in Order : CreateIntent(r, o)) \/ Answer(r)
        PROVE  HistoryInv'
    <2>1. PICK t \in OrderTask \cup {None} : task' = [task EXCEPT ![r] = t]
      BY <1>5, IntentCreated DEF Answer, End
    <2>2. UNCHANGED <<order, history, calls>>
      BY <1>5 DEF Answer, CreateIntent, End
    <2>3. ~InHook(r)'
      BY <2>1 DEF InHook, Doing, OrderTask, TypeInv
    <2>4. /\ \A q \in Req \ {r} : task'[q] = task[q]
          /\ calls' \in Nat /\ calls <= calls'
      BY <2>1, <2>2 DEF TypeInv
    <2>5. QED BY <2>2, <2>3, <2>4, HistoryKept
  <1>6. ASSUME NEW r \in Req, CreateOrder(r)
        PROVE  HistoryInv'
    <2>1. PICK o \in Order, y \in SupplyOrder, h \in Rows, t \in AnswerTask :
           /\ Doing(r, "order") /\ o = task[r].order
           /\ order' = [order EXCEPT ![o] = y] /\ history' = [history EXCEPT ![o] = <<h>>]
           /\ task' = [task EXCEPT ![r] = t]
           /\ h.to = "REQUIRES_PAYMENT" /\ h.begun = calls /\ h.ended = calls
           /\ UNCHANGED calls
      BY <1>6, OrderCreated
    <2>2. /\ history'[o] = <<h>> /\ task'[r] = t
          /\ \A p \in Order \ {o} : order'[p] = order[p] /\ history'[p] = history[p]
          /\ \A q \in Req \ {r} : task'[q] = task[q]
      BY <2>1 DEF TypeInv
    <2>3. /\ Len(history'[o]) = 1 /\ RowsFit(history'[o], calls)
      BY <2>1, <2>2 DEF RowsFit, TypeInv
    <2>4. ASSUME NEW q \in Req, InHook(q)'
          PROVE  /\ q # r /\ InHook(q) /\ task'[q] = task[q] /\ task[q].order \in Order
                 /\ task[q].order # o
      <3>1. q # r
        BY <2>2, <2>4 DEF InHook, Doing, AnswerTask
      <3>2. InHook(q) /\ task'[q] = task[q]
        BY <2>2, <2>4, <3>1 DEF InHook, Doing
      <3>3. task[q].order \in Order /\ order[task[q].order] # None
        BY <3>2, TaskOf DEF HookTask, CheckoutInv
      <3>4. order[o] = None
        BY <2>1 DEF CheckoutInv
      <3>5. QED BY <3>1, <3>2, <3>3, <3>4
    <2>5. ASSUME NEW p \in Order
          PROVE  /\ RowsFit(history'[p], calls)
                 /\ order'[p] # None =>
                      /\ Len(history'[p]) > 0
                      /\ order'[p].status = "REQUIRES_PAYMENT" => Len(history'[p]) = 1
      BY <2>2, <2>3 DEF HistoryInv
    <2>6. ASSUME NEW q \in Req, InHook(q)'
          PROVE  /\ task'[q].begun <= calls
                 /\ task'[q].saw.status = "REQUIRES_PAYMENT" =>
                      BeganBefore(task'[q], history'[task'[q].order])
      BY <2>2, <2>4, <2>6 DEF HistoryInv
    <2>7. QED BY <2>1, <2>5, <2>6 DEF HistoryInv, RowsFit, BeganBefore
  <1>7. ASSUME NEW r \in Req, HookCommit(r)
        PROVE  HistoryInv'
    <2>1. PICK t \in HookTask, o \in Order :
            t = task[r] /\ o = t.order /\ order[o] # None /\ InHook(r)
      BY <1>7, Committed, TaskOf DEF HookTask
    <2>2. /\ task' = [task EXCEPT ![r] = None] /\ calls' = calls /\ calls \in Nat
      BY <1>7, Committed DEF TypeInv
    <2>3. /\ \A q \in Req \ {r} : task'[q] = task[q]
          /\ ~InHook(r)'
      BY <2>2 DEF TypeInv, InHook, Doing
    <2>4. CASE UNCHANGED <<order, history>>
      BY <2>2, <2>3, <2>4, HistoryKept
    <2>5. ASSUME NEW x \in PaymentIntent, NEW y \in SupplyOrder, NEW h \in Rows,
                 Moved(t, x, y, h)
          PROVE  HistoryInv'
      <3>1. /\ order'[o] = y /\ history'[o] = Append(history[o], h)
            /\ \A p \in Order \ {o} : order'[p] = order[p] /\ history'[p] = history[p]
            /\ h.begun = t.begun /\ h.ended = calls
            /\ h.to = "CANCELLED" => t.saw.status = "REQUIRES_PAYMENT"
            /\ y.status # "REQUIRES_PAYMENT"
        BY <2>1, <2>5 DEF Moved, TypeInv
      <3>2. /\ history[o] \in Seq(Rows) /\ RowsFit(history[o], calls) /\ Len(history[o]) > 0
            /\ t.begun <= calls
            /\ t.saw.status = "REQUIRES_PAYMENT" => BeganBefore(t, history[o])
        BY <2>1 DEF HistoryInv, TypeInv
      <3>3. h.to = "CANCELLED" => BeganBefore(h, history[o])
        BY <3>1, <3>2 DEF BeganBefore
      <3>4. /\ Len(history'[o]) = Len(history[o]) + 1 /\ RowsFit(history'[o], calls)
            /\ \A k : k.begun \in Nat /\ k.begun <= calls /\ BeganBefore(k, history[o]) =>
                  BeganBefore(k, history'[o])
        BY <2>2, <3>1, <3>2, <3>3, RowAdded
      <3>5. Len(history[o]) \in Nat
        BY <3>2
      <3>6. ASSUME NEW p \in Order
            PROVE  /\ RowsFit(history'[p], calls)
                   /\ order'[p] # None =>
                        /\ Len(history'[p]) > 0
                        /\ order'[p].status = "REQUIRES_PAYMENT" => Len(history'[p]) = 1
        <4>1. Len(history'[o]) > 0
          BY <3>4, <3>5
        <4>2. RowsFit(history'[o], calls) /\ order'[o].status # "REQUIRES_PAYMENT"
          BY <3>1, <3>4
        <4>3. CASE p = o
          BY <4>1, <4>2, <4>3
        <4>4. CASE p # o
          BY <3>1, <4>4 DEF HistoryInv
        <4>5. QED BY <4>3, <4>4
      <3>7. ASSUME NEW q \in Req, InHook(q)'
            PROVE  /\ task'[q].begun <= calls
                   /\ task'[q].saw.status = "REQUIRES_PAYMENT" =>
                        BeganBefore(task'[q], history'[task'[q].order])
        <4>1. q # r /\ task'[q] = task[q] /\ InHook(q)
          BY <2>3, <3>7 DEF InHook, Doing
        <4>2. PICK k \in HookTask : k = task[q]
          BY <4>1, TaskOf
        <4>3. k.order \in Order /\ k.begun \in Nat
          BY <4>2 DEF HookTask
        <4>4. /\ k.begun <= calls
              /\ k.saw.status = "REQUIRES_PAYMENT" => BeganBefore(k, history[k.order])
          BY <4>1, <4>2 DEF HistoryInv
        <4>5. k.saw.status = "REQUIRES_PAYMENT" => BeganBefore(k, history'[k.order])
          BY <3>1, <3>4, <4>3, <4>4
        <4>6. QED BY <4>1, <4>2, <4>4, <4>5
      <3>8. QED BY <2>2, <3>6, <3>7 DEF HistoryInv, RowsFit, BeganBefore
    <2>6. ASSUME NEW x \in PaymentIntent, Refused(t, x)
          PROVE  HistoryInv'
      BY <2>4, <2>6 DEF Refused
    <2>7. QED BY <1>7, <2>1, <2>4, <2>5, <2>6, Committed
  <1>8. QED BY <1>3, <1>4, <1>5, <1>6, <1>7, StepsSplit

\* A failure that cancels an order overlapped the payment it follows.
THEOREM PaidCancelledTogether == Spec => []PaidCancelledOnlyTogether
  <1>1. TypeInv /\ HistoryInv => PaidCancelledOnlyTogether
    <2> SUFFICES ASSUME TypeInv, HistoryInv, NEW o \in Order, NEW i \in DOMAIN history[o] \ {1},
                        history[o][i].to = "CANCELLED",
                        history[o][i - 1].to = "WAITING_ON_SUPPLIER"
                 PROVE  Together(history[o][i - 1], history[o][i])
      BY DEF PaidCancelledOnlyTogether
    <2>1. history[o] \in Seq(Rows)
      BY DEF TypeInv
    <2>2. i \in 1 .. Len(history[o]) /\ i > 1 /\ i - 1 \in 1 .. Len(history[o])
      BY <2>1
    <2>3. i - 1 # 1
      BY <2>2 DEF HistoryInv, RowsFit
    <2>4. QED BY <2>2, <2>3 DEF HistoryInv, RowsFit
  <1>2. QED BY <1>1, TypeInvInductive, HistoryInvInductive, PTL DEF Spec
=============================================================================
