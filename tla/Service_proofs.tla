---------------------------- MODULE Service_proofs ----------------------------
(***************************************************************************)
(* Proofs about an order's life: that it is completed when its last item   *)
(* is served, and that the services implement Ticket, while orders are not *)
(* edited; and that it is paid once, and keeps its items, while requests   *)
(* do not overlap.  All of it for any number of orders, items and, but for *)
(* the last part, requests.                                                *)
(***************************************************************************)
EXTENDS Service, Kitchen_proofs

-----------------------------------------------------------------------------
(* Where each action leaves its handler. *)

\* The locals of the others stay, and r's are q.
LEMMA GoValues ==
  ASSUME TypeInv, NEW r \in Requests, NEW q, Go(r, q)
  PROVE  /\ req'[r] = q /\ DOMAIN req' = Requests
         /\ \A s \in Requests \ {r} : req'[s] = req[s]
BY DEF Go, TypeInv, TypeOK, RequestsOK

Others(r) == DOMAIN req' = Requests /\ \A s \in Requests \ {r} : req'[s] = req[s]

\* The handler is done.
Done(r) == Others(r) /\ req'[r] = Idle /\ ids' = ids

LEMMA IdleValues ==
  /\ Idle.pc = "idle" /\ Idle.order = NoOrder /\ Idle.status = Keep /\ Idle.held = NoRows
  /\ Idle.built = NoRows /\ Idle.item = 0 /\ DOMAIN NoRows = {}
BY DEF Idle, NoRows

LEMMA FinishDone ==
  ASSUME TypeInv, NEW r \in Requests, Finish(r), ids' = ids
  PROVE  Done(r)
BY GoValues DEF Finish, Done, Others

\* What a handler is after it has moved on within its operation.
Onward(r, stage) ==
  /\ Others(r) /\ req'[r].pc = stage /\ req'[r].order = req[r].order
  /\ req'[r].item = req[r].item /\ req'[r].held = req[r].held /\ ids' = ids

LEMMA IdsKnown ==
  ASSUME TypeInv
  PROVE  /\ ids.order \in Nat /\ ids.item \in Nat /\ ids.payment \in Nat
         /\ DOMAIN ids = {"order", "item", "payment"}
         /\ \A r \in Requests : LocalsOK(req[r]) /\ StageOK(req[r])
BY HandlerOK DEF TypeInv, TypeOK, TablesOK, IdCounts

LEMMA CreateOrderMoves ==
  ASSUME TypeInv, NEW r \in Requests, CreateOrder(r)
  PROVE  /\ Others(r) /\ req'[r].pc = "build" /\ req'[r].order = ids.order + 1
         /\ req'[r].status = "NEW" /\ req'[r].held = NoRows /\ req'[r].built = NoRows
         /\ req'[r].op = "create" /\ ids'.payment = ids.payment
         /\ ids'.order = ids.order + 1 /\ UNCHANGED db /\ At(r, "idle") /\ "create" \in Ops
<1>1. PICK cart, p :
        /\ Go(r, p)
        /\ p = [[Idle EXCEPT !.pc = "build", !.order = ids.order + 1,
                             !.item = ids.item + 1, !.status = "NEW",
                             !.lines = cart] EXCEPT !.op = "create"]
        /\ ids' = [ids EXCEPT !.order = ids.order + 1, !.item = ids.item + Len(cart)]
        /\ UNCHANGED db /\ At(r, "idle") /\ "create" \in Ops
  BY DEF CreateOrder, Accept
<1>2. /\ p.pc = "build" /\ p.order = ids.order + 1 /\ p.status = "NEW" /\ p.held = NoRows
      /\ p.built = NoRows /\ p.op = "create"
  BY <1>1 DEF Idle
<1>3. ids'.order = ids.order + 1 /\ ids'.payment = ids.payment
  BY <1>1, IdsKnown
<1> QED BY <1>1, <1>2, <1>3, GoValues DEF Others

LEMMA LoadForUpdateMoves ==
  ASSUME TypeInv, NEW r \in Requests, LoadForUpdate(r)
  PROVE  /\ Others(r) /\ req'[r].order \in DOMAIN orders
         /\ req'[r].pc \in {"clear", "build", "save"}
         /\ req'[r].held = HeldCopy(req'[r].order) /\ req'[r].built = NoRows
         /\ req'[r].op = "update" /\ ids'.payment = ids.payment
         /\ ids'.order = ids.order /\ UNCHANGED db /\ At(r, "idle") /\ "update" \in Ops
<1>1. PICK o, patch, cart, p :
        /\ o \in DOMAIN orders
        /\ Go(r, p)
        /\ p = [[Idle EXCEPT !.pc = UpdateFrom(o, cart), !.order = o,
                             !.item = ids.item + 1, !.status = Assign(o, patch),
                             !.held = HeldCopy(o), !.lines = cart]
                  EXCEPT !.op = "update"]
        /\ ids' = [ids EXCEPT !.item = ids.item + Len(cart)]
        /\ UNCHANGED db /\ At(r, "idle") /\ "update" \in Ops
  BY DEF LoadForUpdate, Accept
<1>2. /\ p.pc = UpdateFrom(o, cart) /\ p.order = o /\ p.held = HeldCopy(o) /\ p.built = NoRows
      /\ p.op = "update"
  BY <1>1 DEF Idle
<1>3. UpdateFrom(o, cart) \in {"clear", "build", "save"}
  BY DEF UpdateFrom
<1>4. ids'.order = ids.order /\ ids'.payment = ids.payment
  BY <1>1, IdsKnown
<1> QED BY <1>1, <1>2, <1>3, <1>4, GoValues DEF Others

LEMMA LoadForRemoveMoves ==
  ASSUME TypeInv, NEW r \in Requests, LoadForRemove(r)
  PROVE  /\ Others(r) /\ req'[r].pc = "delete" /\ req'[r].order \in DOMAIN orders
         /\ ids' = ids /\ UNCHANGED db /\ At(r, "idle") /\ "remove" \in Ops
<1>1. PICK o, p :
        /\ o \in DOMAIN orders
        /\ Go(r, p) /\ p = [[Idle EXCEPT !.pc = "delete", !.order = o] EXCEPT !.op = "remove"]
        /\ ids' = ids /\ UNCHANGED db /\ At(r, "idle") /\ "remove" \in Ops
  BY DEF LoadForRemove, Accept
<1>2. p.pc = "delete" /\ p.order = o
  BY <1>1 DEF Idle
<1> QED BY <1>1, <1>2, GoValues DEF Others

LEMMA LoadTaskMoves ==
  ASSUME TypeInv, NEW r \in Requests, LoadTask(r)
  PROVE  /\ Others(r) /\ req'[r].pc = "saveTask" /\ req'[r].item \in DOMAIN tasks
         /\ req'[r].item \in DOMAIN items /\ req'[r].order = items[req'[r].item].order
         /\ req'[r].held = NoRows /\ ids' = ids /\ UNCHANGED db /\ At(r, "idle")
<1>1. PICK i, status, p :
        /\ i \in DOMAIN tasks
        /\ Go(r, p)
        /\ p = [[Idle EXCEPT !.pc = "saveTask", !.item = i, !.status = status,
                             !.order = items[i].order] EXCEPT !.op = "serve"]
        /\ ids' = ids /\ UNCHANGED db /\ At(r, "idle")
  BY DEF LoadTask, Accept
<1>2. p.pc = "saveTask" /\ p.item = i /\ p.order = items[i].order /\ p.held = NoRows
  BY <1>1 DEF Idle
<1>3. i \in DOMAIN items
  BY <1>1 DEF TypeInv, RefInt
<1> QED BY <1>1, <1>2, <1>3, GoValues DEF Others

LEMMA LoadForPayMoves ==
  ASSUME TypeInv, NEW r \in Requests, LoadForPay(r)
  PROVE  /\ Others(r) /\ req'[r].pc = "check" /\ req'[r].order \in DOMAIN orders
         /\ req'[r].held = HeldCopy(req'[r].order)
         /\ req'[r].item = ids.payment + 1 /\ ids'.payment = ids.payment + 1
         /\ ids'.order = ids.order /\ UNCHANGED db /\ At(r, "idle")
<1>1. PICK o, p :
        /\ o \in DOMAIN orders
        /\ Go(r, p)
        /\ p = [[Idle EXCEPT !.pc = "check", !.order = o, !.item = ids.payment + 1,
                             !.held = HeldCopy(o)] EXCEPT !.op = "pay"]
        /\ ids' = [ids EXCEPT !.payment = ids.payment + 1]
        /\ UNCHANGED db /\ At(r, "idle")
  BY DEF LoadForPay, Accept
<1>2. p.pc = "check" /\ p.order = o /\ p.held = HeldCopy(o) /\ p.item = ids.payment + 1
  BY <1>1 DEF Idle
<1>3. ids'.order = ids.order /\ ids'.payment = ids.payment + 1
  BY <1>1, IdsKnown
<1> QED BY <1>1, <1>2, <1>3, GoValues DEF Others

LEMMA ClearItemsMoves ==
  ASSUME TypeInv, NEW r \in Requests, ClearItems(r)
  PROVE  /\ Others(r) /\ At(r, "clear") /\ req'[r].pc = "build"
         /\ req'[r].order = req[r].order /\ req'[r].held = NoRows
         /\ req'[r].built = req[r].built /\ req'[r].op = req[r].op /\ ids' = ids
<1>1. PICK p : Go(r, p) /\ p = [req[r] EXCEPT !.pc = "build", !.held = NoRows]
               /\ At(r, "clear") /\ ids' = ids
  BY DEF ClearItems
<1>2. /\ p.pc = "build" /\ p.order = req[r].order /\ p.held = NoRows
      /\ p.built = req[r].built /\ p.op = req[r].op
  BY <1>1, IdsKnown DEF LocalsOK, Idle
<1> QED BY <1>1, <1>2, GoValues DEF Others

LEMMA BuildItemMoves ==
  ASSUME TypeInv, NEW r \in Requests, BuildItem(r)
  PROVE  /\ Others(r) /\ At(r, "build") /\ req'[r].pc \in {"build", "save"}
         /\ req'[r].order = req[r].order /\ req'[r].held = req[r].held
         /\ req'[r].status = req[r].status /\ req'[r].op = req[r].op
         /\ req'[r].built # NoRows /\ ids' = ids /\ UNCHANGED db
<1>1. PICK row, p :
        /\ Go(r, p)
        /\ p = [req[r] EXCEPT !.pc = IF Len(req[r].lines) = 1 THEN "save" ELSE "build",
                              !.lines = Tail(req[r].lines),
                              !.item = req[r].item + 1,
                              !.built = Put(Row(req[r].item, row), req[r].built)]
        /\ At(r, "build") /\ ids' = ids /\ UNCHANGED db
  BY DEF BuildItem
<1>2. /\ p.pc \in {"build", "save"} /\ p.order = req[r].order /\ p.held = req[r].held
      /\ p.status = req[r].status /\ p.op = req[r].op
      /\ p.built = Put(Row(req[r].item, row), req[r].built)
  BY <1>1, IdsKnown DEF LocalsOK, Idle
<1>3. p.built # NoRows
  <2>1. req[r].item \in DOMAIN p.built /\ DOMAIN NoRows = {}
    BY <1>2 DEF Put, Row, NoRows
  <2> QED BY <2>1
<1> QED BY <1>1, <1>2, <1>3, GoValues DEF Others

LEMMA SaveTaskMoves ==
  ASSUME TypeInv, NEW r \in Requests, SaveTask(r)
  PROVE  IF req[r].order = NoOrder THEN Done(r) ELSE Onward(r, "sync")
<1>1. CASE req[r].order = NoOrder
  BY <1>1, FinishDone DEF SaveTask
<1>2. CASE req[r].order # NoOrder
  <2>1. PICK p : Go(r, p) /\ p = [req[r] EXCEPT !.pc = "sync"] /\ ids' = ids
    BY <1>2 DEF SaveTask
  <2>2. /\ p.pc = "sync" /\ p.order = req[r].order /\ p.item = req[r].item
        /\ p.held = req[r].held
    BY <2>1, IdsKnown DEF LocalsOK, Idle
  <2> QED BY <1>2, <2>1, <2>2, GoValues DEF Onward, Others
<1> QED BY <1>1, <1>2

LEMMA SyncCompletionMoves ==
  ASSUME TypeInv, NEW r \in Requests, SyncCompletion(r)
  PROVE  /\ IF MustComplete(req[r].order) THEN Onward(r, "complete") ELSE Done(r)
         /\ At(r, "sync") /\ UNCHANGED db
<1>1. CASE ~MustComplete(req[r].order)
  BY <1>1, FinishDone DEF SyncCompletion
<1>2. CASE MustComplete(req[r].order)
  <2>1. PICK p : Go(r, p) /\ p = [req[r] EXCEPT !.pc = "complete", !.status = "COMPLETED"]
                 /\ ids' = ids
    BY <1>2 DEF SyncCompletion
  <2>2. /\ p.pc = "complete" /\ p.order = req[r].order /\ p.item = req[r].item
        /\ p.held = req[r].held
    BY <2>1, IdsKnown DEF LocalsOK, Idle
  <2> QED BY <1>2, <2>1, <2>2, GoValues DEF SyncCompletion, Onward, Others
<1> QED BY <1>1, <1>2

LEMMA CheckPaymentMoves ==
  ASSUME TypeInv, NEW r \in Requests, CheckPayment(r)
  PROVE  /\ Onward(r, "charge") /\ At(r, "check") /\ PaymentsOf(req[r].order) = {}
         /\ req'[r].bill.amount = Total(req[r].held) /\ UNCHANGED db
<1>1. PICK body, p :
        /\ Go(r, p)
        /\ p = [req[r] EXCEPT !.pc = "charge", !.bill = Bill(body, Total(req[r].held))]
        /\ At(r, "check") /\ ~AlreadyPaid(req[r].order) /\ ids' = ids /\ UNCHANGED db
  BY DEF CheckPayment
<1>2. /\ p.pc = "charge" /\ p.order = req[r].order /\ p.item = req[r].item
      /\ p.held = req[r].held /\ p.bill = Bill(body, Total(req[r].held))
  BY <1>1, IdsKnown DEF LocalsOK, Idle
<1>3. p.bill.amount = Total(req[r].held)
  BY <1>2 DEF Bill
<1> QED BY <1>1, <1>2, <1>3, GoValues DEF Onward, Others, AlreadyPaid

-----------------------------------------------------------------------------
(* Order ids are handed out once. *)

OrdersHanded ==
  /\ \A o \in DOMAIN orders : o <= ids.order
  /\ \A r \in Requests : req[r].order <= ids.order

\* A step that gives its handler no order but a row's, an item's or the next.
LEMMA HandedStep ==
  ASSUME TypeInv, OrdersHanded, NEW r \in Requests, Others(r),
         ids'.order \in Nat, ids.order <= ids'.order,
         DOMAIN orders' \subseteq DOMAIN orders \cup {req[r].order},
         \/ req'[r].order \in DOMAIN orders \cup {req[r].order, NoOrder}
         \/ req'[r].order = ids'.order
  PROVE  OrdersHanded'
<1>1. /\ \A o \in DOMAIN orders : o \in Nat /\ o <= ids.order
      /\ \A s \in Requests : req[s].order \in Nat /\ req[s].order <= ids.order
  BY IdsKnown, BoundsAreNat
     DEF OrdersHanded, TypeInv, TypeOK, TablesOK, Table, LocalsOK, OrderIds, NoOrder
<1>2. ids.order \in Nat
  BY IdsKnown
<1>3. \A o \in DOMAIN orders' : o <= ids'.order
  BY <1>1, <1>2
<1>4. \A s \in Requests \ {r} : req'[s].order <= ids'.order
  BY <1>1, <1>2 DEF Others
<1>5. req'[r].order <= ids'.order
  BY <1>1, <1>2 DEF NoOrder
<1> QED BY <1>3, <1>4, <1>5 DEF OrdersHanded

\* A step that ends its request, or leaves it with the order it had.
LEMMA SameOrderHanded ==
  ASSUME TypeInv, OrdersHanded, NEW r \in Requests, ids' = ids,
         DOMAIN orders' \subseteq DOMAIN orders \cup {req[r].order},
         Done(r) \/ (Others(r) /\ req'[r].order = req[r].order)
  PROVE  OrdersHanded'
BY HandedStep, IdsKnown, IdleValues DEF Done

LEMMA NextHanded ==
  ASSUME TypeInv, OrdersHanded, [Next]_vars
  PROVE  OrdersHanded'
<1>1. ASSUME NEW r \in Requests, OrdersRequest(r) \/ LoadTask(r) \/ LoadForPay(r)
      PROVE  OrdersHanded'
  <2>1. CASE CreateOrder(r)
    BY <2>1, CreateOrderMoves, HandedStep, IdsKnown DEF db
  <2>2. CASE LoadForUpdate(r)
    BY <2>2, LoadForUpdateMoves, HandedStep, IdsKnown DEF db
  <2>3. CASE LoadForRemove(r)
    BY <2>3, LoadForRemoveMoves, HandedStep, IdsKnown DEF db
  <2>4. CASE LoadTask(r)
    BY <2>4, LoadTaskMoves, HandedStep, IdsKnown DEF db, TypeInv, RefInt
  <2>5. CASE LoadForPay(r)
    BY <2>5, LoadForPayMoves, HandedStep, IdsKnown DEF db
  <2> QED BY <1>1, <2>1, <2>2, <2>3, <2>4, <2>5 DEF OrdersRequest
<1>2. ASSUME NEW r \in Requests, OrdersStep(r)
      PROVE  OrdersHanded'
  <2>1. CASE ClearItems(r)
    BY <2>1, ClearItemsMoves, SameOrderHanded DEF ClearItems
  <2>2. CASE BuildItem(r)
    BY <2>2, BuildItemMoves, SameOrderHanded DEF db
  <2>3. CASE RejectItem(r)
    BY <2>3, FinishDone, SameOrderHanded DEF RejectItem, db
  <2>4. CASE SaveBuilt(r)
    <3>1. DOMAIN orders' \subseteq DOMAIN orders \cup {req[r].order}
      BY <2>4 DEF SaveBuilt, SaveOrder, SaveOrderRow, Put, Row
    <3> QED BY <2>4, <3>1, FinishDone, SameOrderHanded DEF SaveBuilt
  <2>5. CASE RemoveOrder(r)
    <3>1. DOMAIN orders' \subseteq DOMAIN orders
      BY <2>5 DEF RemoveOrder, DeleteOrderRow, Without, Restrict
    <3> QED BY <2>5, <3>1, FinishDone, SameOrderHanded DEF RemoveOrder
  <2> QED BY <1>2, <2>1, <2>2, <2>3, <2>4, <2>5 DEF OrdersStep
<1>3. ASSUME NEW r \in Requests, StationItemsStep(r) \/ PaymentsStep(r)
      PROVE  OrdersHanded'
  <2>1. CASE SaveTask(r)
    BY <2>1, SaveTaskMoves, SameOrderHanded DEF SaveTask, Onward, Done
  <2>2. CASE RejectTask(r) \/ RefusePayment(r) \/ ChargeOrder(r) \/ ChargeFails(r)
    BY <2>2, FinishDone, SameOrderHanded
       DEF RejectTask, RefusePayment, ChargeOrder, ChargeFails, db
  <2>3. CASE SyncCompletion(r)
    BY <2>3, SyncCompletionMoves, SameOrderHanded DEF SyncCompletion, Onward, Done, db
  <2>4. CASE CompleteOrder(r)
    <3>1. DOMAIN orders' \subseteq DOMAIN orders \cup {req[r].order}
      BY <2>4 DEF CompleteOrder, SaveOrderRow, Put, Row
    <3> QED BY <2>4, <3>1, FinishDone, SameOrderHanded DEF CompleteOrder
  <2>5. CASE CheckPayment(r)
    BY <2>5, CheckPaymentMoves, SameOrderHanded DEF Onward, db
  <2> QED BY <1>3, <2>1, <2>2, <2>3, <2>4, <2>5 DEF StationItemsStep, PaymentsStep
<1>4. CASE \E p \in Products : ChangeMenu(p)
  BY <1>4 DEF ChangeMenu, db, OrdersHanded
<1>5. CASE Restart
  <2>1. \A r \in Requests : req'[r].order = 0
    BY <1>5, IdleValues DEF Restart, NoOrder
  <2> QED BY <1>5, <2>1, IdsKnown DEF Restart, db, OrdersHanded
<1>6. CASE UNCHANGED vars
  BY <1>6 DEF vars, OrdersHanded
<1> QED BY <1>1, <1>2, <1>3, <1>4, <1>5, <1>6 DEF Next, Step, Request

LEMMA HandedHolds == Spec => []OrdersHanded
<1>1. Init => OrdersHanded
  <2> SUFFICES ASSUME Init PROVE OrdersHanded
    OBVIOUS
  <2>1. DOMAIN orders = {} /\ ids.order = 0 /\ \A r \in Requests : req[r].order = 0
    BY IdleValues DEF Init, NoOrder, NoRows
  <2> QED BY <2>1 DEF OrdersHanded
<1>2. TypeInv /\ OrdersHanded /\ [Next]_vars => OrdersHanded'
  BY NextHanded
<1> QED BY <1>1, <1>2, TypeInvHolds, PTL DEF Spec

-----------------------------------------------------------------------------
(* Serving, while no order is edited and the process runs on. *)

NoUpdates == Ops \cap {"update", "restart"} = {}

\* A new order is unknown to everybody but the handler that makes it.
MakesNew(r) ==
  req[r].pc \in {"build", "save"} =>
    /\ req[r].held = NoRows /\ req[r].status = "NEW" /\ req[r].order \notin DOMAIN orders
    /\ \A s \in Requests \ {r} : req[s].order # req[r].order

\* A handler that is about to save a station item knows its order, and if
\* the item was deleted meanwhile no new one takes its id.
KnowsItsOrder(r) ==
  At(r, "saveTask") =>
    /\ req[r].item \in Handed
    /\ \A s \in Requests : req[r].item \notin Reserved(req[s])
    /\ req[r].item \in DOMAIN items => items[req[r].item].order = req[r].order

InService ==
  /\ NoUpdates
  /\ \A r \in Requests : ~At(r, "clear") /\ MakesNew(r) /\ KnowsItsOrder(r)

\* A step that ends a request touches no items, or removes some.
LEMMA StepHarmlessEnds ==
  ASSUME TypeInv, NEW r \in Requests,
         \/ RejectItem(r) \/ RejectTask(r) \/ RefusePayment(r) \/ ChargeOrder(r)
         \/ ChargeFails(r) \/ CompleteOrder(r) \/ RemoveOrder(r)
  PROVE  \E q : Harmless(r, q)
<1>1. Finish(r) /\ ids' = ids
  BY DEF RejectItem, RejectTask, RefusePayment, ChargeOrder, ChargeFails, CompleteOrder,
         RemoveOrder, db
<1>2. DOMAIN items' \subseteq DOMAIN items /\ \A i \in DOMAIN items' : items'[i] = items[i]
  BY DEF RejectItem, RejectTask, RefusePayment, ChargeOrder, ChargeFails, CompleteOrder,
         RemoveOrder, DeleteOrderRow, DeleteItems, Without, Restrict, db
<1>3. Harmless(r, Idle)
  BY <1>1, <1>2, FinishHarmless
<1> QED BY <1>3

\* What a harmless step leaves of the items and the ids.
LEMMA HarmlessValues ==
  ASSUME TypeInv, NEW r \in Requests, \E q : Harmless(r, q)
  PROVE  /\ Handed \subseteq Handed'
         /\ \A k \in Reserved(req'[r]) : k \in Reserved(req[r]) \/ k \notin Handed
         /\ DOMAIN items' \subseteq DOMAIN items
         /\ \A i \in DOMAIN items' : items'[i] = items[i]
<1>1. PICK q : Harmless(r, q)
  OBVIOUS
<1>2. req'[r] = q
  BY <1>1, GoValues DEF Harmless
<1>3. ids.item \in Nat /\ ids'.item \in Nat /\ ids.item <= ids'.item
  BY <1>1, IdsKnown DEF Harmless
<1> QED BY <1>1, <1>2, <1>3 DEF Harmless, Handed

\* The other handlers still know what they knew.
LEMMA ServingStep ==
  ASSUME TypeInv, OrdersHanded, SnapInv, InService, NEW r \in Requests, Others(r),
         \E q : Harmless(r, q),
         DOMAIN orders' \subseteq DOMAIN orders \cup {req[r].order},
         req'[r].order \in DOMAIN orders \cup {req[r].order, NoOrder, ids.order + 1},
         ~At(r, "clear")', MakesNew(r)', KnowsItsOrder(r)'
  PROVE  InService'
<1>1. ASSUME NEW s \in Requests, s # r
      PROVE  ~At(s, "clear")' /\ MakesNew(s)' /\ KnowsItsOrder(s)'
  <2>1. req'[s] = req[s] /\ ~At(s, "clear") /\ MakesNew(s) /\ KnowsItsOrder(s)
    BY <1>1 DEF InService, Others
  <2>2. req[s].pc \in {"build", "save"} => req[s].order # NoOrder /\ req[s].order # ids.order + 1
    BY <1>1, IdsKnown DEF StageOK, OrderIds, NoOrder, OrdersHanded
  <2>3. MakesNew(s)'
    BY <1>1, <2>1, <2>2 DEF MakesNew, Others
  <2>4. KnowsItsOrder(s)'
    BY <1>1, <2>1, HarmlessValues DEF KnowsItsOrder, Others, At
  <2> QED BY <2>1, <2>3, <2>4 DEF At
<1> QED BY <1>1 DEF InService, NoUpdates

\* A handler that ends.
LEMMA ServingDone ==
  ASSUME TypeInv, OrdersHanded, SnapInv, InService, NEW r \in Requests, Done(r),
         \E q : Harmless(r, q),
         DOMAIN orders' \subseteq DOMAIN orders \cup {req[r].order}
  PROVE  InService'
<1>1. ~At(r, "clear")' /\ MakesNew(r)' /\ KnowsItsOrder(r)'
  BY IdleValues DEF Done, At, MakesNew, KnowsItsOrder
<1> QED BY <1>1, ServingStep, IdleValues DEF Done

\* A handler that moves on, with the order and the item it had.
LEMMA ServingOnward ==
  ASSUME TypeInv, OrdersHanded, SnapInv, InService, NEW r \in Requests,
         NEW stage \in {"sync", "complete", "charge"}, Onward(r, stage),
         \E q : Harmless(r, q), orders' = orders
  PROVE  InService'
<1>1. ~At(r, "clear")' /\ MakesNew(r)' /\ KnowsItsOrder(r)'
  BY DEF Onward, At, MakesNew, KnowsItsOrder
<1> QED BY <1>1, ServingStep DEF Onward

\* What the save of a new order writes.
LEMMA SaveNew ==
  ASSUME TypeInv, SnapInv, InService, NEW r \in Requests, SaveBuilt(r)
  PROVE  LET o == req[r].order  fresh == DOMAIN req[r].built
         IN  /\ o \in OrderIds /\ o \notin DOMAIN orders
             /\ DOMAIN orders' = DOMAIN orders \cup {o} /\ orders'[o] = "NEW"
             /\ \A x \in DOMAIN orders : orders'[x] = orders[x]
             /\ fresh \subseteq Reserved(req[r]) /\ fresh \cap DOMAIN items = {}
             /\ DOMAIN items' = DOMAIN items \cup fresh
             /\ \A i \in DOMAIN items : items'[i] = items[i] /\ items[i].order # o
             /\ \A i \in fresh : items'[i].order = o
             /\ DOMAIN tasks' = DOMAIN tasks \cup fresh
             /\ \A i \in DOMAIN tasks : tasks'[i] = tasks[i]
             /\ \A i \in fresh : tasks'[i] = "pending"
<1> DEFINE q == req[r]
           o == q.order
           attach(rows) == [i \in DOMAIN rows |-> [order |-> o, line |-> rows[i]]]
           detach(row) == IF row.order = o THEN [row EXCEPT !.order = NoOrder] ELSE row
           rest == [i \in DOMAIN items |-> detach(items[i])]
<1>1. q.pc = "save" /\ q.held = NoRows /\ q.status = "NEW" /\ o \notin DOMAIN orders
  BY DEF SaveBuilt, At, InService, MakesNew
<1>2. o \in OrderIds /\ o # NoOrder
  BY <1>1, IdsKnown DEF StageOK, OrderIds, NoOrder
<1>3. \A i \in DOMAIN items : items[i].order # o
  BY <1>1, <1>2 DEF TypeInv, RefInt
<1>4. /\ DOMAIN orders' = DOMAIN orders \cup {o} /\ orders'[o] = "NEW"
      /\ \A x \in DOMAIN orders : orders'[x] = orders[x]
  BY <1>1 DEF SaveBuilt, SaveOrder, SaveOrderRow, Put, Row
<1>5. /\ DOMAIN q.built \subseteq Reserved(q)
      /\ DOMAIN q.built \cap DOMAIN items = {}
  BY <1>1 DEF Reserved, SnapInv, IdsFresh
<1>6. items' = Put(attach(q.built), Put(attach(q.held), rest))
  BY DEF SaveBuilt, SaveOrder
<1>7. DOMAIN rest = DOMAIN items /\ \A i \in DOMAIN items : rest[i] = items[i]
  BY <1>3
<1>8. DOMAIN attach(q.held) = {}
  BY <1>1, IdleValues
<1>9. DOMAIN attach(q.built) = DOMAIN q.built /\ \A i \in DOMAIN q.built : attach(q.built)[i].order = o
  OBVIOUS
<1> HIDE DEF attach, rest
<1>10. /\ DOMAIN items' = DOMAIN items \cup DOMAIN q.built
       /\ \A i \in DOMAIN items : items'[i] = items[i]
       /\ \A i \in DOMAIN q.built : items'[i].order = o
  BY <1>5, <1>6, <1>7, <1>8, <1>9 DEF Put
<1>11. DOMAIN tasks \subseteq DOMAIN items
  BY DEF TypeInv, RefInt
<1>12. /\ DOMAIN tasks' = DOMAIN tasks \cup DOMAIN q.built
       /\ \A i \in DOMAIN tasks : tasks'[i] = tasks[i]
       /\ \A i \in DOMAIN q.built : tasks'[i] = "pending"
  BY <1>5, <1>11 DEF SaveBuilt, SaveOrder, InsertTasks, Put
<1> QED BY <1>1, <1>2, <1>3, <1>4, <1>5, <1>10, <1>12

LEMMA SaveBuiltServing ==
  ASSUME TypeInv, OrdersHanded, SnapInv, InService, NEW r \in Requests, SaveBuilt(r)
  PROVE  InService'
<1>1. Done(r)
  BY FinishDone DEF SaveBuilt
<1>2. ~At(r, "clear")' /\ MakesNew(r)' /\ KnowsItsOrder(r)'
  BY <1>1, IdleValues DEF Done, At, MakesNew, KnowsItsOrder
<1>3. Reserved(req'[r]) = {}
  BY <1>1, IdleValues DEF Done, Reserved
<1>4. ASSUME NEW s \in Requests, s # r
      PROVE  ~At(s, "clear")' /\ MakesNew(s)' /\ KnowsItsOrder(s)'
  <2>1. req'[s] = req[s] /\ ~At(s, "clear") /\ MakesNew(s) /\ KnowsItsOrder(s) /\ MakesNew(r)
    BY <1>1, <1>4 DEF InService, Done, Others
  <2>2. req[r].pc = "save"
    BY DEF SaveBuilt, At
  <2>3. req[s].pc \in {"build", "save"} => req[s].order # NoOrder
    BY <1>4, IdsKnown DEF StageOK, OrderIds, NoOrder
  <2>4. MakesNew(s)'
    <3>1. DOMAIN orders' = DOMAIN orders \cup {req[r].order}
      BY SaveNew
    <3> QED BY <1>1, <1>4, <2>1, <2>3, <3>1, IdleValues DEF MakesNew, Done, Others
  <2>5. Handed' = Handed
    BY <1>1 DEF Done, Handed
  <2>6. KnowsItsOrder(s)'
    <3>1. SUFFICES ASSUME At(s, "saveTask")
                   PROVE  /\ req[s].item \in Handed
                          /\ \A u \in Requests : req[s].item \notin Reserved(req'[u])
                          /\ req[s].item \in DOMAIN items' =>
                               items'[req[s].item].order = req[s].order
      BY <2>1, <2>5 DEF KnowsItsOrder, At
    <3>2. /\ req[s].item \in Handed /\ \A u \in Requests : req[s].item \notin Reserved(req[u])
          /\ req[s].item \in DOMAIN items => items[req[s].item].order = req[s].order
      BY <2>1, <3>1 DEF KnowsItsOrder
    <3>3. /\ DOMAIN items' = DOMAIN items \cup DOMAIN req[r].built
          /\ DOMAIN req[r].built \subseteq Reserved(req[r])
          /\ \A i \in DOMAIN items : items'[i] = items[i]
      BY SaveNew
    <3> QED BY <1>1, <1>3, <3>2, <3>3 DEF Done, Others
  <2> QED BY <2>1, <2>4, <2>6 DEF At
<1> QED BY <1>2, <1>4 DEF InService, NoUpdates

LEMMA NextServing ==
  ASSUME TypeInv, OrdersHanded, SnapInv, InService, [Next]_vars
  PROVE  InService'
<1>1. ASSUME NEW r \in Requests, OrdersRequest(r) \/ LoadTask(r) \/ LoadForPay(r)
      PROVE  InService'
  <2>1. \E q : Harmless(r, q)
    BY <1>1, CreateOrderHarmless, LoadForUpdateHarmless, AcceptHarmless, LoadForPayHarmless
       DEF OrdersRequest
  <2>2. CASE CreateOrder(r)
    <3>1. MakesNew(r)'
      <4>1. /\ req'[r].held = NoRows /\ req'[r].status = "NEW"
            /\ req'[r].order = ids.order + 1 /\ orders' = orders /\ Others(r)
        BY <2>2, CreateOrderMoves DEF db
      <4>2. ids.order + 1 \notin DOMAIN orders
        BY IdsKnown DEF OrdersHanded
      <4>3. \A s \in Requests : req[s].order # ids.order + 1
        BY IdsKnown DEF OrdersHanded
      <4> QED BY <4>1, <4>2, <4>3 DEF MakesNew, Others
    <3>2. ~At(r, "clear")' /\ KnowsItsOrder(r)'
      BY <2>2, CreateOrderMoves DEF At, KnowsItsOrder
    <3> QED BY <2>1, <2>2, <3>1, <3>2, CreateOrderMoves, ServingStep DEF db
  <2>3. CASE LoadForUpdate(r)
    BY <2>3, LoadForUpdateMoves DEF InService, NoUpdates
  <2>4. CASE LoadForRemove(r)
    <3>1. ~At(r, "clear")' /\ MakesNew(r)' /\ KnowsItsOrder(r)'
      BY <2>4, LoadForRemoveMoves DEF At, KnowsItsOrder, MakesNew
    <3> QED BY <2>1, <2>4, <3>1, LoadForRemoveMoves, ServingStep DEF db
  <2>5. CASE LoadTask(r)
    <3>1. /\ req'[r].pc = "saveTask" /\ req'[r].item \in DOMAIN items /\ items' = items
          /\ req'[r].order = items[req'[r].item].order /\ Others(r) /\ ids' = ids
      BY <2>5, LoadTaskMoves DEF db
    <3>2. ~At(r, "clear")' /\ MakesNew(r)'
      BY <3>1 DEF At, MakesNew
    <3>3. \A s \in Requests : DOMAIN items \subseteq Handed /\ DOMAIN items \cap Reserved(req[s]) = {}
      BY DEF SnapInv, IdsFresh
    <3>4. Reserved(req'[r]) = {} /\ Handed' = Handed
      BY <3>1 DEF Reserved, Handed
    <3>5. KnowsItsOrder(r)'
      <4>1. \A s \in Requests : req'[r].item \notin Reserved(req'[s])
        BY <3>1, <3>3, <3>4 DEF Others
      <4> QED BY <3>1, <3>3, <3>4, <4>1 DEF KnowsItsOrder
    <3>6. req'[r].order \in DOMAIN orders \cup {NoOrder}
      BY <3>1 DEF TypeInv, RefInt
    <3> QED BY <2>1, <2>5, <3>2, <3>5, <3>6, LoadTaskMoves, ServingStep DEF db
  <2>6. CASE LoadForPay(r)
    <3>1. ~At(r, "clear")' /\ MakesNew(r)' /\ KnowsItsOrder(r)'
      BY <2>6, LoadForPayMoves DEF At, KnowsItsOrder, MakesNew
    <3> QED BY <2>1, <2>6, <3>1, LoadForPayMoves, ServingStep DEF db
  <2> QED BY <1>1, <2>2, <2>3, <2>4, <2>5, <2>6 DEF OrdersRequest
<1>2. ASSUME NEW r \in Requests, OrdersStep(r)
      PROVE  InService'
  <2>1. CASE ClearItems(r)
    BY <2>1 DEF ClearItems, InService
  <2>2. CASE BuildItem(r)
    <3>1. \E q : Harmless(r, q)
      BY <2>2, BuildItemHarmless
    <3>2. MakesNew(r)'
      BY <2>2, BuildItemMoves DEF MakesNew, InService, At, Others, db
    <3>3. ~At(r, "clear")' /\ KnowsItsOrder(r)'
      BY <2>2, BuildItemMoves DEF At, KnowsItsOrder
    <3> QED BY <2>2, <3>1, <3>2, <3>3, BuildItemMoves, ServingStep DEF db
  <2>3. CASE RejectItem(r)
    BY <2>3, StepHarmlessEnds, FinishDone, ServingDone DEF RejectItem, db
  <2>4. CASE SaveBuilt(r)
    BY <2>4, SaveBuiltServing
  <2>5. CASE RemoveOrder(r)
    <3>1. DOMAIN orders' \subseteq DOMAIN orders
      BY <2>5 DEF RemoveOrder, DeleteOrderRow, Without, Restrict
    <3> QED BY <2>5, <3>1, StepHarmlessEnds, FinishDone, ServingDone DEF RemoveOrder
  <2> QED BY <1>2, <2>1, <2>2, <2>3, <2>4, <2>5 DEF OrdersStep
<1>3. ASSUME NEW r \in Requests, StationItemsStep(r) \/ PaymentsStep(r)
      PROVE  InService'
  <2>1. CASE SaveTask(r)
    BY <2>1, SaveTaskHarmless, SaveTaskMoves, ServingOnward, ServingDone DEF SaveTask
  <2>2. CASE RejectTask(r) \/ RefusePayment(r) \/ ChargeOrder(r) \/ ChargeFails(r)
    BY <2>2, StepHarmlessEnds, FinishDone, ServingDone
       DEF RejectTask, RefusePayment, ChargeOrder, ChargeFails, db
  <2>3. CASE SyncCompletion(r)
    BY <2>3, SyncCompletionHarmless, SyncCompletionMoves, ServingOnward, ServingDone DEF db
  <2>4. CASE CompleteOrder(r)
    <3>1. DOMAIN orders' \subseteq DOMAIN orders \cup {req[r].order}
      BY <2>4 DEF CompleteOrder, SaveOrderRow, Put, Row
    <3> QED BY <2>4, <3>1, StepHarmlessEnds, FinishDone, ServingDone DEF CompleteOrder
  <2>5. CASE CheckPayment(r)
    BY <2>5, CheckPaymentHarmless, CheckPaymentMoves, ServingOnward DEF db
  <2> QED BY <1>3, <2>1, <2>2, <2>3, <2>4, <2>5 DEF StationItemsStep, PaymentsStep
<1>4. CASE (\E p \in Products : ChangeMenu(p)) \/ UNCHANGED vars
  <2>1. UNCHANGED <<orders, items, ids, req>>
    BY <1>4 DEF ChangeMenu, db, vars
  <2> QED BY <2>1 DEF InService, MakesNew, KnowsItsOrder, Handed, Reserved, At, NoUpdates
<1>5. CASE Restart
  BY <1>5 DEF Restart, InService, NoUpdates
<1> QED BY <1>1, <1>2, <1>3, <1>4, <1>5 DEF Next, Step, Request

LEMMA InitServing == NoUpdates /\ Init => InService
<1> SUFFICES ASSUME NoUpdates, Init PROVE InService
  OBVIOUS
<1>1. \A r \in Requests : req[r].pc = "idle"
  BY IdleValues DEF Init
<1> QED BY <1>1 DEF InService, MakesNew, KnowsItsOrder, At

LEMMA ServingHolds == NoUpdates /\ Spec => []InService
<1>1. TypeInv /\ OrdersHanded /\ SnapInv /\ InService /\ [Next]_vars => InService'
  BY NextServing
<1> QED BY <1>1, InitServing, TypeInvHolds, HandedHolds, SnapInvHolds, PTL DEF Spec

\* A handler that has served an item of o is on its way to the save.
Watches(q, o) == q.order = o /\ q.pc \in {"sync", "complete"}

\* An order can only need completing anew when r now watches it, and r leaves
\* none behind.
LEMMA WatchedStep ==
  ASSUME ServedCompletes, NEW r \in Requests, Others(r),
         \A o \in DOMAIN orders' : MustComplete(o)' =>
            \/ Watches(req'[r], o)
            \/ o \in DOMAIN orders /\ MustComplete(o) /\ ~Watches(req[r], o)
  PROVE  ServedCompletes'
<1> SUFFICES ASSUME NEW o \in DOMAIN orders', MustComplete(o)'
             PROVE  \E s \in Requests : Watches(req'[s], o)
  BY DEF ServedCompletes, Watches
<1>1. CASE Watches(req'[r], o)
  BY <1>1
<1>2. CASE o \in DOMAIN orders /\ MustComplete(o) /\ ~Watches(req[r], o)
  <2>1. PICK s \in Requests : Watches(req[s], o)
    BY <1>2 DEF ServedCompletes, Watches
  <2>2. s # r /\ req'[s] = req[s]
    BY <1>2, <2>1 DEF Others
  <2> QED BY <2>1, <2>2
<1> QED BY <1>1, <1>2

\* What the orders that need completing depend on.
LEMMA SameServing ==
  ASSUME UNCHANGED <<orders, items, tasks>>, NEW o
  PROVE  MustComplete(o)' <=> MustComplete(o)
BY DEF MustComplete, AllServed, TasksOf

\* A step of a handler that watches no order and writes no station item.
LEMMA IdlyWatched ==
  ASSUME ServedCompletes, NEW r \in Requests, Others(r),
         UNCHANGED <<orders, items, tasks>>, req[r].pc \notin {"sync", "complete"}
  PROVE  ServedCompletes'
<1>1. \A o \in DOMAIN orders' : MustComplete(o)' => MustComplete(o)
  BY SameServing
<1>2. \A o \in DOMAIN orders' : ~Watches(req[r], o)
  BY DEF Watches
<1> QED BY <1>1, <1>2, WatchedStep

\* A station item that is served has a handler that looks at its order.
LEMMA SaveTaskWatched ==
  ASSUME TypeInv, InService, ServedCompletes, NEW r \in Requests, SaveTask(r)
  PROVE  ServedCompletes'
<1> DEFINE i == req[r].item
<1>1. /\ i \in DOMAIN items /\ items' = items /\ orders' = orders /\ req[r].pc = "saveTask"
      /\ tasks' = Put(Row(i, req[r].status), tasks)
  BY DEF SaveTask, At
<1>2. items[i].order = req[r].order
  BY <1>1 DEF InService, KnowsItsOrder, At
<1>3. DOMAIN tasks' = DOMAIN tasks \cup {i} /\ \A k \in DOMAIN tasks \ {i} : tasks'[k] = tasks[k]
  BY <1>1 DEF Put, Row
<1>4. Others(r)
  BY SaveTaskMoves DEF Done, Onward
<1>5. ASSUME NEW o \in DOMAIN orders', MustComplete(o)'
      PROVE  \/ Watches(req'[r], o)
             \/ o \in DOMAIN orders /\ MustComplete(o) /\ ~Watches(req[r], o)
  <2>1. o # NoOrder
    BY <1>1 DEF TypeInv, TypeOK, TablesOK, Table, OrderIds, NoOrder
  <2>2. CASE o = req[r].order
    BY <2>1, <2>2, SaveTaskMoves DEF Onward, Watches
  <2>3. CASE o # req[r].order
    <3>1. TasksOf(o)' = TasksOf(o) /\ i \notin TasksOf(o)
      BY <1>1, <1>2, <1>3, <2>3 DEF TasksOf
    <3>2. MustComplete(o)
      BY <1>1, <1>3, <1>5, <3>1 DEF MustComplete, AllServed, TasksOf
    <3> QED BY <1>1, <2>3, <3>2 DEF Watches
  <2> QED BY <2>2, <2>3
<1> QED BY <1>4, <1>5, WatchedStep

LEMMA SyncCompletionWatched ==
  ASSUME TypeInv, ServedCompletes, NEW r \in Requests, SyncCompletion(r)
  PROVE  ServedCompletes'
<1>1. UNCHANGED <<orders, items, tasks>> /\ Others(r)
  BY SyncCompletionMoves DEF db, Onward, Done
<1>2. ASSUME NEW o \in DOMAIN orders', MustComplete(o)'
      PROVE  \/ Watches(req'[r], o)
             \/ o \in DOMAIN orders /\ MustComplete(o) /\ ~Watches(req[r], o)
  <2>1. MustComplete(o)
    BY <1>1, <1>2, SameServing
  <2>2. CASE o = req[r].order
    BY <2>1, <2>2, SyncCompletionMoves DEF Onward, Watches
  <2>3. CASE o # req[r].order
    BY <1>1, <2>1, <2>3 DEF Watches
  <2> QED BY <2>2, <2>3
<1> QED BY <1>1, <1>2, WatchedStep

LEMMA CompleteOrderWatched ==
  ASSUME TypeInv, ServedCompletes, NEW r \in Requests, CompleteOrder(r)
  PROVE  ServedCompletes'
<1>1. Others(r) /\ items' = items /\ tasks' = tasks
  BY FinishDone DEF CompleteOrder, Done
<1>2. req[r].status = "COMPLETED"
  BY IdsKnown DEF CompleteOrder, At, StageOK
<1>3. /\ DOMAIN orders' = DOMAIN orders \cup {req[r].order}
      /\ orders'[req[r].order] = "COMPLETED"
      /\ \A o \in DOMAIN orders \ {req[r].order} : orders'[o] = orders[o]
  BY <1>2 DEF CompleteOrder, SaveOrderRow, Put, Row
<1>4. ASSUME NEW o \in DOMAIN orders', MustComplete(o)'
      PROVE  o \in DOMAIN orders /\ MustComplete(o) /\ ~Watches(req[r], o)
  <2>1. o # req[r].order
    BY <1>3, <1>4 DEF MustComplete
  <2> QED BY <1>1, <1>3, <1>4, <2>1 DEF MustComplete, AllServed, TasksOf, Watches
<1> QED BY <1>1, <1>4, WatchedStep

\* The items of a new order are all pending.
LEMMA SaveBuiltWatched ==
  ASSUME TypeInv, SnapInv, InService, ServedCompletes, NEW r \in Requests, SaveBuilt(r)
  PROVE  ServedCompletes'
<1> DEFINE new == req[r].order
           fresh == DOMAIN req[r].built
<1>1. Others(r) /\ req[r].pc = "save"
  BY FinishDone DEF SaveBuilt, Done, At
<1>2. /\ DOMAIN orders' = DOMAIN orders \cup {new}
      /\ \A x \in DOMAIN orders : orders'[x] = orders[x]
      /\ fresh \cap DOMAIN items = {}
      /\ \A i \in DOMAIN items : items'[i] = items[i] /\ items[i].order # new
      /\ \A i \in fresh : items'[i].order = new
      /\ DOMAIN tasks' = DOMAIN tasks \cup fresh
      /\ \A i \in DOMAIN tasks : tasks'[i] = tasks[i]
      /\ \A i \in fresh : tasks'[i] = "pending"
  BY SaveNew
<1>3. DOMAIN tasks \subseteq DOMAIN items
  BY DEF TypeInv, RefInt
<1>4. ASSUME NEW o \in DOMAIN orders', MustComplete(o)'
      PROVE  o \in DOMAIN orders /\ MustComplete(o) /\ ~Watches(req[r], o)
  <2>1. o # new
    <3>1. SUFFICES ASSUME o = new PROVE FALSE
      OBVIOUS
    <3>2. TasksOf(o)' \subseteq fresh
      BY <1>2, <1>3, <3>1 DEF TasksOf
    <3>3. PICK i \in TasksOf(o)' : tasks'[i] = "served"
      BY <1>4 DEF MustComplete, AllServed
    <3> QED BY <1>2, <3>2, <3>3
  <2>2. TasksOf(o)' = TasksOf(o)
    BY <1>2, <1>3, <2>1 DEF TasksOf
  <2>3. \A i \in TasksOf(o) : tasks'[i] = tasks[i]
    BY <1>2 DEF TasksOf
  <2> QED BY <1>1, <1>2, <1>4, <2>1, <2>2, <2>3 DEF MustComplete, AllServed, Watches
<1> QED BY <1>1, <1>4, WatchedStep

LEMMA RemoveOrderWatched ==
  ASSUME TypeInv, ServedCompletes, NEW r \in Requests, RemoveOrder(r)
  PROVE  ServedCompletes'
<1> DEFINE gone == req[r].order
<1>1. Others(r) /\ req[r].pc = "delete"
  BY FinishDone DEF RemoveOrder, Done, At
<1>2. /\ DOMAIN orders' = DOMAIN orders \ {gone}
      /\ \A o \in DOMAIN orders' : orders'[o] = orders[o]
      /\ DOMAIN items' = DOMAIN items \ ItemsOf(gone)
      /\ \A i \in DOMAIN items' : items'[i] = items[i]
      /\ DOMAIN tasks' = DOMAIN tasks \ ItemsOf(gone)
      /\ \A i \in DOMAIN tasks' : tasks'[i] = tasks[i]
  BY DEF RemoveOrder, DeleteOrderRow, DeleteItems, Without, Restrict
<1>3. DOMAIN tasks \subseteq DOMAIN items
  BY DEF TypeInv, RefInt
<1>4. ASSUME NEW o \in DOMAIN orders', MustComplete(o)'
      PROVE  o \in DOMAIN orders /\ MustComplete(o) /\ ~Watches(req[r], o)
  <2>1. TasksOf(o)' = TasksOf(o)
    BY <1>2, <1>3 DEF TasksOf, ItemsOf
  <2>2. \A i \in TasksOf(o)' : tasks'[i] = tasks[i]
    BY <1>2 DEF TasksOf
  <2> QED BY <1>1, <1>2, <1>4, <2>1, <2>2 DEF MustComplete, AllServed, Watches
<1> QED BY <1>1, <1>4, WatchedStep

LEMMA NextWatched ==
  ASSUME TypeInv, SnapInv, InService, ServedCompletes, [Next]_vars
  PROVE  ServedCompletes'
<1>1. ASSUME NEW r \in Requests, OrdersRequest(r) \/ LoadTask(r) \/ LoadForPay(r)
      PROVE  ServedCompletes'
  <2>1. Others(r) /\ UNCHANGED db /\ req[r].pc = "idle"
    BY <1>1, CreateOrderMoves, LoadForUpdateMoves, LoadForRemoveMoves, LoadTaskMoves,
       LoadForPayMoves DEF OrdersRequest, At
  <2> QED BY <2>1, IdlyWatched DEF db
<1>2. ASSUME NEW r \in Requests, OrdersStep(r)
      PROVE  ServedCompletes'
  <2>1. CASE ClearItems(r)
    BY <2>1 DEF ClearItems, InService
  <2>2. CASE BuildItem(r)
    BY <2>2, BuildItemMoves, IdlyWatched DEF At, db
  <2>3. CASE RejectItem(r)
    BY <2>3, FinishDone, IdlyWatched DEF RejectItem, Done, At, db
  <2>4. CASE SaveBuilt(r)
    BY <2>4, SaveBuiltWatched
  <2>5. CASE RemoveOrder(r)
    BY <2>5, RemoveOrderWatched
  <2> QED BY <1>2, <2>1, <2>2, <2>3, <2>4, <2>5 DEF OrdersStep
<1>3. ASSUME NEW r \in Requests, StationItemsStep(r)
      PROVE  ServedCompletes'
  <2>1. CASE RejectTask(r)
    BY <2>1, FinishDone, IdlyWatched DEF RejectTask, Done, At, db
  <2> QED BY <1>3, <2>1, SaveTaskWatched, SyncCompletionWatched, CompleteOrderWatched
             DEF StationItemsStep
<1>4. ASSUME NEW r \in Requests, PaymentsStep(r)
      PROVE  ServedCompletes'
  <2>1. CASE CheckPayment(r)
    BY <2>1, CheckPaymentMoves, IdlyWatched DEF Onward, At, db
  <2>2. CASE RefusePayment(r) \/ ChargeOrder(r) \/ ChargeFails(r)
    BY <2>2, FinishDone, IdlyWatched DEF RefusePayment, ChargeOrder, ChargeFails, Done, At, db
  <2> QED BY <1>4, <2>1, <2>2 DEF PaymentsStep
<1>5. CASE (\E p \in Products : ChangeMenu(p)) \/ UNCHANGED vars
  <2>1. UNCHANGED <<orders, items, tasks, req>>
    BY <1>5 DEF ChangeMenu, db, vars
  <2>2. \A o \in DOMAIN orders : MustComplete(o)' <=> MustComplete(o)
    BY <2>1, SameServing
  <2> QED BY <2>1, <2>2 DEF ServedCompletes
<1>6. CASE Restart
  BY <1>6 DEF Restart, InService, NoUpdates
<1> QED BY <1>1, <1>2, <1>3, <1>4, <1>5, <1>6 DEF Next, Step, Request

\* While no order is edited and the process is not restarted, an order whose
\* station items are all served is completed, or a handler is on its way to
\* complete it: whichever handlers serve its last items, in whatever order,
\* and whatever is created, removed and paid meanwhile.
THEOREM ServedIsCompleted == NoUpdates /\ Spec => []ServedCompletes
<1>1. Init => ServedCompletes
  <2> SUFFICES ASSUME Init PROVE ServedCompletes
    OBVIOUS
  <2> QED BY DEF Init, NoRows, ServedCompletes
<1>2. TypeInv /\ SnapInv /\ InService /\ ServedCompletes /\ [Next]_vars => ServedCompletes'
  BY NextWatched
<1> QED BY <1>1, <1>2, TypeInvHolds, SnapInvHolds, ServingHolds, PTL DEF Spec

-----------------------------------------------------------------------------
(* Implementing the life cycle, while no order is edited or removed. *)

NoEdits == Ops \cap {"update", "remove", "restart"} = {}

OrdersStay ==
  /\ NoEdits
  /\ \A r \in Requests :
       /\ ~At(r, "delete")
       /\ At(r, "saveTask") => req[r].order \in DOMAIN orders \cup {NoOrder}
       /\ req[r].pc \in {"sync", "complete"} => req[r].order \in DOMAIN orders

\* A step of the handler of r that removes no order.
LEMMA StayStep ==
  ASSUME OrdersStay, NEW r \in Requests, Others(r), DOMAIN orders \subseteq DOMAIN orders',
         req'[r].pc # "delete",
         req'[r].pc = "saveTask" => req'[r].order \in DOMAIN orders \cup {NoOrder},
         req'[r].pc \in {"sync", "complete"} => req'[r].order \in DOMAIN orders
  PROVE  OrdersStay'
BY DEF OrdersStay, Others, At, NoEdits

LEMMA StayDone ==
  ASSUME OrdersStay, NEW r \in Requests, Done(r), DOMAIN orders \subseteq DOMAIN orders'
  PROVE  OrdersStay'
BY StayStep, IdleValues DEF Done

LEMMA NextStay ==
  ASSUME TypeInv, SnapInv, InService, OrdersStay, [Next]_vars
  PROVE  OrdersStay'
<1>1. ASSUME NEW r \in Requests, OrdersRequest(r) \/ LoadTask(r) \/ LoadForPay(r)
      PROVE  OrdersStay'
  <2>1. CASE CreateOrder(r)
    BY <2>1, CreateOrderMoves, StayStep DEF db
  <2>2. CASE LoadForUpdate(r) \/ LoadForRemove(r)
    BY <2>2, LoadForUpdateMoves, LoadForRemoveMoves DEF OrdersStay, NoEdits
  <2>3. CASE LoadTask(r)
    <3>1. req'[r].order \in DOMAIN orders \cup {NoOrder}
      BY <2>3, LoadTaskMoves DEF TypeInv, RefInt
    <3> QED BY <2>3, <3>1, LoadTaskMoves, StayStep DEF db
  <2>4. CASE LoadForPay(r)
    BY <2>4, LoadForPayMoves, StayStep DEF db
  <2> QED BY <1>1, <2>1, <2>2, <2>3, <2>4 DEF OrdersRequest
<1>2. ASSUME NEW r \in Requests, OrdersStep(r)
      PROVE  OrdersStay'
  <2>1. CASE ClearItems(r) \/ RemoveOrder(r)
    BY <2>1 DEF ClearItems, RemoveOrder, InService, OrdersStay
  <2>2. CASE BuildItem(r)
    BY <2>2, BuildItemMoves, StayStep DEF db
  <2>3. CASE RejectItem(r)
    BY <2>3, FinishDone, StayDone DEF RejectItem, db
  <2>4. CASE SaveBuilt(r)
    <3>1. DOMAIN orders \subseteq DOMAIN orders'
      BY <2>4, SaveNew
    <3> QED BY <2>4, <3>1, FinishDone, StayDone DEF SaveBuilt
  <2> QED BY <1>2, <2>1, <2>2, <2>3, <2>4 DEF OrdersStep
<1>3. ASSUME NEW r \in Requests, StationItemsStep(r) \/ PaymentsStep(r)
      PROVE  OrdersStay'
  <2>1. CASE SaveTask(r)
    <3>1. req[r].order \in DOMAIN orders \cup {NoOrder} /\ orders' = orders
      BY <2>1 DEF OrdersStay, SaveTask
    <3>2. CASE req[r].order = NoOrder
      BY <2>1, <3>1, <3>2, SaveTaskMoves, StayDone
    <3>3. CASE req[r].order # NoOrder
      BY <2>1, <3>1, <3>3, SaveTaskMoves, StayStep DEF Onward
    <3> QED BY <3>2, <3>3
  <2>2. CASE RejectTask(r) \/ RefusePayment(r) \/ ChargeOrder(r) \/ ChargeFails(r)
    BY <2>2, FinishDone, StayDone
       DEF RejectTask, RefusePayment, ChargeOrder, ChargeFails, db
  <2>3. CASE SyncCompletion(r)
    <3>1. req[r].order \in DOMAIN orders /\ orders' = orders
      BY <2>3 DEF OrdersStay, SyncCompletion, At, db
    <3>2. CASE MustComplete(req[r].order)
      BY <2>3, <3>1, <3>2, SyncCompletionMoves, StayStep DEF Onward
    <3>3. CASE ~MustComplete(req[r].order)
      BY <2>3, <3>1, <3>3, SyncCompletionMoves, StayDone
    <3> QED BY <3>2, <3>3
  <2>4. CASE CompleteOrder(r)
    <3>1. DOMAIN orders \subseteq DOMAIN orders'
      BY <2>4 DEF CompleteOrder, SaveOrderRow, Put, Row
    <3> QED BY <2>4, <3>1, FinishDone, StayDone DEF CompleteOrder
  <2>5. CASE CheckPayment(r)
    BY <2>5, CheckPaymentMoves, StayStep DEF Onward, db
  <2> QED BY <1>3, <2>1, <2>2, <2>3, <2>4, <2>5 DEF StationItemsStep, PaymentsStep
<1>4. CASE (\E p \in Products : ChangeMenu(p)) \/ UNCHANGED vars
  BY <1>4 DEF ChangeMenu, db, vars, OrdersStay, At, NoEdits
<1>5. CASE Restart
  BY <1>5 DEF Restart, OrdersStay, NoEdits
<1> QED BY <1>1, <1>2, <1>3, <1>4, <1>5 DEF Next, Step, Request

LEMMA StayHolds == NoEdits /\ Spec => []OrdersStay
<1>1. NoEdits /\ Init => OrdersStay
  <2> SUFFICES ASSUME NoEdits, Init PROVE OrdersStay
    OBVIOUS
  <2>1. \A r \in Requests : req[r].pc = "idle"
    BY IdleValues DEF Init
  <2> QED BY <2>1 DEF OrdersStay, At
<1>2. TypeInv /\ SnapInv /\ InService /\ OrdersStay /\ [Next]_vars => OrdersStay'
  BY NextStay
<1>3. NoEdits => NoUpdates
  BY DEF NoEdits, NoUpdates
<1> QED BY <1>1, <1>2, <1>3, TypeInvHolds, SnapInvHolds, ServingHolds, PTL DEF Spec

-----------------------------------------------------------------------------
(* The steps as the life cycle sees them. *)

\* What the mapping makes of the state.
Tickets == [o \in OrderIds |-> TicketOf(o)]
ServedOnes == [o \in OrderIds |-> AllServed(o)]
Decided == [o \in OrderIds |-> Deciding(o)]

LEMMA PromiseVars ==
  Promise!vars = <<Tickets, ServedOnes, Decided>>
BY DEF Promise!vars, Tickets, ServedOnes, Decided

\* A step that is none of the life cycle's.
Stutters == UNCHANGED <<Tickets, ServedOnes, Decided>>

LEMMA SameTickets == ASSUME orders' = orders PROVE Tickets' = Tickets
BY DEF Tickets, TicketOf

LEMMA SameServed == ASSUME UNCHANGED <<items, tasks>> PROVE ServedOnes' = ServedOnes
BY DEF ServedOnes, AllServed, TasksOf

\* Who has decided depends on who is about to complete an order.
LEMMA SameDecided ==
  ASSUME NEW r \in Requests, Others(r), req[r].pc # "complete", req'[r].pc # "complete"
  PROVE  Decided' = Decided
<1>1. ASSUME NEW o \in OrderIds PROVE Deciding(o)' = Deciding(o)
  BY DEF Deciding, At, Others
<1> QED BY <1>1 DEF Decided

LEMMA NoPart ==
  ASSUME NEW r \in Requests, Others(r), UNCHANGED <<orders, items, tasks>>,
         req[r].pc # "complete", req'[r].pc # "complete"
  PROVE  Stutters
BY SameTickets, SameServed, SameDecided DEF Stutters

\* A ticket is taken when a new order is saved.
LEMMA SaveBuiltTakes ==
  ASSUME TypeInv, SnapInv, InService, NEW r \in Requests, SaveBuilt(r)
  PROVE  Promise!Next
<1> DEFINE fresh == DOMAIN req[r].built
<1>1. PICK new : new = req[r].order
  OBVIOUS
<1>2. /\ new \in OrderIds /\ new \notin DOMAIN orders
      /\ DOMAIN orders' = DOMAIN orders \cup {new} /\ orders'[new] = "NEW"
      /\ \A x \in DOMAIN orders : orders'[x] = orders[x]
      /\ fresh \cap DOMAIN items = {}
      /\ \A i \in DOMAIN items : items'[i] = items[i] /\ items[i].order # new
      /\ \A i \in fresh : items'[i].order = new
      /\ DOMAIN tasks' = DOMAIN tasks \cup fresh
      /\ \A i \in DOMAIN tasks : tasks'[i] = tasks[i]
      /\ \A i \in fresh : tasks'[i] = "pending"
  BY <1>1, SaveNew
<1>3. DOMAIN tasks \subseteq DOMAIN items
  BY DEF TypeInv, RefInt
<1> HIDE DEF fresh
<1>4. Tickets[new] = "none" /\ Tickets' = [Tickets EXCEPT ![new] = "open"]
  BY <1>2 DEF Tickets, TicketOf
<1>5. ASSUME NEW o \in OrderIds PROVE AllServed(o)' = AllServed(o)
  <2>1. CASE o = new
    <3>1. TasksOf(o) = {} /\ TasksOf(o)' = fresh
      BY <1>2, <1>3, <2>1 DEF TasksOf
    <3>2. ~AllServed(o) /\ ~AllServed(o)'
      BY <1>2, <3>1 DEF AllServed
    <3> QED BY <3>2 DEF AllServed
  <2>2. CASE o # new
    <3>1. TasksOf(o)' = TasksOf(o)
      BY <1>2, <1>3, <2>2 DEF TasksOf
    <3>2. \A i \in TasksOf(o) : tasks'[i] = tasks[i]
      BY <1>2 DEF TasksOf
    <3> QED BY <3>1, <3>2 DEF AllServed
  <2> QED BY <2>1, <2>2
<1>6. ServedOnes' = ServedOnes
  BY <1>5 DEF ServedOnes
<1>7. Decided' = Decided
  BY FinishDone, SameDecided, IdleValues DEF SaveBuilt, Done, At
<1>8. Promise!Take(new)
  BY <1>4, <1>6, <1>7 DEF Promise!Take, Tickets, ServedOnes, Decided
<1> QED BY <1>2, <1>8 DEF Promise!Next

\* A station item that is saved may make its order served, or no longer.
LEMMA SaveTaskCooks ==
  ASSUME TypeInv, InService, OrdersStay, NEW r \in Requests, SaveTask(r)
  PROVE  Promise!Next \/ Stutters
<1>1. PICK i, o : i = req[r].item /\ o = req[r].order
  OBVIOUS
<1>2. /\ i \in DOMAIN items /\ items' = items /\ orders' = orders /\ req[r].pc = "saveTask"
      /\ tasks' = Put(Row(i, req[r].status), tasks)
  BY <1>1 DEF SaveTask, At
<1>3. items[i].order = o /\ o \in DOMAIN orders \cup {NoOrder}
  BY <1>1, <1>2 DEF InService, KnowsItsOrder, OrdersStay, At
<1>4. DOMAIN tasks' = DOMAIN tasks \cup {i} /\ \A k \in DOMAIN tasks \ {i} : tasks'[k] = tasks[k]
  BY <1>2 DEF Put, Row
<1>5. Tickets' = Tickets
  BY <1>2, SameTickets
<1>6. Decided' = Decided
  BY <1>2, SaveTaskMoves, SameDecided, IdleValues DEF Done, Onward
<1>7. ASSUME NEW x \in OrderIds, x # o PROVE AllServed(x)' = AllServed(x)
  <2>1. TasksOf(x)' = TasksOf(x) /\ i \notin TasksOf(x)
    BY <1>2, <1>3, <1>4, <1>7 DEF TasksOf
  <2>2. \A k \in TasksOf(x) : tasks'[k] = tasks[k]
    BY <1>4, <2>1 DEF TasksOf
  <2> QED BY <2>1, <2>2 DEF AllServed
<1>8. CASE ServedOnes' = ServedOnes
  BY <1>5, <1>6, <1>8 DEF Stutters
<1>9. CASE ServedOnes' # ServedOnes
  <2>1. o \in OrderIds /\ AllServed(o)' # AllServed(o)
    BY <1>7, <1>9 DEF ServedOnes
  <2>2. o \in DOMAIN orders
    BY <1>3, <2>1 DEF OrderIds, NoOrder
  <2>3. AllServed(o)' = ~AllServed(o)
    BY <2>1 DEF AllServed
  <2>4. ServedOnes' = [ServedOnes EXCEPT ![o] = ~ServedOnes[o]]
    BY <1>7, <2>1, <2>3 DEF ServedOnes
  <2>5. Tickets[o] # "none"
    BY <2>1, <2>2 DEF Tickets, TicketOf
  <2>6. Promise!Cook(o)
    BY <1>5, <1>6, <2>4, <2>5 DEF Promise!Cook, Tickets, ServedOnes, Decided
  <2> QED BY <2>1, <2>6 DEF Promise!Next
<1> QED BY <1>8, <1>9

\* A handler decides when it finds all station items served.
LEMMA SyncDecides ==
  ASSUME TypeInv, OrdersStay, NEW r \in Requests, SyncCompletion(r)
  PROVE  Promise!Next \/ Stutters
<1>1. PICK o : o = req[r].order
  OBVIOUS
<1>2. /\ UNCHANGED <<orders, items, tasks>> /\ req[r].pc = "sync" /\ o \in DOMAIN orders
      /\ o \in OrderIds
  BY <1>1, SyncCompletionMoves DEF db, At, OrdersStay, TypeInv, TypeOK, TablesOK, Table
<1>3. CASE ~MustComplete(o)
  BY <1>1, <1>2, <1>3, SyncCompletionMoves, NoPart, IdleValues DEF Done
<1>4. CASE MustComplete(o)
  <2>1. Others(r) /\ req'[r].pc = "complete" /\ req'[r].order = o
    BY <1>1, <1>4, SyncCompletionMoves DEF Onward
  <2>2. Deciding(o)'
    BY <2>1 DEF Deciding, At
  <2>3. ASSUME NEW x \in OrderIds, x # o PROVE Deciding(x)' = Deciding(x)
    BY <1>2, <2>1, <2>3 DEF Deciding, At, Others
  <2>4. Tickets' = Tickets /\ ServedOnes' = ServedOnes
    BY <1>2, SameTickets, SameServed
  <2>5. Deciding(o)' = TRUE
    BY <2>2 DEF Deciding
  <2>6. Decided' = [Decided EXCEPT ![o] = TRUE]
    BY <2>3, <2>5 DEF Decided
  <2>7. CASE Deciding(o)
    <3>1. Deciding(o) = TRUE
      BY <2>7 DEF Deciding
    <3>2. Decided' = Decided
      BY <2>6, <3>1 DEF Decided
    <3> QED BY <2>4, <3>2 DEF Stutters
  <2>8. CASE ~Deciding(o)
    <3>1. Tickets[o] = "open" /\ ServedOnes[o] /\ ~Decided[o]
      BY <1>2, <1>4, <2>8 DEF Tickets, TicketOf, ServedOnes, Decided, MustComplete
    <3>2. Promise!Decide(o)
      BY <2>4, <2>6, <3>1 DEF Promise!Decide, Tickets, ServedOnes, Decided
    <3> QED BY <1>2, <3>2 DEF Promise!Next
  <2> QED BY <2>7, <2>8
<1> QED BY <1>3, <1>4

\* The save of COMPLETED completes the ticket; others may have decided, too.
LEMMA CompleteOrderCompletes ==
  ASSUME TypeInv, OrdersStay, NEW r \in Requests, CompleteOrder(r)
  PROVE  Promise!Next
<1>1. PICK o : o = req[r].order
  OBVIOUS
<1>2. /\ req[r].pc = "complete" /\ o \in OrderIds /\ req[r].status = "COMPLETED"
      /\ items' = items /\ tasks' = tasks
  BY <1>1, IdsKnown DEF CompleteOrder, At, StageOK
<1>3. /\ DOMAIN orders' = DOMAIN orders \cup {o} /\ orders'[o] = "COMPLETED"
      /\ \A x \in DOMAIN orders \ {o} : orders'[x] = orders[x]
  BY <1>1, <1>2 DEF CompleteOrder, SaveOrderRow, Put, Row
<1>4. Tickets' = [Tickets EXCEPT ![o] = "completed"]
  BY <1>2, <1>3 DEF Tickets, TicketOf
<1>5. ServedOnes' = ServedOnes
  BY <1>2, SameServed
<1>6. Deciding(o)
  BY <1>1, <1>2 DEF Deciding, At
<1>7. Others(r) /\ req'[r].pc = "idle"
  BY FinishDone, IdleValues DEF CompleteOrder, Done
<1>8. ASSUME NEW x \in OrderIds, x # o PROVE Deciding(x)' = Deciding(x)
  BY <1>1, <1>7, <1>8 DEF Deciding, At, Others
<1>9. PICK more : more = Deciding(o)'
  OBVIOUS
<1>10. more \in BOOLEAN
  BY <1>9 DEF Deciding
<1>11. Decided' = [Decided EXCEPT ![o] = more]
  BY <1>8, <1>9 DEF Decided
<1>12. Decided[o]
  BY <1>2, <1>6 DEF Decided
<1>13. Promise!Complete(o)
  BY <1>4, <1>5, <1>10, <1>11, <1>12 DEF Promise!Complete, Tickets, ServedOnes, Decided
<1> QED BY <1>2, <1>13 DEF Promise!Next

LEMMA NextPromised ==
  ASSUME TypeInv, SnapInv, InService, OrdersStay, [Next]_vars
  PROVE  Promise!Next \/ Stutters
<1>1. ASSUME NEW r \in Requests, OrdersRequest(r) \/ LoadTask(r) \/ LoadForPay(r)
      PROVE  Stutters
  <2>1. /\ Others(r) /\ UNCHANGED db /\ req[r].pc = "idle" /\ req'[r].pc # "complete"
    BY <1>1, CreateOrderMoves, LoadForUpdateMoves, LoadForRemoveMoves, LoadTaskMoves,
       LoadForPayMoves DEF OrdersRequest, At
  <2> QED BY <2>1, NoPart DEF db
<1>2. ASSUME NEW r \in Requests, OrdersStep(r)
      PROVE  Promise!Next \/ Stutters
  <2>1. CASE ClearItems(r) \/ RemoveOrder(r)
    BY <2>1 DEF ClearItems, RemoveOrder, InService, OrdersStay
  <2>2. CASE BuildItem(r)
    BY <2>2, BuildItemMoves, NoPart DEF At, db
  <2>3. CASE RejectItem(r)
    BY <2>3, FinishDone, IdleValues, NoPart DEF RejectItem, Done, At, db
  <2>4. CASE SaveBuilt(r)
    BY <2>4, SaveBuiltTakes
  <2> QED BY <1>2, <2>1, <2>2, <2>3, <2>4 DEF OrdersStep
<1>3. ASSUME NEW r \in Requests, StationItemsStep(r)
      PROVE  Promise!Next \/ Stutters
  <2>1. CASE RejectTask(r)
    BY <2>1, FinishDone, IdleValues, NoPart DEF RejectTask, Done, At, db
  <2> QED BY <1>3, <2>1, SaveTaskCooks, SyncDecides, CompleteOrderCompletes
             DEF StationItemsStep
<1>4. ASSUME NEW r \in Requests, PaymentsStep(r)
      PROVE  Stutters
  <2>1. CASE CheckPayment(r)
    BY <2>1, CheckPaymentMoves, NoPart DEF Onward, At, db
  <2>2. CASE RefusePayment(r) \/ ChargeOrder(r) \/ ChargeFails(r)
    BY <2>2, FinishDone, IdleValues, NoPart
       DEF RefusePayment, ChargeOrder, ChargeFails, Done, At, db
  <2> QED BY <1>4, <2>1, <2>2 DEF PaymentsStep
<1>5. CASE (\E p \in Products : ChangeMenu(p)) \/ UNCHANGED vars
  BY <1>5 DEF ChangeMenu, db, vars, Stutters, Tickets, ServedOnes, Decided, TicketOf,
              AllServed, TasksOf, Deciding, At
<1>6. CASE Restart
  BY <1>6 DEF Restart, InService, NoUpdates
<1> QED BY <1>1, <1>2, <1>3, <1>4, <1>5, <1>6 DEF Next, Step, Request

\* While orders are only created, served and paid, the interleaved handlers
\* of the services take the steps of an order's life cycle and no others:
\* no order is completed before somebody has seen all its items served, and
\* none that is completed is opened again.
THEOREM ServiceImplementsTicket == NoEdits /\ Spec => Promise!Safe
<1>1. Init => Promise!Init
  <2> SUFFICES ASSUME Init PROVE Promise!Init
    OBVIOUS
  <2>1. /\ \A o \in OrderIds : TicketOf(o) = "none"
        /\ \A o \in OrderIds : AllServed(o) = FALSE
        /\ \A o \in OrderIds : Deciding(o) = FALSE
    BY IdleValues DEF Init, TicketOf, AllServed, TasksOf, Deciding, At
  <2> QED BY <2>1 DEF Promise!Init
<1>2. TypeInv /\ SnapInv /\ InService /\ OrdersStay /\ [Next]_vars
        => [Promise!Next]_(Promise!vars)
  BY NextPromised DEF Promise!vars, Stutters, Tickets, ServedOnes, Decided
<1>3. NoEdits => NoUpdates
  BY DEF NoEdits, NoUpdates
<1> QED
  BY <1>1, <1>2, <1>3, TypeInvHolds, SnapInvHolds, ServingHolds, StayHolds, PTL
     DEF Spec, Promise!Safe

-----------------------------------------------------------------------------
(* One request after the other. *)

Serial == \A r, s \in Requests : r = s

\* What the handler of r has loaded of its order is still all there is of it:
\* nothing at all, when the order is new or has just been cleared.
WholeCopy(r) ==
  req[r].pc \in {"clear", "build", "save", "check", "charge"} =>
    req[r].held = HeldCopy(req[r].order)

\* What CheckPayment has found still holds when the payment is inserted.
Unpaid(r) ==
  At(r, "charge") =>
    PaymentsOf(req[r].order) = {} /\ req[r].bill.amount = Total(req[r].held)

TaskThere(r) == At(r, "saveTask") => req[r].item \in DOMAIN tasks

Undisturbed(r) == WholeCopy(r) /\ Unpaid(r) /\ TaskThere(r)

OneByOne ==
  /\ Serial /\ AtMostOnePaid /\ NoOrphans
  /\ \A r \in Requests : Undisturbed(r)

LEMMA AloneStep ==
  ASSUME OneByOne, NEW r \in Requests, Undisturbed(r)', AtMostOnePaid', NoOrphans'
  PROVE  OneByOne'
<1>1. \A s \in Requests : s = r
  BY DEF OneByOne, Serial
<1> QED BY <1>1 DEF OneByOne, Serial

\* A step that only reads, or writes orders.
LEMMA RowsStay ==
  ASSUME OneByOne, UNCHANGED <<items, tasks, payments>>
  PROVE  AtMostOnePaid' /\ NoOrphans'
BY DEF OneByOne, AtMostOnePaid, NoOrphans

LEMMA AloneDone ==
  ASSUME OneByOne, NEW r \in Requests, Done(r), AtMostOnePaid', NoOrphans'
  PROVE  OneByOne'
<1>1. Undisturbed(r)'
  BY IdleValues DEF Done, Undisturbed, WholeCopy, Unpaid, TaskThere, At
<1> QED BY <1>1, AloneStep

\* An order nobody has saved has no items.
LEMMA NoItemsYet ==
  ASSUME NEW o, ItemsOf(o) = {}
  PROVE  HeldCopy(o) = NoRows
BY DEF HeldCopy, NoRows

LEMMA CreateOrderAlone ==
  ASSUME TypeInv, OrdersHanded, OneByOne, NEW r \in Requests, CreateOrder(r)
  PROVE  OneByOne'
<1>1. PICK o : o = ids.order + 1
  OBVIOUS
<1>2. /\ req'[r].pc = "build" /\ req'[r].order = o /\ req'[r].held = NoRows
      /\ UNCHANGED <<orders, items, tasks, payments>>
  BY <1>1, CreateOrderMoves DEF db
<1>3. o \notin DOMAIN orders /\ o # NoOrder
  BY <1>1, IdsKnown DEF OrdersHanded, NoOrder
<1>4. ItemsOf(o) = {}
  BY <1>3 DEF ItemsOf, TypeInv, RefInt
<1>5. HeldCopy(o)' = NoRows
  <2>1. HeldCopy(o) = NoRows
    BY <1>4, NoItemsYet
  <2>2. HeldCopy(o)' = HeldCopy(o)
    BY <1>2 DEF HeldCopy, ItemsOf
  <2> QED BY <2>1, <2>2
<1>6. Undisturbed(r)'
  BY <1>2, <1>5 DEF Undisturbed, WholeCopy, Unpaid, TaskThere, At
<1> QED BY <1>2, <1>6, RowsStay, AloneStep

LEMMA LoadAlone ==
  ASSUME TypeInv, OneByOne, NEW r \in Requests, LoadForUpdate(r) \/ LoadForPay(r)
  PROVE  OneByOne'
<1>1. /\ req'[r].pc \in {"clear", "build", "save", "check"}
      /\ req'[r].held = HeldCopy(req'[r].order)
      /\ UNCHANGED <<orders, items, tasks, payments>>
  BY LoadForUpdateMoves, LoadForPayMoves DEF db
<1>2. WholeCopy(r)'
  BY <1>1 DEF WholeCopy, HeldCopy, ItemsOf
<1>3. Undisturbed(r)'
  BY <1>1, <1>2 DEF Undisturbed, Unpaid, TaskThere, At
<1> QED BY <1>1, <1>3, RowsStay, AloneStep

LEMMA LoadRowAlone ==
  ASSUME TypeInv, OneByOne, NEW r \in Requests, LoadForRemove(r) \/ LoadTask(r)
  PROVE  OneByOne'
<1>1. UNCHANGED <<items, tasks, payments>>
  BY LoadForRemoveMoves, LoadTaskMoves DEF db
<1>2. Undisturbed(r)'
  BY LoadForRemoveMoves, LoadTaskMoves
     DEF Undisturbed, WholeCopy, Unpaid, TaskThere, At, db
<1> QED BY <1>1, <1>2, RowsStay, AloneStep

LEMMA ClearItemsAlone ==
  ASSUME TypeInv, OneByOne, NEW r \in Requests, ClearItems(r)
  PROVE  OneByOne'
<1>1. PICK o : o = req[r].order
  OBVIOUS
<1>2. /\ req[r].held = HeldCopy(o) /\ req'[r].pc = "build" /\ req'[r].order = o
      /\ req'[r].held = NoRows
  BY <1>1, ClearItemsMoves DEF OneByOne, Undisturbed, WholeCopy, At
<1>3. DOMAIN req[r].held = ItemsOf(o)
  BY <1>2 DEF HeldCopy
<1>4. /\ DOMAIN items' = DOMAIN items \ ItemsOf(o)
      /\ \A i \in DOMAIN items' : items'[i] = items[i]
      /\ DOMAIN tasks' = DOMAIN tasks \ ItemsOf(o) /\ payments' = payments
  BY <1>3 DEF ClearItems, DeleteItems, Without, Restrict
<1>5. AtMostOnePaid' /\ NoOrphans'
  BY <1>4 DEF OneByOne, AtMostOnePaid, NoOrphans
<1>6. HeldCopy(o)' = NoRows
  <2>1. ItemsOf(o)' = {}
    BY <1>4 DEF ItemsOf
  <2> QED BY <2>1 DEF HeldCopy, NoRows
<1>7. Undisturbed(r)'
  BY <1>2, <1>6 DEF Undisturbed, WholeCopy, Unpaid, TaskThere, At
<1> QED BY <1>5, <1>7, AloneStep

LEMMA BuildItemAlone ==
  ASSUME TypeInv, OneByOne, NEW r \in Requests, BuildItem(r)
  PROVE  OneByOne'
<1>1. UNCHANGED <<orders, items, tasks, payments>>
  BY BuildItemMoves DEF db
<1>2. WholeCopy(r)'
  <2>1. PICK o : o = req[r].order
    OBVIOUS
  <2>2. req'[r].held = HeldCopy(o) /\ req'[r].order = o
    BY <2>1, BuildItemMoves DEF OneByOne, Undisturbed, WholeCopy, At
  <2>3. HeldCopy(o)' = HeldCopy(o)
    BY <1>1 DEF HeldCopy, ItemsOf
  <2> QED BY <2>2, <2>3 DEF WholeCopy
<1>3. Undisturbed(r)'
  BY <1>2, BuildItemMoves DEF Undisturbed, Unpaid, TaskThere, At
<1> QED BY <1>1, <1>3, RowsStay, AloneStep

\* The copy that is saved holds every item of the order, so none is detached.
LEMMA SaveBuiltAlone ==
  ASSUME TypeInv, OneByOne, NEW r \in Requests, SaveBuilt(r)
  PROVE  OneByOne'
<1> DEFINE q == req[r]
           o == q.order
           attach(rows) == [i \in DOMAIN rows |-> [order |-> o, line |-> rows[i]]]
           detach(row) == IF row.order = o THEN [row EXCEPT !.order = NoOrder] ELSE row
           rest == [i \in DOMAIN items |-> detach(items[i])]
<1>1. q.pc = "save" /\ q.held = HeldCopy(o) /\ NoOrphans
  BY DEF SaveBuilt, At, OneByOne, Undisturbed, WholeCopy
<1>2. o \in OrderIds /\ o # NoOrder
  BY <1>1, IdsKnown DEF StageOK, OrderIds, NoOrder
<1>3. DOMAIN q.held = ItemsOf(o) /\ ItemsOf(o) \subseteq DOMAIN items
  BY <1>1 DEF HeldCopy, ItemsOf
<1>4. items' = Put(attach(q.built), Put(attach(q.held), rest))
  BY DEF SaveBuilt, SaveOrder
<1>5. /\ DOMAIN attach(q.built) = DOMAIN q.built /\ DOMAIN attach(q.held) = DOMAIN q.held
      /\ \A i \in DOMAIN q.built : attach(q.built)[i].order = o
      /\ \A i \in DOMAIN q.held : attach(q.held)[i].order = o
      /\ DOMAIN rest = DOMAIN items
  OBVIOUS
<1>6. \A i \in DOMAIN items \ ItemsOf(o) : rest[i].order # NoOrder
  BY <1>1 DEF ItemsOf, NoOrphans
<1> HIDE DEF attach, rest
<1>7. /\ DOMAIN items' = DOMAIN items \cup DOMAIN q.built
      /\ \A i \in DOMAIN items' : items'[i].order # NoOrder
  BY <1>2, <1>3, <1>4, <1>5, <1>6 DEF Put
<1>8. DOMAIN tasks' = DOMAIN tasks \cup DOMAIN q.built /\ payments' = payments
  BY DEF SaveBuilt, SaveOrder, InsertTasks, Put
<1>9. NoOrphans'
  BY <1>1, <1>7, <1>8 DEF NoOrphans
<1>10. AtMostOnePaid'
  BY <1>8 DEF OneByOne, AtMostOnePaid
<1> QED BY <1>9, <1>10, FinishDone, AloneDone DEF SaveBuilt

LEMMA RemoveOrderAlone ==
  ASSUME TypeInv, OneByOne, NEW r \in Requests, RemoveOrder(r)
  PROVE  OneByOne'
<1>1. PICK o : o = req[r].order
  OBVIOUS
<1>2. /\ DOMAIN items' = DOMAIN items \ ItemsOf(o)
      /\ \A i \in DOMAIN items' : items'[i] = items[i]
      /\ DOMAIN tasks' = DOMAIN tasks \ ItemsOf(o)
      /\ DOMAIN payments' \subseteq DOMAIN payments
      /\ \A p \in DOMAIN payments' : payments'[p] = payments[p]
  BY <1>1 DEF RemoveOrder, DeleteOrderRow, DeleteItems, Without, Restrict
<1>3. AtMostOnePaid' /\ NoOrphans'
  BY <1>2 DEF OneByOne, AtMostOnePaid, NoOrphans
<1> QED BY <1>3, FinishDone, AloneDone DEF RemoveOrder

LEMMA SaveTaskAlone ==
  ASSUME TypeInv, OneByOne, NEW r \in Requests, SaveTask(r)
  PROVE  OneByOne'
<1>1. req[r].item \in DOMAIN tasks
  BY DEF SaveTask, OneByOne, Undisturbed, TaskThere
<1>2. DOMAIN tasks' = DOMAIN tasks /\ items' = items /\ payments' = payments
  BY <1>1 DEF SaveTask, Put, Row
<1>3. AtMostOnePaid' /\ NoOrphans'
  BY <1>2 DEF OneByOne, AtMostOnePaid, NoOrphans
<1>4. CASE req[r].order = NoOrder
  BY <1>3, <1>4, SaveTaskMoves, AloneDone
<1>5. CASE req[r].order # NoOrder
  <2>1. Undisturbed(r)'
    BY <1>5, SaveTaskMoves DEF Onward, Undisturbed, WholeCopy, Unpaid, TaskThere, At
  <2> QED BY <1>3, <2>1, AloneStep
<1> QED BY <1>4, <1>5

LEMMA SyncAlone ==
  ASSUME TypeInv, OneByOne, NEW r \in Requests, SyncCompletion(r)
  PROVE  OneByOne'
<1>1. AtMostOnePaid' /\ NoOrphans'
  BY SyncCompletionMoves, RowsStay DEF db
<1>2. CASE ~MustComplete(req[r].order)
  BY <1>1, <1>2, SyncCompletionMoves, AloneDone
<1>3. CASE MustComplete(req[r].order)
  <2>1. Undisturbed(r)'
    BY <1>3, SyncCompletionMoves DEF Onward, Undisturbed, WholeCopy, Unpaid, TaskThere, At
  <2> QED BY <1>1, <2>1, AloneStep
<1> QED BY <1>2, <1>3

LEMMA CheckPaymentAlone ==
  ASSUME TypeInv, OneByOne, NEW r \in Requests, CheckPayment(r)
  PROVE  OneByOne'
<1>1. PICK o : o = req[r].order
  OBVIOUS
<1>2. /\ req'[r].pc = "charge" /\ req'[r].order = o /\ req'[r].held = req[r].held
      /\ req'[r].bill.amount = Total(req[r].held) /\ PaymentsOf(o) = {}
      /\ UNCHANGED <<orders, items, tasks, payments>>
  BY <1>1, CheckPaymentMoves DEF Onward, db
<1>3. req[r].held = HeldCopy(o)
  BY <1>1, CheckPaymentMoves DEF OneByOne, Undisturbed, WholeCopy, At
<1>4. HeldCopy(o)' = HeldCopy(o) /\ PaymentsOf(o)' = PaymentsOf(o)
  BY <1>2 DEF HeldCopy, ItemsOf, PaymentsOf
<1>5. Total(req[r].held) = Total(req'[r].held)
  BY <1>2
<1>6. Undisturbed(r)'
  <2>1. WholeCopy(r)'
    BY <1>2, <1>3, <1>4 DEF WholeCopy
  <2>2. PaymentsOf(req[r].order)' = {}
    BY <1>2, <1>4
  <2>3. Unpaid(r)'
    BY <1>2, <1>5, <2>2 DEF Unpaid
  <2> QED BY <1>2, <2>1, <2>3 DEF Undisturbed, TaskThere, At
<1> QED BY <1>2, <1>6, RowsStay, AloneStep

\* The order has no payment yet, and the amount is what its items cost now.
LEMMA ChargeOrderAlone ==
  ASSUME TypeInv, OneByOne, NEW r \in Requests, ChargeOrder(r)
  PROVE  /\ OneByOne'
         /\ \A p \in DOMAIN payments' \ DOMAIN payments :
              payments'[p].amount = Total(HeldCopy(payments'[p].order))
<1>1. PICK o, k : o = req[r].order /\ k = req[r].item
  OBVIOUS
<1>2. PaymentsOf(o) = {} /\ req[r].bill.amount = Total(HeldCopy(o))
  BY <1>1 DEF ChargeOrder, At, OneByOne, Undisturbed, Unpaid, WholeCopy
<1>3. /\ DOMAIN payments' = DOMAIN payments \cup {k}
      /\ payments'[k].order = o /\ payments'[k].amount = req[r].bill.amount
      /\ \A p \in DOMAIN payments \ {k} : payments'[p] = payments[p]
      /\ items' = items /\ tasks' = tasks
  BY <1>1 DEF ChargeOrder, Put, Row
<1>4. AtMostOnePaid'
  BY <1>2, <1>3 DEF OneByOne, AtMostOnePaid, PaymentsOf
<1>5. NoOrphans'
  BY <1>3 DEF OneByOne, NoOrphans
<1>6. OneByOne'
  BY <1>4, <1>5, FinishDone, AloneDone DEF ChargeOrder
<1> QED BY <1>2, <1>3, <1>6

\* A payment that appears is charged at what the items of its order cost.
ChargesTotal ==
  \A p \in DOMAIN payments' \ DOMAIN payments :
    payments'[p].amount = Total(HeldCopy(payments'[p].order))

LEMMA NoNewPayments ==
  ASSUME DOMAIN payments' \subseteq DOMAIN payments
  PROVE  ChargesTotal
BY DEF ChargesTotal

LEMMA NextAlone ==
  ASSUME TypeInv, OrdersHanded, OneByOne, [Next]_vars
  PROVE  OneByOne' /\ ChargesTotal
<1>1. ASSUME NEW r \in Requests, OrdersRequest(r) \/ LoadTask(r) \/ LoadForPay(r)
      PROVE  OneByOne' /\ ChargesTotal
  <2>1. OneByOne'
    BY <1>1, CreateOrderAlone, LoadAlone, LoadRowAlone DEF OrdersRequest
  <2>2. payments' = payments
    BY <1>1, CreateOrderMoves, LoadForUpdateMoves, LoadForRemoveMoves, LoadTaskMoves,
       LoadForPayMoves DEF OrdersRequest, db
  <2> QED BY <2>1, <2>2, NoNewPayments
<1>2. ASSUME NEW r \in Requests, OrdersStep(r)
      PROVE  OneByOne' /\ ChargesTotal
  <2>1. DOMAIN payments' \subseteq DOMAIN payments
    BY <1>2 DEF OrdersStep, ClearItems, BuildItem, RejectItem, SaveBuilt, RemoveOrder,
                DeleteOrderRow, Without, Restrict, db
  <2>2. CASE RejectItem(r)
    BY <2>1, <2>2, RowsStay, FinishDone, AloneDone, NoNewPayments DEF RejectItem, db
  <2> QED BY <1>2, <2>1, <2>2, ClearItemsAlone, BuildItemAlone, SaveBuiltAlone,
             RemoveOrderAlone, NoNewPayments DEF OrdersStep
<1>3. ASSUME NEW r \in Requests, StationItemsStep(r)
      PROVE  OneByOne' /\ ChargesTotal
  <2>1. payments' = payments
    BY <1>3 DEF StationItemsStep, SaveTask, RejectTask, SyncCompletion, CompleteOrder, db
  <2>2. CASE RejectTask(r) \/ CompleteOrder(r)
    BY <2>1, <2>2, RowsStay, FinishDone, AloneDone, NoNewPayments
       DEF RejectTask, CompleteOrder, db
  <2> QED BY <1>3, <2>1, <2>2, SaveTaskAlone, SyncAlone, NoNewPayments
             DEF StationItemsStep
<1>4. ASSUME NEW r \in Requests, PaymentsStep(r)
      PROVE  OneByOne' /\ ChargesTotal
  <2>1. CASE ChargeOrder(r)
    BY <2>1, ChargeOrderAlone DEF ChargesTotal
  <2>2. CASE CheckPayment(r)
    BY <2>2, CheckPaymentAlone, CheckPaymentMoves, NoNewPayments DEF db
  <2>3. CASE RefusePayment(r) \/ ChargeFails(r)
    BY <2>3, RowsStay, FinishDone, AloneDone, NoNewPayments
       DEF RefusePayment, ChargeFails, db
  <2> QED BY <1>4, <2>1, <2>2, <2>3 DEF PaymentsStep
<1>5. CASE (\E p \in Products : ChangeMenu(p)) \/ UNCHANGED vars
  <2>1. UNCHANGED <<items, tasks, payments, req>>
    BY <1>5 DEF ChangeMenu, db, vars
  <2> QED BY <2>1, RowsStay, NoNewPayments
          DEF OneByOne, Undisturbed, WholeCopy, Unpaid, TaskThere, At, HeldCopy, ItemsOf,
              PaymentsOf
<1>6. CASE Restart
  <2>1. UNCHANGED <<items, tasks, payments>> /\ \A r \in Requests : req'[r].pc = "idle"
    BY <1>6, IdleValues DEF Restart, db
  <2> QED BY <2>1, RowsStay, NoNewPayments
          DEF OneByOne, Undisturbed, WholeCopy, Unpaid, TaskThere, At
<1> QED BY <1>1, <1>2, <1>3, <1>4, <1>5, <1>6 DEF Next, Step, Request

LEMMA OneByOneHolds == Serial /\ Spec => []OneByOne
<1>1. Serial /\ Init => OneByOne
  <2> SUFFICES ASSUME Serial, Init PROVE OneByOne
    OBVIOUS
  <2>1. /\ DOMAIN items = {} /\ DOMAIN tasks = {} /\ DOMAIN payments = {}
        /\ \A r \in Requests : req[r].pc = "idle"
    BY IdleValues DEF Init
  <2> QED BY <2>1 DEF OneByOne, AtMostOnePaid, NoOrphans, Undisturbed, WholeCopy, Unpaid,
                      TaskThere, At
<1>2. TypeInv /\ OrdersHanded /\ OneByOne /\ [Next]_vars => OneByOne'
  BY NextAlone
<1> QED BY <1>1, <1>2, TypeInvHolds, HandedHolds, PTL DEF Spec

\* Requests that do not overlap pay an order at most once, whatever they do
\* and wherever the process is restarted; two that overlap can both pay it.
THEOREM PaidOnce == Serial /\ Spec => []AtMostOnePaid
<1>1. OneByOne => AtMostOnePaid
  BY DEF OneByOne
<1> QED BY <1>1, OneByOneHolds, PTL

\* Requests that do not overlap leave no item without its order or its station
\* item, also when one is cut off between two of its repository calls.
THEOREM ItemsKeepTheirOrder == Serial /\ Spec => []NoOrphans
<1>1. OneByOne => NoOrphans
  BY DEF OneByOne
<1> QED BY <1>1, OneByOneHolds, PTL

\* Every payment such a request inserts is for what the items of its order
\* cost at that moment, although the total is of the copy it loaded.
THEOREM TotalIsCharged == Serial /\ Spec => ChargedIsTotal
<1>1. TypeInv /\ OrdersHanded /\ OneByOne /\ [Next]_vars =>
        [\A p \in DOMAIN payments' \ DOMAIN payments :
           payments'[p].amount = Total(HeldCopy(payments'[p].order))]_vars
  BY NextAlone DEF ChargesTotal
<1> QED
  BY <1>1, OneByOneHolds, TypeInvHolds, HandedHolds, PTL DEF Spec, ChargedIsTotal
=============================================================================
