---------------------------- MODULE Kitchen_proofs ----------------------------
(***************************************************************************)
(* Proofs about Kitchen.  Type correctness comes first: it says that every *)
(* handler, wherever it was interrupted, holds locals from which its next  *)
(* repository call produces well-formed rows.                              *)
(***************************************************************************)
EXTENDS Kitchen, TLAPS

-----------------------------------------------------------------------------
(* Tables. *)

LEMMA BoundsAreNat == MaxOrders \in Nat /\ MaxItems \in Nat /\ MaxPayments \in Nat
BY OrderTablesAssumption

LEMMA NoRowsType == ASSUME NEW K, NEW V PROVE Table(NoRows, K, V)
BY DEF Table, NoRows

LEMMA PutType ==
  ASSUME NEW K, NEW V, NEW t, NEW u, Table(t, K, V), Table(u, K, V)
  PROVE  Table(Put(u, t), K, V)
BY DEF Table, Put

LEMMA PutOneType ==
  ASSUME NEW K, NEW V, NEW t, NEW k \in K, NEW v \in V, Table(t, K, V)
  PROVE  Table(Put(Row(k, v), t), K, V)
BY DEF Table, Put, Row

LEMMA WithoutType ==
  ASSUME NEW K, NEW V, NEW t, NEW gone, Table(t, K, V)
  PROVE  Table(Without(t, gone), K, V)
BY DEF Table, Without, Restrict

-----------------------------------------------------------------------------
(* Handlers. *)

\* A step of one handler: the others keep their locals.
LEMMA OthersOK ==
  ASSUME RequestsOK, NEW r \in Requests, NEW q, Go(r, q), ids'.item >= ids.item,
         ids.item \in Nat, ids'.item \in Nat, LocalsOK(q), StageOK(q)'
  PROVE  RequestsOK'
<1>1. /\ req'[r] = q /\ DOMAIN req' = Requests
      /\ \A s \in Requests \ {r} : req'[s] = req[s]
  BY DEF Go, RequestsOK
<1>2. ASSUME NEW s \in Requests \ {r} PROVE StageOK(req[s])'
  <2>1. LocalsOK(req[s]) /\ StageOK(req[s]) /\ req'[s] = req[s]
    BY <1>1 DEF RequestsOK
  <2>2. Len(req[s].lines) \in Nat /\ req[s].item \in Nat
    BY <2>1 DEF LocalsOK
  <2> QED BY <2>1, <2>2 DEF StageOK
<1> QED BY <1>1, <1>2 DEF RequestsOK, LocalsOK

\* What a step knows of the handler it belongs to.
LEMMA HandlerOK ==
  ASSUME TypeOK, NEW r \in Requests
  PROVE  /\ LocalsOK(req[r]) /\ StageOK(req[r]) /\ RequestsOK
         /\ ids.order \in 0..MaxOrders /\ ids.item \in 0..MaxItems
         /\ ids.payment \in 0..MaxPayments
         /\ ids.order \in Nat /\ ids.item \in Nat /\ ids.payment \in Nat
BY BoundsAreNat DEF TypeOK, RequestsOK, TablesOK, IdCounts

\* A step that hands out no item ids.
LEMMA StepOK ==
  ASSUME TypeOK, NEW r \in Requests, NEW q, Go(r, q), ids'.item = ids.item,
         LocalsOK(q), StageOK(q)'
  PROVE  RequestsOK'
<1>1. ids.item \in Nat /\ ids'.item \in Nat /\ ids'.item >= ids.item /\ RequestsOK
  BY HandlerOK
<1> QED BY <1>1, OthersOK

LEMMA IdleOK == LocalsOK(Idle) /\ StageOK(Idle)'
BY DEF LocalsOK, StageOK, Idle, NoRows, Stages, Table, NoOrder, Keep

LEMMA FinishOK ==
  ASSUME TypeOK, NEW r \in Requests, Finish(r), ids' = ids
  PROVE  RequestsOK'
BY StepOK, IdleOK DEF Finish

\* The copy of an order's items that a handler loads.
LEMMA HeldCopyType ==
  ASSUME TypeOK, NEW o
  PROVE  Table(HeldCopy(o), ItemIds, Line)
BY DEF TypeOK, TablesOK, HeldCopy, ItemsOf, Table, ItemRow

-----------------------------------------------------------------------------
(* Type correctness: the locals, action by action. *)

LEMMA CreateOrderType ==
  ASSUME TypeOK, NEW r \in Requests, CreateOrder(r)
  PROVE  RequestsOK' /\ ids' \in IdCounts
<1>1. PICK cart, p :
        /\ cart \in OrderCarts
        /\ ids.order < MaxOrders /\ ids.item + Len(cart) <= MaxItems
        /\ Go(r, p)
        /\ p = [[Idle EXCEPT !.pc = "build", !.order = ids.order + 1,
                             !.item = ids.item + 1, !.status = "NEW",
                             !.lines = cart] EXCEPT !.op = "create"]
        /\ ids' = [ids EXCEPT !.order = @ + 1, !.item = @ + Len(cart)]
  BY DEF CreateOrder, Accept
<1>2. /\ DOMAIN p = DOMAIN Idle /\ p.op = "create" /\ p.pc = "build"
      /\ p.order = ids.order + 1 /\ p.item = ids.item + 1 /\ p.status = "NEW"
      /\ p.held = NoRows /\ p.lines = cart /\ p.built = NoRows
  BY <1>1 DEF Idle
<1>3. cart \in Seq(CartLine) /\ Len(cart) \in Nat /\ Len(cart) > 0
  BY <1>1, OrderTablesAssumption
<1>4. p.order \in OrderIds /\ p.item \in Nat
  BY <1>1, <1>2, HandlerOK, BoundsAreNat DEF OrderIds
<1>5. LocalsOK(p)
  BY <1>2, <1>3, <1>4, NoRowsType DEF LocalsOK, Operations, Stages, OrderStatus
<1>6. /\ ids' \in IdCounts /\ ids'.item = ids.item + Len(cart)
      /\ ids.item \in Nat /\ ids'.item \in Nat /\ ids'.item >= ids.item
  <2>1. /\ ids.order + 1 \in 0..MaxOrders /\ ids.item + Len(cart) \in 0..MaxItems
        /\ ids.item \in Nat
    BY <1>1, <1>3, HandlerOK, BoundsAreNat
  <2>2. ids \in IdCounts
    BY DEF TypeOK, TablesOK
  <2>3. ids' = [ids EXCEPT !.order = ids.order + 1, !.item = ids.item + Len(cart)]
    BY <1>1
  <2>4. ids' \in IdCounts /\ ids'.item = ids.item + Len(cart)
    BY <2>1, <2>2, <2>3 DEF IdCounts
  <2> QED BY <1>3, <2>1, <2>4
<1>7. StageOK(p)'
  BY <1>2, <1>3, <1>4, <1>6 DEF StageOK, OrderStatus
<1> QED BY <1>1, <1>5, <1>6, <1>7, HandlerOK, OthersOK

LEMMA LoadForUpdateType ==
  ASSUME TypeOK, NEW r \in Requests, LoadForUpdate(r)
  PROVE  RequestsOK' /\ ids' \in IdCounts
<1>1. PICK o, patch, cart, p :
        /\ o \in DOMAIN orders /\ patch \in Patches /\ cart \in EditCarts
        /\ ids.item + Len(cart) <= MaxItems
        /\ Go(r, p)
        /\ p = [[Idle EXCEPT !.pc = UpdateFrom(o, cart), !.order = o,
                             !.item = ids.item + 1, !.status = Assign(o, patch),
                             !.held = HeldCopy(o), !.lines = cart]
                  EXCEPT !.op = "update"]
        /\ ids' = [ids EXCEPT !.item = @ + Len(cart)]
  BY DEF LoadForUpdate, Accept
<1>2. /\ DOMAIN p = DOMAIN Idle /\ p.op = "update" /\ p.pc = UpdateFrom(o, cart)
      /\ p.order = o /\ p.item = ids.item + 1 /\ p.status = Assign(o, patch)
      /\ p.held = HeldCopy(o) /\ p.lines = cart /\ p.built = NoRows
  BY <1>1 DEF Idle
<1>3. cart \in Seq(CartLine) /\ Len(cart) \in Nat /\ (cart # <<>> => Len(cart) > 0)
  BY <1>1, OrderTablesAssumption
<1>4. o \in OrderIds /\ orders[o] \in OrderStatus
  BY <1>1 DEF TypeOK, TablesOK, Table
<1>5. Assign(o, patch) \in OrderStatus
  BY <1>1, <1>4, OrderTablesAssumption DEF Assign
<1>6. UpdateFrom(o, cart) \in {"clear", "build", "save"}
      /\ (UpdateFrom(o, cart) # "save" => cart # <<>>)
  BY DEF UpdateFrom
<1>7. LocalsOK(p)
  BY <1>2, <1>3, <1>4, <1>5, <1>6, HandlerOK, NoRowsType, HeldCopyType
     DEF LocalsOK, Operations, Stages
<1>8. /\ ids' \in IdCounts /\ ids'.item = ids.item + Len(cart)
      /\ ids.item \in Nat /\ ids'.item \in Nat /\ ids'.item >= ids.item
  <2>1. ids \in IdCounts
    BY DEF TypeOK, TablesOK
  <2> QED BY <1>1, <1>3, <2>1, BoundsAreNat DEF IdCounts
<1>9. StageOK(p)'
  BY <1>2, <1>3, <1>4, <1>5, <1>6, <1>8 DEF StageOK
<1> QED BY <1>1, <1>7, <1>8, <1>9, HandlerOK, OthersOK

LEMMA ClearItemsType ==
  ASSUME TypeOK, NEW r \in Requests, ClearItems(r)
  PROVE  RequestsOK'
<1>1. PICK p : Go(r, p) /\ p = [req[r] EXCEPT !.pc = "build", !.held = NoRows]
               /\ req[r].pc = "clear" /\ ids' = ids
  BY DEF ClearItems, At
<1>2. LocalsOK(req[r]) /\ StageOK(req[r])
  BY HandlerOK
<1>3. /\ DOMAIN p = DOMAIN Idle /\ p.op = req[r].op /\ p.pc = "build"
      /\ p.order = req[r].order /\ p.item = req[r].item /\ p.status = req[r].status
      /\ p.held = NoRows /\ p.lines = req[r].lines /\ p.built = req[r].built
  BY <1>1, <1>2 DEF LocalsOK, Idle
<1>4. LocalsOK(p)
  BY <1>2, <1>3, NoRowsType DEF LocalsOK, Stages
<1>5. StageOK(p)'
  BY <1>1, <1>2, <1>3 DEF StageOK
<1> QED BY <1>1, <1>4, <1>5, StepOK

\* buildOrderItems moves one line from the list to the new items.
LEMMA BuildItemType ==
  ASSUME TypeOK, NEW r \in Requests, BuildItem(r)
  PROVE  RequestsOK'
<1> DEFINE q == req[r]
           line == Head(q.lines)
           n == Len(q.lines)
<1>1. LocalsOK(q) /\ StageOK(q) /\ q.pc = "build" /\ ids' = ids
  BY HandlerOK DEF BuildItem, At
<1>2. q.lines \in Seq(CartLine) /\ n \in Nat /\ n > 0 /\ q.item \in Nat
  BY <1>1 DEF LocalsOK, StageOK
<1>3. line \in CartLine /\ Tail(q.lines) \in Seq(CartLine) /\ Len(Tail(q.lines)) = n - 1
  BY <1>2
<1>4. Snapshot(line) \in Line
  BY <1>3 DEF Snapshot, CartLine, Line, TypeOK, TablesOK, MenuEntry
<1>5. PICK p :
        /\ Go(r, p)
        /\ p = [q EXCEPT !.pc = IF Len(q.lines) = 1 THEN "save" ELSE "build",
                         !.lines = Tail(q.lines),
                         !.item = q.item + 1,
                         !.built = Put(Row(q.item, Snapshot(line)), q.built)]
  BY DEF BuildItem
<1> HIDE DEF q, line
<1>6. /\ DOMAIN p = DOMAIN Idle /\ p.pc = IF n = 1 THEN "save" ELSE "build"
      /\ p.lines = Tail(q.lines) /\ p.item = q.item + 1
      /\ p.built = Put(Row(q.item, Snapshot(line)), q.built)
      /\ p.op = q.op /\ p.order = q.order /\ p.status = q.status /\ p.held = q.held
  BY <1>5, <1>1 DEF LocalsOK, Idle
<1>7. /\ q.item + n <= ids.item + 1 /\ q.item >= 1
      /\ p.order \in OrderIds /\ p.status \in OrderStatus
  BY <1>1, <1>6 DEF StageOK
<1>8. ids.item \in Nat /\ ids.item <= MaxItems /\ q.item \in ItemIds
  BY <1>2, <1>7, BoundsAreNat, HandlerOK DEF ItemIds
<1>9. Table(p.built, ItemIds, Line)
  BY <1>1, <1>4, <1>6, <1>8, PutOneType DEF LocalsOK
<1>10. LocalsOK(p)
  BY <1>1, <1>2, <1>3, <1>6, <1>9 DEF LocalsOK, Stages
<1>11. StageOK(p)'
  <2>1. Len(p.lines) = n - 1
    BY <1>3, <1>6
  <2> HIDE DEF n
  <2>2. p.item + Len(p.lines) <= ids.item + 1 /\ p.item >= 1
        /\ (p.pc = "build" => Len(p.lines) > 0) /\ p.pc \in {"build", "save"}
    BY <1>2, <1>6, <1>7, <1>8, <2>1
  <2> QED BY <1>1, <1>7, <2>2 DEF StageOK
<1> QED BY <1>1, <1>5, <1>10, <1>11, StepOK

LEMMA LoadForRemoveType ==
  ASSUME TypeOK, NEW r \in Requests, LoadForRemove(r)
  PROVE  RequestsOK'
<1>1. PICK o, p :
        /\ o \in DOMAIN orders
        /\ Go(r, p) /\ p = [[Idle EXCEPT !.pc = "delete", !.order = o] EXCEPT !.op = "remove"]
  BY DEF LoadForRemove, Accept
<1>2. /\ DOMAIN p = DOMAIN Idle /\ p.op = "remove" /\ p.pc = "delete" /\ p.order = o
      /\ p.item = 0 /\ p.status = Keep /\ p.held = NoRows /\ p.lines = <<>>
      /\ p.built = NoRows
  BY <1>1 DEF Idle
<1>3. o \in OrderIds /\ ids' = ids
  BY <1>1 DEF TypeOK, TablesOK, Table, LoadForRemove
<1>4. LocalsOK(p) /\ StageOK(p)'
  BY <1>2, <1>3, NoRowsType DEF LocalsOK, StageOK, Operations, Stages
<1> QED BY <1>1, <1>3, <1>4, StepOK

LEMMA LoadTaskType ==
  ASSUME TypeOK, NEW r \in Requests, LoadTask(r), RefInt
  PROVE  RequestsOK'
<1>1. PICK i, status, p :
        /\ i \in DOMAIN tasks /\ status \in TaskPatches
        /\ Go(r, p) /\ p = [[Idle EXCEPT !.pc = "saveTask", !.item = i, !.status = status,
                                      !.order = items[i].order] EXCEPT !.op = "serve"]
  BY DEF LoadTask, Accept
<1>2. /\ DOMAIN p = DOMAIN Idle /\ p.op = "serve" /\ p.pc = "saveTask"
      /\ p.order = items[i].order /\ p.item = i /\ p.status = status
      /\ p.held = NoRows /\ p.lines = <<>> /\ p.built = NoRows
  BY <1>1 DEF Idle
<1>3. /\ i \in ItemIds /\ i \in Nat /\ status \in TaskStatus /\ ids' = ids
      /\ items[i].order \in OrderIds \cup {NoOrder}
  BY <1>1, OrderTablesAssumption
     DEF TypeOK, TablesOK, Table, LoadTask, RefInt, ItemRow, ItemIds
<1>4. LocalsOK(p) /\ StageOK(p)'
  BY <1>2, <1>3, NoRowsType DEF LocalsOK, StageOK, Operations, Stages
<1> QED BY <1>1, <1>3, <1>4, StepOK

\* A handler that moves on with the same order, item, list and copies.
LEMMA SyncCompletionType ==
  ASSUME TypeOK, NEW r \in Requests, SyncCompletion(r)
  PROVE  RequestsOK'
<1>1. CASE MustComplete(req[r].order)
  <2>1. PICK p : Go(r, p) /\ p = [req[r] EXCEPT !.pc = "complete", !.status = "COMPLETED"]
                 /\ req[r].pc = "sync" /\ ids' = ids
    BY <1>1 DEF SyncCompletion, At
  <2>2. LocalsOK(req[r]) /\ StageOK(req[r])
    BY HandlerOK
  <2>3. /\ DOMAIN p = DOMAIN Idle /\ p.op = req[r].op /\ p.pc = "complete"
        /\ p.order = req[r].order /\ p.item = req[r].item /\ p.status = "COMPLETED"
        /\ p.held = req[r].held /\ p.lines = req[r].lines /\ p.built = req[r].built
    BY <2>1, <2>2 DEF LocalsOK, Idle
  <2>4. LocalsOK(p) /\ StageOK(p)'
    BY <2>1, <2>2, <2>3 DEF LocalsOK, StageOK, Stages, OrderStatus
  <2> QED BY <2>1, <2>4, StepOK
<1>2. CASE ~MustComplete(req[r].order)
  BY <1>2, FinishOK DEF SyncCompletion
<1> QED BY <1>1, <1>2

LEMMA SaveTaskType ==
  ASSUME TypeOK, NEW r \in Requests, SaveTask(r)
  PROVE  RequestsOK'
<1>1. CASE req[r].order = NoOrder
  BY <1>1, FinishOK DEF SaveTask
<1>2. CASE req[r].order # NoOrder
  <2>1. PICK p : Go(r, p) /\ p = [req[r] EXCEPT !.pc = "sync"]
                 /\ req[r].pc = "saveTask" /\ ids' = ids
    BY <1>2 DEF SaveTask, At
  <2>2. LocalsOK(req[r]) /\ StageOK(req[r])
    BY HandlerOK
  <2>3. /\ DOMAIN p = DOMAIN Idle /\ p.op = req[r].op /\ p.pc = "sync"
        /\ p.order = req[r].order /\ p.item = req[r].item /\ p.status = req[r].status
        /\ p.held = req[r].held /\ p.lines = req[r].lines /\ p.built = req[r].built
    BY <2>1, <2>2 DEF LocalsOK, Idle
  <2>4. LocalsOK(p) /\ StageOK(p)'
    BY <1>2, <2>1, <2>2, <2>3 DEF LocalsOK, StageOK, Stages
  <2> QED BY <2>1, <2>4, StepOK
<1> QED BY <1>1, <1>2

LEMMA LoadForPayType ==
  ASSUME TypeOK, NEW r \in Requests, LoadForPay(r)
  PROVE  RequestsOK' /\ ids' \in IdCounts
<1>1. PICK o, p :
        /\ o \in DOMAIN orders
        /\ ids.payment < MaxPayments
        /\ Go(r, p)
        /\ p = [[Idle EXCEPT !.pc = "check", !.order = o, !.item = ids.payment + 1,
                             !.held = HeldCopy(o)] EXCEPT !.op = "pay"]
        /\ ids' = [ids EXCEPT !.payment = ids.payment + 1]
  BY DEF LoadForPay, Accept
<1>2. /\ DOMAIN p = DOMAIN Idle /\ p.op = "pay" /\ p.pc = "check" /\ p.order = o
      /\ p.item = ids.payment + 1 /\ p.status = Keep /\ p.held = HeldCopy(o)
      /\ p.lines = <<>> /\ p.built = NoRows
  BY <1>1 DEF Idle
<1>3. o \in OrderIds
  BY <1>1 DEF TypeOK, TablesOK, Table
<1>4. p.item \in PaymentIds /\ p.item \in Nat /\ ids.payment + 1 \in 0..MaxPayments
  BY <1>1, <1>2, HandlerOK, BoundsAreNat DEF PaymentIds
<1>5. ids \in IdCounts
  BY DEF TypeOK, TablesOK
<1>6. ids' \in IdCounts /\ ids'.item = ids.item
  BY <1>1, <1>4, <1>5 DEF IdCounts
<1>7. LocalsOK(p) /\ StageOK(p)'
  BY <1>2, <1>3, <1>4, NoRowsType, HeldCopyType DEF LocalsOK, StageOK, Operations, Stages
<1> QED BY <1>1, <1>6, <1>7, StepOK

LEMMA CheckPaymentType ==
  ASSUME TypeOK, NEW r \in Requests, CheckPayment(r)
  PROVE  RequestsOK'
<1>1. PICK bill, p : Go(r, p) /\ p = [req[r] EXCEPT !.pc = "charge", !.bill = bill]
                     /\ req[r].pc = "check" /\ ids' = ids
  BY DEF CheckPayment, At
<1>2. LocalsOK(req[r]) /\ StageOK(req[r])
  BY HandlerOK
<1>3. /\ DOMAIN p = DOMAIN Idle /\ p.op = req[r].op /\ p.pc = "charge"
      /\ p.order = req[r].order /\ p.item = req[r].item /\ p.status = req[r].status
      /\ p.held = req[r].held /\ p.lines = req[r].lines /\ p.built = req[r].built
  BY <1>1, <1>2 DEF LocalsOK, Idle
<1>4. LocalsOK(p) /\ StageOK(p)'
  BY <1>1, <1>2, <1>3 DEF LocalsOK, StageOK, Stages
<1> QED BY <1>1, <1>4, StepOK

LEMMA RestartType == ASSUME TypeOK, Restart PROVE RequestsOK'
BY IdleOK DEF Restart, RequestsOK, StageOK, Idle

-----------------------------------------------------------------------------
(* Type correctness and references: the tables, write by write. *)

TypeInv == TypeOK /\ RefInt

\* The part of the invariant that is about the tables the services write.
RowsOK ==
  /\ Table(orders, OrderIds, OrderStatus)
  /\ Table(items, ItemIds, ItemRow)
  /\ Table(tasks, ItemIds, TaskStatus)
  /\ DOMAIN payments \subseteq PaymentIds
  /\ \A p \in DOMAIN payments : payments[p].order \in OrderIds
  /\ RefInt

LEMMA DeleteItemsOK ==
  ASSUME RowsOK, NEW K, DeleteItems(K), UNCHANGED <<orders, payments>>
  PROVE  RowsOK'
<1>1. Table(items', ItemIds, ItemRow) /\ Table(tasks', ItemIds, TaskStatus)
  BY WithoutType DEF RowsOK, DeleteItems
<1>2. RefInt'
  BY DEF RowsOK, RefInt, DeleteItems, Without, Restrict
<1> QED BY <1>1, <1>2 DEF RowsOK

LEMMA DeleteOrderRowOK ==
  ASSUME RowsOK, NEW o, DeleteOrderRow(o)
  PROVE  RowsOK'
<1>1. /\ Table(orders', OrderIds, OrderStatus) /\ Table(items', ItemIds, ItemRow)
      /\ Table(tasks', ItemIds, TaskStatus)
  BY WithoutType DEF RowsOK, DeleteOrderRow, DeleteItems
<1>2. /\ DOMAIN payments' \subseteq DOMAIN payments
      /\ \A p \in DOMAIN payments' : payments'[p] = payments[p]
  BY DEF DeleteOrderRow, Without, Restrict
<1>3. RefInt'
  BY DEF RowsOK, RefInt, DeleteOrderRow, DeleteItems, Without, Restrict, ItemsOf, PaymentsOf
<1> QED BY <1>1, <1>2, <1>3 DEF RowsOK

LEMMA SaveOrderRowOK ==
  ASSUME RowsOK, NEW o \in OrderIds, NEW status \in OrderStatus, SaveOrderRow(o, status)
  PROVE  /\ Table(orders', OrderIds, OrderStatus)
         /\ DOMAIN orders' = DOMAIN orders \cup {o}
BY PutOneType DEF RowsOK, SaveOrderRow, Put, Row

\* What is left of the items, and how far the attached ones reach.
LEMMA SaveOrderOK ==
  ASSUME RowsOK, NEW o \in OrderIds, NEW status \in OrderStatus, NEW held, NEW built,
         Table(held, ItemIds, Line), Table(built, ItemIds, Line),
         SaveOrder(o, status, held, built), UNCHANGED payments
  PROVE  RowsOK'
<1> DEFINE attach(rows) == [i \in DOMAIN rows |-> [order |-> o, line |-> rows[i]]]
           detach(row) == IF row.order = o THEN [row EXCEPT !.order = NoOrder] ELSE row
           rest == [i \in DOMAIN items |-> detach(items[i])]
<1>1. items' = Put(attach(built), Put(attach(held), rest))
  BY DEF SaveOrder
<1>2. /\ Table(orders', OrderIds, OrderStatus)
      /\ DOMAIN orders' = DOMAIN orders \cup {o}
  BY SaveOrderRowOK DEF SaveOrder
<1>3. Table(attach(held), ItemIds, ItemRow) /\ Table(attach(built), ItemIds, ItemRow)
  BY DEF Table, ItemRow
<1>4. Table(rest, ItemIds, ItemRow)
  BY DEF RowsOK, Table, ItemRow
<1>5. Table(items', ItemIds, ItemRow)
  BY <1>1, <1>3, <1>4, PutType
<1>6. tasks' = Put([i \in DOMAIN built |-> "pending"], tasks)
  BY DEF SaveOrder, InsertTasks
<1>7. Table(tasks', ItemIds, TaskStatus)
  <2>1. Table([i \in DOMAIN built |-> "pending"], ItemIds, TaskStatus)
    BY DEF Table, TaskStatus
  <2> QED BY <1>6, <2>1, PutType DEF RowsOK
<1>8. DOMAIN items' = DOMAIN built \cup (DOMAIN held \cup DOMAIN items)
  BY <1>1 DEF Put
<1>9. DOMAIN tasks' = DOMAIN built \cup DOMAIN tasks
  BY <1>6 DEF Put
<1>10. \A i \in DOMAIN items' : items'[i].order \in DOMAIN orders' \cup {NoOrder}
  <2>1. \A i \in DOMAIN rest : rest[i].order \in DOMAIN orders \cup {NoOrder}
    BY DEF RowsOK, RefInt, Table, ItemRow
  <2> HIDE DEF rest
  <2> QED BY <1>1, <1>2, <2>1 DEF Put
<1>11. RefInt'
  BY <1>2, <1>8, <1>9, <1>10 DEF RowsOK, RefInt
<1> QED BY <1>2, <1>5, <1>7, <1>11 DEF RowsOK

-----------------------------------------------------------------------------
(* Type correctness: every action. *)

MenuOK == menu \in [Products -> MenuEntry]

LEMMA InvParts == TypeInv <=> RowsOK /\ RequestsOK /\ MenuOK /\ ids \in IdCounts
BY DEF TypeInv, TypeOK, TablesOK, RowsOK, MenuOK

LEMMA RowsKept == ASSUME RowsOK, UNCHANGED db PROVE RowsOK'
BY DEF RowsOK, RefInt, db

\* An action of a handler that reads the tables, or fails.
LEMMA ReadStep ==
  ASSUME TypeInv, UNCHANGED <<db, menu>>, RequestsOK', ids' \in IdCounts
  PROVE  TypeInv'
<1>1. RowsOK' /\ MenuOK'
  BY InvParts, RowsKept DEF MenuOK
<1>2. TypeInv' <=> RowsOK' /\ RequestsOK' /\ MenuOK' /\ ids' \in IdCounts
  BY DEF TypeInv, TypeOK, TablesOK, RowsOK, MenuOK
<1> QED BY <1>1, <1>2

\* An action of a handler that writes the tables.
LEMMA WriteStep ==
  ASSUME TypeInv, RowsOK', UNCHANGED <<menu, ids>>, RequestsOK'
  PROVE  TypeInv'
<1>1. MenuOK' /\ ids' \in IdCounts
  BY InvParts DEF MenuOK
<1>2. TypeInv' <=> RowsOK' /\ RequestsOK' /\ MenuOK' /\ ids' \in IdCounts
  BY DEF TypeInv, TypeOK, TablesOK, RowsOK, MenuOK
<1> QED BY <1>1, <1>2

LEMMA OrdersInv ==
  ASSUME TypeInv, NEW r \in Requests, OrdersStep(r) \/ OrdersRequest(r)
  PROVE  TypeInv'
<1>1. TypeOK /\ RowsOK /\ LocalsOK(req[r]) /\ StageOK(req[r]) /\ ids \in IdCounts
  BY InvParts, HandlerOK DEF TypeInv
<1>2. CASE CreateOrder(r)
  BY <1>1, <1>2, CreateOrderType, ReadStep DEF CreateOrder
<1>3. CASE LoadForUpdate(r)
  BY <1>1, <1>3, LoadForUpdateType, ReadStep DEF LoadForUpdate
<1>4. CASE LoadForRemove(r)
  BY <1>1, <1>4, LoadForRemoveType, ReadStep DEF LoadForRemove
<1>5. CASE ClearItems(r)
  <2>1. RowsOK'
    BY <1>1, <1>5, DeleteItemsOK DEF ClearItems
  <2> QED BY <1>1, <1>5, <2>1, ClearItemsType, WriteStep DEF ClearItems
<1>6. CASE BuildItem(r)
  BY <1>1, <1>6, BuildItemType, ReadStep DEF BuildItem
<1>7. CASE RejectItem(r)
  BY <1>1, <1>7, FinishOK, ReadStep DEF RejectItem
<1>8. CASE SaveBuilt(r)
  <2>1. /\ req[r].order \in OrderIds /\ req[r].status \in OrderStatus
        /\ Table(req[r].held, ItemIds, Line) /\ Table(req[r].built, ItemIds, Line)
    BY <1>1, <1>8 DEF SaveBuilt, At, StageOK, LocalsOK
  <2>2. RowsOK'
    BY <1>1, <1>8, <2>1, SaveOrderOK DEF SaveBuilt
  <2> QED BY <1>1, <1>8, <2>2, FinishOK, WriteStep DEF SaveBuilt
<1>9. CASE RemoveOrder(r)
  <2>1. RowsOK'
    BY <1>1, <1>9, DeleteOrderRowOK DEF RemoveOrder
  <2> QED BY <1>1, <1>9, <2>1, FinishOK, WriteStep DEF RemoveOrder
<1> QED
  BY <1>2, <1>3, <1>4, <1>5, <1>6, <1>7, <1>8, <1>9 DEF OrdersStep, OrdersRequest

LEMMA StationItemsInv ==
  ASSUME TypeInv, NEW r \in Requests, StationItemsStep(r) \/ LoadTask(r)
  PROVE  TypeInv'
<1>1. /\ TypeOK /\ RowsOK /\ RefInt /\ LocalsOK(req[r]) /\ StageOK(req[r])
      /\ ids \in IdCounts
  BY InvParts, HandlerOK DEF TypeInv
<1>2. CASE LoadTask(r)
  BY <1>1, <1>2, LoadTaskType, ReadStep DEF LoadTask
<1>3. CASE SaveTask(r)
  <2>1. req[r].item \in ItemIds /\ req[r].status \in TaskStatus /\ req[r].item \in DOMAIN items
    BY <1>1, <1>3 DEF SaveTask, At, StageOK
  <2>2. Table(tasks', ItemIds, TaskStatus)
    BY <1>1, <1>3, <2>1, PutOneType DEF RowsOK, SaveTask
  <2>3. DOMAIN tasks' = {req[r].item} \cup DOMAIN tasks
    BY <1>3 DEF SaveTask, Put, Row
  <2>4. RowsOK'
    BY <1>1, <1>3, <2>1, <2>2, <2>3 DEF RowsOK, RefInt, SaveTask
  <2> QED BY <1>1, <1>3, <2>4, SaveTaskType, WriteStep DEF SaveTask
<1>4. CASE RejectTask(r)
  BY <1>1, <1>4, FinishOK, ReadStep DEF RejectTask
<1>5. CASE SyncCompletion(r)
  BY <1>1, <1>5, SyncCompletionType, ReadStep DEF SyncCompletion
<1>6. CASE CompleteOrder(r)
  <2>1. req[r].order \in OrderIds /\ req[r].status \in OrderStatus
    BY <1>1, <1>6 DEF CompleteOrder, At, StageOK, OrderStatus
  <2>2. /\ Table(orders', OrderIds, OrderStatus)
        /\ DOMAIN orders' = DOMAIN orders \cup {req[r].order}
    BY <1>1, <1>6, <2>1, SaveOrderRowOK DEF CompleteOrder
  <2>3. RowsOK'
    BY <1>1, <1>6, <2>2 DEF RowsOK, RefInt, CompleteOrder
  <2> QED BY <1>1, <1>6, <2>3, FinishOK, WriteStep DEF CompleteOrder
<1> QED BY <1>2, <1>3, <1>4, <1>5, <1>6 DEF StationItemsStep

LEMMA PaymentsInv ==
  ASSUME TypeInv, NEW r \in Requests, PaymentsStep(r) \/ LoadForPay(r)
  PROVE  TypeInv'
<1>1. TypeOK /\ RowsOK /\ LocalsOK(req[r]) /\ StageOK(req[r]) /\ ids \in IdCounts
  BY InvParts, HandlerOK DEF TypeInv
<1>2. CASE LoadForPay(r)
  BY <1>1, <1>2, LoadForPayType, ReadStep DEF LoadForPay
<1>3. CASE CheckPayment(r)
  BY <1>1, <1>3, CheckPaymentType, ReadStep DEF CheckPayment
<1>4. CASE RefusePayment(r)
  BY <1>1, <1>4, FinishOK, ReadStep DEF RefusePayment
<1>5. CASE ChargeOrder(r)
  <2>1. req[r].item \in PaymentIds /\ req[r].order \in OrderIds /\ req[r].order \in DOMAIN orders
    BY <1>1, <1>5 DEF ChargeOrder, At, StageOK
  <2>2. /\ DOMAIN payments' = {req[r].item} \cup DOMAIN payments
        /\ \A p \in DOMAIN payments' : IF p = req[r].item
                                         THEN payments'[p].order = req[r].order
                                         ELSE payments'[p] = payments[p]
    BY <1>5 DEF ChargeOrder, Put, Row
  <2>3. RowsOK'
    BY <1>1, <1>5, <2>1, <2>2 DEF RowsOK, RefInt, ChargeOrder
  <2> QED BY <1>1, <1>5, <2>3, FinishOK, WriteStep DEF ChargeOrder
<1>6. CASE ChargeFails(r)
  BY <1>1, <1>6, FinishOK, ReadStep DEF ChargeFails
<1> QED BY <1>2, <1>3, <1>4, <1>5, <1>6 DEF PaymentsStep

LEMMA MenuInv ==
  ASSUME TypeInv, NEW p \in Products, ChangeMenu(p)
  PROVE  TypeInv'
<1>1. RowsOK' /\ RequestsOK'
  BY RowsKept, InvParts DEF ChangeMenu, RequestsOK, StageOK
<1>2. MenuOK' /\ ids' \in IdCounts
  BY InvParts DEF ChangeMenu, MenuOK
<1> QED BY <1>1, <1>2 DEF TypeInv, TypeOK, TablesOK, RowsOK, MenuOK

\* Where the system starts.
LEMMA InitInv == Init => TypeInv
<1> SUFFICES ASSUME Init PROVE TypeInv
  OBVIOUS
<1>1. RowsOK
  BY DEF Init, RowsOK, RefInt, Table, NoRows
<1>2. RequestsOK
  BY IdleOK DEF Init, RequestsOK, StageOK, Idle
<1>3. MenuOK
  BY DEF Init, MenuOK, MenuEntry
<1>4. ids \in IdCounts
  BY BoundsAreNat DEF Init, IdCounts
<1> QED BY <1>1, <1>2, <1>3, <1>4, InvParts

LEMMA NextInv == TypeInv /\ [Next]_vars => TypeInv'
<1> SUFFICES ASSUME TypeInv, [Next]_vars PROVE TypeInv'
  OBVIOUS
<1>1. CASE \E r \in Requests : Step(r) \/ Request(r)
  BY <1>1, OrdersInv, StationItemsInv, PaymentsInv DEF Step, Request
<1>2. CASE \E p \in Products : ChangeMenu(p)
  BY <1>2, MenuInv
<1>3. CASE Restart
  BY <1>3, RestartType, ReadStep, InvParts DEF TypeInv, Restart
<1>4. CASE UNCHANGED vars
  <2>1. RowsOK' /\ RequestsOK'
    BY <1>4, RowsKept, InvParts DEF vars, db, RequestsOK, StageOK
  <2>2. ids' \in IdCounts /\ UNCHANGED <<db, menu>>
    BY <1>4, InvParts DEF vars, db
  <2> QED BY <2>1, <2>2, ReadStep
<1> QED BY <1>1, <1>2, <1>3, <1>4 DEF Next

LEMMA TypeInvHolds == Spec => []TypeInv
BY InitInv, NextInv, PTL DEF Spec

\* Every handler, wherever it was interrupted, holds locals from which its
\* next repository call writes well-formed rows, and the tables are
\* well-formed, for any number of concurrent requests.
THEOREM TypeCorrect == Spec => []TypeOK
<1>1. TypeInv => TypeOK
  BY DEF TypeInv
<1> QED BY <1>1, TypeInvHolds, PTL

\* No row refers to a row that is not there, whatever stale copies the
\* handlers write back and whatever is removed meanwhile.
THEOREM ReferencesHold == Spec => []RefInt
<1>1. TypeInv => RefInt
  BY DEF TypeInv
<1> QED BY <1>1, TypeInvHolds, PTL

-----------------------------------------------------------------------------
(* An order item keeps the price and quantity it was ordered with, however *)
(* stale the copies are that handlers write back.  A row can be written    *)
(* from a copy in a handler's memory, so every copy must agree with the    *)
(* row and with every other copy (CopiesAgree), also while the row is      *)
(* deleted and only copies are left.  A new row is written under an id     *)
(* that no row and no copy has (IdsFresh).                                 *)

\* The item ids a handler is still going to insert.
Reserved(q) ==
  IF q.pc \in {"build", "clear", "save"}
    THEN DOMAIN q.built \cup (q.item .. q.item + Len(q.lines) - 1)
    ELSE {}

Handed == 1..ids.item

IdsFresh ==
  /\ DOMAIN items \subseteq Handed
  /\ \A r \in Requests :
       /\ DOMAIN req[r].held \subseteq Handed
       /\ Reserved(req[r]) \subseteq Handed
       /\ DOMAIN items \cap Reserved(req[r]) = {}
       /\ \A s \in Requests :
            /\ DOMAIN req[s].held \cap Reserved(req[r]) = {}
            /\ r # s => Reserved(req[s]) \cap Reserved(req[r]) = {}

SnapInv == IdsFresh /\ CopiesAgree

\* What one step of the handler of r does to the rows and to its own copies,
\* unless it is the save of an order: rows only go away, its copies are the
\* ones it had or are read from rows, its ids are the ones it had or are new.
Harmless(r, q) ==
  /\ Go(r, q)
  /\ ids'.item \in Nat /\ ids.item <= ids'.item
  /\ DOMAIN items' \subseteq DOMAIN items
  /\ \A i \in DOMAIN items' : items'[i] = items[i]
  /\ \A i \in DOMAIN q.held :
       \/ i \in DOMAIN req[r].held /\ q.held[i] = req[r].held[i]
       \/ i \in DOMAIN items /\ q.held[i] = items[i].line
  /\ \/ Reserved(q) \subseteq Reserved(req[r])
     \/ Reserved(q) \subseteq (ids.item + 1) .. ids'.item

LEMMA HarmlessStep ==
  ASSUME TypeInv, SnapInv, NEW r \in Requests, NEW q, Harmless(r, q)
  PROVE  SnapInv'
<1> DEFINE old == req[r]
<1>1. /\ req'[r] = q /\ \A s \in Requests \ {r} : req'[s] = req[s]
  BY DEF Harmless, Go, TypeInv, TypeOK, RequestsOK
<1>2. ids.item \in Nat /\ ids'.item \in Nat /\ ids.item <= ids'.item
  BY HandlerOK DEF TypeInv, Harmless
<1>3. Handed \subseteq Handed' /\ \A k \in (ids.item + 1) .. ids'.item : k \notin Handed /\ k \in Handed'
  BY <1>2 DEF Handed
<1>4. /\ DOMAIN items \subseteq Handed
      /\ DOMAIN old.held \subseteq Handed /\ Reserved(old) \subseteq Handed
      /\ DOMAIN q.held \subseteq DOMAIN old.held \cup DOMAIN items
      /\ DOMAIN items' \subseteq DOMAIN items
      /\ \/ Reserved(q) \subseteq Reserved(old)
         \/ Reserved(q) \subseteq (ids.item + 1) .. ids'.item
  BY DEF SnapInv, IdsFresh, Harmless
<1>5. ASSUME NEW s \in Requests
      PROVE  /\ DOMAIN req'[s].held \subseteq Handed'
             /\ Reserved(req'[s]) \subseteq Handed'
             /\ DOMAIN items' \cap Reserved(req'[s]) = {}
  <2>1. CASE s = r
    <3>1. DOMAIN items \cap Reserved(old) = {}
      BY DEF SnapInv, IdsFresh
    <3> QED BY <1>1, <1>3, <1>4, <2>1, <3>1
  <2>2. CASE s # r
    <3>1. /\ DOMAIN req[s].held \subseteq Handed /\ Reserved(req[s]) \subseteq Handed
          /\ DOMAIN items \cap Reserved(req[s]) = {}
      BY DEF SnapInv, IdsFresh
    <3> QED BY <1>1, <1>3, <1>4, <2>2, <3>1
  <2> QED BY <2>1, <2>2
<1>6. ASSUME NEW s \in Requests, NEW t \in Requests
      PROVE  /\ DOMAIN req'[t].held \cap Reserved(req'[s]) = {}
             /\ s # t => Reserved(req'[t]) \cap Reserved(req'[s]) = {}
  <2>1. \A u \in Requests, v \in Requests :
          /\ DOMAIN items \subseteq Handed /\ DOMAIN req[u].held \subseteq Handed
          /\ Reserved(req[u]) \subseteq Handed /\ DOMAIN items \cap Reserved(req[u]) = {}
          /\ DOMAIN req[v].held \cap Reserved(req[u]) = {}
          /\ u # v => Reserved(req[v]) \cap Reserved(req[u]) = {}
    BY DEF SnapInv, IdsFresh
  <2>2. CASE s = r /\ t = r
    BY <1>1, <1>3, <1>4, <2>1, <2>2
  <2>3. CASE s = r /\ t # r
    BY <1>1, <1>3, <1>4, <2>1, <2>3
  <2>4. CASE s # r /\ t = r
    BY <1>1, <1>3, <1>4, <2>1, <2>4
  <2>5. CASE s # r /\ t # r
    BY <1>1, <2>1, <2>5
  <2> QED BY <2>2, <2>3, <2>4, <2>5
<1>7. IdsFresh'
  BY <1>3, <1>4, <1>5, <1>6 DEF IdsFresh, Handed
<1>8. ASSUME NEW s \in Requests, NEW t \in Requests, NEW i \in DOMAIN req'[s].held
      PROVE  /\ i \in DOMAIN items' => items'[i].line = req'[s].held[i]
             /\ i \in DOMAIN req'[t].held => req'[t].held[i] = req'[s].held[i]
  <2>1. \A u \in Requests, v \in Requests : \A k \in DOMAIN req[u].held :
          /\ k \in DOMAIN items => items[k].line = req[u].held[k]
          /\ k \in DOMAIN req[v].held => req[v].held[k] = req[u].held[k]
    BY DEF SnapInv, CopiesAgree
  <2>2. \A k \in DOMAIN q.held :
          \/ k \in DOMAIN req[r].held /\ q.held[k] = req[r].held[k]
          \/ k \in DOMAIN items /\ q.held[k] = items[k].line
    BY DEF Harmless
  <2>3. \A k \in DOMAIN items' : k \in DOMAIN items /\ items'[k] = items[k]
    BY DEF Harmless
  <2>4. CASE s = r /\ t = r
    BY <1>1, <1>8, <2>1, <2>2, <2>3, <2>4
  <2>5. CASE s = r /\ t # r
    BY <1>1, <1>8, <2>1, <2>2, <2>3, <2>5
  <2>6. CASE s # r /\ t = r
    BY <1>1, <1>8, <2>1, <2>2, <2>3, <2>6
  <2>7. CASE s # r /\ t # r
    BY <1>1, <1>8, <2>1, <2>3, <2>7
  <2> QED BY <2>4, <2>5, <2>6, <2>7
<1>9. CopiesAgree'
  BY <1>8 DEF CopiesAgree
<1> QED BY <1>7, <1>9 DEF SnapInv

-----------------------------------------------------------------------------
(* The steps that are harmless. *)

LEMMA FinishHarmless ==
  ASSUME TypeInv, NEW r \in Requests, Finish(r), ids' = ids,
         DOMAIN items' \subseteq DOMAIN items,
         \A i \in DOMAIN items' : items'[i] = items[i]
  PROVE  Harmless(r, Idle)
<1>1. DOMAIN Idle.held = {} /\ Reserved(Idle) = {}
  BY DEF Idle, NoRows, Reserved
<1>2. ids.item \in Nat
  BY HandlerOK DEF TypeInv
<1> QED BY <1>1, <1>2 DEF Harmless, Finish

\* A handler that moves on without changing its list, copies and new items.
LEMMA MoveHarmless ==
  ASSUME TypeInv, NEW r \in Requests, NEW q, Go(r, q), ids' = ids, items' = items,
         q.held = req[r].held, q.pc \notin {"build", "clear", "save"}
  PROVE  Harmless(r, q)
<1>1. ids.item \in Nat
  BY HandlerOK DEF TypeInv
<1>2. Reserved(q) = {}
  BY DEF Reserved
<1> QED BY <1>1, <1>2 DEF Harmless

LEMMA CreateOrderHarmless ==
  ASSUME TypeInv, NEW r \in Requests, CreateOrder(r)
  PROVE  \E q : Harmless(r, q)
<1>1. PICK cart, p :
        /\ cart \in OrderCarts
        /\ Go(r, p)
        /\ p = [[Idle EXCEPT !.pc = "build", !.order = ids.order + 1,
                             !.item = ids.item + 1, !.status = "NEW",
                             !.lines = cart] EXCEPT !.op = "create"]
        /\ ids' = [ids EXCEPT !.order = ids.order + 1, !.item = ids.item + Len(cart)]
        /\ items' = items
  BY DEF CreateOrder, Accept, db
<1>2. /\ p.pc = "build" /\ p.item = ids.item + 1 /\ p.lines = cart
      /\ DOMAIN p.held = {} /\ DOMAIN p.built = {}
  BY <1>1 DEF Idle, NoRows
<1>3. Len(cart) \in Nat /\ ids.item \in Nat
  BY <1>1, OrderTablesAssumption, HandlerOK DEF TypeInv
<1>4. ids'.item = ids.item + Len(cart)
  <2>1. ids \in IdCounts
    BY DEF TypeInv, TypeOK, TablesOK
  <2> QED BY <1>1, <2>1 DEF IdCounts
<1>5. Reserved(p) = (ids.item + 1) .. ids'.item
  BY <1>2, <1>3, <1>4 DEF Reserved
<1>6. Harmless(r, p)
  BY <1>1, <1>2, <1>3, <1>4, <1>5 DEF Harmless
<1> QED BY <1>6

LEMMA LoadForUpdateHarmless ==
  ASSUME TypeInv, NEW r \in Requests, LoadForUpdate(r)
  PROVE  \E q : Harmless(r, q)
<1>1. PICK o, patch, cart, p :
        /\ cart \in EditCarts
        /\ Go(r, p)
        /\ p = [[Idle EXCEPT !.pc = UpdateFrom(o, cart), !.order = o,
                             !.item = ids.item + 1, !.status = Assign(o, patch),
                             !.held = HeldCopy(o), !.lines = cart]
                  EXCEPT !.op = "update"]
        /\ ids' = [ids EXCEPT !.item = ids.item + Len(cart)]
        /\ items' = items
  BY DEF LoadForUpdate, Accept, db
<1>2. /\ p.item = ids.item + 1 /\ p.lines = cart /\ p.held = HeldCopy(o)
      /\ DOMAIN p.built = {}
  BY <1>1 DEF Idle, NoRows
<1>3. Len(cart) \in Nat /\ ids.item \in Nat
  BY <1>1, OrderTablesAssumption, HandlerOK DEF TypeInv
<1>4. ids'.item = ids.item + Len(cart)
  <2>1. ids \in IdCounts
    BY DEF TypeInv, TypeOK, TablesOK
  <2> QED BY <1>1, <2>1 DEF IdCounts
<1>5. Reserved(p) \subseteq (ids.item + 1) .. ids'.item
  BY <1>2, <1>3, <1>4 DEF Reserved
<1>6. \A i \in DOMAIN p.held : i \in DOMAIN items /\ p.held[i] = items[i].line
  BY <1>2 DEF HeldCopy, ItemsOf
<1>7. Harmless(r, p)
  BY <1>1, <1>3, <1>4, <1>5, <1>6 DEF Harmless
<1> QED BY <1>7

LEMMA LoadForPayHarmless ==
  ASSUME TypeInv, NEW r \in Requests, LoadForPay(r)
  PROVE  \E q : Harmless(r, q)
<1>1. PICK o, p :
        /\ Go(r, p)
        /\ p = [[Idle EXCEPT !.pc = "check", !.order = o, !.item = ids.payment + 1,
                             !.held = HeldCopy(o)] EXCEPT !.op = "pay"]
        /\ ids' = [ids EXCEPT !.payment = ids.payment + 1]
        /\ items' = items
  BY DEF LoadForPay, Accept, db
<1>2. p.pc = "check" /\ p.held = HeldCopy(o)
  BY <1>1 DEF Idle
<1>3. Reserved(p) = {}
  BY <1>2 DEF Reserved
<1>4. ids'.item = ids.item /\ ids.item \in Nat
  <2>1. ids \in IdCounts
    BY DEF TypeInv, TypeOK, TablesOK
  <2> QED BY <1>1, <2>1, HandlerOK DEF IdCounts, TypeInv
<1>5. \A i \in DOMAIN p.held : i \in DOMAIN items /\ p.held[i] = items[i].line
  BY <1>2 DEF HeldCopy, ItemsOf
<1>6. Harmless(r, p)
  BY <1>1, <1>3, <1>4, <1>5 DEF Harmless
<1> QED BY <1>6

\* A request that loads no items.
LEMMA AcceptHarmless ==
  ASSUME TypeInv, NEW r \in Requests, LoadForRemove(r) \/ LoadTask(r)
  PROVE  \E q : Harmless(r, q)
<1>1. ids' = ids /\ items' = items /\ ids.item \in Nat
  BY HandlerOK DEF LoadForRemove, LoadTask, db, TypeInv
<1>2. ASSUME NEW p, Go(r, p), p.pc \in {"delete", "saveTask"}, p.held = NoRows
      PROVE  Harmless(r, p)
  <2>1. Reserved(p) = {} /\ DOMAIN p.held = {}
    BY <1>2 DEF Reserved, NoRows
  <2> QED BY <1>1, <1>2, <2>1 DEF Harmless
<1>3. CASE LoadForRemove(r)
  <2>1. PICK o, p : /\ Go(r, p)
                    /\ p = [[Idle EXCEPT !.pc = "delete", !.order = o] EXCEPT !.op = "remove"]
    BY <1>3 DEF LoadForRemove, Accept
  <2>2. p.pc \in {"delete", "saveTask"} /\ p.held = NoRows
    BY <2>1 DEF Idle
  <2>3. Harmless(r, p)
    BY <1>2, <2>1, <2>2
  <2> QED BY <2>3
<1>4. CASE LoadTask(r)
  <2>1. PICK i, status, p :
          /\ Go(r, p)
          /\ p = [[Idle EXCEPT !.pc = "saveTask", !.item = i, !.status = status,
                               !.order = items[i].order] EXCEPT !.op = "serve"]
    BY <1>4 DEF LoadTask, Accept
  <2>2. p.pc \in {"delete", "saveTask"} /\ p.held = NoRows
    BY <2>1 DEF Idle
  <2>3. Harmless(r, p)
    BY <1>2, <2>1, <2>2
  <2> QED BY <2>3
<1> QED BY <1>3, <1>4

LEMMA ClearItemsHarmless ==
  ASSUME TypeInv, NEW r \in Requests, ClearItems(r)
  PROVE  \E q : Harmless(r, q)
<1>1. PICK p : Go(r, p) /\ p = [req[r] EXCEPT !.pc = "build", !.held = NoRows]
               /\ req[r].pc = "clear" /\ ids' = ids
  BY DEF ClearItems, At
<1>2. LocalsOK(req[r]) /\ ids.item \in Nat
  BY HandlerOK DEF TypeInv
<1>3. /\ p.pc = "build" /\ p.item = req[r].item /\ p.held = NoRows
      /\ p.lines = req[r].lines /\ p.built = req[r].built
  BY <1>1, <1>2 DEF LocalsOK, Idle
<1>4. Reserved(p) = Reserved(req[r]) /\ DOMAIN p.held = {}
  BY <1>1, <1>3 DEF Reserved, NoRows
<1>5. DOMAIN items' \subseteq DOMAIN items /\ \A i \in DOMAIN items' : items'[i] = items[i]
  BY DEF ClearItems, DeleteItems, Without, Restrict
<1>6. Harmless(r, p)
  BY <1>1, <1>2, <1>4, <1>5 DEF Harmless
<1> QED BY <1>6

\* The line that is built takes the first of the reserved ids.
LEMMA BuildItemHarmless ==
  ASSUME TypeInv, NEW r \in Requests, BuildItem(r)
  PROVE  \E q : Harmless(r, q)
<1> DEFINE n == Len(req[r].lines)
           k == req[r].item
<1>1. PICK row, p :
        /\ Go(r, p)
        /\ p = [req[r] EXCEPT !.pc = IF Len(req[r].lines) = 1 THEN "save" ELSE "build",
                              !.lines = Tail(req[r].lines),
                              !.item = req[r].item + 1,
                              !.built = Put(Row(req[r].item, row), req[r].built)]
        /\ req[r].pc = "build" /\ ids' = ids /\ items' = items
  BY DEF BuildItem, At, db
<1>2. LocalsOK(req[r]) /\ StageOK(req[r]) /\ ids.item \in Nat
  BY HandlerOK DEF TypeInv
<1>3. req[r].lines \in Seq(CartLine) /\ n \in Nat /\ n > 0 /\ k \in Nat
  BY <1>1, <1>2 DEF LocalsOK, StageOK
<1>4. /\ p.pc \in {"save", "build"} /\ p.item = k + 1 /\ p.held = req[r].held
      /\ Len(p.lines) = n - 1 /\ DOMAIN p.built = {k} \cup DOMAIN req[r].built
  <2>1. /\ p.pc = IF n = 1 THEN "save" ELSE "build"
        /\ p.item = k + 1 /\ p.held = req[r].held /\ p.lines = Tail(req[r].lines)
        /\ p.built = Put(Row(k, row), req[r].built)
    BY <1>1, <1>2 DEF LocalsOK, Idle
  <2>2. Len(Tail(req[r].lines)) = n - 1
    BY <1>3
  <2>3. DOMAIN Put(Row(k, row), req[r].built) = {k} \cup DOMAIN req[r].built
    BY DEF Put, Row
  <2> QED BY <2>1, <2>2, <2>3
<1>5. Reserved(p) = DOMAIN p.built \cup (k + 1 .. k + 1 + (n - 1) - 1)
  BY <1>4 DEF Reserved
<1>6. Reserved(req[r]) = DOMAIN req[r].built \cup (k .. k + n - 1)
  BY <1>1 DEF Reserved
<1>7. Reserved(p) \subseteq Reserved(req[r])
  <2> HIDE DEF n, k
  <2>1. k \in k .. k + n - 1 /\ (k + 1 .. k + 1 + (n - 1) - 1) \subseteq (k .. k + n - 1)
    BY <1>3
  <2> QED BY <1>4, <1>5, <1>6, <2>1
<1>8. Harmless(r, p)
  BY <1>1, <1>2, <1>4, <1>7 DEF Harmless
<1> QED BY <1>8

-----------------------------------------------------------------------------
(* The save of an order. *)

LEMMA SaveBuiltSnap ==
  ASSUME TypeInv, SnapInv, NEW r \in Requests, SaveBuilt(r)
  PROVE  /\ SnapInv'
         /\ \A i \in DOMAIN items \cap DOMAIN items' : items'[i].line = items[i].line
<1> DEFINE q == req[r]
           o == q.order
           attach(rows) == [i \in DOMAIN rows |-> [order |-> o, line |-> rows[i]]]
           detach(row) == IF row.order = o THEN [row EXCEPT !.order = NoOrder] ELSE row
           rest == [i \in DOMAIN items |-> detach(items[i])]
<1>1. /\ req'[r] = Idle /\ \A s \in Requests \ {r} : req'[s] = req[s]
      /\ ids' = ids /\ q.pc = "save"
  BY DEF SaveBuilt, Finish, Go, At, TypeInv, TypeOK, RequestsOK
<1>2. DOMAIN Idle.held = {} /\ Reserved(Idle) = {}
  BY DEF Idle, NoRows, Reserved
<1>3. items' = Put(attach(q.built), Put(attach(q.held), rest))
  BY DEF SaveBuilt, SaveOrder
<1>4. \A i \in DOMAIN items : rest[i].line = items[i].line
  BY DEF TypeInv, TypeOK, TablesOK, Table, ItemRow
<1>5. /\ DOMAIN items' = DOMAIN q.built \cup (DOMAIN q.held \cup DOMAIN items)
      /\ \A i \in DOMAIN items' :
           items'[i].line = IF i \in DOMAIN q.built THEN q.built[i]
                            ELSE IF i \in DOMAIN q.held THEN q.held[i]
                            ELSE rest[i].line
  <2> HIDE DEF rest
  <2>1. DOMAIN rest = DOMAIN items
    BY DEF rest
  <2> QED BY <1>3, <2>1 DEF Put
<1>6. DOMAIN q.built \subseteq Reserved(q)
  BY <1>1 DEF Reserved
<1>7. \A u \in Requests, v \in Requests :
        /\ DOMAIN items \subseteq Handed /\ DOMAIN req[u].held \subseteq Handed
        /\ Reserved(req[u]) \subseteq Handed /\ DOMAIN items \cap Reserved(req[u]) = {}
        /\ DOMAIN req[v].held \cap Reserved(req[u]) = {}
        /\ u # v => Reserved(req[v]) \cap Reserved(req[u]) = {}
  BY DEF SnapInv, IdsFresh
<1>8. \A u \in Requests, v \in Requests : \A i \in DOMAIN req[u].held :
        /\ i \in DOMAIN items => items[i].line = req[u].held[i]
        /\ i \in DOMAIN req[v].held => req[v].held[i] = req[u].held[i]
  BY DEF SnapInv, CopiesAgree
<1> HIDE DEF rest, attach
<1>9. \A i \in DOMAIN items \cap DOMAIN items' : items'[i].line = items[i].line
  BY <1>4, <1>5, <1>6, <1>7, <1>8
<1>10. IdsFresh'
  <2>1. Handed' = Handed
    BY <1>1 DEF Handed
  <2>2. \A s \in Requests :
          /\ DOMAIN req'[s].held \subseteq Handed /\ Reserved(req'[s]) \subseteq Handed
          /\ DOMAIN items' \cap Reserved(req'[s]) = {}
    BY <1>1, <1>2, <1>5, <1>6, <1>7
  <2>3. \A s \in Requests, t \in Requests :
          /\ DOMAIN req'[t].held \cap Reserved(req'[s]) = {}
          /\ s # t => Reserved(req'[t]) \cap Reserved(req'[s]) = {}
    BY <1>1, <1>2, <1>7
  <2>4. DOMAIN items' \subseteq Handed
    BY <1>5, <1>6, <1>7
  <2> QED BY <2>1, <2>2, <2>3, <2>4 DEF IdsFresh
<1>11. ASSUME NEW s \in Requests, NEW t \in Requests, NEW i \in DOMAIN req'[s].held
       PROVE  /\ i \in DOMAIN items' => items'[i].line = req'[s].held[i]
              /\ i \in DOMAIN req'[t].held => req'[t].held[i] = req'[s].held[i]
  <2>1. s # r /\ req'[s] = req[s] /\ i \in DOMAIN req[s].held
    BY <1>1, <1>2, <1>11
  <2>2. i \notin DOMAIN q.built
    BY <1>6, <1>7, <2>1
  <2>3. i \in DOMAIN items' => items'[i].line = req[s].held[i]
    BY <1>4, <1>5, <1>8, <2>1, <2>2
  <2>4. i \in DOMAIN req'[t].held => t # r /\ req'[t] = req[t]
    BY <1>1, <1>2
  <2> QED BY <1>8, <2>1, <2>3, <2>4
<1>12. CopiesAgree'
  BY <1>11 DEF CopiesAgree
<1> QED BY <1>9, <1>10, <1>12 DEF SnapInv

-----------------------------------------------------------------------------
(* Every action. *)

LinesKept == \A i \in DOMAIN items \cap DOMAIN items' : items'[i].line = items[i].line

LEMMA HarmlessKeeps ==
  ASSUME TypeInv, SnapInv, NEW r \in Requests, \E q : Harmless(r, q)
  PROVE  SnapInv' /\ LinesKept
<1>1. PICK q : Harmless(r, q)
  OBVIOUS
<1>2. SnapInv'
  BY <1>1, HarmlessStep
<1>3. LinesKept
  BY <1>1 DEF Harmless, LinesKept
<1> QED BY <1>2, <1>3

\* A request that ends without touching items, or only removing some.
LEMMA FinishKeeps ==
  ASSUME TypeInv, SnapInv, NEW r \in Requests, Finish(r), ids' = ids,
         DOMAIN items' \subseteq DOMAIN items,
         \A i \in DOMAIN items' : items'[i] = items[i]
  PROVE  SnapInv' /\ LinesKept
<1>1. Harmless(r, Idle)
  BY FinishHarmless
<1> QED BY <1>1, HarmlessKeeps

LEMMA OrdersKeep ==
  ASSUME TypeInv, SnapInv, NEW r \in Requests, OrdersStep(r) \/ OrdersRequest(r)
  PROVE  SnapInv' /\ LinesKept
<1>1. CASE CreateOrder(r)
  BY <1>1, CreateOrderHarmless, HarmlessKeeps
<1>2. CASE LoadForUpdate(r)
  BY <1>2, LoadForUpdateHarmless, HarmlessKeeps
<1>3. CASE LoadForRemove(r)
  BY <1>3, AcceptHarmless, HarmlessKeeps
<1>4. CASE ClearItems(r)
  BY <1>4, ClearItemsHarmless, HarmlessKeeps
<1>5. CASE BuildItem(r)
  BY <1>5, BuildItemHarmless, HarmlessKeeps
<1>6. CASE RejectItem(r)
  BY <1>6, FinishKeeps DEF RejectItem, db
<1>7. CASE SaveBuilt(r)
  BY <1>7, SaveBuiltSnap DEF LinesKept
<1>8. CASE RemoveOrder(r)
  <2>1. DOMAIN items' \subseteq DOMAIN items /\ \A i \in DOMAIN items' : items'[i] = items[i]
    BY <1>8 DEF RemoveOrder, DeleteOrderRow, DeleteItems, Without, Restrict
  <2> QED BY <1>8, <2>1, FinishKeeps DEF RemoveOrder
<1> QED
  BY <1>1, <1>2, <1>3, <1>4, <1>5, <1>6, <1>7, <1>8 DEF OrdersStep, OrdersRequest

LEMMA SaveTaskHarmless ==
  ASSUME TypeInv, NEW r \in Requests, SaveTask(r)
  PROVE  \E q : Harmless(r, q)
<1>1. CASE req[r].order = NoOrder
  <2>1. Harmless(r, Idle)
    BY <1>1, FinishHarmless DEF SaveTask
  <2> QED BY <2>1
<1>2. CASE req[r].order # NoOrder
  <2>1. PICK p : Go(r, p) /\ p = [req[r] EXCEPT !.pc = "sync"] /\ ids' = ids /\ items' = items
    BY <1>2 DEF SaveTask
  <2>2. p.pc = "sync" /\ p.held = req[r].held
    BY <2>1, HandlerOK DEF LocalsOK, Idle, TypeInv
  <2>3. Harmless(r, p)
    BY <2>1, <2>2, MoveHarmless
  <2> QED BY <2>3
<1> QED BY <1>1, <1>2

LEMMA SyncCompletionHarmless ==
  ASSUME TypeInv, NEW r \in Requests, SyncCompletion(r)
  PROVE  \E q : Harmless(r, q)
<1>1. CASE ~MustComplete(req[r].order)
  <2>1. Harmless(r, Idle)
    BY <1>1, FinishHarmless DEF SyncCompletion, db
  <2> QED BY <2>1
<1>2. CASE MustComplete(req[r].order)
  <2>1. PICK p : Go(r, p) /\ p = [req[r] EXCEPT !.pc = "complete", !.status = "COMPLETED"]
                 /\ ids' = ids /\ items' = items
    BY <1>2 DEF SyncCompletion, db
  <2>2. p.pc = "complete" /\ p.held = req[r].held
    BY <2>1, HandlerOK DEF LocalsOK, Idle, TypeInv
  <2>3. Harmless(r, p)
    BY <2>1, <2>2, MoveHarmless
  <2> QED BY <2>3
<1> QED BY <1>1, <1>2

LEMMA CheckPaymentHarmless ==
  ASSUME TypeInv, NEW r \in Requests, CheckPayment(r)
  PROVE  \E q : Harmless(r, q)
<1>1. PICK bill, p : Go(r, p) /\ p = [req[r] EXCEPT !.pc = "charge", !.bill = bill]
                     /\ ids' = ids /\ items' = items
  BY DEF CheckPayment, db
<1>2. p.pc = "charge" /\ p.held = req[r].held
  BY <1>1, HandlerOK DEF LocalsOK, Idle, TypeInv
<1>3. Harmless(r, p)
  BY <1>1, <1>2, MoveHarmless
<1> QED BY <1>3

LEMMA ServeAndPayKeep ==
  ASSUME TypeInv, SnapInv, NEW r \in Requests,
         StationItemsStep(r) \/ PaymentsStep(r) \/ LoadTask(r) \/ LoadForPay(r)
  PROVE  SnapInv' /\ LinesKept
<1>1. CASE LoadTask(r)
  BY <1>1, AcceptHarmless, HarmlessKeeps
<1>2. CASE LoadForPay(r)
  BY <1>2, LoadForPayHarmless, HarmlessKeeps
<1>3. CASE SaveTask(r)
  BY <1>3, SaveTaskHarmless, HarmlessKeeps
<1>4. CASE RejectTask(r) \/ RefusePayment(r) \/ ChargeFails(r)
  BY <1>4, FinishKeeps DEF RejectTask, RefusePayment, ChargeFails, db
<1>5. CASE SyncCompletion(r)
  BY <1>5, SyncCompletionHarmless, HarmlessKeeps
<1>6. CASE CompleteOrder(r) \/ ChargeOrder(r)
  BY <1>6, FinishKeeps DEF CompleteOrder, ChargeOrder
<1>7. CASE CheckPayment(r)
  BY <1>7, CheckPaymentHarmless, HarmlessKeeps
<1> QED
  BY <1>1, <1>2, <1>3, <1>4, <1>5, <1>6, <1>7 DEF StationItemsStep, PaymentsStep

\* What the invariant says does not depend on the menu.
LEMMA UntouchedKeeps ==
  ASSUME SnapInv, UNCHANGED <<items, ids, req>>
  PROVE  SnapInv' /\ LinesKept
BY DEF SnapInv, IdsFresh, CopiesAgree, Handed, Reserved, LinesKept

\* A restart forgets every copy and every id that was not used.
LEMMA RestartKeeps ==
  ASSUME SnapInv, Restart
  PROVE  SnapInv' /\ LinesKept
<1>1. /\ items' = items /\ ids' = ids /\ \A r \in Requests : req'[r] = Idle
      /\ DOMAIN Idle.held = {} /\ Reserved(Idle) = {}
  BY DEF Restart, db, Idle, NoRows, Reserved
<1>2. IdsFresh'
  BY <1>1 DEF SnapInv, IdsFresh, Handed
<1>3. CopiesAgree'
  BY <1>1 DEF CopiesAgree
<1> QED BY <1>1, <1>2, <1>3 DEF SnapInv, LinesKept

LEMMA NextKeeps ==
  ASSUME TypeInv, SnapInv, [Next]_vars
  PROVE  SnapInv' /\ LinesKept
<1>1. CASE \E r \in Requests : Step(r) \/ Request(r)
  BY <1>1, OrdersKeep, ServeAndPayKeep DEF Step, Request
<1>2. CASE \E p \in Products : ChangeMenu(p)
  BY <1>2, UntouchedKeeps DEF ChangeMenu, db
<1>3. CASE Restart
  BY <1>3, RestartKeeps
<1>4. CASE UNCHANGED vars
  BY <1>4, UntouchedKeeps DEF vars
<1> QED BY <1>1, <1>2, <1>3, <1>4 DEF Next

LEMMA InitSnap == Init => SnapInv
<1> SUFFICES ASSUME Init PROVE SnapInv
  OBVIOUS
<1>1. /\ DOMAIN items = {} /\ \A r \in Requests : req[r] = Idle
      /\ DOMAIN Idle.held = {} /\ Reserved(Idle) = {}
  BY DEF Init, Idle, NoRows, Reserved
<1> QED BY <1>1 DEF SnapInv, IdsFresh, CopiesAgree

LEMMA SnapInvHolds == Spec => []SnapInv
<1>1. TypeInv /\ SnapInv /\ [Next]_vars => SnapInv'
  BY NextKeeps
<1> QED BY <1>1, InitSnap, TypeInvHolds, PTL DEF Spec

\* Any two copies of an order item, in the table or in the memory of a
\* handler that may write it back, agree on its price and quantity, for any
\* number of concurrent requests, edits, removals and restarts.
THEOREM CopiesStayEqual == Spec => []CopiesAgree
<1>1. SnapInv => CopiesAgree
  BY DEF SnapInv
<1> QED BY <1>1, SnapInvHolds, PTL

\* No step of any handler changes the price or the quantity of an order item
\* that stays, and neither does a change of the menu.
THEOREM SnapshotsFrozen == Spec => SnapshotFrozen
<1>1. TypeInv /\ SnapInv /\ [Next]_vars =>
        [\A i \in DOMAIN items \cap DOMAIN items' : items'[i].line = items[i].line]_vars
  BY NextKeeps DEF LinesKept
<1> QED BY <1>1, SnapInvHolds, TypeInvHolds, PTL DEF Spec, SnapshotFrozen
=============================================================================
