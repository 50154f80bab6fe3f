------------------------------ MODULE OrderTables ------------------------------
(***************************************************************************)
(* The MySQL tables that the order, station item and payment services      *)
(* share, the requests those services are serving, and the repository      *)
(* calls they make.                                                        *)
(*                                                                         *)
(* One call of a TypeORM repository is one atomic step; a handler is       *)
(* interrupted at every await, and nothing wraps two calls in a            *)
(* transaction.  Rows keep the columns the properties read: of an order    *)
(* its status, of an item its order and its price and quantity snapshot,   *)
(* of a station item its status.  buildOrderItems gives every item exactly *)
(* one station item, so a station item is named by its item.               *)
(***************************************************************************)
EXTENDS Integers, Sequences, Functions, Tables

CONSTANTS
  Requests,      \* the HTTP requests the server can be serving at once
  Products,      \* menu entries: a product with one choice of modifiers
  Prices,        \* unit prices in cents; an option may lower a price
  Quantities,    \* quantities a client asks for
  Ops,           \* what the environment does in this instance
  OrderCarts,    \* product lists POST /orders sends
  EditCarts,     \* product lists PATCH sends; << >> stands for no list
  Patches,       \* order statuses PATCH sends; Keep stands for none
  TaskPatches,   \* statuses the station screens send
  PayBodies,     \* bodies of POST /orders/:id/pay
  MaxOrders, MaxItems, MaxPayments  \* bounds on the ids handed out

VARIABLES
  orders,    \* order id -> status
  items,     \* order item id -> [order, line]
  tasks,     \* order item id -> status of its station item
  payments,  \* payment id -> [order, amount, change]
  menu,      \* product -> [price, onSale]
  ids,       \* the number of ids handed out per table
  req        \* request -> where its handler is, and its local variables

db == <<orders, items, tasks, payments>>
vars == <<orders, items, tasks, payments, menu, ids, req>>

OrderStatus == {"NEW", "PREPARING", "READY", "COMPLETED", "CANCELLED"}
TaskStatus == {"pending", "complete", "served"}
Operations == {"create", "update", "remove", "serve", "pay", "menu", "restart"}

Keep == "keep"       \* the PATCH body has no status
NoOrder == 0         \* order_item.orderId IS NULL

OrderIds == 1..MaxOrders
ItemIds == 1..MaxItems
PaymentIds == 1..MaxPayments
IdCounts == [order : 0..MaxOrders, item : 0..MaxItems, payment : 0..MaxPayments]

Line == [price : Prices, qty : Quantities]
CartLine == [product : Products, qty : Quantities]
ItemRow == [order : OrderIds \cup {NoOrder}, line : Line]
MenuEntry == [price : Prices, onSale : BOOLEAN]
PayBody == [cash : BOOLEAN, claimed : Seq(Int), received : Seq(Int)]

Unsaid == <<>>       \* an optional amount the pay body leaves out; else <<amount>>

ASSUME OrderTablesAssumption ==
  /\ Prices \subseteq Int /\ Quantities \subseteq Nat
  /\ Ops \subseteq Operations
  /\ OrderCarts \subseteq Seq(CartLine) \ {<<>>}
  /\ EditCarts \subseteq Seq(CartLine)
  /\ Patches \subseteq OrderStatus \cup {Keep}
  /\ TaskPatches \subseteq TaskStatus
  /\ PayBodies \subseteq PayBody
  /\ MaxOrders \in Nat /\ MaxItems \in Nat /\ MaxPayments \in Nat

-----------------------------------------------------------------------------
(* What a handler holds in memory between two awaits. *)

Stages == {"idle", "build", "clear", "save", "delete", "saveTask", "sync",
           "complete", "check", "charge"}

Idle == [op |-> "none", pc |-> "idle",
         order |-> NoOrder,    \* the order the handler is about
         item |-> 0,           \* its station item, next new item or payment
         status |-> Keep,      \* the status column it is going to write
         held |-> NoRows,      \* the items of its copy of the order
         lines |-> <<>>,       \* the product list still to be looked up
         built |-> NoRows,     \* the new items buildOrderItems made so far
         bill |-> [amount |-> 0, change |-> 0]]

\* The types of the locals.
LocalsOK(q) ==
  /\ DOMAIN q = DOMAIN Idle
  /\ q.op \in Operations \cup {"none"}
  /\ q.pc \in Stages
  /\ q.order \in OrderIds \cup {NoOrder}
  /\ q.item \in Nat
  /\ q.status \in OrderStatus \cup TaskStatus \cup {Keep}
  /\ Table(q.held, ItemIds, Line)
  /\ q.lines \in Seq(CartLine)
  /\ Table(q.built, ItemIds, Line)

\* What a handler relies on at each stage: the ids it was given cover what it
\* is going to insert, and the status it writes is one of the row it writes.
StageOK(q) ==
  /\ q.pc \notin {"idle", "saveTask"} => q.order \in OrderIds
  /\ q.pc \in {"build", "clear", "save"} =>
       /\ q.status \in OrderStatus
       /\ q.item >= 1 /\ q.item + Len(q.lines) <= ids.item + 1
  /\ q.pc \in {"build", "clear"} => Len(q.lines) > 0
  /\ q.pc = "saveTask" => q.item \in ItemIds /\ q.status \in TaskStatus
  /\ q.pc = "complete" => q.status = "COMPLETED"
  /\ q.pc \in {"check", "charge"} => q.item \in PaymentIds

At(r, stage) == req[r].pc = stage
Go(r, q) == req' = [req EXCEPT ![r] = q]
Finish(r) == Go(r, Idle)

\* A new request is taken up: the server was not busy with r, and this
\* instance has operation op.
Accept(r, op, q) == At(r, "idle") /\ op \in Ops /\ Go(r, [q EXCEPT !.op = op])

-----------------------------------------------------------------------------
(* Reads. *)

ItemsOf(o) == {i \in DOMAIN items : items[i].order = o}
HeldCopy(o) == [i \in ItemsOf(o) |-> items[i].line]
TasksOf(o) == {i \in DOMAIN tasks : items[i].order = o}
AllServed(o) == TasksOf(o) # {} /\ \A i \in TasksOf(o) : tasks[i] = "served"
PaymentsOf(o) == {p \in DOMAIN payments : payments[p].order = o}

Total(held) == LET cost == [i \in DOMAIN held |-> held[i].price * held[i].qty]
               IN  SumFunction(cost)

-----------------------------------------------------------------------------
(* Writes: what a repository call does to the tables. *)

\* Mutation: the foreign key of order_station_item does not cascade.
DeleteItemsOnly(keys) == items' = Without(items, keys) /\ UNCHANGED tasks

\* orderItemRepository.delete(keys): the station items go with the items.
DeleteItems(keys) ==
  /\ items' = Without(items, keys)
  /\ tasks' = Without(tasks, keys)

\* orderRepository.remove(order): the foreign keys cascade.
DeleteOrderRow(o) ==
  /\ orders' = Without(orders, {o})
  /\ DeleteItems(ItemsOf(o))
  /\ payments' = Without(payments, PaymentsOf(o))

\* orderRepository.save of a copy whose items are not loaded: the status in
\* memory replaces the one in the row, and a row that is gone is inserted.
SaveOrderRow(o, status) == orders' = Put(Row(o, status), orders)

\* The station item that comes with every new item.
InsertTasks(fresh) == tasks' = Put([i \in fresh |-> "pending"], tasks)

\* orderRepository.save of a copy whose items are loaded.  Besides the row:
\* every item of the order that the copy lacks loses its orderId, every item
\* the copy holds is attached to the order (and inserted, without a station
\* item, when its row is gone), and the new items are inserted with theirs.
SaveOrder(o, status, held, built) ==
  LET attach(rows) == [i \in DOMAIN rows |-> [order |-> o, line |-> rows[i]]]
      detach(row) == IF row.order = o THEN [row EXCEPT !.order = NoOrder] ELSE row
  IN  /\ SaveOrderRow(o, status)
      /\ items' = Put(attach(built),
                      Put(attach(held), [i \in DOMAIN items |-> detach(items[i])]))
      /\ InsertTasks(DOMAIN built)
=============================================================================
