------------------------------- MODULE Kitchen --------------------------------
(***************************************************************************)
(* The order, station item and payment services working on one database:   *)
(* their handlers interleave at every await, menu entries change under     *)
(* them, and the process may be restarted with requests in flight.         *)
(***************************************************************************)
EXTENDS Orders, StationItems, Payments

Init ==
  /\ orders = NoRows /\ items = NoRows /\ tasks = NoRows /\ payments = NoRows
  /\ menu \in [Products -> [price : Prices, onSale : {TRUE}]]
  /\ ids = [order |-> 0, item |-> 0, payment |-> 0]
  /\ req = [r \in Requests |-> Idle]

\* Mutation: items show the product's price instead of their snapshot.
MenuReprices(p) ==
  /\ "menu" \in Ops
  /\ \E entry \in MenuEntry :
       /\ menu' = [menu EXCEPT ![p] = entry]
       /\ items' = [i \in DOMAIN items |-> [items[i] EXCEPT !.line.price = entry.price]]
  /\ UNCHANGED <<orders, tasks, payments, ids, req>>

\* ProductsService changes a price, puts an entry on or off sale, or
\* (soft-)deletes or restores it.
ChangeMenu(p) ==
  /\ "menu" \in Ops
  /\ \E entry \in MenuEntry : menu' = [menu EXCEPT ![p] = entry]
  /\ UNCHANGED <<db, ids, req>>

\* The process stops: every handler is gone, what it has saved stays.
Restart ==
  /\ "restart" \in Ops
  /\ req' = [r \in Requests |-> Idle]
  /\ UNCHANGED <<db, menu, ids>>

Step(r) == OrdersStep(r) \/ StationItemsStep(r) \/ PaymentsStep(r)
Request(r) == OrdersRequest(r) \/ LoadTask(r) \/ LoadForPay(r)

Next ==
  \/ \E r \in Requests : Step(r) \/ Request(r)
  \/ \E p \in Products : ChangeMenu(p)
  \/ Restart

Spec == Init /\ [][Next]_vars

\* A handler that has been started runs on: the event loop resumes it when
\* the database has answered.  Nothing makes a client send a request.
FairSpec == Spec /\ \A r \in Requests : WF_vars(Step(r))

-----------------------------------------------------------------------------
(* What holds whatever the clients do. *)

TablesOK ==
  /\ Table(orders, OrderIds, OrderStatus)
  /\ Table(items, ItemIds, ItemRow)
  /\ Table(tasks, ItemIds, TaskStatus)
  /\ DOMAIN payments \subseteq PaymentIds
  /\ \A p \in DOMAIN payments : payments[p].order \in OrderIds
  /\ menu \in [Products -> MenuEntry]
  /\ ids \in IdCounts

RequestsOK ==
  /\ DOMAIN req = Requests
  /\ \A r \in Requests : LocalsOK(req[r]) /\ StageOK(req[r])

\* Every table's keys are ids that can be handed out and its columns hold
\* values of their type, and every handler's locals fit the stage it is in,
\* so that what it saves does too.
TypeOK == TablesOK /\ RequestsOK

\* No row refers to a row that is not there, although handlers save copies of
\* rows that others have removed or replaced meanwhile.
RefInt ==
  /\ \A i \in DOMAIN items : items[i].order \in DOMAIN orders \cup {NoOrder}
  /\ DOMAIN tasks \subseteq DOMAIN items
  /\ \A p \in DOMAIN payments : payments[p].order \in DOMAIN orders

\* Any two copies of an order item agree on its price and quantity: the row,
\* and the copies handlers have read and may still write back (which inserts
\* the item again when it was deleted meanwhile).
CopiesAgree ==
  \A r \in Requests : \A i \in DOMAIN req[r].held :
    /\ i \in DOMAIN items => items[i].line = req[r].held[i]
    /\ \A s \in Requests :
         i \in DOMAIN req[s].held => req[s].held[i] = req[r].held[i]

\* An order item keeps the price and the quantity it was ordered with, also
\* when the menu changes ("keeps history stable even if the product price or
\* name changes later").
SnapshotFrozen ==
  [][\A i \in DOMAIN items \cap DOMAIN items' : items'[i].line = items[i].line]_vars

-----------------------------------------------------------------------------
(* What holds while orders are only created, served and paid. *)

\* An order whose station items are all served is completed, or some handler
\* that has served one is still on its way to syncOrderCompletion's save.
ServedCompletes ==
  \A o \in DOMAIN orders :
    MustComplete(o) =>
      \E r \in Requests : req[r].order = o /\ req[r].pc \in {"sync", "complete"}

\* An order that stays served is completed in the end.
EventuallyCompleted == \A o \in OrderIds : []<>~(o \in DOMAIN orders /\ MustComplete(o))

-----------------------------------------------------------------------------
(* What holds while requests are served one after the other. *)

\* An order is paid at most once ("has already been paid").
AtMostOnePaid ==
  \A p, q \in DOMAIN payments : payments[p].order = payments[q].order => p = q

\* A payment is recorded with what the items of its order cost at that
\* moment ("BE-owned total").
ChargedIsTotal ==
  [][\A p \in DOMAIN payments' \ DOMAIN payments :
       payments'[p].amount = Total(HeldCopy(payments'[p].order))]_vars

\* No item is left without its order, where its station item would stay on
\* the screens, nor without its station item, where nobody would cook it.
NoOrphans ==
  /\ \A i \in DOMAIN items : items[i].order # NoOrder
  /\ DOMAIN items = DOMAIN tasks

-----------------------------------------------------------------------------
(* What the code breaks even then. *)

\* No order is left without items ("to avoid accidentally clearing the
\* order") once no handler is working on it.
OrderNeverEmptied ==
  \A o \in DOMAIN orders : ItemsOf(o) = {} => \E r \in Requests : req[r].order = o

\* No station screen reopens or completes a cancelled order: CANCELLED is an
\* end of the order's life cycle.
CancelledIsFinal ==
  [][\A o \in DOMAIN orders \cap DOMAIN orders' :
       orders[o] = "CANCELLED" => orders'[o] = "CANCELLED"]_vars
=============================================================================
