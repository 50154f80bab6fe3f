------------------------------ MODULE Transactions -----------------------------
(***************************************************************************)
(* TransactionsService: orders as the owner's history shows them.          *)
(***************************************************************************)
EXTENDS Ledger

\* payments[0]: of two payments the database may return either one first.
First(o) == CHOOSE b \in BillsOf(o) : TRUE

\* Mutation: what the items cost now is taken for what was paid.
AmountNow(o) == IF BillsOf(o) = {} THEN None ELSE Total(Lines(o))

Amount(o) == IF BillsOf(o) = {} THEN None ELSE bills[First(o)].amount

\* toTransactionView of an order loaded with its payments and station items.
View(o) ==
  LET lines == sales[o].lines IN
    [status |-> sales[o].status, kind |-> sales[o].kind, time |-> sales[o].time,
     method |-> IF BillsOf(o) = {} THEN None ELSE bills[First(o)].method,
     amount |-> Amount(o),
     total |-> IF BillsOf(o) = {} THEN Total(Lines(o)) ELSE Amount(o),
     served |-> Counted([i \in {j \in DOMAIN lines : lines[j].served} |-> lines[i].line]),
     items |-> Counted(Lines(o))]

-----------------------------------------------------------------------------
(* Queries.  Column filters are compared as they are, dates with the time  *)
(* of the order.                                                           *)

Done == {"READY", "COMPLETED"}
Flows == {"ALL", "IN_PROGRESS", "DONE", "CANCELLED"}
Filter == [flow : Flows, kind : Kinds \cup {None}, method : Methods \cup {None},
           status : Status \cup {None}, from : (0..MaxTime) \cup {None},
           to : (0..MaxTime) \cup {None}]

\* buildDateWhere: both ends count.
Dated(f, time) ==
  /\ f.from # None => time >= f.from
  /\ f.to # None => time <= f.to

\* The switch on filter.flowStatus.
InFlow(flow, status) ==
  CASE flow = "DONE" -> status \in Done
    [] flow = "CANCELLED" -> status = "CANCELLED"
    [] flow = "IN_PROGRESS" -> status \notin Done \cup {"CANCELLED"}
    [] OTHER -> TRUE

\* applyTransactionFilters.
Matches(f, v) ==
  /\ Dated(f, v.time)
  /\ f.kind \in {None, v.kind}
  /\ f.method \in {None, v.method}
  /\ f.status \in {None, v.status}
  /\ InFlow(f.flow, v.status)

\* findByStoreId.
List(f) == {o \in DOMAIN sales : Matches(f, View(o))}

\* Mutation: only a completed order is done.
FlowOfCompleted(status) ==
  IF status = "CANCELLED" THEN "CANCELLED"
  ELSE IF status = "COMPLETED" THEN "DONE" ELSE "IN_PROGRESS"

\* toFlowStatus.
FlowStatus(status) ==
  IF status = "CANCELLED" THEN "CANCELLED"
  ELSE IF status \in Done THEN "DONE" ELSE "IN_PROGRESS"

\* getCountsByStoreId.
Counts(f) ==
  LET filtered == List(f) IN
    [flow \in Flows |->
       Cardinality({o \in filtered : flow \in {"ALL", FlowStatus(sales[o].status)}})]
=============================================================================
