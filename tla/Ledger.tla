--------------------------------- MODULE Ledger --------------------------------
(***************************************************************************)
(* Orders and payments of one store with the columns transactions and      *)
(* reports read.  Here every save of the order, station item and payment   *)
(* handlers is one step; how the handlers interleave is Kitchen's matter.  *)
(* What Kitchen shows they can leave behind, an order that is paid twice   *)
(* or edited after it was paid, can happen here too.                       *)
(***************************************************************************)
EXTENDS Sequences, Sums, Tables

CONSTANTS
  None,           \* a column that is NULL, a query parameter that is left out
  Carts,          \* the product lists of orders
  Kinds,          \* the types of orders of this instance
  Platforms,      \* delivery platforms
  Scenes,         \* of the above and of the operations, those of a behaviour
  Methods,        \* payment methods
  Assigned,       \* the statuses a PATCH may set
  DayHours,       \* hours of a day
  MaxTime,        \* the last hour of the instance, and of a scene
  MaxSales, MaxBills

VARIABLES
  sales,          \* order id -> [status, kind, platform, lines, time]
  bills,          \* payment id -> [order, amount, method, time]
  now,            \* hours since the first day
  history,        \* "edited" or "twice": see above
  scene           \* the one the behaviour belongs to

ledger == <<sales, bills, now, history, scene>>

Status == {"NEW", "PREPARING", "READY", "COMPLETED", "CANCELLED"}
OrderType == {"DINE_IN", "TAKEAWAY", "DELIVERY"}

CartLines == UNION {{cart[i] : i \in DOMAIN cart} : cart \in Carts}

ASSUME CartsAssumption ==
  /\ Carts \subseteq Seq(CartLines)
  /\ \A line \in CartLines : line.price \in Int /\ line.qty \in Int

ASSUME LedgerAssumption ==
  /\ None \notin Platforms \cup Methods
  /\ Assigned \subseteq Status /\ Kinds \subseteq OrderType
  /\ DayHours \in Nat \ {0} /\ MaxTime \in Nat
  /\ \A s \in Scenes :
       /\ s.ops \subseteq {"create", "status", "items", "serve", "pay", "time"}
       /\ s.carts \subseteq Carts /\ s.platforms \subseteq Platforms \cup {None}
       /\ s.last \in 0..MaxTime

Total(lines) == SumOf([i \in DOMAIN lines |-> lines[i].price * lines[i].qty])
Counted(lines) == SumOf([i \in DOMAIN lines |-> lines[i].qty])
Unserved(cart) == [i \in DOMAIN cart |-> [line |-> cart[i], served |-> FALSE]]

BillsOf(o) == {b \in DOMAIN bills : bills[b].order = o}
Lines(o) == [i \in DOMAIN sales[o].lines |-> sales[o].lines[i].line]

LedgerInit ==
  /\ sales = NoRows /\ bills = NoRows /\ now = 0 /\ history = {}
  /\ scene \in Scenes

\* OrdersService.create.
Sell ==
  LET o == Cardinality(DOMAIN sales) + 1 IN
    \E cart \in scene.carts, kind \in Kinds, platform \in scene.platforms \cup {None} :
      /\ o <= MaxSales
      /\ kind # "DELIVERY" => platform = None
      /\ sales' = Put(Row(o, [status |-> "NEW", kind |-> kind, platform |-> platform,
                              lines |-> Unserved(cart), time |-> now]), sales)
      /\ UNCHANGED <<bills, now, history>>

\* OrdersService.update with a status ...
Relabel(o) ==
  \E status \in Assigned :
    /\ sales' = [sales EXCEPT ![o].status = status]
    /\ UNCHANGED <<bills, now, history>>

\* ... and with a product list, also of an order that has been paid.
Edit(o) ==
  \E cart \in scene.carts :
    /\ sales' = [sales EXCEPT ![o].lines = Unserved(cart)]
    /\ history' = IF BillsOf(o) = {} THEN history ELSE history \cup {"edited"}
    /\ UNCHANGED <<bills, now>>

\* OrderStationItemService.update: the last item that is served completes
\* the order.
ServeLine(o) ==
  \E i \in DOMAIN sales[o].lines :
    LET row == [sales[o] EXCEPT !.lines[i].served = TRUE]
        done == \A j \in DOMAIN row.lines : row.lines[j].served
    IN  /\ sales' = [sales EXCEPT ![o] = IF done THEN [row EXCEPT !.status = "COMPLETED"]
                                         ELSE row]
        /\ UNCHANGED <<bills, now, history>>

\* PaymentsService.pay, or two of them that both find no payment.
Pay(o) ==
  \E methods \in [1..1 -> Methods] \cup [1..2 -> Methods] :
    LET b == Cardinality(DOMAIN bills)
        times == Len(methods)
        bill(i) == [order |-> o, amount |-> Total(Lines(o)), method |-> methods[i], time |-> now]
    IN  /\ BillsOf(o) = {} /\ b + times <= MaxBills
        /\ bills' = Put([k \in b + 1 .. b + times |-> bill(k - b)], bills)
        /\ history' = IF times = 1 THEN history ELSE history \cup {"twice"}
        /\ UNCHANGED <<sales, now>>

Pass ==
  /\ now < scene.last
  /\ now' = now + 1
  /\ UNCHANGED <<sales, bills, history>>

LedgerNext ==
  /\ \/ "create" \in scene.ops /\ Sell
     \/ \E o \in DOMAIN sales :
          \/ "status" \in scene.ops /\ Relabel(o)
          \/ "items" \in scene.ops /\ Edit(o)
          \/ "serve" \in scene.ops /\ ServeLine(o)
          \/ "pay" \in scene.ops /\ Pay(o)
     \/ "time" \in scene.ops /\ Pass
  /\ UNCHANGED scene
=============================================================================
