------------------------------- MODULE Payments -------------------------------
(***************************************************************************)
(* PaymentsService: settling an order.  Amounts are whole cents; toCents   *)
(* compares at that precision.                                             *)
(***************************************************************************)
EXTENDS OrderTables

\* pay, up to the load of the order with its items.
LoadForPay(r) ==
  \E o \in DOMAIN orders :
    /\ ids.payment < MaxPayments
    /\ Accept(r, "pay",
              [Idle EXCEPT !.pc = "check", !.order = o,
                           !.item = ids.payment + 1, !.held = HeldCopy(o)])
    /\ ids' = [ids EXCEPT !.payment = @ + 1]
    /\ UNCHANGED <<db, menu>>

\* The checks of the body against the total of the loaded items.
Acceptable(body, due) ==
  /\ body.claimed \in {Unsaid, <<due>>}
  /\ body.cash => body.received # Unsaid /\ body.received[1] >= due

\* Mutation: a cash payment records what the guest handed over.
BillReceived(body, due) ==
  [amount |-> IF body.cash THEN body.received[1] ELSE due, change |-> 0]

Bill(body, due) ==
  [amount |-> due, change |-> IF body.cash THEN body.received[1] - due ELSE 0]

\* Mutation: no payment is looked up.
NeverPaid(o) == FALSE

\* The order has a PAID payment; every payment is, as no code refunds one.
AlreadyPaid(o) == PaymentsOf(o) # {}

\* The order has no payment when the handler looks for one, and the checks
\* pass.
CheckPayment(r) ==
  LET q == req[r]
      due == Total(q.held)
  IN  \E body \in PayBodies :
        /\ At(r, "check")
        /\ ~AlreadyPaid(q.order)
        /\ q.held # NoRows
        /\ Acceptable(body, due)
        /\ Go(r, [q EXCEPT !.pc = "charge", !.bill = Bill(body, due)])
        /\ UNCHANGED <<db, menu, ids>>

RefusePayment(r) ==
  LET q == req[r] IN
    /\ At(r, "check")
    /\ \/ AlreadyPaid(q.order)
       \/ q.held = NoRows
       \/ \E body \in PayBodies : ~Acceptable(body, Total(q.held))
    /\ Finish(r)
    /\ UNCHANGED <<db, menu, ids>>

\* The insert; its foreign key refuses it when the order is gone.
ChargeOrder(r) ==
  LET q == req[r] IN
    /\ At(r, "charge")
    /\ q.order \in DOMAIN orders
    /\ payments' = Put(Row(q.item, [order |-> q.order, amount |-> q.bill.amount,
                                    change |-> q.bill.change]), payments)
    /\ Finish(r)
    /\ UNCHANGED <<orders, items, tasks, menu, ids>>

ChargeFails(r) ==
  /\ At(r, "charge")
  /\ req[r].order \notin DOMAIN orders
  /\ Finish(r)
  /\ UNCHANGED <<db, menu, ids>>

PaymentsStep(r) ==
  \/ CheckPayment(r)
  \/ RefusePayment(r)
  \/ ChargeOrder(r)
  \/ ChargeFails(r)
=============================================================================
