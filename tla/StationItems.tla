----------------------------- MODULE StationItems -----------------------------
(***************************************************************************)
(* OrderStationItemService: a station screen sets the status of one of its *)
(* items, and the order is completed when its last one is served.          *)
(***************************************************************************)
EXTENDS OrderTables

\* update, up to the load of the station item with its item and order.
LoadTask(r) ==
  \E i \in DOMAIN tasks, status \in TaskPatches :
    /\ Accept(r, "serve",
              [Idle EXCEPT !.pc = "saveTask", !.item = i, !.status = status,
                           !.order = items[i].order])
    /\ UNCHANGED <<db, menu, ids>>

\* Mutation: update does not call syncOrderCompletion.
SaveTaskOnly(r) ==
  /\ At(r, "saveTask")
  /\ req[r].item \in DOMAIN items
  /\ tasks' = Put(Row(req[r].item, req[r].status), tasks)
  /\ Finish(r)
  /\ UNCHANGED <<orders, items, payments, menu, ids>>

\* The copy is saved.  If the row went away meanwhile it is inserted again,
\* which its foreign key allows only while its item exists.  An item without
\* an order makes the handler fail right after the save.
SaveTask(r) ==
  LET i == req[r].item IN
    /\ At(r, "saveTask")
    /\ i \in DOMAIN items
    /\ tasks' = Put(Row(i, req[r].status), tasks)
    /\ IF req[r].order = NoOrder
         THEN Finish(r)
         ELSE Go(r, [req[r] EXCEPT !.pc = "sync"])
    /\ UNCHANGED <<orders, items, payments, menu, ids>>

RejectTask(r) ==
  /\ At(r, "saveTask")
  /\ req[r].item \notin DOMAIN items
  /\ Finish(r)
  /\ UNCHANGED <<db, menu, ids>>

\* syncOrderCompletion reads all station items of the order, and the order.
MustComplete(o) == AllServed(o) /\ orders[o] # "COMPLETED"

\* Mutation: only a READY order is completed.
SyncReadyOnly(r) ==
  /\ At(r, "sync")
  /\ IF MustComplete(req[r].order) /\ orders[req[r].order] = "READY"
       THEN Go(r, [req[r] EXCEPT !.pc = "complete", !.status = "COMPLETED"])
       ELSE Finish(r)
  /\ UNCHANGED <<db, menu, ids>>

\* Mutation: the station items are not looked at.
SyncBlindly(r) ==
  /\ At(r, "sync")
  /\ IF orders[req[r].order] # "COMPLETED"
       THEN Go(r, [req[r] EXCEPT !.pc = "complete", !.status = "COMPLETED"])
       ELSE Finish(r)
  /\ UNCHANGED <<db, menu, ids>>

SyncCompletion(r) ==
  /\ At(r, "sync")
  /\ IF MustComplete(req[r].order)
       THEN Go(r, [req[r] EXCEPT !.pc = "complete", !.status = "COMPLETED"])
       ELSE Finish(r)
  /\ UNCHANGED <<db, menu, ids>>

\* It saves the copy of the order it has read.
CompleteOrder(r) ==
  /\ At(r, "complete")
  /\ SaveOrderRow(req[r].order, req[r].status)
  /\ Finish(r)
  /\ UNCHANGED <<items, tasks, payments, menu, ids>>

StationItemsStep(r) ==
  \/ SaveTask(r)
  \/ RejectTask(r)
  \/ SyncCompletion(r)
  \/ CompleteOrder(r)
=============================================================================
