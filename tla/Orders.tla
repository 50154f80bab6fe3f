-------------------------------- MODULE Orders --------------------------------
(***************************************************************************)
(* OrdersService: creating, editing and removing an order.                 *)
(*                                                                         *)
(* The id columns are filled by nanoid10() when a row is inserted.  An id  *)
(* is never drawn twice and is only compared for equality, so the model    *)
(* hands ids out when a request is accepted; the bounds on ids then refuse *)
(* new requests and never stop a running one.                              *)
(***************************************************************************)
EXTENDS OrderTables

\* create, up to the store lookup: from there on its only state is the new
\* order in memory.
CreateOrder(r) ==
  \E cart \in OrderCarts :
    /\ ids.order < MaxOrders /\ ids.item + Len(cart) <= MaxItems
    /\ Accept(r, "create",
              [Idle EXCEPT !.pc = "build", !.order = ids.order + 1,
                           !.item = ids.item + 1, !.status = "NEW",
                           !.lines = cart])
    /\ ids' = [ids EXCEPT !.order = @ + 1, !.item = @ + Len(cart)]
    /\ UNCHANGED <<db, menu>>

\* Mutation: Object.assign copies a status the body does not have.
AssignBlindly(o, patch) == patch

\* Object.assign(order, rest).
Assign(o, patch) == IF patch = Keep THEN orders[o] ELSE patch

\* What update does after the load: without a product list, save; with one,
\* delete the loaded items, if any, and build the new ones.
UpdateFrom(o, cart) ==
  CASE cart = <<>> -> "save"
    [] cart # <<>> /\ ItemsOf(o) # {} -> "clear"
    [] OTHER -> "build"

\* update, up to its first await after the load: the copy of the order and
\* its items, with the client's columns assigned to it.
LoadForUpdate(r) ==
  \E o \in DOMAIN orders, patch \in Patches, cart \in EditCarts :
    /\ ids.item + Len(cart) <= MaxItems
    /\ Accept(r, "update",
              [Idle EXCEPT !.pc = UpdateFrom(o, cart),
                           !.order = o,
                           !.item = ids.item + 1,
                           !.status = Assign(o, patch),
                           !.held = HeldCopy(o),
                           !.lines = cart])
    /\ ids' = [ids EXCEPT !.item = @ + Len(cart)]
    /\ UNCHANGED <<db, menu>>

\* Mutation: order.items is replaced, but the rows are not deleted.
ClearNothing(r) ==
  /\ At(r, "clear")
  /\ Go(r, [req[r] EXCEPT !.pc = "build", !.held = NoRows])
  /\ UNCHANGED <<db, menu, ids>>

\* The loaded items are deleted before the new list has been looked up.
ClearItems(r) ==
  /\ At(r, "clear")
  /\ DeleteItems(DOMAIN req[r].held)
  /\ Go(r, [req[r] EXCEPT !.pc = "build", !.held = NoRows])
  /\ UNCHANGED <<orders, payments, menu, ids>>

\* One round of the loop in buildOrderItems: the product row as it is now
\* gives the price snapshot of the new item.
Orderable(line) == menu[line.product].onSale /\ line.qty # 0
Snapshot(line) == [price |-> menu[line.product].price, qty |-> line.qty]

BuildItem(r) ==
  LET line == Head(req[r].lines) IN
    /\ At(r, "build")
    /\ Orderable(line)
    /\ Go(r, [req[r] EXCEPT !.pc = IF Len(req[r].lines) = 1 THEN "save" ELSE "build",
                            !.lines = Tail(@),
                            !.item = @ + 1,
                            !.built = Put(Row(req[r].item, Snapshot(line)), @)])
    /\ UNCHANGED <<db, menu, ids>>

\* A line that cannot be sold throws; nothing undoes what update has deleted.
RejectItem(r) ==
  /\ At(r, "build")
  /\ ~Orderable(Head(req[r].lines))
  /\ Finish(r)
  /\ UNCHANGED <<db, menu, ids>>

\* The save at the end of create and of update.
SaveBuilt(r) ==
  /\ At(r, "save")
  /\ SaveOrder(req[r].order, req[r].status, req[r].held, req[r].built)
  /\ Finish(r)
  /\ UNCHANGED <<payments, menu, ids>>

LoadForRemove(r) ==
  \E o \in DOMAIN orders :
    /\ Accept(r, "remove", [Idle EXCEPT !.pc = "delete", !.order = o])
    /\ UNCHANGED <<db, menu, ids>>

RemoveOrder(r) ==
  /\ At(r, "delete")
  /\ DeleteOrderRow(req[r].order)
  /\ Finish(r)
  /\ UNCHANGED <<menu, ids>>

OrdersStep(r) ==
  \/ ClearItems(r)
  \/ BuildItem(r)
  \/ RejectItem(r)
  \/ SaveBuilt(r)
  \/ RemoveOrder(r)

OrdersRequest(r) == CreateOrder(r) \/ LoadForUpdate(r) \/ LoadForRemove(r)
=============================================================================
