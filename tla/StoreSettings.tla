----------------------------- MODULE StoreSettings -----------------------------
(***************************************************************************)
(* StoresService: stores, the PIN that guards their settings, and the      *)
(* settings.  Hashes are as good as the PINs themselves here; hashing and  *)
(* comparing are awaits, so a PIN that was read may be replaced before the *)
(* handler writes.                                                         *)
(***************************************************************************)
EXTENDS ShopTables

CreateStore ==
  \E s \in Settings :
    AtOnce("createStore", Saved("stores", ids + 1, [pin |-> None, settings |-> s]), 1)

\* Mutation: setPin does not look whether there is a PIN.
NoLook(s) == TRUE

\* Store PIN already set.
PinFree(s) == db.stores[s].pin = None

\* setPin, up to the hashing of the new PIN.
LoadForSetPin(r) ==
  \E s \in DOMAIN db.stores, pin \in Pins :
    /\ PinFree(s)
    /\ Accept(r, "setPin", [Idle EXCEPT !.pc = "writePin", !.id = s,
                                        !.row = [pin |-> pin], !.asked = {"pin"}])

\* updatePin, up to the hashing of the new PIN.
LoadForUpdatePin(r) ==
  \E s \in DOMAIN db.stores, current, pin \in Pins :
    /\ db.stores[s].pin = current /\ current # pin
    /\ Accept(r, "updatePin", [Idle EXCEPT !.pc = "writePin", !.id = s, !.seen = current,
                                           !.row = [pin |-> pin], !.asked = {"pin"}])

\* Mutation: the store is saved, which inserts one that is gone.
SavePin(r) ==
  LET q == req[r] IN
    /\ At(r, "writePin")
    /\ Commit(r, Saved("stores", q.id, [pin |-> q.row.pin, settings |-> "a"]))

\* update(storeId, {pinHash}): writes one column, and inserts nothing.
WritePin(r) ==
  LET q == req[r] IN
    /\ At(r, "writePin")
    /\ Commit(r, IF q.id \in DOMAIN db.stores
                 THEN [db EXCEPT !.stores[q.id].pin = q.row.pin] ELSE db)

\* update: the store is loaded without its PIN hash ...
LoadForStoreUpdate(r) ==
  \E s \in DOMAIN db.stores, pin \in Pins, settings \in Settings :
    Accept(r, "updateStore",
           [Idle EXCEPT !.pc = "checkPin", !.id = s, !.seen = pin,
                        !.row = [settings |-> settings], !.asked = {"settings"}])

\* Mutation: a store without a PIN needs none.
LaxPin(q) == db.stores[q.id].pin \in {q.seen, None}

\* The PIN in the body is the one in force.
PinHolds(q) == db.stores[q.id].pin = q.seen

\* ... and then the hash, which the PIN of the body must match.
CheckPin(r) ==
  /\ At(r, "checkPin")
  /\ IF req[r].id \in DOMAIN db.stores /\ PinHolds(req[r])
     THEN Proceed(r, [req[r] EXCEPT !.pc = "saveStore"])
     ELSE Abort(r)

\* Mutation: the copy holds the PIN it was checked with, and it is saved too.
SettingsAndPin(q) ==
  Saved("stores", q.id, [pin |-> q.seen, settings |-> q.row.settings])

\* save of the copy: its columns replace the row's, but it has no PIN; a
\* store that is gone is inserted, without one.
SettingsSaved(q) ==
  LET pin == IF q.id \in DOMAIN db.stores THEN db.stores[q.id].pin ELSE None
  IN  Saved("stores", q.id, [pin |-> pin, settings |-> q.row.settings])

SaveStore(r) == At(r, "saveStore") /\ Commit(r, SettingsSaved(req[r]))

LoadForRemoveStore(r) ==
  \E s \in DOMAIN db.stores :
    Accept(r, "removeStore", [Idle EXCEPT !.pc = "deleteStore", !.id = s])

\* delete: the foreign keys cascade, or (which of the two depends on the
\* order MySQL visits them in) order items refuse to give their products up.
DeleteStore(r) ==
  /\ At(r, "deleteStore")
  /\ \/ Commit(r, WithoutStore(db, req[r].id))
     \/ /\ \E i \in DOMAIN db.items :
             db.stations[db.items[i].station].store = req[r].id
        /\ Abort(r)

StoresRequest(r) ==
  \/ LoadForSetPin(r)
  \/ LoadForUpdatePin(r)
  \/ LoadForStoreUpdate(r)
  \/ LoadForRemoveStore(r)

StoresStep(r) == WritePin(r) \/ CheckPin(r) \/ SaveStore(r) \/ DeleteStore(r)
=============================================================================
