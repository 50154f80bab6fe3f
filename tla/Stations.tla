------------------------------- MODULE Stations --------------------------------
(***************************************************************************)
(* StationsService: the kitchen's stations, which products are made at and *)
(* order items are sent to.                                                *)
(***************************************************************************)
EXTENDS ShopTables

CreateStation ==
  \E s \in DOMAIN db.stores :
    AtOnce("createStation", Saved("stations", ids + 1, [store |-> s]), 1)

\* update(id, payload): one statement, which may name another store; the
\* products of the station stay in theirs.
MoveStation ==
  \E st \in DOMAIN db.stations, s \in DOMAIN db.stores :
    /\ "moveStation" \in scene
    /\ db' = [db EXCEPT !.stations[st].store = s]
    /\ history' = history \cup {{"moved"}}
    /\ UNCHANGED <<ids, req, scene>>

\* The relations find loads: products that are not soft-deleted, and station
\* items.
ProductsAt(st) == {p \in Of(db.products, "station", st) : ~db.products[p].deleted}
ItemsAt(st) == Of(db.items, "station", st)

\* Mutation: only the station items keep a station.
NoItems(st) == ItemsAt(st) = {}

\* Nothing that was loaded hangs on the station.
Unused(st) == ItemsAt(st) = {} /\ ProductsAt(st) = {}

\* remove, up to the delete: without force a station in use is refused.
LoadForRemoveStation(r) ==
  \E st \in DOMAIN db.stations, force \in BOOLEAN :
    /\ force \/ Unused(st)
    /\ Accept(r, "removeStation", [Idle EXCEPT !.pc = "deleteStation", !.id = st,
                                               !.asked = IF force THEN {"force"} ELSE {}])

\* The foreign keys: products go with the station, unless order items keep
\* them; station items keep the station.
Releasable(st) ==
  \A i \in DOMAIN db.items :
    /\ db.items[i].station # st
    /\ db.items[i].product \notin Of(db.products, "station", st)

DeleteStation(r) ==
  LET st == req[r].id IN
    /\ At(r, "deleteStation")
    /\ IF Releasable(st) THEN Commit(r, WithoutStation(db, st)) ELSE Abort(r)

StationsRequest(r) == LoadForRemoveStation(r)
StationsStep(r) == DeleteStation(r)
=============================================================================
