----------------------------- MODULE ProductCatalog ----------------------------
(***************************************************************************)
(* ProductService and the product images of UploadsService.  A removed     *)
(* product keeps its row and can be restored.                              *)
(***************************************************************************)
EXTENDS ShopTables

CONSTANTS ProductPatches   \* bodies of PATCH /products/:id
ASSUME ProductCatalogAssumption == ProductPatches \subseteq ProductPatch

\* uploadProductImage: a file of its own for every upload.  When storing it
\* fails nothing has changed.
UploadImage ==
  AtOnce("upload", [db EXCEPT !.files = @ \cup {ids + 1}], 1)

\* Clients name images they have uploaded; history notes when one is named
\* that another product has, or another request is working with.
ImagesInUse(r, p) ==
  {db.products[o].image : o \in DOMAIN db.products \ {p}}
    \cup UNION {{req[s].row.image, req[s].seen} :
                  s \in {t \in Requests \ {r} : "image" \in DOMAIN req[t].row}}
Shared(r, p, image) ==
  IF image \in ImagesInUse(r, p) \ {None, Same} THEN {{"shared"}} ELSE {}

\* Station #... does not belong to store #...; and so for the category.
Coherent(row) ==
  /\ row.store \in DOMAIN db.stores
  /\ row.station \in DOMAIN db.stations /\ db.stations[row.station].store = row.store
  /\ row.category \in DOMAIN db.categories =>
       db.categories[row.category].store = row.store

\* create, up to the save.
CreateProduct(r) ==
  \E s \in DOMAIN db.stores, st \in DOMAIN db.stations,
     c \in DOMAIN db.categories \cup {None}, image \in db.files \cup {None} :
    LET row == [store |-> s, station |-> st, category |-> c, image |-> image,
                deleted |-> FALSE]
    IN  /\ Coherent(row)
        /\ AcceptInsert(r, "createProduct",
                        [Idle EXCEPT !.pc = "insertProduct", !.row = row],
                        1, Shared(r, 0, image))

InsertProduct(r) ==
  LET q == req[r] IN
    /\ At(r, "insertProduct")
    /\ IF Insertable(q.row) THEN Commit(r, Saved("products", NewId(q), q.row)) ELSE Abort(r)

\* update: the product is loaded with its relations, ...
LoadProduct(r) ==
  \E p \in DOMAIN db.products, patch \in ProductPatches :
    /\ ~db.products[p].deleted
    /\ patch.image \in db.files \cup {Same}
    /\ AcceptNoting(r, "updateProduct",
                    [Idle EXCEPT !.pc = "resolve", !.id = p, !.asked = Asked(patch),
                                 !.row = Assign(db.products[p], patch),
                                 !.seen = db.products[p].image],
                    Shared(r, p, patch.image)
                      \cup IF patch.store # Same THEN {{"moved"}} ELSE {})

\* Mutation: a station is not compared with the store of the product.
StationAnywhere(q) ==
  /\ "station" \in q.asked => q.row.station \in DOMAIN db.stations

\* resolveRelations: what the body names exists and belongs to the store the
\* product will be in; what it does not name is not looked at.
Resolved(q) ==
  /\ "store" \in q.asked => q.row.store \in DOMAIN db.stores
  /\ "station" \in q.asked =>
       /\ q.row.station \in DOMAIN db.stations
       /\ db.stations[q.row.station].store = q.row.store
  /\ "category" \in q.asked =>
       /\ q.row.category \in DOMAIN db.categories
       /\ db.categories[q.row.category].store = q.row.store

\* ... the relations the body names are looked up, ...
ResolveRelations(r) ==
  /\ At(r, "resolve")
  /\ IF Resolved(req[r]) THEN Proceed(r, [req[r] EXCEPT !.pc = "saveProduct"]) ELSE Abort(r)

\* ... the whole copy is saved, which was not deleted when it was read, ...
SaveProduct(r) ==
  LET q == req[r] IN
    /\ At(r, "saveProduct")
    /\ IF Insertable(q.row)
       THEN /\ db' = Saved("products", q.id, q.row)
            /\ Go(r, [q EXCEPT !.pc = "reload"])
            /\ UNCHANGED <<ids, scene, history>>
       ELSE Abort(r)

\* Mutation: the previous image is not compared with the one in the row.
AnyImage(q) == q.seen # None

\* The image the handler found is no longer the product's.
Replaced(q) == q.seen # None /\ db.products[q.id].image # q.seen

\* ... the row is read again, unless it has been removed, ...
ReloadProduct(r) ==
  LET q == req[r] IN
    /\ At(r, "reload")
    /\ IF q.id \in DOMAIN db.products /\ ~db.products[q.id].deleted /\ Replaced(q)
       THEN Proceed(r, [q EXCEPT !.pc = "dropImage"])
       ELSE Abort(r)

\* ... and the image it has no more is deleted, or that fails.
DropImage(r) ==
  /\ At(r, "dropImage")
  /\ Commit(r, [db EXCEPT !.files = @ \ {req[r].seen}])

KeepImage(r) == At(r, "dropImage") /\ Abort(r)

\* remove: load, then softDelete(id).
LoadForRemoveProduct(r) ==
  \E p \in DOMAIN db.products :
    /\ ~db.products[p].deleted
    /\ Accept(r, "removeProduct", [Idle EXCEPT !.pc = "markProduct", !.id = p,
                                               !.row = [deleted |-> TRUE],
                                               !.asked = {"deleted"}])

\* restore: load with the deleted ones, then restore(id).
LoadForRestoreProduct(r) ==
  \E p \in DOMAIN db.products :
    /\ db.products[p].deleted
    /\ Accept(r, "restoreProduct", [Idle EXCEPT !.pc = "markProduct", !.id = p,
                                                !.row = [deleted |-> FALSE],
                                                !.asked = {"deleted"}])

\* softDelete and restore write one column, and insert nothing.
MarkProduct(r) ==
  LET q == req[r] IN
    /\ At(r, "markProduct")
    /\ Commit(r, IF q.id \in DOMAIN db.products
                 THEN [db EXCEPT !.products[q.id].deleted = q.row.deleted] ELSE db)

\* The order service sells a product that is not deleted, and sends it to
\* the station it is made at.
SellProduct ==
  \E p \in DOMAIN db.products :
    /\ ~db.products[p].deleted
    /\ AtOnce("sell", Saved("items", ids + 1,
                            [product |-> p, station |-> db.products[p].station]), 1)

\* Orders are removed, with their items.
RemoveItems == AtOnce("sell", [db EXCEPT !.items = NoRows], 0)

ProductsRequest(r) ==
  \/ CreateProduct(r)
  \/ LoadProduct(r)
  \/ LoadForRemoveProduct(r)
  \/ LoadForRestoreProduct(r)

ProductsStep(r) ==
  \/ InsertProduct(r)
  \/ ResolveRelations(r)
  \/ SaveProduct(r)
  \/ ReloadProduct(r)
  \/ DropImage(r)
  \/ KeepImage(r)
  \/ MarkProduct(r)
=============================================================================
