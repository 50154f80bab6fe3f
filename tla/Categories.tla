------------------------------- MODULE Categories ------------------------------
(***************************************************************************)
(* CategoryService.  A category is not deleted but made inactive.          *)
(***************************************************************************)
EXTENDS ShopTables

CONSTANTS CategoryPatches   \* bodies of PATCH /categories/:id
ASSUME CategoriesAssumption == CategoryPatches \subseteq CategoryPatch

CreateCategory ==
  \E s \in DOMAIN db.stores, name \in Settings :
    AtOnce("createCategory",
           Saved("categories", ids + 1, [store |-> s, name |-> name, active |-> TRUE]), 1)

\* update, up to the save of the copy.
LoadCategory(r) ==
  \E c \in DOMAIN db.categories, patch \in CategoryPatches :
    Accept(r, "updateCategory",
           [Idle EXCEPT !.pc = "saveCategory", !.id = c, !.asked = Asked(patch),
                        !.row = Assign(db.categories[c], patch)])

\* remove is an update that sets isActive to false.
LoadForRemoveCategory(r) ==
  \E c \in DOMAIN db.categories :
    Accept(r, "removeCategory",
           [Idle EXCEPT !.pc = "saveCategory", !.id = c, !.asked = {"active"},
                        !.row = [db.categories[c] EXCEPT !.active = FALSE]])

SaveCategory(r) ==
  LET q == req[r] IN
    /\ At(r, "saveCategory")
    /\ Commit(r, IF q.row.store \in DOMAIN db.stores
                 THEN Saved("categories", q.id, q.row) ELSE db)

CategoriesRequest(r) == LoadCategory(r) \/ LoadForRemoveCategory(r)
CategoriesStep(r) == SaveCategory(r)
=============================================================================
