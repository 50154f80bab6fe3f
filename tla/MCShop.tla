--------------------------------- MODULE MCShop --------------------------------
(***************************************************************************)
(* Values of Shop's constants for TLC, and the scenes it explores.         *)
(***************************************************************************)
EXTENDS Shop, TLC

CONSTANTS r1, r2

RequestSymmetry == Permutations({r1, r2})

Empty ==
  [stores |-> NoRows, stations |-> NoRows, categories |-> NoRows, products |-> NoRows,
   groups |-> NoRows, options |-> NoRows, links |-> NoRows, notes |-> NoRows,
   accounts |-> NoRows, items |-> NoRows, files |-> {}]

Fresh == [pin |-> None, settings |-> "a"]
OneShop == [Empty EXCEPT !.stores = Row(1, Fresh)]
TwoShops == [Empty EXCEPT !.stores = Put(Row(2, Fresh), Row(1, Fresh))]

NoteRows == [n \in {2, 3} |-> [store |-> 1, order |-> n - 2]]
WithNotes == [OneShop EXCEPT !.notes = NoteRows]

\* A store with a station, a category, and a product with an image.
WithProduct ==
  [OneShop EXCEPT
     !.stations = Row(2, [store |-> 1]),
     !.categories = Row(3, [store |-> 1, name |-> "a", active |-> TRUE]),
     !.files = {4},
     !.products = Row(5, [store |-> 1, station |-> 2, category |-> None, image |-> 4,
                          deleted |-> FALSE])]

TwoProducts ==
  [WithProduct EXCEPT !.files = {4, 6},
                      !.products = Put(Row(7, [@[5] EXCEPT !.image = 6]), @)]

\* Two stores with a station each, and a product of the first.
WithStations ==
  [TwoShops EXCEPT
     !.stations = [s \in {3, 4} |-> [store |-> s - 2]],
     !.categories = Row(6, [store |-> 2, name |-> "a", active |-> TRUE]),
     !.products = Row(5, [store |-> 1, station |-> 3, category |-> None, image |-> None,
                          deleted |-> FALSE])]

Choice == [store |-> 1, kind |-> "SINGLE", min |-> 1, max |-> 1]
WithGroup ==
  [OneShop EXCEPT !.groups = Row(2, Choice),
                  !.options = [o \in {3, 4} |-> [group |-> 2, on |-> TRUE]]]

\* The two stores, each with a modifier group.
WithGroups ==
  [WithStations EXCEPT !.groups = [g \in {7, 8} |-> [Choice EXCEPT !.store = g - 6]]]

\* Of the ids, room are left to hand out.
Scene(ops, d, room) == [ops |-> ops, db |-> d, ids |-> MaxIds - room]

Accounting == Scene({"register", "googleLogin", "restart"}, Empty, 3)
Settling == Scene({"setPin", "updatePin", "updateStore", "removeStore", "restart"}, OneShop, 0)
Noting == Scene({"createNote", "removeNote", "replaceNotes", "restart"}, WithNotes, 3)
Renewing == Scene({"removeNote", "replaceNotes"}, WithNotes, 4)
Editing == Scene({"createNote", "updateNote", "removeNote", "replaceNotes"}, WithNotes, 2)
Selling == Scene({"upload", "updateProduct", "removeProduct", "restoreProduct", "restart"},
                 WithProduct, 1)
Sharing == Scene({"updateProduct"}, TwoProducts, 0)
Sorting == Scene({"createStore", "createCategory", "updateCategory", "removeCategory",
                  "removeStore"}, WithProduct, 1)
Moving == Scene({"createStation", "moveStation", "createProduct", "updateProduct"},
                WithStations, 1)
Closing == Scene({"removeStation", "createProduct", "updateProduct", "removeProduct",
                  "restoreProduct", "sell"}, WithStations, 1)
Leaving == Scene({"updateProduct", "sell", "removeStore"}, WithStations, 1)
Grouping == Scene({"createGroup", "updateGroup", "deleteGroup", "createOption"}, WithGroup, 1)
Choosing == Scene({"updateGroup", "updateOption", "deleteOption"}, WithGroup, 0)
Offering == Scene({"assign", "unassign", "deleteGroup", "removeProduct", "updateProduct",
                   "removeStore"}, WithGroups, 1)

AllScenes == {Accounting, Settling, Noting, Renewing, Editing, Selling, Sharing, Sorting, Moving,
              Closing, Leaving, Grouping, Choosing, Offering}

ClosingOnly == {Closing}

NoPatch == [store |-> Same, station |-> Same, category |-> Same, image |-> Same]
ProductPatchesMC ==
  {[NoPatch EXCEPT !.category = 3]} \cup {[NoPatch EXCEPT !.image = f] : f \in Ids}
    \cup {[NoPatch EXCEPT !.station = 4], [NoPatch EXCEPT !.store = 2, !.station = 4]}
CategoryPatchesMC ==
  {[name |-> "b", active |-> Same], [name |-> Same, active |-> TRUE]}
GroupPatchesMC ==
  {[kind |-> "MULTIPLE", min |-> Same, max |-> 2], [kind |-> Same, min |-> 2, max |-> Same],
   [kind |-> "SINGLE", min |-> 0, max |-> 1]}
=============================================================================
