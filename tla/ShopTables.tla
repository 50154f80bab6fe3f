------------------------------ MODULE ShopTables ------------------------------
(***************************************************************************)
(* The tables that the owner's back office works on, the requests it is    *)
(* serving, and the repository calls its handlers make: stores with their  *)
(* stations, categories, products, modifier groups and quick notes, the    *)
(* accounts of their owners, and the product images kept outside.          *)
(*                                                                         *)
(* db is one record with a field per table.  As everywhere in this model   *)
(* one repository call is one step, rows carry the columns the properties  *)
(* read, and a handler holds copies of rows between its steps.             *)
(*                                                                         *)
(* A scene is a set of operations and a database to start from: an         *)
(* instance explores one scene after the other instead of all operations   *)
(* on all tables at once.                                                  *)
(***************************************************************************)
EXTENDS Integers, FiniteSets, Functions, Tables

CONSTANTS
  Requests,        \* the HTTP requests the server can be serving at once
  None,            \* a column that is NULL
  Same,            \* a column the body of an update leaves out
  Scenes,          \* the scenes of this instance: [ops, db, ids]
  Pins, Settings,  \* PINs, and values of the other columns of a store
  Contacts,        \* email addresses and phone numbers
  MinSelects, MaxSelects,  \* bounds a modifier group may be given
  MaxIds           \* bound on the ids handed out

VARIABLES
  db,       \* table -> id -> row
  ids,      \* the number of ids handed out, over all tables
  req,      \* request -> where its handler is, and its local variables
  scene,    \* the operations this behaviour is about
  history   \* the overlaps and events some property does not survive

vars == <<db, ids, req, scene, history>>

Ids == 1..MaxIds
Kinds == {"SINGLE", "MULTIPLE"}

StoreRow == [pin : Pins \cup {None}, settings : Settings]
StationRow == [store : Ids]
CategoryRow == [store : Ids, name : Settings, active : BOOLEAN]
ProductRow == [store : Ids, station : Ids, category : Ids \cup {None},
               image : Ids \cup {None}, deleted : BOOLEAN]
GroupRow == [store : Ids, kind : Kinds,
             min : MinSelects \cup {0, 1}, max : MaxSelects \cup {0, 1}]   \* 0, 1: defaults
OptionRow == [group : Ids, on : BOOLEAN]
LinkRow == [product : Ids, group : Ids]
NoteRow == [store : Ids, order : Nat]
AccountRow == [email : Contacts \cup {None}, phone : Contacts \cup {None}]
ItemRow == [product : Ids, station : Ids]   \* an order item and its station item

\* What the bodies of requests may say.
CategoryPatch == [name : Settings \cup {Same}, active : BOOLEAN \cup {Same}]
ProductPatch == [store : Ids \cup {Same}, station : Ids \cup {Same},
                 category : Ids \cup {Same}, image : Ids \cup {Same}]
GroupPatch == [kind : Kinds \cup {Same}, min : MinSelects \cup {Same},
               max : MaxSelects \cup {Same}]

TableNames == {"stores", "stations", "categories", "products", "groups", "options", "links",
               "notes", "accounts", "items", "files"}

TablesOK(d) ==
  /\ DOMAIN d = TableNames
  /\ Table(d.stores, Ids, StoreRow)
  /\ Table(d.stations, Ids, StationRow)
  /\ Table(d.categories, Ids, CategoryRow)
  /\ Table(d.products, Ids, ProductRow)
  /\ Table(d.groups, Ids, GroupRow)
  /\ Table(d.options, Ids, OptionRow)
  /\ Table(d.links, Ids, LinkRow)
  /\ Table(d.notes, Ids, NoteRow)
  /\ Table(d.accounts, Ids, AccountRow)
  /\ Table(d.items, Ids, ItemRow)
  /\ d.files \subseteq Ids

ASSUME ShopTablesAssumption ==
  /\ MaxIds \in Nat /\ None \notin Ids \cup Pins /\ Same \notin Ids
  /\ MinSelects \subseteq Int /\ MaxSelects \subseteq Int
  /\ \A s \in Scenes : TablesOK(s.db) /\ s.ids \in 0..MaxIds

-----------------------------------------------------------------------------
(* Requests. *)

Idle == [op |-> "none", pc |-> "idle",
         id |-> 0,            \* the row the handler is about
         row |-> NoRows,      \* its copy of that row, as it is going to save it
         held |-> NoRows,     \* the options of its copy of a modifier group
         asked |-> {},        \* the columns its body sets
         seen |-> None,       \* the PIN it was given, or the image it found
         new |-> {}]          \* the ids its inserts will use

\* The pairs of operations whose overlap some property does not survive.
Watched ==
  { {"setPin"}, {"updatePin"},
    {"updateStore", "setPin"}, {"updateStore", "updatePin"}, {"updateStore", "removeStore"},
    {"createNote"}, {"createNote", "replaceNotes"}, {"replaceNotes"},
    {"updateNote"}, {"updateNote", "removeNote"}, {"updateNote", "replaceNotes"},
    {"removeNote"},
    {"register"}, {"register", "googleLogin"}, {"googleLogin"},
    {"updateCategory"}, {"updateCategory", "removeCategory"},
    {"updateProduct"}, {"updateProduct", "removeProduct"},
    {"updateProduct", "removeStation"}, {"updateProduct", "removeStore"},
    {"createProduct", "removeStation"}, {"restoreProduct", "removeStation"},
    {"updateGroup"}, {"updateGroup", "deleteGroup"}, {"updateGroup", "deleteOption"},
    {"updateGroup", "updateOption"}, {"updateOption"}, {"updateOption", "deleteOption"},
    {"deleteOption"} }

At(r, stage) == req[r].pc = stage
Go(r, q) == req' = [req EXCEPT ![r] = q]
Finish(r) == Go(r, Idle)

Overlaps(r, op) == {{op, req[s].op} : s \in {t \in Requests \ {r} : ~At(t, "idle")}}

\* A new request is taken up, and history notes what it overlaps with and
\* the given events.
TakeUp(r, op, q, events) ==
  /\ At(r, "idle") /\ op \in scene
  /\ Go(r, [q EXCEPT !.op = op])
  /\ history' = history \cup (Overlaps(r, op) \cap Watched) \cup events
  /\ UNCHANGED <<db, scene>>

AcceptNoting(r, op, q, events) == TakeUp(r, op, q, events) /\ UNCHANGED ids
Accept(r, op, q) == AcceptNoting(r, op, q, {})

\* The same for a request that is going to insert n rows.
AcceptInsert(r, op, q, n, events) ==
  /\ ids + n <= MaxIds
  /\ ids' = ids + n
  /\ TakeUp(r, op, [q EXCEPT !.new = ids + 1 .. ids + n], events)

Proceed(r, q) == Go(r, q) /\ UNCHANGED <<db, ids, scene, history>>

\* The handler's last repository call leaves the database d.
Commit(r, d) == db' = d /\ Finish(r) /\ UNCHANGED <<ids, scene, history>>

\* The handler throws: nothing it did before is undone.
Abort(r) == Commit(r, db)

\* An operation of a single repository call.
AtOnce(op, d, n) ==
  /\ op \in scene
  /\ ids + n <= MaxIds
  /\ ids' = ids + n
  /\ db' = d
  /\ UNCHANGED <<req, scene, history>>

NewId(q) == CHOOSE k \in q.new : \A m \in q.new : k <= m

\* A body's column over the row's.
Over(said, own) == IF said = Same THEN own ELSE said

Assign(row, patch) ==
  [c \in DOMAIN row |-> IF c \in DOMAIN patch THEN Over(patch[c], row[c]) ELSE row[c]]
Asked(patch) == {c \in DOMAIN patch : patch[c] # Same}

-----------------------------------------------------------------------------
(* Reads and writes. *)

Of(table, column, k) == {i \in DOMAIN table : table[i][column] = k}

\* save and insert: the row in memory replaces the one in the table.
Saved(table, k, row) == [db EXCEPT ![table] = Put(Row(k, row), @)]

\* What goes with products that are deleted.
WithoutProducts(d, gone) ==
  [d EXCEPT !.products = Without(@, gone),
            !.links = Without(@, {l \in DOMAIN @ : @[l].product \in gone})]

WithoutGroups(d, gone) ==
  [d EXCEPT !.groups = Without(@, gone),
            !.options = Without(@, {o \in DOMAIN @ : @[o].group \in gone}),
            !.links = Without(@, {l \in DOMAIN @ : @[l].group \in gone})]

\* Mutation: the products of a station stay behind.
StationAlone(d, s) == [d EXCEPT !.stations = Without(@, {s})]

WithoutStation(d, s) ==
  LET rest == WithoutProducts(d, Of(d.products, "station", s)) IN
    [rest EXCEPT !.stations = Without(@, {s})]

\* Deleting a store cascades to all that is its own, its orders included.
WithoutStore(d, s) ==
  LET gone == Of(d.products, "store", s)
               \cup {p \in DOMAIN d.products :
                       d.products[p].station \in Of(d.stations, "store", s)}
      rest == WithoutGroups(WithoutProducts(d, gone), Of(d.groups, "store", s))
      lost == Of(d.categories, "store", s)
  IN  [rest EXCEPT
         !.stores = Without(@, {s}),
         !.stations = Without(@, Of(@, "store", s)),
         !.categories = Without(@, lost),
         !.products = [p \in DOMAIN @ |-> IF @[p].category \in lost
                                          THEN [@[p] EXCEPT !.category = None]
                                          ELSE @[p]],
         !.notes = Without(@, Of(@, "store", s)),
         !.items = Without(@, {i \in DOMAIN @ : \/ @[i].product \in gone
                                                \/ @[i].station \in Of(d.stations, "store", s)})]

\* No foreign key of a product row is violated.
Insertable(row) ==
  /\ row.store \in DOMAIN db.stores
  /\ row.station \in DOMAIN db.stations
  /\ row.category \in DOMAIN db.categories \cup {None}
=============================================================================
