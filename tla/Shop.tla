---------------------------------- MODULE Shop ---------------------------------
(***************************************************************************)
(* The services of the back office on one database: their handlers         *)
(* interleave at every await, and the process may be restarted.            *)
(*                                                                         *)
(* Many of their promises do not survive two particular requests at once.  *)
(* history records those overlaps, and each property names the ones it     *)
(* does not survive; it is a history variable that no action reads.        *)
(***************************************************************************)
EXTENDS StoreSettings, QuickNotes, Accounts, Categories, Stations, ProductCatalog, Modifiers

Init ==
  \E s \in Scenes :
    /\ scene = s.ops /\ db = s.db /\ ids = s.ids
    /\ req = [r \in Requests |-> Idle]
    /\ history = {}

\* The process stops: every handler is gone, what it has saved stays.
Restart ==
  /\ "restart" \in scene
  /\ req' = [r \in Requests |-> Idle]
  /\ history' = history \cup {{"cut"} : r \in {s \in Requests : At(s, "insertNotes")}}
  /\ UNCHANGED <<db, ids, scene>>

Request(r) ==
  \/ StoresRequest(r)
  \/ NotesRequest(r)
  \/ AccountsRequest(r)
  \/ CategoriesRequest(r)
  \/ StationsRequest(r)
  \/ ProductsRequest(r)
  \/ ModifiersRequest(r)

Step(r) ==
  \/ StoresStep(r)
  \/ NotesStep(r)
  \/ AccountsStep(r)
  \/ CategoriesStep(r)
  \/ StationsStep(r)
  \/ ProductsStep(r)
  \/ ModifiersStep(r)

\* What takes a single repository call.
Direct ==
  \/ CreateStore
  \/ CreateCategory
  \/ CreateStation
  \/ MoveStation
  \/ UploadImage
  \/ SellProduct
  \/ RemoveItems

Next ==
  \/ \E r \in Requests : Step(r) \/ Request(r)
  \/ Direct
  \/ Restart

Spec == Init /\ [][Next]_vars

-----------------------------------------------------------------------------

Happened(overlaps) == history \cap overlaps # {}

\* The foreign keys of the tables of a database d.
RefsHold(d) ==
  /\ \A t \in {"stations", "categories", "products", "groups", "notes"} :
       \A k \in DOMAIN d[t] : d[t][k].store \in DOMAIN d.stores
  /\ \A p \in DOMAIN d.products :
       /\ d.products[p].station \in DOMAIN d.stations
       /\ d.products[p].category \in DOMAIN d.categories \cup {None}
  /\ \A o \in DOMAIN d.options : d.options[o].group \in DOMAIN d.groups
  /\ \A l \in DOMAIN d.links :
       d.links[l].product \in DOMAIN d.products /\ d.links[l].group \in DOMAIN d.groups
  /\ \A i \in DOMAIN d.items :
       d.items[i].product \in DOMAIN d.products /\ d.items[i].station \in DOMAIN d.stations

\* The ids of all rows are among the first n.
Numbered(d, n) == \A t \in TableNames \ {"files"} : \A k \in DOMAIN d[t] : k <= n

\* Every table holds rows of its type under ids that have been handed out, and
\* no row refers to a row that is not there, although handlers save copies of
\* rows whose parents others have deleted meanwhile.
TypeOK ==
  /\ TablesOK(db) /\ RefsHold(db) /\ Numbered(db, ids)
  /\ ids \in 0..MaxIds
  /\ DOMAIN req = Requests
  /\ \A r \in Requests : DOMAIN req[r] = DOMAIN Idle /\ req[r].new \subseteq 1..ids

\* The tables whose rows handlers load, and save as a whole.
Copied == {"stores", "notes", "categories", "products", "groups", "options"}

\* A row that is gone does not come back: rows only appear under ids new to
\* the table, unless the save of a copy overlaps the deletion of its row.
GoneForGood ==
  [][\A t \in Copied : \A k \in DOMAIN db'[t] \ DOMAIN db[t] :
       \/ k > ids \/ \E r \in Requests : k \in req[r].new
       \/ Happened({{"updateStore", "removeStore"}, {"updateNote", "removeNote"},
                     {"updateNote", "replaceNotes"}, {"updateProduct", "removeStation"},
                     {"updateProduct", "removeStore"}, {"updateGroup", "deleteGroup"},
                     {"updateGroup", "deleteOption"}, {"updateOption", "deleteOption"}})]_vars

\* A save changes the columns its own body sets and no others, although the
\* whole row is written from a copy that others may have overtaken, unless
\* two updates of the same table overlap, or a store comes back and with it a
\* category that products were released from.  (A foreign key that is set to
\* NULL is no save.)
OnlyAsked ==
  [][\A t \in Copied : \A k \in DOMAIN db[t] \cap DOMAIN db'[t] : \A c \in DOMAIN db[t][k] :
       db'[t][k][c] # db[t][k][c] =>
         \/ \E r \in Requests : req[r].id = k /\ c \in req[r].asked /\ req'[r] # req[r]
         \/ t = "products" /\ c = "category" /\ db'[t][k][c] = None
         \/ Happened({{"updateNote"}, {"updateCategory"}, {"updateCategory", "removeCategory"},
                       {"updateProduct"}, {"updateProduct", "removeProduct"},
                       {"updateGroup"}, {"updateGroup", "updateOption"}, {"updateOption"},
                       {"updateStore", "removeStore"}})]_vars

\* A store's PIN is only replaced by a request that was given it, unless two
\* requests that write PINs overlap ("no overwrite via this endpoint"), or a
\* store that is gone comes back without its PIN.
PinGuarded ==
  [][\A s \in DOMAIN db.stores \cap DOMAIN db'.stores :
       LET old == db.stores[s].pin IN
         \/ old \in {None, db'.stores[s].pin}
         \/ \E r \in Requests : At(r, "writePin") /\ req[r].id = s /\ req[r].seen = old
         \/ Happened({{"setPin"}, {"updatePin"}, {"updateStore", "removeStore"}})]_vars

\* Settings are only changed by a request that was given the PIN in force at
\* that moment, unless the PIN is written meanwhile, or the store comes back.
SettingsGuarded ==
  [][\A s \in DOMAIN db.stores \cap DOMAIN db'.stores :
       \/ db'.stores[s].settings = db.stores[s].settings
       \/ \E r \in Requests :
            At(r, "saveStore") /\ req[r].id = s /\ req[r].seen = db.stores[s].pin
       \/ Happened({{"updateStore", "setPin"}, {"updateStore", "updatePin"},
                     {"updateStore", "removeStore"}})]_vars

\* A store that has quick notes keeps at least one ("Cannot delete the last
\* quick note"), except between the two statements of a PUT, and unless
\* removes overlap, the process stops in a PUT, or the store comes back.
\* (Where notes are removed, every store has some from the start; a new store
\* has none.)
NotesRemain ==
  /\ "removeNote" \in scene /\ "createStore" \notin scene
  /\ ~Happened({{"removeNote"}, {"cut"}, {"updateStore", "removeStore"}})
  => \A s \in DOMAIN db.stores :
       NotesOf(s) # {} \/ \E r \in Requests : At(r, "insertNotes") /\ req[r].id = s

\* No two notes of a store share a place.
NotesApart(d) ==
  \A m, n \in DOMAIN d.notes :
    d.notes[m].store = d.notes[n].store /\ d.notes[m].order = d.notes[n].order => m = n

\* The notes of a store have an order, unless a body names a place, requests
\* that place notes overlap, or a store comes back and then old notes of it.
NotesOrdered ==
  ~Happened({{"placed"}, {"createNote"}, {"createNote", "replaceNotes"}, {"replaceNotes"},
            {"updateNote", "removeNote"}, {"updateNote", "replaceNotes"},
            {"updateStore", "removeStore"}}) => NotesApart(db)

\* A registration or first Google login that passes the lookups is not
\* refused at the insert, unless two of them overlap.
NoLateRefusal ==
  ~Happened({{"register"}, {"register", "googleLogin"}, {"googleLogin"}}) =>
    {"lateRefusal"} \notin history

\* A product shows an image that is stored, although updates delete images,
\* unless products share an image or two updates overlap.
ImagesStored ==
  ~Happened({{"shared"}, {"updateProduct"}}) =>
    \A p \in DOMAIN db.products : db.products[p].image \in db.files \cup {None}

\* A product, its station, its category and its modifier groups belong to one
\* store.
AllAtHome(d) ==
  /\ \A p \in DOMAIN d.products :
       LET row == d.products[p] IN
         /\ d.stations[row.station].store = row.store
         /\ row.category # None => d.categories[row.category].store = row.store
  /\ \A l \in DOMAIN d.links :
       d.products[d.links[l].product].store = d.groups[d.links[l].group].store

\* They do whatever is edited and deleted meanwhile, unless products or
\* stations are moved to another store.
AtHome == {"moved"} \notin history => AllAtHome(db)

\* A step that removes a station without force, while no product is being
\* given to a station.
RemovesUnforced ==
  /\ \E r \in Requests :
       At(r, "deleteStation") /\ "force" \notin req[r].asked /\ req'[r] # req[r]
  /\ ~Happened({{"updateProduct", "removeStation"}, {"createProduct", "removeStation"},
                {"restoreProduct", "removeStation"}})

\* No product goes with a station that is removed without force, unless it is
\* given to the station meanwhile.
ProductsKept ==
  [][RemovesUnforced =>
       \A p \in DOMAIN db.products : ~db.products[p].deleted => p \in DOMAIN db'.products]_vars

\* The bounds of a group fit together and its kind, whichever updates of it
\* overlap: min, max and kind of a row are always those of one check.
BoundsValid == \A g \in DOMAIN db.groups : Valid(db.groups[g])

\* A group that has as many available options as it requires keeps them, if
\* min is not raised, unless changes of the group and its options overlap.
EnoughOptions ==
  [][\A g \in DOMAIN db.groups \cap DOMAIN db'.groups :
       LET enough == Cardinality(Available(g)) >= db.groups[g].min IN
         \/ ~enough \/ db'.groups[g].min > db.groups[g].min
         \/ (Cardinality(Available(g)) >= db.groups[g].min)'
         \/ Happened({{"updateOption"}, {"updateOption", "deleteOption"}, {"deleteOption"},
                       {"updateGroup", "updateOption"}, {"updateGroup", "deleteOption"}})]_vars

-----------------------------------------------------------------------------
(* What a scene starts from: a database as the services leave it when none of *)
(* the overlaps above has happened.                                           *)

\* Every product that has an image has one of its own, and it is stored.
ImagesApart(d) ==
  \A p \in DOMAIN d.products :
    d.products[p].image # None =>
      /\ d.products[p].image \in d.files
      /\ \A o \in DOMAIN d.products \ {p} : d.products[o].image # d.products[p].image

ASSUME ScenesAssumption ==
  \A s \in Scenes :
    /\ RefsHold(s.db) /\ Numbered(s.db, s.ids)
    /\ \A g \in DOMAIN s.db.groups : Valid(s.db.groups[g])
    /\ NotesApart(s.db) /\ ImagesApart(s.db) /\ AllAtHome(s.db)
    /\ "removeNote" \in s.ops =>
         \A k \in DOMAIN s.db.stores : \E n \in DOMAIN s.db.notes : s.db.notes[n].store = k

-----------------------------------------------------------------------------
(* What the code breaks. *)

\* A removed product "keeps the row ... so order history referencing this
\* product stays intact and it can be restored later".
RemovedRecoverable == [][RemovesUnforced => DOMAIN db.products \subseteq DOMAIN db'.products]_vars
=============================================================================
