------------------------- MODULE ShopPromises_proofs ------------------------
(***************************************************************************)
(* What the back office promises although its handlers interleave, proved  *)
(* for any number of requests and any scenes.  The proofs rest on three    *)
(* things: the types proved in Shop_proofs; that the history tells every   *)
(* watched overlap of two handlers; and that rows do not change the store  *)
(* they belong to, nor do the copies that handlers hold of them.           *)
(***************************************************************************)
EXTENDS Shop_proofs

-----------------------------------------------------------------------------
(* Which operation a handler at a stage is about, and how it began. *)

\* The operations that reach a stage.
OpOK(q) ==
  /\ q.pc = "writePin" => q.op \in {"setPin", "updatePin"}
  /\ q.pc \in {"checkPin", "saveStore"} => q.op = "updateStore"
  /\ q.pc = "deleteStore" => q.op = "removeStore"
  /\ q.pc = "insertNote" => q.op = "createNote"
  /\ q.pc = "saveNote" => q.op = "updateNote"
  /\ q.pc \in {"countNotes", "deleteNote"} => q.op = "removeNote"
  /\ q.pc \in {"clearNotes", "insertNotes"} => q.op = "replaceNotes"
  /\ q.pc = "insertAccount" => q.op \in {"register", "googleLogin"}
  /\ q.pc = "saveCategory" => q.op \in {"updateCategory", "removeCategory"}
  /\ q.pc = "deleteStation" => q.op = "removeStation"
  /\ q.pc = "insertProduct" => q.op = "createProduct"
  /\ q.pc \in {"resolve", "saveProduct", "reload", "dropImage"} => q.op = "updateProduct"
  /\ q.pc = "markProduct" => q.op \in {"removeProduct", "restoreProduct"}
  /\ q.pc = "saveGroup" => q.op = "updateGroup"
  /\ q.pc = "deleteGroup" => q.op = "deleteGroup"
  /\ q.pc = "saveOption" => q.op = "updateOption"
  /\ q.pc = "deleteOption" => q.op = "deleteOption"

\* The events other than overlaps that a beginning is noted with.
BeginEvents == {{"placed"}, {"shared"}, {"moved"}}

\* A handler begins, noting what it overlaps with, and its stage tells which
\* request it serves.
Starts(r) ==
  /\ req[r].pc = "idle" /\ req'[r].pc # "idle" /\ Moves(r) /\ OpOK(req'[r])
  /\ db' = db /\ scene' = scene /\ ids <= ids' /\ ids' \in Nat
  /\ \E events \in SUBSET BeginEvents :
       history' = history \cup (Overlaps(r, req'[r].op) \cap Watched) \cup events
  /\ req'[r].pc = "writePin" => LoadForSetPin(r) \/ LoadForUpdatePin(r)
  /\ req'[r].pc = "checkPin" => LoadForStoreUpdate(r)
  /\ req'[r].pc = "deleteStore" => LoadForRemoveStore(r)
  /\ req'[r].pc = "insertNote" => PlaceNote(r)
  /\ req'[r].pc = "saveNote" => LoadNote(r)
  /\ req'[r].pc = "countNotes" => LoadForRemoveNote(r)
  /\ req'[r].pc = "clearNotes" => ReplaceNotes(r)
  /\ req'[r].pc = "insertAccount" => Register(r) \/ GoogleLogin(r)
  /\ req'[r].pc = "saveCategory" => LoadCategory(r) \/ LoadForRemoveCategory(r)
  /\ req'[r].pc = "deleteStation" => LoadForRemoveStation(r)
  /\ req'[r].pc = "insertProduct" => CreateProduct(r)
  /\ req'[r].pc = "resolve" => LoadProduct(r)
  /\ req'[r].pc = "markProduct" => LoadForRemoveProduct(r) \/ LoadForRestoreProduct(r)
  /\ req'[r].pc = "insertGroup" => CreateGroup(r)
  /\ req'[r].pc = "saveGroup" => LoadGroup(r)
  /\ req'[r].pc = "deleteGroup" => LoadForDeleteGroup(r)
  /\ req'[r].pc = "insertOption" => CreateOption(r)
  /\ req'[r].pc = "saveOption" => LoadOption(r)
  /\ req'[r].pc = "deleteOption" => LoadForDeleteOption(r)
  /\ req'[r].pc = "insertLink" => AssignGroup(r)
  /\ req'[r].pc = "deleteLink" => LoadForUnassign(r)
  /\ req'[r].pc \notin {"saveStore", "deleteNote", "insertNotes", "saveProduct", "reload", "dropImage"}

LEMMA StartsFrom ==
  ASSUME NEW r \in Requests, NEW op, NEW events \in SUBSET BeginEvents, Begins(r, op, events),
         req'[r].op = op, req'[r].pc # "idle"
  PROVE  /\ req[r].pc = "idle" /\ req'[r].pc # "idle" /\ Moves(r)
         /\ db' = db /\ scene' = scene
         /\ \E more \in SUBSET BeginEvents :
              history' = history \cup (Overlaps(r, req'[r].op) \cap Watched) \cup more
BY DEF Begins

LEMMA RequestStarts ==
  ASSUME TypeInv, NEW r \in Requests, Request(r)
  PROVE  Starts(r)
<1> ids' \in Nat /\ ids <= ids'
  BY RequestBegins DEF Begun
<1>1. CASE LoadForSetPin(r)
  <2>1. /\ req'[r].op = "setPin" /\ req'[r].pc = "writePin"
        /\ \E events \in SUBSET BeginEvents : Begins(r, "setPin", events)
    BY <1>1, Known, LoadForSetPinIs DEF Loads, Is, BeginEvents
  <2> QED BY <1>1, <2>1, StartsFrom DEF Starts, OpOK
<1>2. CASE LoadForUpdatePin(r)
  <2>1. /\ req'[r].op = "updatePin" /\ req'[r].pc = "writePin"
        /\ \E events \in SUBSET BeginEvents : Begins(r, "updatePin", events)
    BY <1>2, Known, LoadForUpdatePinIs DEF Loads, Is, BeginEvents
  <2> QED BY <1>2, <2>1, StartsFrom DEF Starts, OpOK
<1>3. CASE LoadForStoreUpdate(r)
  <2>1. /\ req'[r].op = "updateStore" /\ req'[r].pc = "checkPin"
        /\ \E events \in SUBSET BeginEvents : Begins(r, "updateStore", events)
    BY <1>3, Known, LoadForStoreUpdateIs DEF Loads, Is, BeginEvents
  <2> QED BY <1>3, <2>1, StartsFrom DEF Starts, OpOK
<1>4. CASE LoadForRemoveStore(r)
  <2>1. /\ req'[r].op = "removeStore" /\ req'[r].pc = "deleteStore"
        /\ \E events \in SUBSET BeginEvents : Begins(r, "removeStore", events)
    BY <1>4, Known, LoadForRemoveStoreIs DEF Loads, Is, BeginEvents
  <2> QED BY <1>4, <2>1, StartsFrom DEF Starts, OpOK
<1>5. CASE PlaceNote(r)
  <2>1. /\ req'[r].op = "createNote" /\ req'[r].pc = "insertNote"
        /\ \E events \in SUBSET BeginEvents : Begins(r, "createNote", events)
    BY <1>5, Known, PlaceNoteIs DEF Inserts, Is, BeginEvents, Placed
  <2> QED BY <1>5, <2>1, StartsFrom DEF Starts, OpOK
<1>6. CASE LoadNote(r)
  <2>1. /\ req'[r].op = "updateNote" /\ req'[r].pc = "saveNote"
        /\ \E events \in SUBSET BeginEvents : Begins(r, "updateNote", events)
    BY <1>6, Known, LoadNoteIs DEF Loads, Is, BeginEvents, Placed
  <2> QED BY <1>6, <2>1, StartsFrom DEF Starts, OpOK
<1>7. CASE LoadForRemoveNote(r)
  <2>1. /\ req'[r].op = "removeNote" /\ req'[r].pc = "countNotes"
        /\ \E events \in SUBSET BeginEvents : Begins(r, "removeNote", events)
    BY <1>7, Known, LoadForRemoveNoteIs DEF Loads, Is, BeginEvents
  <2> QED BY <1>7, <2>1, StartsFrom DEF Starts, OpOK
<1>8. CASE ReplaceNotes(r)
  <2>1. /\ req'[r].op = "replaceNotes" /\ req'[r].pc = "clearNotes"
        /\ \E events \in SUBSET BeginEvents : Begins(r, "replaceNotes", events)
    BY <1>8, Known, ReplaceNotesIs DEF Inserts, Is, BeginEvents
  <2> QED BY <1>8, <2>1, StartsFrom DEF Starts, OpOK
<1>9. CASE Register(r)
  <2>1. /\ req'[r].op = "register" /\ req'[r].pc = "insertAccount"
        /\ \E events \in SUBSET BeginEvents : Begins(r, "register", events)
    BY <1>9, Known, RegisterIs DEF Inserts, Is, BeginEvents
  <2> QED BY <1>9, <2>1, StartsFrom DEF Starts, OpOK
<1>10. CASE GoogleLogin(r)
  <2>1. /\ req'[r].op = "googleLogin" /\ req'[r].pc = "insertAccount"
        /\ \E events \in SUBSET BeginEvents : Begins(r, "googleLogin", events)
    BY <1>10, Known, GoogleLoginIs DEF Inserts, Is, BeginEvents
  <2> QED BY <1>10, <2>1, StartsFrom DEF Starts, OpOK
<1>11. CASE LoadCategory(r)
  <2>1. /\ req'[r].op = "updateCategory" /\ req'[r].pc = "saveCategory"
        /\ \E events \in SUBSET BeginEvents : Begins(r, "updateCategory", events)
    BY <1>11, Known, LoadCategoryIs DEF Loads, Is, BeginEvents
  <2> QED BY <1>11, <2>1, StartsFrom DEF Starts, OpOK
<1>12. CASE LoadForRemoveCategory(r)
  <2>1. /\ req'[r].op = "removeCategory" /\ req'[r].pc = "saveCategory"
        /\ \E events \in SUBSET BeginEvents : Begins(r, "removeCategory", events)
    BY <1>12, Known, LoadForRemoveCategoryIs DEF Loads, Is, BeginEvents
  <2> QED BY <1>12, <2>1, StartsFrom DEF Starts, OpOK
<1>13. CASE LoadForRemoveStation(r)
  <2>1. /\ req'[r].op = "removeStation" /\ req'[r].pc = "deleteStation"
        /\ \E events \in SUBSET BeginEvents : Begins(r, "removeStation", events)
    BY <1>13, Known, LoadForRemoveStationIs DEF Loads, Is, BeginEvents
  <2> QED BY <1>13, <2>1, StartsFrom DEF Starts, OpOK
<1>14. CASE CreateProduct(r)
  <2>1. /\ req'[r].op = "createProduct" /\ req'[r].pc = "insertProduct"
        /\ \E events \in SUBSET BeginEvents : Begins(r, "createProduct", events)
    BY <1>14, Known, CreateProductIs DEF Inserts, Is, BeginEvents, Shared
  <2> QED BY <1>14, <2>1, StartsFrom DEF Starts, OpOK
<1>15. CASE LoadProduct(r)
  <2>1. /\ req'[r].op = "updateProduct" /\ req'[r].pc = "resolve"
        /\ \E events \in SUBSET BeginEvents : Begins(r, "updateProduct", events)
    BY <1>15, Known, LoadProductIs DEF Loads, Is, BeginEvents, Shared
  <2> QED BY <1>15, <2>1, StartsFrom DEF Starts, OpOK
<1>16. CASE LoadForRemoveProduct(r)
  <2>1. /\ req'[r].op = "removeProduct" /\ req'[r].pc = "markProduct"
        /\ \E events \in SUBSET BeginEvents : Begins(r, "removeProduct", events)
    BY <1>16, Known, LoadForRemoveProductIs DEF Loads, Is, BeginEvents
  <2> QED BY <1>16, <2>1, StartsFrom DEF Starts, OpOK
<1>17. CASE LoadForRestoreProduct(r)
  <2>1. /\ req'[r].op = "restoreProduct" /\ req'[r].pc = "markProduct"
        /\ \E events \in SUBSET BeginEvents : Begins(r, "restoreProduct", events)
    BY <1>17, Known, LoadForRestoreProductIs DEF Loads, Is, BeginEvents
  <2> QED BY <1>17, <2>1, StartsFrom DEF Starts, OpOK
<1>18. CASE CreateGroup(r)
  <2>1. /\ req'[r].op = "createGroup" /\ req'[r].pc = "insertGroup"
        /\ \E events \in SUBSET BeginEvents : Begins(r, "createGroup", events)
    BY <1>18, Known, CreateGroupIs DEF Inserts, Is, BeginEvents
  <2> QED BY <1>18, <2>1, StartsFrom DEF Starts, OpOK
<1>19. CASE LoadGroup(r)
  <2>1. /\ req'[r].op = "updateGroup" /\ req'[r].pc = "saveGroup"
        /\ \E events \in SUBSET BeginEvents : Begins(r, "updateGroup", events)
    BY <1>19, Known, LoadGroupIs DEF Loads, Is, BeginEvents
  <2> QED BY <1>19, <2>1, StartsFrom DEF Starts, OpOK
<1>20. CASE LoadForDeleteGroup(r)
  <2>1. /\ req'[r].op = "deleteGroup" /\ req'[r].pc = "deleteGroup"
        /\ \E events \in SUBSET BeginEvents : Begins(r, "deleteGroup", events)
    BY <1>20, Known, LoadForDeleteGroupIs DEF Loads, Is, BeginEvents
  <2> QED BY <1>20, <2>1, StartsFrom DEF Starts, OpOK
<1>21. CASE CreateOption(r)
  <2>1. /\ req'[r].op = "createOption" /\ req'[r].pc = "insertOption"
        /\ \E events \in SUBSET BeginEvents : Begins(r, "createOption", events)
    BY <1>21, Known, CreateOptionIs DEF Inserts, Is, BeginEvents
  <2> QED BY <1>21, <2>1, StartsFrom DEF Starts, OpOK
<1>22. CASE LoadOption(r)
  <2>1. /\ req'[r].op = "updateOption" /\ req'[r].pc = "saveOption"
        /\ \E events \in SUBSET BeginEvents : Begins(r, "updateOption", events)
    BY <1>22, Known, LoadOptionIs DEF Loads, Is, BeginEvents
  <2> QED BY <1>22, <2>1, StartsFrom DEF Starts, OpOK
<1>23. CASE LoadForDeleteOption(r)
  <2>1. /\ req'[r].op = "deleteOption" /\ req'[r].pc = "deleteOption"
        /\ \E events \in SUBSET BeginEvents : Begins(r, "deleteOption", events)
    BY <1>23, Known, LoadForDeleteOptionIs DEF Loads, Is, BeginEvents
  <2> QED BY <1>23, <2>1, StartsFrom DEF Starts, OpOK
<1>24. CASE AssignGroup(r)
  <2>1. /\ req'[r].op = "assign" /\ req'[r].pc = "insertLink"
        /\ \E events \in SUBSET BeginEvents : Begins(r, "assign", events)
    BY <1>24, Known, AssignGroupIs DEF Inserts, Is, BeginEvents
  <2> QED BY <1>24, <2>1, StartsFrom DEF Starts, OpOK
<1>25. CASE LoadForUnassign(r)
  <2>1. /\ req'[r].op = "unassign" /\ req'[r].pc = "deleteLink"
        /\ \E events \in SUBSET BeginEvents : Begins(r, "unassign", events)
    BY <1>25, Known, LoadForUnassignIs DEF Loads, Is, BeginEvents
  <2> QED BY <1>25, <2>1, StartsFrom DEF Starts, OpOK
<1> QED BY <1>1, <1>2, <1>3, <1>4, <1>5, <1>6, <1>7, <1>8, <1>9, <1>10, <1>11, <1>12, <1>13, <1>14, <1>15, <1>16, <1>17, <1>18, <1>19, <1>20, <1>21, <1>22, <1>23, <1>24, <1>25
       DEF Request, StoresRequest, NotesRequest, AccountsRequest, CategoriesRequest,
           StationsRequest, ProductsRequest, ModifiersRequest

-----------------------------------------------------------------------------
(* What a step writes, and where its handler goes. *)

\* Which actions change a table.
Writers(r) ==
  /\ db'.stores # db.stores => WritePin(r) \/ SaveStore(r) \/ DeleteStore(r)
  /\ db'.stations # db.stations => DeleteStore(r) \/ DeleteStation(r)
  /\ db'.categories # db.categories => DeleteStore(r) \/ SaveCategory(r)
  /\ db'.products # db.products =>
       \/ DeleteStore(r)
       \/ DeleteStation(r)
       \/ InsertProduct(r)
       \/ SaveProduct(r)
       \/ MarkProduct(r)
  /\ db'.groups # db.groups =>
       \/ DeleteStore(r)
       \/ InsertGroup(r)
       \/ SaveGroup(r)
       \/ DeleteGroup(r)
  /\ db'.options # db.options =>
       \/ DeleteStore(r)
       \/ SaveGroup(r)
       \/ DeleteGroup(r)
       \/ SaveOption(r)
       \/ DeleteOption(r)
  /\ db'.links # db.links =>
       \/ DeleteStore(r)
       \/ DeleteStation(r)
       \/ DeleteGroup(r)
       \/ InsertLink(r)
       \/ DeleteLink(r)
  /\ db'.notes # db.notes =>
       \/ DeleteStore(r)
       \/ InsertNote(r)
       \/ SaveNote(r)
       \/ DeleteNote(r)
       \/ ClearNotes(r)
       \/ InsertNotes(r)
  /\ db'.accounts # db.accounts => InsertAccount(r)
  /\ db'.items # db.items => DeleteStore(r)
  /\ db'.files # db.files => DropImage(r) \/ KeepImage(r)

\* The handler is done, or it goes on to its next stage; a refused insert is
\* noted.
Leaves(r) ==
  /\ req[r].pc # "idle" /\ Moves(r) /\ ids' = ids /\ scene' = scene
  /\ \/ history' = history
     \/ RefuseAccount(r) /\ history' = history \cup {{"lateRefusal"}}
  /\ \/ req'[r] = Idle
     \/ CheckPin(r) /\ GoesOn(r, "saveStore")
     \/ CountNotes(r) /\ GoesOn(r, "deleteNote")
     \/ ClearNotes(r) /\ GoesOn(r, "insertNotes")
     \/ ResolveRelations(r) /\ GoesOn(r, "saveProduct")
     \/ SaveProduct(r) /\ GoesOn(r, "reload")
     \/ ReloadProduct(r) /\ GoesOn(r, "dropImage")

LEMMA StepLeaves ==
  ASSUME TypeInv, NEW r \in Requests, Step(r)
  PROVE  Leaves(r) /\ Writers(r)
<1>1. CASE WritePin(r)
  <2>1. Leaves(r)
    BY <1>1, WritePinIs DEF Ends, Leaves
  <2>2. Writers(r)
    BY <1>1, WritePinIs DEF Writers, Keeps, TableNames, Puts
  <2> QED BY <2>1, <2>2
<1>2. CASE CheckPin(r)
  <2>1. Leaves(r)
    BY <1>2, CheckPinIs DEF Ends, GoesOn, Leaves
  <2>2. Writers(r)
    BY <1>2, CheckPinIs DEF Writers, Keeps, TableNames
  <2> QED BY <2>1, <2>2
<1>3. CASE SaveStore(r)
  <2>1. Leaves(r)
    BY <1>3, SaveStoreIs DEF Ends, Leaves
  <2>2. Writers(r)
    BY <1>3, SaveStoreIs DEF Writers, Keeps, TableNames, Puts
  <2> QED BY <2>1, <2>2
<1>4. CASE DeleteStore(r)
  <2>1. Leaves(r)
    BY <1>4, DeleteStoreIs DEF Ends, Leaves
  <2>2. Writers(r)
    BY <1>4, DeleteStoreIs DEF Writers, StoreGone, Keeps, TableNames
  <2> QED BY <2>1, <2>2
<1>5. CASE InsertNote(r)
  <2>1. Leaves(r)
    BY <1>5, InsertNoteIs DEF Ends, Leaves
  <2>2. Writers(r)
    BY <1>5, InsertNoteIs DEF Writers, Keeps, TableNames, Puts
  <2> QED BY <2>1, <2>2
<1>6. CASE SaveNote(r)
  <2>1. Leaves(r)
    BY <1>6, SaveNoteIs DEF Ends, Leaves
  <2>2. Writers(r)
    BY <1>6, SaveNoteIs DEF Writers, Keeps, TableNames, Puts
  <2> QED BY <2>1, <2>2
<1>7. CASE CountNotes(r)
  <2>1. Leaves(r)
    BY <1>7, CountNotesIs DEF Ends, GoesOn, Leaves
  <2>2. Writers(r)
    BY <1>7, CountNotesIs DEF Writers, Keeps, TableNames
  <2> QED BY <2>1, <2>2
<1>8. CASE DeleteNote(r)
  <2>1. Leaves(r)
    BY <1>8, DeleteNoteIs DEF Ends, Leaves
  <2>2. Writers(r)
    BY <1>8, DeleteNoteIs DEF Writers, Keeps, TableNames, Drops
  <2> QED BY <2>1, <2>2
<1>9. CASE ClearNotes(r)
  <2>1. Leaves(r)
    BY <1>9, ClearNotesIs DEF Ends, GoesOn, Leaves
  <2>2. Writers(r)
    BY <1>9, ClearNotesIs DEF Writers, Keeps, TableNames, Drops
  <2> QED BY <2>1, <2>2
<1>10. CASE InsertNotes(r)
  <2>1. Leaves(r)
    BY <1>10, InsertNotesIs DEF Ends, Leaves
  <2>2. Writers(r)
    BY <1>10, InsertNotesIs DEF Writers, Keeps, TableNames
  <2> QED BY <2>1, <2>2
<1>11. CASE InsertAccount(r)
  <2>1. Leaves(r)
    BY <1>11, InsertAccountIs DEF Ends, Leaves
  <2>2. Writers(r)
    BY <1>11, InsertAccountIs DEF Writers, Keeps, TableNames, Puts
  <2> QED BY <2>1, <2>2
<1>12. CASE RefuseAccount(r)
  <2>1. Leaves(r)
    BY <1>12, RefuseAccountIs DEF Ends, Leaves
  <2>2. Writers(r)
    BY <1>12, RefuseAccountIs DEF Writers, Keeps, TableNames
  <2> QED BY <2>1, <2>2
<1>13. CASE SaveCategory(r)
  <2>1. Leaves(r)
    BY <1>13, SaveCategoryIs DEF Ends, Leaves
  <2>2. Writers(r)
    BY <1>13, SaveCategoryIs DEF Writers, Keeps, TableNames, Puts
  <2> QED BY <2>1, <2>2
<1>14. CASE DeleteStation(r)
  <2>1. Leaves(r)
    BY <1>14, DeleteStationIs DEF Ends, Leaves
  <2>2. Writers(r)
    BY <1>14, DeleteStationIs DEF Writers, Keeps, TableNames, StationGone
  <2> QED BY <2>1, <2>2
<1>15. CASE InsertProduct(r)
  <2>1. Leaves(r)
    BY <1>15, InsertProductIs DEF Ends, Leaves
  <2>2. Writers(r)
    BY <1>15, InsertProductIs DEF Writers, Keeps, TableNames, Puts
  <2> QED BY <2>1, <2>2
<1>16. CASE ResolveRelations(r)
  <2>1. Leaves(r)
    BY <1>16, ResolveRelationsIs DEF Ends, GoesOn, Leaves
  <2>2. Writers(r)
    BY <1>16, ResolveRelationsIs DEF Writers, Keeps, TableNames
  <2> QED BY <2>1, <2>2
<1>17. CASE SaveProduct(r)
  <2>1. Leaves(r)
    BY <1>17, SaveProductIs DEF Ends, GoesOn, Leaves
  <2>2. Writers(r)
    BY <1>17, SaveProductIs DEF Writers, Keeps, TableNames, Puts
  <2> QED BY <2>1, <2>2
<1>18. CASE ReloadProduct(r)
  <2>1. Leaves(r)
    BY <1>18, ReloadProductIs DEF Ends, GoesOn, Leaves
  <2>2. Writers(r)
    BY <1>18, ReloadProductIs DEF Writers, Keeps, TableNames
  <2> QED BY <2>1, <2>2
<1>19. CASE DropImage(r)
  <2>1. Leaves(r)
    BY <1>19, DropImageIs DEF Ends, Leaves
  <2>2. Writers(r)
    BY <1>19, DropImageIs DEF Writers, Keeps, TableNames
  <2> QED BY <2>1, <2>2
<1>20. CASE KeepImage(r)
  <2>1. Leaves(r)
    BY <1>20, DropImageIs DEF Ends, Leaves
  <2>2. Writers(r)
    BY <1>20, DropImageIs DEF Writers, Keeps, TableNames
  <2> QED BY <2>1, <2>2
<1>21. CASE MarkProduct(r)
  <2>1. Leaves(r)
    BY <1>21, MarkProductIs DEF Ends, Leaves
  <2>2. Writers(r)
    BY <1>21, MarkProductIs DEF Writers, Keeps, TableNames, Puts
  <2> QED BY <2>1, <2>2
<1>22. CASE InsertGroup(r)
  <2>1. Leaves(r)
    BY <1>22, InsertGroupIs DEF Ends, Leaves
  <2>2. Writers(r)
    BY <1>22, InsertGroupIs DEF Writers, Keeps, TableNames, Puts
  <2> QED BY <2>1, <2>2
<1>23. CASE SaveGroup(r)
  <2>1. Leaves(r)
    BY <1>23, SaveGroupIs DEF Ends, Leaves
  <2>2. Writers(r)
    BY <1>23, SaveGroupIs DEF Writers, Keeps, TableNames
  <2> QED BY <2>1, <2>2
<1>24. CASE DeleteGroup(r)
  <2>1. Leaves(r)
    BY <1>24, DeleteGroupIs DEF Ends, Leaves
  <2>2. Writers(r)
    BY <1>24, DeleteGroupIs DEF Writers, Keeps, TableNames, GroupGone
  <2> QED BY <2>1, <2>2
<1>25. CASE SaveOption(r)
  <2>1. Leaves(r)
    BY <1>25, SaveOptionIs DEF Ends, Leaves
  <2>2. Writers(r)
    BY <1>25, SaveOptionIs DEF Writers, Keeps, TableNames, Puts
  <2> QED BY <2>1, <2>2
<1>26. CASE DeleteOption(r)
  <2>1. Leaves(r)
    BY <1>26, DeleteOptionIs DEF Ends, Leaves
  <2>2. Writers(r)
    BY <1>26, DeleteOptionIs DEF Writers, Keeps, TableNames, Drops
  <2> QED BY <2>1, <2>2
<1>27. CASE InsertLink(r)
  <2>1. Leaves(r)
    BY <1>27, InsertLinkIs DEF Ends, Leaves
  <2>2. Writers(r)
    BY <1>27, InsertLinkIs DEF Writers, Keeps, TableNames, Puts
  <2> QED BY <2>1, <2>2
<1>28. CASE DeleteLink(r)
  <2>1. Leaves(r)
    BY <1>28, DeleteLinkIs DEF Ends, Leaves
  <2>2. Writers(r)
    BY <1>28, DeleteLinkIs DEF Writers, Keeps, TableNames, Drops
  <2> QED BY <2>1, <2>2
<1> QED BY <1>1, <1>2, <1>3, <1>4, <1>5, <1>6, <1>7, <1>8, <1>9, <1>10, <1>11, <1>12,
           <1>13, <1>14, <1>15, <1>16, <1>17, <1>18, <1>19, <1>20, <1>21, <1>22, <1>23,
           <1>24, <1>25, <1>26, <1>27, <1>28
       DEF Step, StoresStep, NotesStep, AccountsStep, CategoriesStep, StationsStep,
           ProductsStep, ModifiersStep

-----------------------------------------------------------------------------
(* The history tells which handlers have met. *)

\* No two handlers whose overlap is watched are at work without being noted.
Told ==
  /\ \A r \in Requests : OpOK(req[r])
  /\ \A r \in Requests : \A s \in Requests \ {r} :
       /\ req[r].pc # "idle" /\ req[s].pc # "idle"
       /\ {req[r].op, req[s].op} \in Watched
       => {req[r].op, req[s].op} \in history

LEMMA Meet ==
  ASSUME Told, NEW r \in Requests, NEW s \in Requests \ {r}, req[r].pc # "idle", req[s].pc # "idle",
         {req[r].op, req[s].op} \in Watched
  PROVE  {req[r].op, req[s].op} \in history
BY DEF Told

\* What has happened has happened.
LEMMA HistoryGrows ==
  ASSUME TypeInv, [Next]_vars
  PROVE  history \subseteq history'
<1>1. ASSUME NEW r \in Requests, Step(r) PROVE history \subseteq history'
  BY <1>1, StepLeaves DEF Leaves
<1>2. ASSUME NEW r \in Requests, Request(r) PROVE history \subseteq history'
  BY <1>2, RequestStarts DEF Starts
<1>3. CASE Direct
  BY <1>3, DirectIs DEF Creates
<1>4. CASE Restart
  BY <1>4, RestartIs
<1> QED BY <1>1, <1>2, <1>3, <1>4 DEF Next, vars

LEMMA GoesOnOp ==
  ASSUME Told, NEW r \in Requests, NEW pc, req[r].pc # "idle",
         \/ req[r].pc = "checkPin" /\ pc = "saveStore"
         \/ req[r].pc = "countNotes" /\ pc = "deleteNote"
         \/ req[r].pc = "clearNotes" /\ pc = "insertNotes"
         \/ req[r].pc = "resolve" /\ pc = "saveProduct"
         \/ req[r].pc = "saveProduct" /\ pc = "reload"
         \/ req[r].pc = "reload" /\ pc = "dropImage",
         GoesOn(r, pc)
  PROVE  OpOK(req'[r]) /\ req'[r].op = req[r].op
BY DEF Told, OpOK, GoesOn, Is

LEMMA ToldInit == Init => Told
BY DEF Init, Told, Idle, OpOK

LEMMA ToldNext == TypeInv /\ Told /\ [Next]_vars => Told'
<1> SUFFICES ASSUME TypeInv, Told, [Next]_vars PROVE Told'
  OBVIOUS
<1>0. history \subseteq history'
  BY HistoryGrows
<1>1. ASSUME NEW r \in Requests, Step(r) PROVE Told'
  <2>1. Leaves(r)
    BY <1>1, StepLeaves
  <2>2. req[r].pc # "idle" /\ Moves(r)
    BY <2>1 DEF Leaves
  <2>3. req'[r] = Idle \/ (OpOK(req'[r]) /\ req'[r].op = req[r].op)
    BY <2>1, GoesOnOp, CheckPinIs, CountNotesIs, ClearNotesIs, ResolveRelationsIs, SaveProductIs,
       ReloadProductIs DEF Leaves
  <2>4. OpOK(Idle) /\ Idle.pc = "idle"
    BY DEF OpOK, Idle
  <2> QED BY <1>0, <2>2, <2>3, <2>4 DEF Told, Moves
<1>2. ASSUME NEW r \in Requests, Request(r) PROVE Told'
  <2>1. Starts(r)
    BY <1>2, RequestStarts
  <2>2. Moves(r) /\ OpOK(req'[r])
    BY <2>1 DEF Starts
  <2>3. (Overlaps(r, req'[r].op) \cap Watched) \subseteq history'
    BY <2>1 DEF Starts
  <2>4. \A s \in Requests \ {r} :
          /\ req'[s].pc # "idle" /\ {req'[r].op, req'[s].op} \in Watched
          => {req'[r].op, req'[s].op} \in history'
    BY <2>2, <2>3 DEF Overlaps, At, Moves
  <2>5. \A s \in Requests \ {r} : {req'[r].op, req'[s].op} = {req'[s].op, req'[r].op}
    OBVIOUS
  <2> QED BY <1>0, <2>2, <2>4, <2>5 DEF Told, Moves
<1>3. CASE Direct
  BY <1>0, <1>3, DirectFine DEF Told
<1>4. CASE Restart
  BY <1>4, RestartIs DEF Told, OpOK, Idle
<1>5. CASE UNCHANGED vars
  BY <1>5 DEF vars, Told
<1> QED BY <1>1, <1>2, <1>3, <1>4, <1>5 DEF Next

-----------------------------------------------------------------------------
(* Accounts: a contact found free stays free. *)

\* No account of the table t has a contact of the row.
FreeIn(t, row) ==
  \A a \in DOMAIN t :
    /\ row.email # None => t[a].email # row.email
    /\ row.phone # None => t[a].phone # row.phone

LEMMA UniqueIs ==
  ASSUME NEW row
  PROVE  Unique(row) <=> FreeIn(db.accounts, row)
<1>1. Holds("email", row.email) <=>
        row.email # None /\ \E a \in DOMAIN db.accounts : db.accounts[a].email = row.email
  BY DEF Holds
<1>2. Holds("phone", row.phone) <=>
        row.phone # None /\ \E a \in DOMAIN db.accounts : db.accounts[a].phone = row.phone
  BY DEF Holds
<1> QED BY <1>1, <1>2 DEF Unique, FreeIn

Registrations == {{"register"}, {"register", "googleLogin"}, {"googleLogin"}}

\* As long as no two registrations overlap, the contact of one that is about to
\* insert is free, and none has been refused.
ContactInv ==
  history \cap Registrations = {} =>
    /\ {"lateRefusal"} \notin history
    /\ \A r \in Requests : req[r].pc = "insertAccount" => FreeIn(db.accounts, req[r].row)

LEMMA OneRegisters ==
  ASSUME Told, NEW r \in Requests, NEW s \in Requests \ {r},
         req[r].pc = "insertAccount", req[s].pc = "insertAccount"
  PROVE  history \cap Registrations # {}
<1>1. req[r].op \in {"register", "googleLogin"} /\ req[s].op \in {"register", "googleLogin"}
  BY DEF Told, OpOK
<1>2. {req[r].op, req[s].op} \in Registrations
  BY <1>1 DEF Registrations
<1>3. Registrations \subseteq Watched
  BY DEF Registrations, Watched
<1>4. {req[r].op, req[s].op} \in history
  BY <1>2, <1>3, Meet
<1> QED BY <1>2, <1>4

LEMMA ContactInit == Init => ContactInv
BY DEF Init, ContactInv, Idle

LEMMA ContactNext == TypeInv /\ Told /\ ContactInv /\ [Next]_vars => ContactInv'
<1> SUFFICES ASSUME TypeInv, Told, ContactInv, [Next]_vars, history' \cap Registrations = {}
             PROVE  /\ {"lateRefusal"} \notin history'
                    /\ \A r \in Requests :
                         req'[r].pc = "insertAccount" => FreeIn(db'.accounts, req'[r].row)
  BY DEF ContactInv
<1>0. /\ {"lateRefusal"} \notin history /\ history \cap Registrations = {}
      /\ \A r \in Requests : req[r].pc = "insertAccount" => FreeIn(db.accounts, req[r].row)
  BY HistoryGrows DEF ContactInv
<1>1. ASSUME NEW r \in Requests, Step(r)
      PROVE  /\ {"lateRefusal"} \notin history'
             /\ \A s \in Requests :
                  req'[s].pc = "insertAccount" => FreeIn(db'.accounts, req'[s].row)
  <2>1. Leaves(r) /\ Writers(r)
    BY <1>1, StepLeaves
  <2>2. ~RefuseAccount(r)
    BY <1>0, RefuseAccountIs, UniqueIs
  <2>3. {"lateRefusal"} \notin history'
    BY <1>0, <2>1, <2>2 DEF Leaves
  <2>4. ASSUME NEW s \in Requests, req'[s].pc = "insertAccount"
        PROVE  FreeIn(db'.accounts, req'[s].row)
    <3>1. s # r
      BY <2>1, <2>4 DEF Leaves, Idle, GoesOn, Is
    <3>2. req'[s] = req[s]
      BY <2>1, <3>1 DEF Leaves, Moves
    <3>3. CASE db'.accounts = db.accounts
      BY <1>0, <2>4, <3>2, <3>3
    <3>4. CASE db'.accounts # db.accounts
      <4>1. req[r].pc = "insertAccount"
        BY <2>1, <3>4, InsertAccountIs DEF Writers
      <4> QED BY <1>0, <2>4, <3>1, <3>2, <4>1, OneRegisters
    <3> QED BY <3>3, <3>4
  <2> QED BY <2>3, <2>4
<1>2. ASSUME NEW r \in Requests, Request(r)
      PROVE  /\ {"lateRefusal"} \notin history'
             /\ \A s \in Requests :
                  req'[s].pc = "insertAccount" => FreeIn(db'.accounts, req'[s].row)
  <2>1. Starts(r)
    BY <1>2, RequestStarts
  <2>2. {"lateRefusal"} \notin Watched \cup BeginEvents
    BY DEF Watched, BeginEvents
  <2>3. {"lateRefusal"} \notin history'
    BY <1>0, <2>1, <2>2 DEF Starts
  <2>4. ASSUME req'[r].pc = "insertAccount"
        PROVE  FreeIn(db.accounts, req'[r].row)
    <3>1. CASE Register(r)
      <4>1. PICK email, phone \in Contacts \cup {None} :
              ContactsFree(Contact(email, phone)) /\ req'[r].row = Contact(email, phone)
        BY <3>1, Known, RegisterIs DEF Inserts, Is
      <4> QED BY <4>1, UniqueIs DEF ContactsFree, Unique
    <3>2. CASE GoogleLogin(r)
      <4>1. PICK email \in Contacts :
              ~Holds("email", email) /\ req'[r].row = Contact(email, None)
        BY <3>2, Known, GoogleLoginIs DEF Inserts, Is
      <4>2. Unique(Contact(email, None))
        BY <4>1 DEF Unique, Contact, Holds
      <4> QED BY <4>1, <4>2, UniqueIs
    <3> QED BY <2>1, <2>4, <3>1, <3>2 DEF Starts
  <2> QED BY <1>0, <2>1, <2>3, <2>4 DEF Starts, Moves
<1>3. CASE Direct
  <2>1. history' \subseteq history \cup {{"moved"}}
    BY <1>3, DirectIs DEF Creates
  <2>2. db'.accounts = db.accounts /\ req' = req
    BY <1>3, DirectIs DEF Creates, Puts, Keeps, TableNames
  <2> QED BY <1>0, <2>1, <2>2
<1>4. CASE Restart
  <2>1. history' \subseteq history \cup {{"cut"}}
    BY <1>4 DEF Restart
  <2> QED BY <1>0, <1>4, <2>1, RestartIs DEF Idle
<1>5. CASE UNCHANGED vars
  BY <1>0, <1>5 DEF vars
<1> QED BY <1>1, <1>2, <1>3, <1>4, <1>5 DEF Next

\* A registration, or a first Google login, whose lookups found the contact
\* free is not refused at the insert, unless two of them were at work at once:
\* nothing else makes accounts, and none changes its contacts.
THEOREM LookupsSuffice == Spec => []NoLateRefusal
<1>1. ContactInv => NoLateRefusal
  BY DEF ContactInv, NoLateRefusal, Happened, Registrations
<1> QED BY <1>1, TypeInvInit, TypeInvNext, ToldInit, ToldNext, ContactInit, ContactNext,
           PTL DEF Spec

-----------------------------------------------------------------------------
(* Modifier groups: what is saved has been checked as a whole. *)

\* The rows that are there, and the rows that will be saved, are valid.
BoundsInv ==
  /\ \A g \in DOMAIN db.groups : Valid(db.groups[g])
  /\ \A r \in Requests : req[r].pc \in {"insertGroup", "saveGroup"} => Valid(req[r].row)

LEMMA BoundsInit == Init => BoundsInv
<1> SUFFICES ASSUME Init PROVE BoundsInv
  OBVIOUS
<1>1. PICK s \in Scenes : db = s.db /\ req = [r \in Requests |-> Idle]
  BY DEF Init
<1>2. \A g \in DOMAIN db.groups : Valid(db.groups[g])
  BY <1>1, ScenesAssumption
<1> QED BY <1>1, <1>2 DEF BoundsInv, Idle

LEMMA BoundsNext == TypeInv /\ BoundsInv /\ [Next]_vars => BoundsInv'
<1> SUFFICES ASSUME TypeInv, BoundsInv, [Next]_vars
             PROVE  /\ \A g \in DOMAIN db'.groups : Valid(db'.groups[g])
                    /\ \A r \in Requests :
                         req'[r].pc \in {"insertGroup", "saveGroup"} => Valid(req'[r].row)
  BY DEF BoundsInv
<1>1. ASSUME NEW r \in Requests, Step(r)
      PROVE  /\ \A g \in DOMAIN db'.groups : Valid(db'.groups[g])
             /\ \A s \in Requests :
                  req'[s].pc \in {"insertGroup", "saveGroup"} => Valid(req'[s].row)
  <2>1. Leaves(r) /\ Writers(r)
    BY <1>1, StepLeaves
  <2>2. \A s \in Requests : req'[s].pc \in {"insertGroup", "saveGroup"} => Valid(req'[s].row)
    BY <2>1 DEF BoundsInv, Leaves, Moves, Idle, GoesOn, Is
  <2>3. CASE db'.groups = db.groups
    BY <2>2, <2>3 DEF BoundsInv
  <2>4. CASE InsertGroup(r)
    <3>1. req[r].pc = "insertGroup"
      BY <2>4, InsertGroupIs
    <3>2. db' = db \/ \E k \in Ids : Puts(db, db', "groups", k, req[r].row)
      BY <2>4, InsertGroupIs
    <3> QED BY <2>2, <3>1, <3>2 DEF BoundsInv, Puts
  <2>5. CASE SaveGroup(r)
    BY <2>2, <2>5, SaveGroupIs DEF BoundsInv
  <2>6. CASE DeleteGroup(r)
    BY <2>2, <2>6, DeleteGroupIs DEF BoundsInv, GroupGone
  <2>7. CASE DeleteStore(r)
    BY <2>2, <2>7, DeleteStoreIs DEF BoundsInv, StoreGone
  <2> QED BY <2>1, <2>3, <2>4, <2>5, <2>6, <2>7 DEF Writers
<1>2. ASSUME NEW r \in Requests, Request(r)
      PROVE  /\ \A g \in DOMAIN db'.groups : Valid(db'.groups[g])
             /\ \A s \in Requests :
                  req'[s].pc \in {"insertGroup", "saveGroup"} => Valid(req'[s].row)
  <2>1. Starts(r)
    BY <1>2, RequestStarts
  <2>2. ASSUME req'[r].pc \in {"insertGroup", "saveGroup"}
        PROVE  Valid(req'[r].row)
    BY <2>1, <2>2, Known, CreateGroupIs, LoadGroupIs DEF Starts, Inserts, Loads, Is
  <2> QED BY <2>1, <2>2 DEF BoundsInv, Starts, Moves
<1>3. CASE Direct
  <2>1. db'.groups = db.groups /\ req' = req
    BY <1>3, DirectIs DEF Creates, Puts, Keeps, TableNames
  <2> QED BY <2>1 DEF BoundsInv
<1>4. CASE Restart
  BY <1>4, RestartIs DEF BoundsInv, Idle
<1>5. CASE UNCHANGED vars
  BY <1>5 DEF vars, BoundsInv
<1> QED BY <1>1, <1>2, <1>3, <1>4, <1>5 DEF Next

\* The bounds of every modifier group fit together and fit its kind, however
\* many updates of it are at work: each saves the whole row it has checked.
THEOREM BoundsStayValid == Spec => []BoundsValid
<1>1. BoundsInv => BoundsValid
  BY DEF BoundsInv, BoundsValid
<1> QED BY <1>1, TypeInvInit, TypeInvNext, BoundsInit, BoundsNext, PTL DEF Spec

-----------------------------------------------------------------------------
(* Stores: the PIN guards itself and the settings. *)

BackAgain == {{"updateStore", "removeStore"}}
PinMeetings == {{"setPin"}, {"updatePin"}} \cup BackAgain
SettingsMeetings == {{"updateStore", "setPin"}, {"updateStore", "updatePin"}} \cup BackAgain

\* A store that is being updated is there, unless it is removed meanwhile.
UpdatedIsThere ==
  history \cap BackAgain = {} =>
    \A r \in Requests : req[r].pc \in {"checkPin", "saveStore"} => req[r].id \in DOMAIN db.stores

\* The PIN that was checked is in force until the settings are saved.
CheckedInForce ==
  history \cap SettingsMeetings = {} =>
    \A r \in Requests : req[r].pc = "saveStore" =>
      req[r].id \in DOMAIN db.stores /\ db.stores[req[r].id].pin = req[r].seen

\* The PIN a request is going to replace is the one it was given, and a first
\* PIN is given to a store without one.
ReplacesKnown(q) ==
  q.id \in DOMAIN db.stores =>
    \/ q.op = "setPin" /\ db.stores[q.id].pin = None
    \/ q.op = "updatePin" /\ q.seen \in Pins /\ db.stores[q.id].pin = q.seen

PinKnown ==
  /\ \A r \in Requests : req[r].pc = "writePin" => req[r].id \in Ids /\ req[r].id <= ids
  /\ history \cap PinMeetings = {} =>
       \A r \in Requests : req[r].pc = "writePin" => ReplacesKnown(req[r])

StoreInv == UpdatedIsThere /\ CheckedInForce /\ PinKnown

LEMMA StoreInit == Init => StoreInv
BY DEF Init, StoreInv, UpdatedIsThere, CheckedInForce, PinKnown, Idle

\* Stores change in four ways.
LEMMA StoresChange ==
  ASSUME TypeInv, NEW r \in Requests, Step(r)
  PROVE  \/ db'.stores = db.stores
         \/ /\ req[r].pc = "writePin" /\ req[r].id \in DOMAIN db.stores
            /\ DOMAIN db'.stores = DOMAIN db.stores
            /\ db'.stores[req[r].id].settings = db.stores[req[r].id].settings
            /\ \A k \in DOMAIN db.stores : k # req[r].id => db'.stores[k] = db.stores[k]
         \/ /\ req[r].pc = "saveStore"
            /\ DOMAIN db'.stores = {req[r].id} \cup DOMAIN db.stores
            /\ req[r].id \in DOMAIN db.stores
                 => db'.stores[req[r].id].pin = db.stores[req[r].id].pin
            /\ \A k \in DOMAIN db.stores : k # req[r].id => db'.stores[k] = db.stores[k]
         \/ /\ req[r].pc = "deleteStore"
            /\ DOMAIN db'.stores = DOMAIN db.stores \ {req[r].id}
            /\ \A k \in DOMAIN db'.stores : db'.stores[k] = db.stores[k]
<1>1. CASE WritePin(r)
  <2>1. CASE db' = db
    BY <2>1
  <2>2. CASE db' # db
    <3>1. /\ req[r].pc = "writePin" /\ req[r].id \in DOMAIN db.stores
          /\ DOMAIN db'.stores = {req[r].id} \cup DOMAIN db.stores
          /\ db'.stores[req[r].id] =
               [pin |-> req[r].row.pin, settings |-> db.stores[req[r].id].settings]
          /\ \A k \in DOMAIN db.stores : k # req[r].id => db'.stores[k] = db.stores[k]
      BY <1>1, <2>2, WritePinIs DEF Puts
    <3>2. db'.stores[req[r].id].settings = db.stores[req[r].id].settings
      BY <3>1
    <3> QED BY <3>1, <3>2
  <2> QED BY <2>1, <2>2
<1>2. CASE SaveStore(r)
  <2> DEFINE pin == IF req[r].id \in DOMAIN db.stores THEN db.stores[req[r].id].pin ELSE None
  <2>1. /\ req[r].pc = "saveStore"
        /\ DOMAIN db'.stores = {req[r].id} \cup DOMAIN db.stores
        /\ db'.stores[req[r].id] = [pin |-> pin, settings |-> req[r].row.settings]
        /\ \A k \in DOMAIN db.stores : k # req[r].id => db'.stores[k] = db.stores[k]
    <3> HIDE DEF pin
    <3>1. /\ req[r].pc = "saveStore"
          /\ Puts(db, db', "stores", req[r].id, [pin |-> pin, settings |-> req[r].row.settings])
      BY <1>2, SaveStoreIs DEF pin
    <3> QED BY <3>1 DEF Puts
  <2>2. db'.stores[req[r].id].pin = pin
    <3> HIDE DEF pin
    <3> QED BY <2>1
  <2>3. req[r].id \in DOMAIN db.stores => db'.stores[req[r].id].pin = db.stores[req[r].id].pin
    BY <2>2
  <2> HIDE DEF pin
  <2> QED BY <2>1, <2>3
<1>3. CASE DeleteStore(r)
  BY <1>3, DeleteStoreIs DEF StoreGone
<1> QED BY <1>1, <1>2, <1>3, StepLeaves DEF Writers

\* The stores whose rows are there stay as they are when one is made.
LEMMA DirectStores ==
  ASSUME TypeInv, Direct
  PROVE  /\ req' = req /\ history \subseteq history' /\ ids <= ids'
         /\ \A k \in DOMAIN db.stores : k \in DOMAIN db'.stores /\ db'.stores[k] = db.stores[k]
         /\ \A k \in DOMAIN db'.stores : k \in DOMAIN db.stores \/ k = ids + 1
<1>1. CASE \E s \in Settings : Creates("stores", [pin |-> None, settings |-> s])
  <2>1. ids + 1 \notin DOMAIN db.stores
    BY Known
  <2> QED BY <1>1, <2>1, Known DEF Creates, Puts
<1>2. CASE db'.stores = db.stores
  BY <1>2, DirectIs, DirectFine DEF Creates
<1> QED BY <1>1, <1>2, DirectIs DEF Creates, Puts, Keeps, TableNames

LEMMA StoreNext == TypeInv /\ Told /\ StoreInv /\ [Next]_vars => StoreInv'
<1> SUFFICES ASSUME TypeInv, Told, StoreInv, [Next]_vars PROVE StoreInv'
  OBVIOUS
<1>0. history \subseteq history'
  BY HistoryGrows
<1>1. ASSUME NEW r \in Requests, Step(r) PROVE StoreInv'
  <2>1. Leaves(r)
    BY <1>1, StepLeaves
  <2>2. req[r].pc # "idle" /\ Moves(r) /\ ids' = ids
    BY <2>1 DEF Leaves
  <2>3. /\ req'[r].pc \notin {"checkPin", "writePin"}
        /\ req'[r].pc = "saveStore" =>
             /\ req[r].pc = "checkPin" /\ req'[r].id = req[r].id /\ req'[r].seen = req[r].seen
             /\ req[r].id \in DOMAIN db.stores /\ PinHolds(req[r]) /\ db' = db
    BY <2>1, CheckPinIs DEF Leaves, Idle, GoesOn, Is, Ends
  <2>4. UpdatedIsThere'
    <3> SUFFICES ASSUME history' \cap BackAgain = {}, NEW s \in Requests,
                        req'[s].pc \in {"checkPin", "saveStore"}
                 PROVE  req'[s].id \in DOMAIN db'.stores
      BY DEF UpdatedIsThere
    <3>1. CASE s = r
      BY <2>3, <3>1
    <3>2. CASE s # r
      <4>1. req'[s] = req[s] /\ req[s].id \in DOMAIN db.stores
        BY <1>0, <2>2, <3>2 DEF Moves, StoreInv, UpdatedIsThere
      <4>2. req[r].pc # "deleteStore"
        BY <1>0, <2>2, <3>2, <4>1, Meet DEF Told, OpOK, BackAgain, Watched
      <4> QED BY <1>1, <4>1, <4>2, StoresChange
    <3> QED BY <3>1, <3>2
  <2>5. CheckedInForce'
    <3> SUFFICES ASSUME history' \cap SettingsMeetings = {}, NEW s \in Requests,
                        req'[s].pc = "saveStore"
                 PROVE  /\ req'[s].id \in DOMAIN db'.stores
                        /\ db'.stores[req'[s].id].pin = req'[s].seen
      BY DEF CheckedInForce
    <3>1. CASE s = r
      BY <2>3, <3>1 DEF PinHolds
    <3>2. CASE s # r
      <4>1. /\ req'[s] = req[s] /\ req[s].id \in DOMAIN db.stores
            /\ db.stores[req[s].id].pin = req[s].seen
        BY <1>0, <2>2, <3>2 DEF Moves, StoreInv, CheckedInForce
      <4>2. req[s].op = "updateStore"
        BY <4>1 DEF Told, OpOK
      <4>3. req[r].pc \notin {"deleteStore", "writePin"}
        <5>1. {req[s].op, req[r].op} \notin history
              \/ {req[s].op, req[r].op} \notin SettingsMeetings
          BY <1>0
        <5> QED BY <2>2, <3>2, <4>1, <4>2, <5>1, Meet
                DEF Told, OpOK, SettingsMeetings, BackAgain, Watched
      <4> QED BY <1>1, <4>1, <4>3, StoresChange
    <3> QED BY <3>1, <3>2
  <2>6. PinKnown'
    <3>1. ASSUME NEW s \in Requests, req'[s].pc = "writePin"
          PROVE  s # r /\ req'[s] = req[s] /\ req[s].id \in Ids /\ req[s].id <= ids
      BY <2>2, <2>3, <3>1 DEF Moves, StoreInv, PinKnown
    <3>2. ASSUME history' \cap PinMeetings = {}, NEW s \in Requests, req'[s].pc = "writePin",
                 req[s].id \in DOMAIN db'.stores
          PROVE  \/ req[s].op = "setPin" /\ db'.stores[req[s].id].pin = None
                 \/ /\ req[s].op = "updatePin" /\ req[s].seen \in Pins
                    /\ db'.stores[req[s].id].pin = req[s].seen
      <4>1. s # r /\ req'[s] = req[s] /\ req[s].pc = "writePin" /\ ReplacesKnown(req[s])
        BY <1>0, <3>1, <3>2 DEF StoreInv, PinKnown
      <4>2. CASE req[r].pc = "writePin" /\ req[r].id = req[s].id /\ req[r].id \in DOMAIN db.stores
        <5>1. ReplacesKnown(req[r])
          BY <1>0, <3>2, <4>2 DEF StoreInv, PinKnown
        <5>2. req[r].op = req[s].op /\ req[r].op \in {"setPin", "updatePin"}
          BY <4>1, <4>2, <5>1, ShopTablesAssumption DEF ReplacesKnown
        <5>3. {req[r].op, req[s].op} \in PinMeetings /\ {req[r].op, req[s].op} \in Watched
          BY <5>2 DEF PinMeetings, Watched
        <5> QED BY <1>0, <3>2, <4>1, <4>2, <5>3, Meet
      <4>3. CASE req[r].pc = "saveStore" /\ req[r].id \notin DOMAIN db.stores
        BY <1>0, <3>2, <4>3 DEF StoreInv, UpdatedIsThere, PinMeetings
      <4>4. CASE /\ ~(/\ req[r].pc = "writePin" /\ req[r].id = req[s].id
                      /\ req[r].id \in DOMAIN db.stores)
                 /\ ~(req[r].pc = "saveStore" /\ req[r].id \notin DOMAIN db.stores)
        <5>1. /\ req[s].id \in DOMAIN db.stores
              /\ db'.stores[req[s].id].pin = db.stores[req[s].id].pin
          BY <1>1, <3>2, <4>4, StoresChange
        <5> QED BY <4>1, <5>1 DEF ReplacesKnown
      <4> QED BY <4>2, <4>3, <4>4
    <3>3. ASSUME history' \cap PinMeetings = {}, NEW s \in Requests, req'[s].pc = "writePin"
          PROVE  req'[s].id \in DOMAIN db'.stores =>
                   \/ req'[s].op = "setPin" /\ db'.stores[req'[s].id].pin = None
                   \/ /\ req'[s].op = "updatePin" /\ req'[s].seen \in Pins
                      /\ db'.stores[req'[s].id].pin = req'[s].seen
      BY <3>1, <3>2, <3>3
    <3> QED BY <2>2, <3>1, <3>3 DEF PinKnown, ReplacesKnown
  <2> QED BY <2>4, <2>5, <2>6 DEF StoreInv
<1>2. ASSUME NEW r \in Requests, Request(r) PROVE StoreInv'
  <2>1. Starts(r)
    BY <1>2, RequestStarts
  <2>2. db' = db /\ Moves(r) /\ ids' \in Nat /\ ids <= ids'
    BY <2>1 DEF Starts
  <2>3. req'[r].pc = "checkPin" => req'[r].id \in DOMAIN db.stores
    BY <2>1, Known, LoadForStoreUpdateIs DEF Starts, Loads, Is
  <2>4. req'[r].pc = "writePin" =>
          /\ req'[r].id \in DOMAIN db.stores /\ req'[r].id \in Ids /\ req'[r].id <= ids
          /\ ReplacesKnown(req'[r])
    <3>1. ASSUME LoadForSetPin(r)
          PROVE  /\ req'[r].id \in DOMAIN db.stores /\ req'[r].op = "setPin"
                 /\ db.stores[req'[r].id].pin = None
      BY <3>1, Known, LoadForSetPinIs DEF Loads, Is, PinFree
    <3>2. ASSUME LoadForUpdatePin(r)
          PROVE  /\ req'[r].id \in DOMAIN db.stores /\ req'[r].op = "updatePin"
                 /\ req'[r].seen \in Pins /\ db.stores[req'[r].id].pin = req'[r].seen
      BY <3>2, Known, LoadForUpdatePinIs DEF Loads, Is
    <3> QED BY <2>1, <3>1, <3>2, Known DEF Starts, ReplacesKnown
  <2>5. req'[r].pc # "saveStore"
    BY <2>1 DEF Starts
  <2>6. \A k \in Ids : k <= ids => k <= ids'
    BY <2>2, Known, Further
  <2>7. UpdatedIsThere'
    BY <1>0, <2>2, <2>3, <2>5 DEF StoreInv, UpdatedIsThere, Moves
  <2>8. CheckedInForce'
    BY <1>0, <2>2, <2>5 DEF StoreInv, CheckedInForce, Moves
  <2>9. PinKnown'
    <3>1. \A s \in Requests : req'[s].pc = "writePin" => req'[s].id \in Ids /\ req'[s].id <= ids'
      BY <2>2, <2>4, <2>6 DEF Moves, StoreInv, PinKnown
    <3>2. history' \cap PinMeetings = {} =>
            \A s \in Requests : req'[s].pc = "writePin" => ReplacesKnown(req'[s])
      BY <1>0, <2>2, <2>4 DEF Moves, StoreInv, PinKnown
    <3> QED BY <2>2, <3>1, <3>2 DEF PinKnown, ReplacesKnown
  <2> QED BY <2>7, <2>8, <2>9 DEF StoreInv
<1>3. CASE Direct
  <2>1. /\ req' = req /\ ids <= ids' /\ ids' \in Nat
        /\ \A k \in DOMAIN db.stores : k \in DOMAIN db'.stores /\ db'.stores[k] = db.stores[k]
        /\ \A k \in DOMAIN db'.stores : k \in DOMAIN db.stores \/ k = ids + 1
    BY <1>3, DirectStores, DirectFine
  <2>2. UpdatedIsThere' /\ CheckedInForce'
    BY <1>0, <2>1 DEF StoreInv, UpdatedIsThere, CheckedInForce
  <2>3. \A k \in Ids : k <= ids => k <= ids' /\ k # ids + 1
    BY <2>1, Known, Further, IdsAreNumbers
  <2>4. PinKnown'
    BY <1>0, <2>1, <2>3 DEF StoreInv, PinKnown, ReplacesKnown
  <2> QED BY <2>2, <2>4 DEF StoreInv
<1>4. CASE Restart
  BY <1>4, RestartIs DEF StoreInv, UpdatedIsThere, CheckedInForce, PinKnown, Idle
<1>5. CASE UNCHANGED vars
  BY <1>5 DEF vars, StoreInv, UpdatedIsThere, CheckedInForce, PinKnown, ReplacesKnown
<1> QED BY <1>1, <1>2, <1>3, <1>4, <1>5 DEF Next

PinStep ==
  \A s \in DOMAIN db.stores \cap DOMAIN db'.stores :
    LET old == db.stores[s].pin IN
      \/ old \in {None, db'.stores[s].pin}
      \/ \E r \in Requests : At(r, "writePin") /\ req[r].id = s /\ req[r].seen = old
      \/ Happened({{"setPin"}, {"updatePin"}, {"updateStore", "removeStore"}})

SettingsStep ==
  \A s \in DOMAIN db.stores \cap DOMAIN db'.stores :
    \/ db'.stores[s].settings = db.stores[s].settings
    \/ \E r \in Requests :
         At(r, "saveStore") /\ req[r].id = s /\ req[r].seen = db.stores[s].pin
    \/ Happened({{"updateStore", "setPin"}, {"updateStore", "updatePin"},
                  {"updateStore", "removeStore"}})

LEMMA GuardedSteps ==
  ASSUME TypeInv, StoreInv, [Next]_vars
  PROVE  PinStep /\ SettingsStep
<1>0. /\ Happened({{"setPin"}, {"updatePin"}, {"updateStore", "removeStore"}})
           <=> history \cap PinMeetings # {}
      /\ Happened({{"updateStore", "setPin"}, {"updateStore", "updatePin"},
                    {"updateStore", "removeStore"}})
           <=> history \cap SettingsMeetings # {}
  BY DEF Happened, PinMeetings, SettingsMeetings, BackAgain
<1>1. ASSUME NEW r \in Requests, Step(r) PROVE PinStep /\ SettingsStep
  <2>1. ASSUME NEW s \in DOMAIN db.stores \cap DOMAIN db'.stores,
               db.stores[s].pin \notin {None, db'.stores[s].pin},
               history \cap PinMeetings = {}
        PROVE  At(r, "writePin") /\ req[r].id = s /\ req[r].seen = db.stores[s].pin
    <3>1. req[r].pc = "writePin" /\ req[r].id = s
      BY <1>1, <2>1, StoresChange
    <3> QED BY <2>1, <3>1 DEF StoreInv, PinKnown, ReplacesKnown, At
  <2>2. ASSUME NEW s \in DOMAIN db.stores \cap DOMAIN db'.stores,
               db.stores[s].settings # db'.stores[s].settings,
               history \cap SettingsMeetings = {}
        PROVE  At(r, "saveStore") /\ req[r].id = s /\ req[r].seen = db.stores[s].pin
    <3>1. req[r].pc = "saveStore" /\ req[r].id = s
      BY <1>1, <2>2, StoresChange
    <3> QED BY <2>2, <3>1 DEF StoreInv, CheckedInForce, At
  <2> QED BY <1>0, <2>1, <2>2 DEF PinStep, SettingsStep
<1>2. ASSUME NEW r \in Requests, Request(r) PROVE PinStep /\ SettingsStep
  BY <1>2, RequestStarts DEF Starts, PinStep, SettingsStep
<1>3. CASE Direct
  BY <1>3, DirectStores DEF PinStep, SettingsStep
<1>4. CASE Restart
  BY <1>4, RestartIs DEF PinStep, SettingsStep
<1>5. CASE UNCHANGED vars
  BY <1>5 DEF vars, PinStep, SettingsStep
<1> QED BY <1>1, <1>2, <1>3, <1>4, <1>5 DEF Next

\* A store's PIN is replaced only by a request that was given it: between the
\* comparison and the write no other request can replace it, unless two that
\* write PINs, or an update and a removal of a store, are at work at once.
THEOREM PinIsGuarded == Spec => PinGuarded
<1>1. TypeInv /\ StoreInv /\ [Next]_vars => [PinStep]_vars
  BY GuardedSteps
<1> QED BY <1>1, TypeInvInit, TypeInvNext, ToldInit, ToldNext, StoreInit, StoreNext,
           PTL DEF Spec, PinGuarded, PinStep

\* Settings are changed only by a request that was given the PIN in force when
\* they are saved, unless the PIN is written, or the store removed, meanwhile.
THEOREM SettingsAreGuarded == Spec => SettingsGuarded
<1>1. TypeInv /\ StoreInv /\ [Next]_vars => [SettingsStep]_vars
  BY GuardedSteps
<1> QED BY <1>1, TypeInvInit, TypeInvNext, ToldInit, ToldNext, StoreInit, StoreNext,
           PTL DEF Spec, SettingsGuarded, SettingsStep

-----------------------------------------------------------------------------
(* Homes: the store a row belongs to, whether the row is there, or only in a *)
(* handler's copy, or about to be inserted.                                  *)

\* homes holds a triple of table, id and store for every row it knows; the
\* ids are among the first n, and no row has two homes.
HomesOK(homes, n) ==
  /\ \A t, k, s : <<t, k, s>> \in homes => k \in Ids /\ k <= n /\ s \in Ids /\ s <= n
  /\ \A t, k, s, o : <<t, k, s>> \in homes /\ <<t, k, o>> \in homes => s = o

\* Notes, categories and groups never change their store.
RowsHome(homes, d) ==
  /\ \A k \in DOMAIN d.notes : <<"notes", k, d.notes[k].store>> \in homes
  /\ \A k \in DOMAIN d.categories : <<"categories", k, d.categories[k].store>> \in homes
  /\ \A k \in DOMAIN d.groups : <<"groups", k, d.groups[k].store>> \in homes

CopyHome(homes, q) ==
  /\ q.pc \in {"insertNote", "clearNotes", "insertNotes"} =>
       \A k \in q.new : <<"notes", k, q.id>> \in homes
  /\ q.pc \in {"saveNote", "countNotes", "deleteNote"} => <<"notes", q.id, q.row.store>> \in homes
  /\ q.pc = "saveCategory" => <<"categories", q.id, q.row.store>> \in homes
  /\ q.pc = "insertGroup" => \A k \in q.new : <<"groups", k, q.row.store>> \in homes
  /\ q.pc = "saveGroup" => <<"groups", q.id, q.row.store>> \in homes

\* Stations and products do not either as long as none is moved, and what a
\* product refers to is in the store of the product.
MadeHome(homes, row) == <<"stations", row.station, row.store>> \in homes
FiledHome(homes, row) ==
  row.category # None => <<"categories", row.category, row.store>> \in homes
LinkHome(homes, row) ==
  \E s : <<"products", row.product, s>> \in homes /\ <<"groups", row.group, s>> \in homes

ProductsHome(homes, d) ==
  /\ \A k \in DOMAIN d.stations : <<"stations", k, d.stations[k].store>> \in homes
  /\ \A k \in DOMAIN d.products :
       /\ <<"products", k, d.products[k].store>> \in homes
       /\ MadeHome(homes, d.products[k]) /\ FiledHome(homes, d.products[k])
  /\ \A k \in DOMAIN d.links : LinkHome(homes, d.links[k])

\* The relations a body names are only known to be at home when they have been
\* resolved.
ProductCopyHome(homes, q) ==
  /\ q.pc = "insertProduct" =>
       /\ \A k \in q.new : <<"products", k, q.row.store>> \in homes
       /\ MadeHome(homes, q.row) /\ FiledHome(homes, q.row)
  /\ q.pc \in {"resolve", "saveProduct"} => <<"products", q.id, q.row.store>> \in homes
  /\ q.pc = "saveProduct" \/ (q.pc = "resolve" /\ "station" \notin q.asked) =>
       MadeHome(homes, q.row)
  /\ q.pc = "saveProduct" \/ (q.pc = "resolve" /\ "category" \notin q.asked) =>
       FiledHome(homes, q.row)
  /\ q.pc = "insertLink" => LinkHome(homes, q.row)

Housed(homes) ==
  /\ HomesOK(homes, ids) /\ RowsHome(homes, db) /\ \A r \in Requests : CopyHome(homes, req[r])
  /\ {"moved"} \notin history =>
       ProductsHome(homes, db) /\ \A r \in Requests : ProductCopyHome(homes, req[r])

HomeInv == \E homes : Housed(homes)

\* More homes are as good, and new rows can be given one.
LEMMA MoreHomes ==
  ASSUME NEW G, NEW H, H \subseteq G
  PROVE  /\ \A d : RowsHome(H, d) => RowsHome(G, d)
         /\ \A q : CopyHome(H, q) => CopyHome(G, q)
         /\ \A d : ProductsHome(H, d) => ProductsHome(G, d)
         /\ \A q : ProductCopyHome(H, q) => ProductCopyHome(G, q)
<1>1. \A row : /\ MadeHome(H, row) => MadeHome(G, row)
               /\ FiledHome(H, row) => FiledHome(G, row)
               /\ LinkHome(H, row) => LinkHome(G, row)
  BY DEF MadeHome, FiledHome, LinkHome
<1>2. \A d : RowsHome(H, d) => RowsHome(G, d)
  BY DEF RowsHome
<1>3. \A q : CopyHome(H, q) => CopyHome(G, q)
  BY DEF CopyHome
<1>4. \A d : ProductsHome(H, d) => ProductsHome(G, d)
  BY <1>1 DEF ProductsHome
<1>5. \A q : ProductCopyHome(H, q) => ProductCopyHome(G, q)
  BY <1>1 DEF ProductCopyHome
<1> QED BY <1>2, <1>3, <1>4, <1>5

LEMMA NewHomes ==
  ASSUME NEW H, ids \in Nat, ids' \in Nat, ids <= ids', HomesOK(H, ids), NEW s \in Ids, s <= ids
  PROVE  \E G : /\ HomesOK(G, ids') /\ H \subseteq G
                /\ \A t \in TableNames, k \in Ids : ids < k /\ k <= ids' => <<t, k, s>> \in G
<1> DEFINE K == {k \in Ids : ids < k /\ k <= ids'}
           G == H \cup {<<t, k, s>> : t \in TableNames, k \in K}
<1>1. \A k \in Ids : (k <= ids => k <= ids') /\ (ids < k => ~(k <= ids))
  BY IdsAreNumbers
<1>2. \A u, k, x : <<u, k, x>> \in G => k \in Ids /\ k <= ids' /\ x \in Ids /\ x <= ids'
  BY <1>1 DEF HomesOK
<1>3. \A u, k, x, y : <<u, k, x>> \in G /\ <<u, k, y>> \in G => x = y
  BY <1>1 DEF HomesOK
<1>4. HomesOK(G, ids')
  BY <1>2, <1>3 DEF HomesOK
<1>5. \A t \in TableNames, k \in Ids : ids < k /\ k <= ids' => <<t, k, s>> \in G
  OBVIOUS
<1> QED BY <1>4, <1>5

LEMMA HomesGrow ==
  ASSUME NEW H, NEW m \in Nat, NEW n \in Nat, m <= n, HomesOK(H, m)
  PROVE  HomesOK(H, n)
BY Further DEF HomesOK

LEMMA HomeInit == Init => HomeInv
<1> SUFFICES ASSUME Init PROVE HomeInv
  OBVIOUS
<1>1. PICK s \in Scenes : db = s.db /\ ids = s.ids /\ req = [r \in Requests |-> Idle]
  BY DEF Init
<1>2. AllAtHome(db)
  BY <1>1, ScenesAssumption
<1>3. TypeInv
  BY TypeInvInit
<1> DEFINE T == {"notes", "categories", "groups", "stations", "products"}
           H == {x \in T \X Ids \X Ids : x[2] \in DOMAIN db[x[1]] /\ x[3] = db[x[1]][x[2]].store}
<1>4. \A t, k, x : <<t, k, x>> \in H <=>
        t \in T /\ k \in Ids /\ x \in Ids /\ k \in DOMAIN db[t] /\ x = db[t][k].store
  OBVIOUS
<1> HIDE DEF H
<1>5. \A t \in T : \A k \in DOMAIN db[t] :
        /\ k \in Ids /\ k <= ids /\ db[t][k].store \in DOMAIN db.stores
        /\ db[t][k].store \in Ids /\ db[t][k].store <= ids
  BY <1>3, Known, RefsAre DEF Sound
<1>6. HomesOK(H, ids)
  BY <1>4, <1>5 DEF HomesOK
<1>7. \A t \in T : \A k \in DOMAIN db[t] : <<t, k, db[t][k].store>> \in H
  BY <1>4, <1>5
<1>8. RowsHome(H, db)
  BY <1>7 DEF RowsHome
<1>9. \A p \in DOMAIN db.products :
        /\ db.products[p].station \in DOMAIN db.stations
        /\ db.products[p].category \in DOMAIN db.categories \cup {None}
  BY <1>3, Known, RefsAre DEF Sound
<1>10. \A l \in DOMAIN db.links :
         db.links[l].product \in DOMAIN db.products /\ db.links[l].group \in DOMAIN db.groups
  BY <1>3, Known, RefsAre DEF Sound
<1>11. \A p \in DOMAIN db.products :
         MadeHome(H, db.products[p]) /\ FiledHome(H, db.products[p])
  BY <1>2, <1>7, <1>9 DEF AllAtHome, MadeHome, FiledHome
<1>12. \A l \in DOMAIN db.links : LinkHome(H, db.links[l])
  BY <1>2, <1>7, <1>10 DEF AllAtHome, LinkHome
<1>13. ProductsHome(H, db)
  BY <1>7, <1>11, <1>12 DEF ProductsHome
<1>14. \A r \in Requests : CopyHome(H, req[r]) /\ ProductCopyHome(H, req[r])
  BY <1>1 DEF Idle, CopyHome, ProductCopyHome
<1> QED BY <1>6, <1>8, <1>13, <1>14 DEF HomeInv, Housed

\* What a step saves belongs where the row did.
LEMMA NotesAtHome ==
  ASSUME TypeInv, NEW r \in Requests, Step(r), NEW H, HomesOK(H, ids), RowsHome(H, db),
         CopyHome(H, req[r])
  PROVE  \A k \in DOMAIN db'.notes : <<"notes", k, db'.notes[k].store>> \in H
<1> USE DEF RowsHome
<1>1. CASE InsertNote(r)
  <2>1. CASE db' = db
    BY <2>1
  <2>2. CASE db' # db
    <3>1. req[r].pc = "insertNote" /\ req[r].row.store = req[r].id
      BY <1>1, InsertNoteIs DEF TypeInv, StageOK
    <3>2. PICK k \in Ids : req[r].new = {k} /\ Puts(db, db', "notes", k, req[r].row)
      BY <1>1, <2>2, InsertNoteIs
    <3>3. <<"notes", k, req[r].row.store>> \in H
      BY <3>1, <3>2 DEF CopyHome
    <3> QED BY <3>2, <3>3 DEF Puts
  <2> QED BY <2>1, <2>2
<1>2. CASE SaveNote(r)
  <2>1. CASE db' = db
    BY <2>1
  <2>2. CASE db' # db
    <3>1. req[r].pc = "saveNote" /\ Puts(db, db', "notes", req[r].id, req[r].row)
      BY <1>2, <2>2, SaveNoteIs
    <3> QED BY <3>1 DEF Puts, CopyHome
  <2> QED BY <2>1, <2>2
<1>3. CASE DeleteNote(r)
  BY <1>3, DeleteNoteIs DEF Drops
<1>4. CASE ClearNotes(r)
  BY <1>4, ClearNotesIs DEF Drops
<1>5. CASE InsertNotes(r)
  <2>1. CASE db' = db
    BY <2>1
  <2>2. CASE db' # db
    <3>1. req[r].pc = "insertNotes"
      BY <1>5, InsertNotesIs
    <3>2. PICK k \in Ids :
            /\ req[r].new = {k, k + 1}
            /\ DOMAIN db'.notes = {k, k + 1} \cup DOMAIN db.notes
            /\ db'.notes[k] = [store |-> req[r].id, order |-> 0]
            /\ db'.notes[k + 1] = [store |-> req[r].id, order |-> 1]
            /\ \A n \in DOMAIN db.notes \ {k, k + 1} : db'.notes[n] = db.notes[n]
      BY <1>5, <2>2, InsertNotesIs
    <3>3. db'.notes[k].store = req[r].id /\ db'.notes[k + 1].store = req[r].id
      BY <3>2
    <3>4. <<"notes", k, req[r].id>> \in H /\ <<"notes", k + 1, req[r].id>> \in H
      BY <3>1, <3>2 DEF CopyHome
    <3> QED BY <3>2, <3>3, <3>4
  <2> QED BY <2>1, <2>2
<1>6. CASE DeleteStore(r)
  BY <1>6, DeleteStoreIs DEF StoreGone
<1>7. CASE db'.notes = db.notes
  BY <1>7
<1> QED BY <1>1, <1>2, <1>3, <1>4, <1>5, <1>6, <1>7, StepLeaves DEF Writers

LEMMA RowsStayHome ==
  ASSUME TypeInv, NEW r \in Requests, Step(r), NEW H, HomesOK(H, ids), RowsHome(H, db),
         CopyHome(H, req[r])
  PROVE  RowsHome(H, db')
<1>1. \A k \in DOMAIN db'.notes : <<"notes", k, db'.notes[k].store>> \in H
  BY NotesAtHome
<1>2. \A k \in DOMAIN db'.categories : <<"categories", k, db'.categories[k].store>> \in H
  <2> USE DEF RowsHome
  <2>1. CASE SaveCategory(r)
    <3>1. CASE db' = db
      BY <3>1
    <3>2. CASE db' # db
      <4>1. req[r].pc = "saveCategory" /\ Puts(db, db', "categories", req[r].id, req[r].row)
        BY <2>1, <3>2, SaveCategoryIs
      <4> QED BY <4>1 DEF Puts, CopyHome
    <3> QED BY <3>1, <3>2
  <2>2. CASE DeleteStore(r)
    BY <2>2, DeleteStoreIs DEF StoreGone
  <2> QED BY <2>1, <2>2, StepLeaves DEF Writers
<1>3. \A k \in DOMAIN db'.groups : <<"groups", k, db'.groups[k].store>> \in H
  <2> USE DEF RowsHome
  <2>1. CASE InsertGroup(r)
    <3>1. CASE db' = db
      BY <3>1
    <3>2. CASE db' # db
      <4>1. req[r].pc = "insertGroup"
        BY <2>1, InsertGroupIs
      <4>2. PICK k \in Ids : req[r].new = {k} /\ Puts(db, db', "groups", k, req[r].row)
        BY <2>1, <3>2, InsertGroupIs
      <4> QED BY <4>1, <4>2 DEF Puts, CopyHome
    <3> QED BY <3>1, <3>2
  <2>2. CASE SaveGroup(r)
    BY <2>2, SaveGroupIs DEF CopyHome
  <2>3. CASE DeleteGroup(r)
    BY <2>3, DeleteGroupIs DEF GroupGone
  <2>4. CASE DeleteStore(r)
    BY <2>4, DeleteStoreIs DEF StoreGone
  <2> QED BY <2>1, <2>2, <2>3, <2>4, StepLeaves DEF Writers
<1> QED BY <1>1, <1>2, <1>3 DEF RowsHome

\* So do the copies, whose rows do not change from stage to stage.
LEMMA CopiesStayHome ==
  ASSUME TypeInv, NEW r \in Requests, Step(r), NEW H, \A s \in Requests : CopyHome(H, req[s])
  PROVE  \A s \in Requests : CopyHome(H, req'[s])
<1>1. Leaves(r) /\ Moves(r)
  BY StepLeaves DEF Leaves
<1>2. CopyHome(H, Idle)
  BY DEF CopyHome, Idle
<1>3. ASSUME CountNotes(r), GoesOn(r, "deleteNote") PROVE CopyHome(H, req'[r])
  BY <1>3, CountNotesIs DEF GoesOn, Is, CopyHome
<1>4. ASSUME ClearNotes(r), GoesOn(r, "insertNotes") PROVE CopyHome(H, req'[r])
  BY <1>4, ClearNotesIs DEF GoesOn, Is, CopyHome
<1>5. CopyHome(H, req'[r])
  <2>1. ASSUME NEW stage \in {"saveStore", "saveProduct", "reload", "dropImage"}, GoesOn(r, stage)
        PROVE  CopyHome(H, req'[r])
    BY <2>1 DEF GoesOn, Is, CopyHome
  <2> QED BY <1>1, <1>2, <1>3, <1>4, <2>1 DEF Leaves
<1> QED BY <1>1, <1>5 DEF Moves

\* A product that is saved is at home when its copy is.
LEMMA ProductsStayHome ==
  ASSUME TypeInv, NEW r \in Requests, Step(r), NEW H, HomesOK(H, ids), ProductsHome(H, db),
         ProductCopyHome(H, req[r])
  PROVE  ProductsHome(H, db')
<1>1. \A k \in DOMAIN db'.stations : <<"stations", k, db'.stations[k].store>> \in H
  <2> USE DEF ProductsHome
  <2>1. CASE DeleteStation(r)
    BY <2>1, DeleteStationIs DEF StationGone
  <2>2. CASE DeleteStore(r)
    BY <2>2, DeleteStoreIs DEF StoreGone
  <2> QED BY <2>1, <2>2, StepLeaves DEF Writers
<1>2. \A k \in DOMAIN db'.links : LinkHome(H, db'.links[k])
  <2> USE DEF ProductsHome
  <2>1. CASE InsertLink(r)
    <3>1. CASE db' = db
      BY <3>1
    <3>2. CASE db' # db
      <4>1. req[r].pc = "insertLink" /\ \E k \in Ids : Puts(db, db', "links", k, req[r].row)
        BY <2>1, <3>2, InsertLinkIs
      <4> QED BY <4>1 DEF Puts, ProductCopyHome
    <3> QED BY <3>1, <3>2
  <2>2. CASE DeleteLink(r)
    BY <2>2, DeleteLinkIs DEF Drops
  <2>3. CASE DeleteStation(r)
    BY <2>3, DeleteStationIs DEF StationGone
  <2>4. CASE DeleteGroup(r)
    BY <2>4, DeleteGroupIs DEF GroupGone
  <2>5. CASE DeleteStore(r)
    BY <2>5, DeleteStoreIs DEF StoreGone
  <2> QED BY <2>1, <2>2, <2>3, <2>4, <2>5, StepLeaves DEF Writers
<1> DEFINE AtHomeHere(k, row) ==
      <<"products", k, row.store>> \in H /\ MadeHome(H, row) /\ FiledHome(H, row)
<1>3. \A k \in DOMAIN db.products : AtHomeHere(k, db.products[k])
  BY DEF ProductsHome
<1>4. \A k \in DOMAIN db'.products : AtHomeHere(k, db'.products[k])
  <2>1. CASE InsertProduct(r)
    <3>1. CASE db' = db
      BY <1>3, <3>1
    <3>2. CASE db' # db
      <4>1. req[r].pc = "insertProduct"
        BY <2>1, InsertProductIs
      <4>2. PICK k \in Ids : req[r].new = {k} /\ Puts(db, db', "products", k, req[r].row)
        BY <2>1, <3>2, InsertProductIs
      <4>3. AtHomeHere(k, req[r].row)
        BY <4>1, <4>2 DEF ProductCopyHome
      <4> HIDE DEF AtHomeHere
      <4> QED BY <1>3, <4>2, <4>3 DEF Puts
    <3> QED BY <3>1, <3>2
  <2>2. CASE SaveProduct(r)
    <3>1. CASE db' = db
      BY <1>3, <3>1
    <3>2. CASE db' # db
      <4>1. /\ req[r].pc = "saveProduct"
            /\ Puts(db, db', "products", req[r].id, req[r].row)
        BY <2>2, <3>2, SaveProductIs
      <4>2. AtHomeHere(req[r].id, req[r].row)
        BY <4>1 DEF ProductCopyHome
      <4> HIDE DEF AtHomeHere
      <4> QED BY <1>3, <4>1, <4>2 DEF Puts
    <3> QED BY <3>1, <3>2
  <2>3. CASE MarkProduct(r)
    <3>1. CASE db' = db
      BY <1>3, <3>1
    <3>2. CASE db' # db
      <4> DEFINE p == req[r].id
                 row == [db.products[p] EXCEPT !.deleted = req[r].row.deleted]
      <4>1. p \in DOMAIN db.products /\ Puts(db, db', "products", p, row)
        BY <2>3, <3>2, MarkProductIs
      <4>2. /\ row.store = db.products[p].store /\ row.station = db.products[p].station
            /\ row.category = db.products[p].category
        BY <4>1, Known DEF ProductRow
      <4> HIDE DEF row
      <4>3. AtHomeHere(p, row)
        BY <1>3, <4>1, <4>2 DEF MadeHome, FiledHome
      <4> HIDE DEF AtHomeHere, p
      <4> QED BY <1>3, <4>1, <4>3 DEF Puts
    <3> QED BY <3>1, <3>2
  <2>4. CASE DeleteStation(r)
    BY <1>3, <2>4, DeleteStationIs DEF StationGone
  <2>5. CASE DeleteStore(r)
    <3>1. CASE db' = db
      BY <1>3, <3>1
    <3>2. CASE db' # db
      <4>1. StoreGone(req[r].id, db')
        BY <2>5, <3>2, DeleteStoreIs
      <4>2. ASSUME NEW k \in DOMAIN db'.products
            PROVE  AtHomeHere(k, db'.products[k])
        <5>1. k \in DOMAIN db.products /\ db.products[k] \in ProductRow
          BY <4>1, Known DEF StoreGone
        <5>2. \/ db'.products[k] = db.products[k]
              \/ db'.products[k] = [db.products[k] EXCEPT !.category = None]
          BY <4>1 DEF StoreGone
        <5>3. /\ db'.products[k].store = db.products[k].store
              /\ db'.products[k].station = db.products[k].station
              /\ db'.products[k].category \in {db.products[k].category, None}
          BY <5>1, <5>2 DEF ProductRow
        <5> QED BY <1>3, <5>1, <5>3 DEF MadeHome, FiledHome
      <4> QED BY <4>2
    <3> QED BY <3>1, <3>2
  <2>6. CASE db'.products = db.products
    BY <1>3, <2>6
  <2> QED BY <2>1, <2>2, <2>3, <2>4, <2>5, <2>6, StepLeaves DEF Writers
<1> QED BY <1>1, <1>2, <1>4 DEF ProductsHome

LEMMA ProductCopiesStayHome ==
  ASSUME TypeInv, NEW r \in Requests, Step(r), NEW H, HomesOK(H, ids), RowsHome(H, db),
         ProductsHome(H, db), \A s \in Requests : ProductCopyHome(H, req[s])
  PROVE  \A s \in Requests : ProductCopyHome(H, req'[s])
<1>1. Leaves(r) /\ Moves(r)
  BY StepLeaves DEF Leaves
<1>2. ProductCopyHome(H, Idle)
  BY DEF ProductCopyHome, Idle
<1>3. ASSUME ResolveRelations(r), GoesOn(r, "saveProduct") PROVE ProductCopyHome(H, req'[r])
  <2>1. req[r].pc = "resolve" /\ Resolved(req[r])
    BY <1>3, ResolveRelationsIs DEF GoesOn, Ends, Is, Idle
  <2>2. MadeHome(H, req[r].row)
    BY <2>1 DEF ProductCopyHome, Resolved, MadeHome, ProductsHome
  <2>3. FiledHome(H, req[r].row)
    BY <2>1 DEF ProductCopyHome, Resolved, FiledHome, RowsHome
  <2> QED BY <1>3, <2>1, <2>2, <2>3 DEF GoesOn, Is, ProductCopyHome
<1>4. ProductCopyHome(H, req'[r])
  <2>1. ASSUME NEW stage \in {"saveStore", "deleteNote", "insertNotes", "reload", "dropImage"},
               GoesOn(r, stage)
        PROVE  ProductCopyHome(H, req'[r])
    BY <2>1 DEF GoesOn, Is, ProductCopyHome
  <2> QED BY <1>1, <1>2, <1>3, <2>1 DEF Leaves
<1> QED BY <1>1, <1>4 DEF Moves

\* The columns of a copy, and whether the body sets them.
LEMMA AssignedProduct ==
  ASSUME NEW row \in ProductRow, NEW patch \in ProductPatch
  PROVE  /\ Assign(row, patch).store = Over(patch.store, row.store)
         /\ Assign(row, patch).station = Over(patch.station, row.station)
         /\ Assign(row, patch).category = Over(patch.category, row.category)
         /\ Assign(row, patch).image = Over(patch.image, row.image)
         /\ "station" \notin Asked(patch) => patch.station = Same
         /\ "category" \notin Asked(patch) => patch.category = Same
         /\ "image" \in DOMAIN Assign(row, patch)
<1>1. Assign(row, patch) = [store |-> Over(patch.store, row.store),
                            station |-> Over(patch.station, row.station),
                            category |-> Over(patch.category, row.category),
                            image |-> Over(patch.image, row.image), deleted |-> row.deleted]
  BY DEF Assign, ProductRow, ProductPatch
<1>2. DOMAIN patch = {"store", "station", "category", "image"}
  BY DEF ProductPatch
<1>3. /\ "station" \notin Asked(patch) => patch.station = Same
      /\ "category" \notin Asked(patch) => patch.category = Same
  BY <1>2 DEF Asked
<1> QED BY <1>1, <1>3

LEMMA NoteBegins ==
  ASSUME TypeInv, NEW r \in Requests, Starts(r), NEW H, Housed(H)
  PROVE  \/ req'[r].pc \notin {"insertNote", "clearNotes", "insertGroup"}
         \/ \E G : HomesOK(G, ids') /\ H \subseteq G /\ CopyHome(G, req'[r])
                     /\ ProductCopyHome(G, req'[r])
<1> SUFFICES ASSUME req'[r].pc \in {"insertNote", "clearNotes", "insertGroup"}
             PROVE  \E G : HomesOK(G, ids') /\ H \subseteq G /\ CopyHome(G, req'[r])
                             /\ ProductCopyHome(G, req'[r])
  OBVIOUS
<1>0. ids \in Nat /\ HomesOK(H, ids)
  BY Known DEF Housed
<1>1. CASE req'[r].pc = "insertNote"
  <2>1. /\ ids' = ids + 1 /\ ids + 1 \in Ids /\ req'[r].new = {ids + 1}
        /\ req'[r].id \in DOMAIN db.stores
    BY <1>1, Known, PlaceNoteIs, NextIdIs DEF Starts, Inserts, Is
  <2>2. req'[r].id \in Ids /\ req'[r].id <= ids
    BY <2>1, Known
  <2>3. ids' \in Nat /\ ids <= ids' /\ ids < ids + 1
    BY <1>0, <2>1
  <2>4. PICK G :
          /\ HomesOK(G, ids') /\ H \subseteq G
          /\ \A t \in TableNames, k \in Ids : ids < k /\ k <= ids' => <<t, k, req'[r].id>> \in G
    BY <1>0, <2>2, <2>3, NewHomes
  <2>5. <<"notes", ids + 1, req'[r].id>> \in G
    BY <2>1, <2>3, <2>4 DEF TableNames
  <2> QED BY <1>1, <2>1, <2>4, <2>5 DEF CopyHome, ProductCopyHome
<1>2. CASE req'[r].pc = "clearNotes"
  <2>1. /\ ids' = ids + 2 /\ ids + 2 <= MaxIds /\ req'[r].new = {ids + 1, ids + 2}
        /\ req'[r].id \in DOMAIN db.stores
    BY <1>2, Known, ReplaceNotesIs DEF Starts, Inserts, Is
  <2>2. req'[r].id \in Ids /\ req'[r].id <= ids
    BY <2>1, Known
  <2>3. ids + 1 \in Ids /\ ids + 2 \in Ids
    BY <1>0, <2>1, IdsAreNumbers DEF Ids
  <2>4. /\ ids' \in Nat /\ ids <= ids'
        /\ ids < ids + 1 /\ ids + 1 <= ids' /\ ids < ids + 2 /\ ids + 2 <= ids'
    BY <1>0, <2>1
  <2>5. PICK G :
          /\ HomesOK(G, ids') /\ H \subseteq G
          /\ \A t \in TableNames, k \in Ids : ids < k /\ k <= ids' => <<t, k, req'[r].id>> \in G
    BY <1>0, <2>2, <2>4, NewHomes
  <2>6. \A k \in {ids + 1, ids + 2} : <<"notes", k, req'[r].id>> \in G
    BY <2>3, <2>4, <2>5 DEF TableNames
  <2> QED BY <1>2, <2>1, <2>5, <2>6 DEF CopyHome, ProductCopyHome
<1>3. CASE req'[r].pc = "insertGroup"
  <2>1. PICK s \in DOMAIN db.stores, patch \in GroupPatches :
          /\ ids' = ids + 1 /\ ids + 1 <= MaxIds /\ req'[r].new = {ids + 1}
          /\ req'[r].row = NewGroup(s, patch)
    BY <1>3, Known, CreateGroupIs DEF Starts, Inserts, Is
  <2>2. s \in Ids /\ s <= ids /\ req'[r].row.store = s
    BY <2>1, Known DEF NewGroup
  <2>3. ids' \in Nat /\ ids <= ids' /\ ids < ids + 1 /\ ids + 1 <= ids' /\ ids + 1 \in Ids
    BY <1>0, <2>1, NextIdIs
  <2>4. PICK G :
          /\ HomesOK(G, ids') /\ H \subseteq G
          /\ \A t \in TableNames, k \in Ids : ids < k /\ k <= ids' => <<t, k, s>> \in G
    BY <1>0, <2>2, <2>3, NewHomes
  <2>5. <<"groups", ids + 1, s>> \in G
    BY <2>3, <2>4 DEF TableNames
  <2> QED BY <1>3, <2>1, <2>2, <2>4, <2>5 DEF CopyHome, ProductCopyHome
<1> QED BY <1>1, <1>2, <1>3

LEMMA ProductBegins ==
  ASSUME TypeInv, NEW r \in Requests, Starts(r), NEW H, Housed(H), req'[r].pc = "insertProduct"
  PROVE  \E G : /\ HomesOK(G, ids') /\ H \subseteq G /\ CopyHome(G, req'[r])
                /\ {"moved"} \notin history => ProductCopyHome(G, req'[r])
<1>0. CreateProduct(r) /\ ids \in Nat /\ HomesOK(H, ids) /\ DOMAIN req = Requests
  BY Known DEF Starts, Housed
<1>1. PICK s \in DOMAIN db.stores, st \in DOMAIN db.stations,
           c \in DOMAIN db.categories \cup {None}, image \in db.files \cup {None} :
        /\ Coherent([store |-> s, station |-> st, category |-> c, image |-> image,
                     deleted |-> FALSE])
        /\ Inserts(r, "createProduct", "insertProduct", 0,
                   [store |-> s, station |-> st, category |-> c, image |-> image,
                    deleted |-> FALSE], 1, {ids + 1}, Shared(r, 0, image))
  BY <1>0, CreateProductIs
<1>2. /\ ids' = ids + 1 /\ ids + 1 <= MaxIds /\ req'[r].new = {ids + 1}
      /\ req'[r].row.store = s /\ req'[r].row.station = st /\ req'[r].row.category = c
  BY <1>1 DEF Inserts, Is
<1>3. /\ db.stations[st].store = s
      /\ c \in DOMAIN db.categories => db.categories[c].store = s
  BY <1>1 DEF Coherent
<1>4. s \in Ids /\ s <= ids /\ ids + 1 \in Ids /\ ids' \in Nat /\ ids <= ids' /\ ids < ids + 1
  BY <1>0, <1>1, <1>2, Known, NextIdIs
<1>5. PICK G : /\ HomesOK(G, ids') /\ H \subseteq G
               /\ \A t \in TableNames, k \in Ids : ids < k /\ k <= ids' => <<t, k, s>> \in G
  BY <1>0, <1>4, NewHomes
<1>6. <<"products", ids + 1, s>> \in G
  BY <1>2, <1>4, <1>5 DEF TableNames
<1>7. CopyHome(G, req'[r])
  BY DEF CopyHome
<1>8. ASSUME {"moved"} \notin history
      PROVE  MadeHome(G, req'[r].row) /\ FiledHome(G, req'[r].row)
  <2>1. ProductsHome(H, db) /\ RowsHome(H, db)
    BY <1>8 DEF Housed
  <2> QED BY <1>1, <1>2, <1>3, <1>5, <2>1 DEF ProductsHome, RowsHome, MadeHome, FiledHome
<1> QED BY <1>2, <1>5, <1>6, <1>7, <1>8 DEF ProductCopyHome

\* The copies that the other requests load are at home when the rows are.
LEMMA CopyBegins ==
  ASSUME TypeInv, NEW r \in Requests, Starts(r), NEW H, Housed(H),
         req'[r].pc \notin {"insertNote", "clearNotes", "insertGroup", "insertProduct"}
  PROVE  /\ CopyHome(H, req'[r])
         /\ {"moved"} \notin history' => ProductCopyHome(H, req'[r])
<1>1. RowsHome(H, db)
  BY DEF Housed
<1>2. req'[r].pc = "saveNote" => <<"notes", req'[r].id, req'[r].row.store>> \in H
  <2>1. ASSUME LoadNote(r) PROVE <<"notes", req'[r].id, req'[r].row.store>> \in H
    <3>1. PICK n \in DOMAIN db.notes, place \in Places :
            req'[r].id = n /\ req'[r].row = Assign(db.notes[n], [order |-> place])
      BY <2>1, Known, LoadNoteIs DEF Loads, Is
    <3>2. Assign(db.notes[n], [order |-> place]).store = db.notes[n].store
      BY Known DEF Assign, NoteRow
    <3> QED BY <1>1, <3>1, <3>2 DEF RowsHome
  <2> QED BY <2>1 DEF Starts
<1>3. req'[r].pc = "countNotes" => <<"notes", req'[r].id, req'[r].row.store>> \in H
  BY <1>1, Known, LoadForRemoveNoteIs DEF Starts, Loads, Is, RowsHome
<1>4. req'[r].pc = "saveCategory" => <<"categories", req'[r].id, req'[r].row.store>> \in H
  <2>1. ASSUME LoadCategory(r) PROVE <<"categories", req'[r].id, req'[r].row.store>> \in H
    <3>1. PICK c \in DOMAIN db.categories, patch \in CategoryPatches :
            req'[r].id = c /\ req'[r].row = Assign(db.categories[c], patch)
      BY <2>1, Known, LoadCategoryIs DEF Loads, Is
    <3>2. Assign(db.categories[c], patch).store = db.categories[c].store
      BY Known, CategoriesAssumption DEF Assign, CategoryRow, CategoryPatch
    <3> QED BY <1>1, <3>1, <3>2 DEF RowsHome
  <2>2. ASSUME LoadForRemoveCategory(r)
        PROVE  <<"categories", req'[r].id, req'[r].row.store>> \in H
    <3>1. PICK c \in DOMAIN db.categories :
            req'[r].id = c /\ req'[r].row = [db.categories[c] EXCEPT !.active = FALSE]
      BY <2>2, Known, LoadForRemoveCategoryIs DEF Loads, Is
    <3>2. req'[r].row.store = db.categories[c].store
      BY <3>1, Known DEF CategoryRow
    <3> QED BY <1>1, <3>1, <3>2 DEF RowsHome
  <2> QED BY <2>1, <2>2 DEF Starts
<1>5. req'[r].pc = "saveGroup" => <<"groups", req'[r].id, req'[r].row.store>> \in H
  <2>1. ASSUME LoadGroup(r) PROVE <<"groups", req'[r].id, req'[r].row.store>> \in H
    <3>1. PICK g \in DOMAIN db.groups, patch \in GroupPatches :
            req'[r].id = g /\ req'[r].row = Assign(db.groups[g], patch)
      BY <2>1, Known, LoadGroupIs DEF Loads, Is
    <3>2. Assign(db.groups[g], patch).store = db.groups[g].store
      BY Known, ModifiersAssumption DEF Assign, GroupRow, GroupPatch
    <3> QED BY <1>1, <3>1, <3>2 DEF RowsHome
  <2> QED BY <2>1 DEF Starts
<1>6. CopyHome(H, req'[r])
  BY <1>2, <1>3, <1>4, <1>5 DEF CopyHome, Starts
<1>7. ASSUME {"moved"} \notin history'
      PROVE  ProductCopyHome(H, req'[r])
  <2>1. ProductsHome(H, db)
    BY <1>7 DEF Housed, Starts
  <2>2. CASE req'[r].pc = "resolve"
    <3>1. PICK p \in DOMAIN db.products, patch \in ProductPatches :
            /\ req'[r].id = p /\ req'[r].row = Assign(db.products[p], patch)
            /\ req'[r].asked = Asked(patch)
            /\ patch.store # Same => {"moved"} \in history'
      BY <2>2, Known, LoadProductIs DEF Starts, Loads, Begins, Is
    <3> DEFINE own == db.products[p]
    <3>2. own \in ProductRow /\ patch \in ProductPatch
      BY Known, ProductCatalogAssumption
    <3>a. /\ req'[r].row = Assign(own, patch) /\ req'[r].asked = Asked(patch)
          /\ patch.store = Same
      BY <1>7, <3>1
    <3> HIDE DEF own
    <3>b. /\ Assign(own, patch).store = Over(patch.store, own.store)
          /\ Assign(own, patch).station = Over(patch.station, own.station)
          /\ Assign(own, patch).category = Over(patch.category, own.category)
          /\ "station" \notin Asked(patch) => patch.station = Same
          /\ "category" \notin Asked(patch) => patch.category = Same
      BY <3>2, AssignedProduct
    <3> USE DEF own
    <3>3. req'[r].row.store = db.products[p].store
      BY <3>a, <3>b DEF Over
    <3>4. "station" \notin req'[r].asked => req'[r].row.station = db.products[p].station
      BY <3>a, <3>b DEF Over
    <3>5. "category" \notin req'[r].asked => req'[r].row.category = db.products[p].category
      BY <3>a, <3>b DEF Over
    <3> QED BY <2>1, <2>2, <3>1, <3>3, <3>4, <3>5
            DEF ProductsHome, ProductCopyHome, MadeHome, FiledHome
  <2>3. CASE req'[r].pc = "insertLink"
    <3>1. PICK p \in DOMAIN db.products, g \in DOMAIN db.groups :
            SameShop(p, g) /\ req'[r].row = [product |-> p, group |-> g]
      BY <2>3, Known, AssignGroupIs DEF Starts, Inserts, Is
    <3>2. /\ req'[r].row.product = p /\ req'[r].row.group = g
          /\ db.products[p].store = db.groups[g].store
      BY <3>1 DEF SameShop
    <3>3. /\ <<"products", p, db.products[p].store>> \in H
          /\ <<"groups", g, db.groups[g].store>> \in H
      BY <1>1, <2>1 DEF ProductsHome, RowsHome
    <3>4. LinkHome(H, req'[r].row)
      BY <3>2, <3>3 DEF LinkHome
    <3> QED BY <2>3, <3>4 DEF ProductCopyHome
  <2> QED BY <2>2, <2>3 DEF Starts, ProductCopyHome
<1> QED BY <1>6, <1>7

LEMMA RequestHome ==
  ASSUME TypeInv, NEW r \in Requests, Starts(r), NEW H, Housed(H)
  PROVE  HomeInv'
<1>1. db' = db /\ Moves(r) /\ ids' \in Nat /\ ids <= ids' /\ ids \in Nat /\ history \subseteq history'
  BY Known DEF Starts
<1>2. PICK G : /\ HomesOK(G, ids') /\ H \subseteq G /\ CopyHome(G, req'[r])
               /\ {"moved"} \notin history' => ProductCopyHome(G, req'[r])
  <2>1. CASE req'[r].pc \in {"insertNote", "clearNotes", "insertGroup"}
    BY <2>1, NoteBegins
  <2>2. CASE req'[r].pc = "insertProduct"
    BY <1>1, <2>2, ProductBegins
  <2>3. CASE req'[r].pc \notin {"insertNote", "clearNotes", "insertGroup", "insertProduct"}
    BY <1>1, <2>3, CopyBegins, HomesGrow DEF Housed
  <2> QED BY <2>1, <2>2, <2>3
<1>3. RowsHome(G, db')
  BY <1>1, <1>2, MoreHomes DEF Housed
<1>4. \A s \in Requests : CopyHome(G, req'[s])
  BY <1>1, <1>2, MoreHomes DEF Housed, Moves
<1>5. {"moved"} \notin history' =>
        ProductsHome(G, db') /\ \A s \in Requests : ProductCopyHome(G, req'[s])
  BY <1>1, <1>2, MoreHomes DEF Housed, Moves
<1> QED BY <1>2, <1>3, <1>4, <1>5 DEF HomeInv, Housed

LEMMA DirectHome ==
  ASSUME TypeInv, Direct, NEW H, Housed(H)
  PROVE  HomeInv'
<1>0. ids \in Nat /\ HomesOK(H, ids) /\ RowsHome(H, db)
  BY Known DEF Housed
<1>1. /\ req' = req /\ ids' \in Nat /\ ids <= ids' /\ history \subseteq history'
      /\ \A s \in Requests : CopyHome(H, req'[s])
      /\ {"moved"} \notin history' =>
           ProductsHome(H, db) /\ \A s \in Requests : ProductCopyHome(H, req'[s])
  BY DirectFine, HistoryGrows DEF Housed, Next
<1>2. ASSUME NEW G, HomesOK(G, ids'), H \subseteq G, RowsHome(G, db'),
             {"moved"} \notin history' => ProductsHome(G, db')
      PROVE  HomeInv'
  <2>1. \A s \in Requests : CopyHome(G, req'[s])
    BY <1>1, <1>2, MoreHomes
  <2>2. {"moved"} \notin history' => \A s \in Requests : ProductCopyHome(G, req'[s])
    BY <1>1, <1>2, MoreHomes
  <2> QED BY <1>2, <2>1, <2>2 DEF HomeInv, Housed
<1>3. HomesOK(H, ids')
  BY <1>0, <1>1, HomesGrow
<1>4. ASSUME NEW s \in DOMAIN db.stores, NEW t \in {"categories", "stations"}, NEW row,
             Creates(t, row), row.store = s
      PROVE  HomeInv'
  <2>1. /\ ids + 1 \in Ids /\ ids' = ids + 1 /\ Puts(db, db', t, ids + 1, row)
        /\ history' = history
    BY <1>4 DEF Creates
  <2>a. s \in Ids /\ s <= ids /\ ids < ids + 1 /\ ids + 1 <= ids' /\ t \in TableNames
    BY <1>0, <1>4, <2>1, Known DEF TableNames
  <2>b. PICK G : /\ HomesOK(G, ids') /\ H \subseteq G
                 /\ \A u \in TableNames, k \in Ids : ids < k /\ k <= ids' => <<u, k, s>> \in G
    BY <1>0, <1>1, <2>a, NewHomes
  <2>2. HomesOK(G, ids') /\ H \subseteq G /\ <<t, ids + 1, s>> \in G
    BY <2>1, <2>a, <2>b
  <2>3. /\ RowsHome(G, db)
        /\ {"moved"} \notin history' => ProductsHome(G, db)
    BY <1>0, <1>1, <2>2, MoreHomes
  <2>4. RowsHome(G, db')
    BY <1>4, <2>1, <2>2, <2>3 DEF RowsHome, Puts, Keeps, TableNames
  <2>5. {"moved"} \notin history' => ProductsHome(G, db')
    BY <1>4, <2>1, <2>2, <2>3 DEF ProductsHome, Puts, Keeps, TableNames
  <2> QED BY <1>2, <2>2, <2>4, <2>5
<1>5. ASSUME Keeps(db, db', {"stores", "items", "files"})
      PROVE  HomeInv'
  <2>1. RowsHome(H, db')
    BY <1>0, <1>5 DEF RowsHome, Keeps, TableNames
  <2>2. {"moved"} \notin history' => ProductsHome(H, db')
    BY <1>1, <1>5 DEF ProductsHome, Keeps, TableNames
  <2> QED BY <1>2, <1>3, <2>1, <2>2
<1>6. ASSUME {"moved"} \in history', Keeps(db, db', {"stations"})
      PROVE  HomeInv'
  <2>1. RowsHome(H, db')
    BY <1>0, <1>6 DEF RowsHome, Keeps, TableNames
  <2> QED BY <1>2, <1>3, <1>6, <2>1
<1>7. CASE \E s \in Settings : Creates("stores", [pin |-> None, settings |-> s])
  BY <1>5, <1>7 DEF Creates, Puts, Keeps
<1>8. CASE \E s \in DOMAIN db.stores, name \in Settings :
             Creates("categories", [store |-> s, name |-> name, active |-> TRUE])
  BY <1>4, <1>8
<1>9. CASE \E s \in DOMAIN db.stores : Creates("stations", [store |-> s])
  BY <1>4, <1>9
<1>10. CASE /\ history' = history \cup {{"moved"}}
            /\ \E st \in DOMAIN db.stations, s \in DOMAIN db.stores :
                 Puts(db, db', "stations", st, [store |-> s])
  BY <1>6, <1>10 DEF Puts
<1>11. CASE Keeps(db, db', {"files"})
  BY <1>5, <1>11 DEF Keeps
<1>12. CASE \E p \in DOMAIN db.products :
              Creates("items", [product |-> p, station |-> db.products[p].station])
  BY <1>5, <1>12 DEF Creates, Puts, Keeps
<1>13. CASE Keeps(db, db', {"items"})
  BY <1>5, <1>13 DEF Keeps
<1> QED BY <1>7, <1>8, <1>9, <1>10, <1>11, <1>12, <1>13, DirectIs

LEMMA HomeNext == TypeInv /\ HomeInv /\ [Next]_vars => HomeInv'
<1> SUFFICES ASSUME TypeInv, NEW H, Housed(H), [Next]_vars PROVE HomeInv'
  BY DEF HomeInv
<1>0. /\ HomesOK(H, ids) /\ RowsHome(H, db) /\ history \subseteq history'
      /\ \A r \in Requests : CopyHome(H, req[r])
  BY HistoryGrows DEF Housed
<1>1. ASSUME NEW r \in Requests, Step(r) PROVE HomeInv'
  <2>1. ids' = ids
    BY <1>1, StepLeaves DEF Leaves
  <2>2. RowsHome(H, db') /\ \A s \in Requests : CopyHome(H, req'[s])
    BY <1>0, <1>1, RowsStayHome, CopiesStayHome
  <2>3. {"moved"} \notin history' =>
          ProductsHome(H, db') /\ \A s \in Requests : ProductCopyHome(H, req'[s])
    BY <1>0, <1>1, ProductsStayHome, ProductCopiesStayHome DEF Housed
  <2> QED BY <1>0, <2>1, <2>2, <2>3 DEF HomeInv, Housed
<1>2. ASSUME NEW r \in Requests, Request(r) PROVE HomeInv'
  BY <1>2, RequestStarts, RequestHome
<1>3. CASE Direct
  BY <1>3, DirectHome
<1>4. CASE Restart
  <2>1. /\ db' = db /\ ids' = ids /\ \A r \in Requests : req'[r] = Idle
    BY <1>4, RestartIs
  <2>2. \A r \in Requests : CopyHome(H, req'[r]) /\ ProductCopyHome(H, req'[r])
    BY <2>1 DEF Idle, CopyHome, ProductCopyHome
  <2> QED BY <1>0, <2>1, <2>2 DEF HomeInv, Housed
<1>5. CASE UNCHANGED vars
  <2>1. db' = db /\ ids' = ids /\ req' = req /\ history' = history
    BY <1>5 DEF vars
  <2> QED BY <2>1 DEF HomeInv, Housed
<1> QED BY <1>1, <1>2, <1>3, <1>4, <1>5 DEF Next

\* A product, the station it is made at, its category and the modifier groups
\* it is offered with belong to one store, whichever of them are edited, deleted
\* and saved back meanwhile, as long as none is moved to another store: what a
\* body names is compared with the store, and what it does not name stays.
THEOREM EverythingAtHome == Spec => []AtHome
<1>1. TypeInv /\ HomeInv => AtHome
  <2> SUFFICES ASSUME TypeInv, NEW H, Housed(H), {"moved"} \notin history
               PROVE  AllAtHome(db)
    BY DEF HomeInv, AtHome
  <2>1. HomesOK(H, ids) /\ RowsHome(H, db) /\ ProductsHome(H, db)
    BY DEF Housed
  <2>2. \A p \in DOMAIN db.products :
          /\ db.products[p].station \in DOMAIN db.stations
          /\ db.products[p].category \in DOMAIN db.categories \cup {None}
    BY Known, RefsAre DEF Sound
  <2>3. \A l \in DOMAIN db.links :
          db.links[l].product \in DOMAIN db.products /\ db.links[l].group \in DOMAIN db.groups
    BY Known, RefsAre DEF Sound
  <2>4. ASSUME NEW p \in DOMAIN db.products
        PROVE  /\ db.stations[db.products[p].station].store = db.products[p].store
               /\ db.products[p].category # None =>
                    db.categories[db.products[p].category].store = db.products[p].store
    <3> DEFINE own == db.products[p]
    <3>1. /\ <<"stations", own.station, own.store>> \in H
          /\ <<"stations", own.station, db.stations[own.station].store>> \in H
      BY <2>1, <2>2 DEF ProductsHome, MadeHome
    <3>2. own.category # None =>
            /\ <<"categories", own.category, own.store>> \in H
            /\ <<"categories", own.category, db.categories[own.category].store>> \in H
      <4>1. ASSUME own.category # None
            PROVE  own.category \in DOMAIN db.categories
        BY <2>2, <4>1
      <4> QED BY <2>1, <4>1 DEF ProductsHome, FiledHome, RowsHome
    <3> HIDE DEF own
    <3>3. \A t, k, s, o : <<t, k, s>> \in H /\ <<t, k, o>> \in H => s = o
      BY <2>1 DEF HomesOK
    <3>4. /\ db.stations[own.station].store = own.store
          /\ own.category # None => db.categories[own.category].store = own.store
      BY <3>1, <3>2, <3>3
    <3> QED BY <3>4 DEF own
  <2>5. ASSUME NEW l \in DOMAIN db.links
        PROVE  db.products[db.links[l].product].store = db.groups[db.links[l].group].store
    <3> DEFINE own == db.links[l]
    <3>1. PICK s : <<"products", own.product, s>> \in H /\ <<"groups", own.group, s>> \in H
      BY <2>1 DEF ProductsHome, LinkHome
    <3>2. /\ <<"products", own.product, db.products[own.product].store>> \in H
          /\ <<"groups", own.group, db.groups[own.group].store>> \in H
      BY <2>1, <2>3 DEF ProductsHome, RowsHome
    <3> HIDE DEF own
    <3>3. \A t, k, x, y : <<t, k, x>> \in H /\ <<t, k, y>> \in H => x = y
      BY <2>1 DEF HomesOK
    <3>4. db.products[own.product].store = db.groups[own.group].store
      BY <3>1, <3>2, <3>3
    <3> QED BY <3>4 DEF own
  <2> QED BY <2>4, <2>5 DEF AllAtHome
<1> QED BY <1>1, TypeInvInit, TypeInvNext, HomeInit, HomeNext, PTL DEF Spec

-----------------------------------------------------------------------------
(* Quick notes: how their table changes. *)

\* A step puts one note, the two of a list, or takes some away.
PutsNote(k, row) ==
  /\ DOMAIN db'.notes = {k} \cup DOMAIN db.notes
  /\ db'.notes[k].store = row.store /\ db'.notes[k].order = row.order
  /\ \A n \in DOMAIN db.notes : n # k => db'.notes[n] = db.notes[n]

PutsList(k, s) ==
  /\ DOMAIN db'.notes = {k, k + 1} \cup DOMAIN db.notes
  /\ db'.notes[k].store = s /\ db'.notes[k].order = 0
  /\ db'.notes[k + 1].store = s /\ db'.notes[k + 1].order = 1
  /\ \A n \in DOMAIN db.notes \ {k, k + 1} : db'.notes[n] = db.notes[n]

TakesNotes(gone) ==
  /\ DOMAIN db'.notes = DOMAIN db.notes \ gone
  /\ \A n \in DOMAIN db'.notes : db'.notes[n] = db.notes[n]

LEMMA NotesChange ==
  ASSUME TypeInv, NEW r \in Requests, Step(r)
  PROVE  \/ db'.notes = db.notes
         \/ /\ db'.stores = db.stores
            /\ \/ /\ req[r].pc = "insertNote" /\ req[r].id \in DOMAIN db.stores
                  /\ \E k \in Ids : req[r].new = {k} /\ PutsNote(k, req[r].row)
               \/ /\ req[r].pc = "saveNote" /\ req[r].row.store \in DOMAIN db.stores
                  /\ PutsNote(req[r].id, req[r].row)
               \/ req[r].pc = "deleteNote" /\ TakesNotes({req[r].id})
               \/ /\ req[r].pc = "clearNotes" /\ GoesOn(r, "insertNotes")
                  /\ TakesNotes(NotesOf(req[r].id))
               \/ /\ req[r].pc = "insertNotes" /\ req[r].id \in DOMAIN db.stores
                  /\ \E k \in Ids : /\ k + 1 \in Ids /\ req[r].new = {k, k + 1}
                                    /\ PutsList(k, req[r].id)
         \/ /\ req[r].pc = "deleteStore" /\ TakesNotes(NotesOf(req[r].id))
            /\ DOMAIN db'.stores = DOMAIN db.stores \ {req[r].id}
<1>1. CASE InsertNote(r)
  <2>1. CASE db' = db
    BY <2>1
  <2>2. CASE db' # db
    <3>1. req[r].pc = "insertNote" /\ req[r].id \in DOMAIN db.stores
      BY <1>1, <2>2, InsertNoteIs
    <3>2. PICK k \in Ids : req[r].new = {k} /\ Puts(db, db', "notes", k, req[r].row)
      BY <1>1, <2>2, InsertNoteIs
    <3>3. PutsNote(k, req[r].row) /\ db'.stores = db.stores
      BY <3>2 DEF Puts, PutsNote, Keeps, TableNames
    <3> QED BY <3>1, <3>2, <3>3
  <2> QED BY <2>1, <2>2
<1>2. CASE SaveNote(r)
  <2>1. CASE db' = db
    BY <2>1
  <2>2. CASE db' # db
    <3>1. /\ req[r].pc = "saveNote" /\ req[r].row.store \in DOMAIN db.stores
          /\ Puts(db, db', "notes", req[r].id, req[r].row)
      BY <1>2, <2>2, SaveNoteIs
    <3>2. PutsNote(req[r].id, req[r].row) /\ db'.stores = db.stores
      BY <3>1 DEF Puts, PutsNote, Keeps, TableNames
    <3> QED BY <3>1, <3>2
  <2> QED BY <2>1, <2>2
<1>3. CASE DeleteNote(r)
  BY <1>3, DeleteNoteIs DEF Drops, Keeps, TableNames, TakesNotes
<1>4. CASE ClearNotes(r)
  BY <1>4, ClearNotesIs DEF Drops, Keeps, TableNames, TakesNotes
<1>5. CASE InsertNotes(r)
  <2>1. CASE db' = db
    BY <2>1
  <2>2. CASE db' # db
    <3>1. req[r].pc = "insertNotes" /\ req[r].id \in DOMAIN db.stores
      BY <1>5, <2>2, InsertNotesIs
    <3>2. PICK k \in Ids :
            /\ k + 1 \in Ids /\ req[r].new = {k, k + 1}
            /\ Keeps(db, db', {"notes"})
            /\ DOMAIN db'.notes = {k, k + 1} \cup DOMAIN db.notes
            /\ db'.notes[k] = [store |-> req[r].id, order |-> 0]
            /\ db'.notes[k + 1] = [store |-> req[r].id, order |-> 1]
            /\ \A n \in DOMAIN db.notes \ {k, k + 1} : db'.notes[n] = db.notes[n]
      BY <1>5, <2>2, InsertNotesIs
    <3>3. PutsList(k, req[r].id) /\ db'.stores = db.stores
      BY <3>2 DEF PutsList, Keeps, TableNames
    <3> QED BY <3>1, <3>2, <3>3
  <2> QED BY <2>1, <2>2
<1>6. CASE DeleteStore(r)
  <2>1. CASE db' = db
    BY <2>1
  <2>2. CASE db' # db
    <3>1. req[r].pc = "deleteStore" /\ StoreGone(req[r].id, db')
      BY <1>6, <2>2, DeleteStoreIs
    <3>2. /\ TakesNotes(NotesOf(req[r].id))
          /\ DOMAIN db'.stores = DOMAIN db.stores \ {req[r].id}
      BY <3>1 DEF StoreGone, TakesNotes, NotesOf, Of
    <3> QED BY <3>1, <3>2
  <2> QED BY <2>1, <2>2
<1> QED BY <1>1, <1>2, <1>3, <1>4, <1>5, <1>6, StepLeaves DEF Writers

\* Without an update of a store that overlaps its removal, a store appears
\* only when it is made, under an id that is new.
LEMMA NoStoreReturns ==
  ASSUME TypeInv, StoreInv, [Next]_vars, history \cap BackAgain = {}
  PROVE  \A k \in DOMAIN db'.stores : k \in DOMAIN db.stores \/ ~(k <= ids)
<1>1. ASSUME NEW r \in Requests, Step(r)
      PROVE  DOMAIN db'.stores \subseteq DOMAIN db.stores
  BY <1>1, StoresChange DEF StoreInv, UpdatedIsThere
<1>2. ASSUME NEW r \in Requests, Request(r)
      PROVE  db' = db
  BY <1>2, RequestStarts DEF Starts
<1>3. CASE Direct
  BY <1>3, DirectStores, Known
<1>4. CASE Restart
  BY <1>4, RestartIs
<1> QED BY <1>1, <1>2, <1>3, <1>4 DEF Next, vars

-----------------------------------------------------------------------------
(* Quick notes: their order. *)

OrderMeetings ==
  {{"placed"}, {"createNote"}, {"createNote", "replaceNotes"}, {"replaceNotes"},
   {"updateNote", "removeNote"}, {"updateNote", "replaceNotes"}} \cup BackAgain

\* The place of a note that is about to be inserted is after all others.
PlacedLast(q, d) ==
  /\ \A n \in DOMAIN d.notes : d.notes[n].store = q.id => d.notes[n].order < q.row.order
  /\ \A k \in q.new : k \notin DOMAIN d.notes

\* A copy of a note has the place of the note, unless its store is gone.
PlacedAsBefore(q, d) ==
  \/ q.row.store \notin DOMAIN d.stores
  \/ /\ q.id \in DOMAIN d.notes
     /\ d.notes[q.id].store = q.row.store /\ d.notes[q.id].order = q.row.order

NotePlaced(q, d) ==
  /\ q.pc = "insertNote" => PlacedLast(q, d)
  /\ q.pc = "saveNote" => PlacedAsBefore(q, d)
  /\ q.pc = "insertNotes" => \A n \in DOMAIN d.notes : d.notes[n].store # q.id

\* The id of a note that is about to be inserted is not that of one being saved.
NewNotesApart ==
  \A r, s \in Requests :
    req[r].pc = "insertNote" /\ req[s].pc = "saveNote" => req[s].id \notin req[r].new

OrderInv ==
  /\ \A r \in Requests : req[r].pc = "saveNote" => req[r].row.store <= ids
  /\ history \cap OrderMeetings = {} =>
       /\ NotesApart(db) /\ NewNotesApart
       /\ \A r \in Requests : NotePlaced(req[r], db)

LEMMA OrderInit == Init => OrderInv
<1> SUFFICES ASSUME Init PROVE OrderInv
  OBVIOUS
<1>1. \A r \in Requests : req[r] = Idle
  BY DEF Init
<1>2. NotesApart(db)
  BY ScenesAssumption DEF Init
<1> QED BY <1>1, <1>2 DEF OrderInv, NewNotesApart, NotePlaced, Idle

\* While nothing has happened that the order of notes does not survive, of two
\* handlers one at most is about to insert notes, and none removes notes that
\* the other is about to save.
LEMMA NotesTakeTurns ==
  ASSUME Told, history \cap OrderMeetings = {}, NEW r \in Requests, NEW s \in Requests \ {r}
  PROVE  /\ req[r].pc \in {"insertNote", "clearNotes", "insertNotes"} =>
              req[s].pc \notin {"insertNote", "clearNotes", "insertNotes"}
         /\ req[r].pc \in {"deleteNote", "clearNotes", "insertNotes"} => req[s].pc # "saveNote"
         /\ req[r].pc = "deleteStore" => req[s].pc # "saveStore"
<1>1. /\ req[r].pc # "idle" /\ req[s].pc # "idle"
      /\ {req[r].op, req[s].op} \in Watched
      => {req[r].op, req[s].op} \notin OrderMeetings
  BY Meet
<1>2. /\ req[r].pc \in {"insertNote", "clearNotes", "insertNotes"} =>
           req[r].op \in {"createNote", "replaceNotes"}
      /\ req[s].pc \in {"insertNote", "clearNotes", "insertNotes"} =>
           req[s].op \in {"createNote", "replaceNotes"}
      /\ req[r].pc \in {"deleteNote", "clearNotes", "insertNotes"} =>
           req[r].op \in {"removeNote", "replaceNotes"}
      /\ req[s].pc = "saveNote" => req[s].op = "updateNote"
      /\ req[r].pc = "deleteStore" => req[r].op = "removeStore"
      /\ req[s].pc = "saveStore" => req[s].op = "updateStore"
  BY DEF Told, OpOK
<1>3. \A a, b \in {"createNote", "replaceNotes"} :
        {a, b} \in Watched /\ {a, b} \in OrderMeetings
  BY DEF Watched, OrderMeetings
<1>4. \A a \in {"removeNote", "replaceNotes"} :
        {a, "updateNote"} \in Watched /\ {a, "updateNote"} \in OrderMeetings
  BY DEF Watched, OrderMeetings
<1>5. {"removeStore", "updateStore"} \in Watched \cap OrderMeetings
  BY DEF Watched, OrderMeetings, BackAgain
<1>6. req[r].pc \in {"insertNote", "clearNotes", "insertNotes"} =>
        req[s].pc \notin {"insertNote", "clearNotes", "insertNotes"}
  BY <1>1, <1>2, <1>3
<1>7. req[r].pc \in {"deleteNote", "clearNotes", "insertNotes"} => req[s].pc # "saveNote"
  BY <1>1, <1>2, <1>4
<1>8. req[r].pc = "deleteStore" => req[s].pc # "saveStore"
  BY <1>1, <1>2, <1>5
<1> QED BY <1>6, <1>7, <1>8

\* A step leaves the notes in order.
LEMMA StepKeepsOrder ==
  ASSUME TypeInv, Told, StoreInv, OrderInv, NEW r \in Requests, Step(r),
         history \cap OrderMeetings = {}
  PROVE  NotesApart(db')
<1>0. NotesApart(db) /\ NotePlaced(req[r], db)
  BY DEF OrderInv
<1>1. CASE db'.notes = db.notes
  BY <1>0, <1>1 DEF NotesApart
<1>2. ASSUME NEW k \in Ids, req[r].pc = "insertNote", req[r].new = {k}, PutsNote(k, req[r].row)
      PROVE  NotesApart(db')
  <2>1. req[r].row.store = req[r].id /\ req[r].row.order \in Nat
    BY <1>2 DEF TypeInv, StageOK, NoteRow
  <2>2. \A n \in DOMAIN db.notes : db.notes[n].order \in Nat
    BY Known DEF NoteRow
  <2>3. \A n \in DOMAIN db.notes :
          db.notes[n].store = req[r].row.store => db.notes[n].order # req[r].row.order
    BY <1>0, <1>2, <2>1, <2>2 DEF NotePlaced, PlacedLast
  <2> QED BY <1>0, <1>2, <2>3 DEF NotesApart, PutsNote
<1>3. ASSUME req[r].pc = "saveNote", req[r].row.store \in DOMAIN db.stores,
             PutsNote(req[r].id, req[r].row)
      PROVE  NotesApart(db')
  BY <1>0, <1>3 DEF NotePlaced, PlacedAsBefore, NotesApart, PutsNote
<1>4. ASSUME NEW gone, TakesNotes(gone)
      PROVE  NotesApart(db')
  BY <1>0, <1>4 DEF NotesApart, TakesNotes
<1>5. ASSUME NEW k \in Ids, req[r].pc = "insertNotes", PutsList(k, req[r].id)
      PROVE  NotesApart(db')
  <2>1. \A n \in DOMAIN db.notes : db.notes[n].store # req[r].id
    BY <1>0, <1>5 DEF NotePlaced
  <2>2. k # k + 1
    BY <1>5, IdsAreNumbers
  <2>3. \A n \in DOMAIN db'.notes : n = k \/ n = k + 1 \/ n \in DOMAIN db.notes \ {k, k + 1}
    BY <1>5 DEF PutsList
  <2>4. \A n \in DOMAIN db.notes \ {k, k + 1} :
          db'.notes[n] = db.notes[n] /\ db'.notes[n].store # req[r].id
    BY <1>5, <2>1 DEF PutsList
  <2>5. ASSUME NEW m \in DOMAIN db'.notes, NEW n \in DOMAIN db'.notes,
               db'.notes[m].store = db'.notes[n].store, db'.notes[m].order = db'.notes[n].order
        PROVE  m = n
    <3>1. CASE m \in {k, k + 1} /\ n \in {k, k + 1}
      BY <1>5, <2>5, <3>1 DEF PutsList
    <3>2. CASE m \notin {k, k + 1} /\ n \notin {k, k + 1}
      BY <1>0, <2>3, <2>4, <2>5, <3>2 DEF NotesApart
    <3>3. CASE (m \in {k, k + 1}) # (n \in {k, k + 1})
      BY <1>5, <2>3, <2>4, <2>5, <3>3 DEF PutsList
    <3> QED BY <3>1, <3>2, <3>3
  <2> QED BY <2>5 DEF NotesApart
<1> QED BY <1>1, <1>2, <1>3, <1>4, <1>5, NotesChange

\* It leaves the others' copies as they should be, ...
LEMMA StepKeepsPlaces ==
  ASSUME TypeInv, Told, StoreInv, OrderInv, NEW r \in Requests, Step(r),
         history \cap OrderMeetings = {}, NEW s \in Requests \ {r}
  PROVE  NotePlaced(req[s], db')
<1> DEFINE q == req[s]
<1>0. NotePlaced(q, db) /\ NotePlaced(req[r], db)
  BY DEF OrderInv
<1>1. DOMAIN db'.stores \subseteq DOMAIN db.stores
  BY StoresChange DEF StoreInv, UpdatedIsThere, OrderMeetings
<1>2. ASSUME q.pc = "insertNote" PROVE PlacedLast(q, db')
  <2>1. PlacedLast(q, db)
    BY <1>0, <1>2 DEF NotePlaced
  <2>2. req[r].pc \notin {"insertNote", "clearNotes", "insertNotes"}
    BY <1>2, NotesTakeTurns
  <2>3. ASSUME req[r].pc = "saveNote", req[r].row.store \in DOMAIN db.stores,
               PutsNote(req[r].id, req[r].row)
        PROVE  PlacedLast(q, db')
    BY <1>0, <2>1, <2>3 DEF NotePlaced, PlacedAsBefore, PlacedLast, PutsNote
  <2>4. ASSUME NEW gone, TakesNotes(gone)
        PROVE  PlacedLast(q, db')
    BY <2>1, <2>4 DEF PlacedLast, TakesNotes
  <2>5. CASE db'.notes = db.notes
    BY <2>1, <2>5 DEF PlacedLast
  <2> QED BY <2>2, <2>3, <2>4, <2>5, NotesChange
<1>3. ASSUME q.pc = "saveNote" PROVE PlacedAsBefore(q, db')
  <2>1. PlacedAsBefore(q, db)
    BY <1>0, <1>3 DEF NotePlaced
  <2>2. req[r].pc \notin {"deleteNote", "clearNotes", "insertNotes"}
    BY <1>3, NotesTakeTurns
  <2>3. CASE q.row.store \notin DOMAIN db'.stores
    BY <2>3 DEF PlacedAsBefore
  <2>4. CASE q.row.store \in DOMAIN db'.stores
    <3>1. /\ q.id \in DOMAIN db.notes
          /\ db.notes[q.id].store = q.row.store /\ db.notes[q.id].order = q.row.order
      BY <1>1, <2>1, <2>4 DEF PlacedAsBefore
    <3>2. ASSUME NEW k \in Ids, req[r].pc = "insertNote", req[r].new = {k},
                 PutsNote(k, req[r].row)
          PROVE  PlacedAsBefore(q, db')
      <4>1. q.id # k
        BY <1>3, <3>2 DEF OrderInv, NewNotesApart
      <4> QED BY <3>1, <3>2, <4>1 DEF PlacedAsBefore, PutsNote
    <3>3. ASSUME req[r].pc = "saveNote", req[r].row.store \in DOMAIN db.stores,
                 PutsNote(req[r].id, req[r].row)
          PROVE  PlacedAsBefore(q, db')
      <4>1. PlacedAsBefore(req[r], db)
        BY <1>0, <3>3 DEF NotePlaced
      <4> QED BY <3>1, <3>3, <4>1 DEF PlacedAsBefore, PutsNote
    <3>4. ASSUME req[r].pc = "deleteStore", TakesNotes(NotesOf(req[r].id)),
                 DOMAIN db'.stores = DOMAIN db.stores \ {req[r].id}
          PROVE  PlacedAsBefore(q, db')
      BY <2>4, <3>1, <3>4 DEF PlacedAsBefore, TakesNotes, NotesOf, Of
    <3>5. CASE db'.notes = db.notes
      BY <3>1, <3>5 DEF PlacedAsBefore
    <3> QED BY <2>2, <3>2, <3>3, <3>4, <3>5, NotesChange
  <2> QED BY <2>3, <2>4
<1>4. ASSUME q.pc = "insertNotes" PROVE \A n \in DOMAIN db'.notes : db'.notes[n].store # q.id
  <2>1. \A n \in DOMAIN db.notes : db.notes[n].store # q.id
    BY <1>0, <1>4 DEF NotePlaced
  <2>2. req[r].pc \notin {"insertNote", "clearNotes", "insertNotes", "saveNote"}
    BY <1>4, NotesTakeTurns
  <2>3. ASSUME NEW gone, TakesNotes(gone)
        PROVE  \A n \in DOMAIN db'.notes : db'.notes[n].store # q.id
    BY <2>1, <2>3 DEF TakesNotes
  <2>4. CASE db'.notes = db.notes
    BY <2>1, <2>4
  <2> QED BY <2>2, <2>3, <2>4, NotesChange
<1> QED BY <1>2, <1>3, <1>4 DEF NotePlaced

\* ... and its own when the handler goes on.
LEMMA StepKeepsOwn ==
  ASSUME TypeInv, NEW r \in Requests, Step(r)
  PROVE  /\ NotePlaced(req'[r], db')
         /\ req'[r].pc \notin {"insertNote", "saveNote"}
<1>1. Leaves(r)
  BY StepLeaves
<1>2. CASE req'[r] = Idle
  BY <1>2 DEF Idle, NotePlaced
<1>3. CASE ClearNotes(r) /\ GoesOn(r, "insertNotes")
  <2>1. DOMAIN db'.notes = DOMAIN db.notes \ NotesOf(req[r].id)
        /\ \A n \in DOMAIN db'.notes : db'.notes[n] = db.notes[n]
    BY <1>3, ClearNotesIs DEF Drops
  <2>2. req'[r].pc = "insertNotes" /\ req'[r].id = req[r].id
    BY <1>3 DEF GoesOn, Is
  <2> QED BY <2>1, <2>2 DEF NotePlaced, NotesOf, Of
<1>4. ASSUME NEW stage \in {"saveStore", "deleteNote", "saveProduct", "reload", "dropImage"},
             GoesOn(r, stage)
      PROVE  NotePlaced(req'[r], db') /\ req'[r].pc \notin {"insertNote", "saveNote"}
  BY <1>4 DEF GoesOn, Is, NotePlaced
<1> QED
  <2>1. NotePlaced(req'[r], db')
    BY <1>1, <1>2, <1>3, <1>4 DEF Leaves
  <2>2. req'[r].pc \notin {"insertNote", "saveNote"}
    BY <1>1, <1>2, <1>4 DEF Leaves, GoesOn, Is, Idle
  <2> QED BY <2>1, <2>2

\* A note that is being placed, or loaded, is as it should be.
LEMMA PlacesBegin ==
  ASSUME TypeInv, OrderInv, NEW r \in Requests, Starts(r), history' \cap OrderMeetings = {}
  PROVE  NotePlaced(req'[r], db)
<1>1. {"placed"} \notin history'
  BY DEF OrderMeetings
<1>2. ASSUME req'[r].pc = "insertNote" PROVE PlacedLast(req'[r], db)
  <2>1. PlaceNote(r)
    BY <1>2 DEF Starts
  <2>2. PICK s \in DOMAIN db.stores, place \in Places :
          Inserts(r, "createNote", "insertNote", s,
                  [store |-> s, order |-> Over(place, NextPlace(s))], 1, {ids + 1}, Placed(place))
    BY <2>1, Known, PlaceNoteIs
  <2>3. /\ req'[r].id = s /\ req'[r].row.order = Over(place, NextPlace(s))
        /\ req'[r].new = {ids + 1} /\ Placed(place) \subseteq history'
    BY <2>2 DEF Inserts, Begins, Is
  <2>4. req'[r].row.order = NextPlace(s)
    BY <1>1, <2>3 DEF Placed, Over
  <2>5. \A k \in NotesOf(s) : db.notes[k].order < NextPlace(s)
    BY NextPlaceIs DEF TypeInv, TypeOK, TablesOK
  <2>6. ids + 1 \notin DOMAIN db.notes
    BY Known
  <2> QED BY <2>3, <2>4, <2>5, <2>6 DEF PlacedLast, NotesOf, Of
<1>3. ASSUME req'[r].pc = "saveNote" PROVE PlacedAsBefore(req'[r], db)
  <2>1. LoadNote(r)
    BY <1>3 DEF Starts
  <2>2. PICK n \in DOMAIN db.notes, place \in Places :
          Loads(r, "updateNote", "saveNote", n, Assign(db.notes[n], [order |-> place]),
                NoRows, Asked([order |-> place]), None, Placed(place))
    BY <2>1, Known, LoadNoteIs
  <2>3. /\ req'[r].id = n /\ req'[r].row = Assign(db.notes[n], [order |-> place])
        /\ Placed(place) \subseteq history'
    BY <2>2 DEF Loads, Begins, Is
  <2>4. place = Same
    BY <1>1, <2>3 DEF Placed
  <2>5. db.notes[n] \in NoteRow
    BY Known
  <2>6. /\ Assign(db.notes[n], [order |-> place]).store = db.notes[n].store
        /\ Assign(db.notes[n], [order |-> place]).order = db.notes[n].order
    BY <2>4, <2>5 DEF Assign, NoteRow, Over
  <2> QED BY <2>3, <2>6 DEF PlacedAsBefore
<1> QED BY <1>2, <1>3 DEF Starts, NotePlaced

\* The store of a note that is being saved has been there.
LEMMA SavedInStore ==
  ASSUME TypeInv, NEW r \in Requests, Starts(r), req'[r].pc = "saveNote"
  PROVE  /\ req'[r].id \in DOMAIN db.notes
         /\ req'[r].row.store \in Ids /\ req'[r].row.store <= ids
<1>1. LoadNote(r)
  BY DEF Starts
<1>2. PICK n \in DOMAIN db.notes, place \in Places :
        req'[r].id = n /\ req'[r].row = Assign(db.notes[n], [order |-> place])
  BY <1>1, Known, LoadNoteIs DEF Loads, Is
<1>3. Assign(db.notes[n], [order |-> place]).store = db.notes[n].store
  BY Known DEF Assign, NoteRow
<1>4. db.notes[n].store \in DOMAIN db.stores
  BY Known, RefsAre DEF Sound
<1> QED BY <1>2, <1>3, <1>4, Known

LEMMA OrderNext == TypeInv /\ Told /\ StoreInv /\ OrderInv /\ [Next]_vars => OrderInv'
<1> SUFFICES ASSUME TypeInv, Told, StoreInv, OrderInv, [Next]_vars PROVE OrderInv'
  OBVIOUS
<1>0. history \subseteq history' /\ ids \in Nat
  BY HistoryGrows, Known
<1>1. ASSUME NEW r \in Requests, Step(r) PROVE OrderInv'
  <2>1. Moves(r) /\ ids' = ids
    BY <1>1, StepLeaves DEF Leaves
  <2>2. req'[r].pc \notin {"insertNote", "saveNote"}
    BY <1>1, StepKeepsOwn
  <2>3. \A s \in Requests : req'[s].pc = "saveNote" => req'[s].row.store <= ids'
    BY <2>1, <2>2 DEF OrderInv, Moves
  <2>4. ASSUME history' \cap OrderMeetings = {}
        PROVE  /\ NotesApart(db') /\ NewNotesApart'
               /\ \A s \in Requests : NotePlaced(req'[s], db')
    <3>1. history \cap OrderMeetings = {}
      BY <1>0, <2>4
    <3>2. NewNotesApart'
      BY <2>1, <2>2, <3>1 DEF OrderInv, NewNotesApart, Moves
    <3>3. \A s \in Requests : NotePlaced(req'[s], db')
      BY <1>1, <2>1, <3>1, StepKeepsOwn, StepKeepsPlaces DEF Moves
    <3> QED BY <1>1, <3>1, <3>2, <3>3, StepKeepsOrder
  <2> QED BY <2>3, <2>4 DEF OrderInv
<1>2. ASSUME NEW r \in Requests, Request(r) PROVE OrderInv'
  <2>1. Starts(r)
    BY <1>2, RequestStarts
  <2>2. db' = db /\ Moves(r) /\ ids' \in Nat /\ ids <= ids'
    BY <2>1 DEF Starts
  <2>3. \A s \in Requests : req'[s].pc = "saveNote" => req'[s].row.store <= ids'
    <3>1. \A s \in Requests : req[s].pc = "saveNote" => req[s].row.store \in Ids
      BY DEF TypeInv, StageOK, NoteRow
    <3>2. \A k \in Ids : k <= ids => k <= ids'
      BY <1>0, <2>2, Further
    <3> QED BY <2>1, <2>2, <3>1, <3>2, SavedInStore DEF OrderInv, Moves
  <2>4. ASSUME history' \cap OrderMeetings = {}
        PROVE  /\ NotesApart(db') /\ NewNotesApart'
               /\ \A s \in Requests : NotePlaced(req'[s], db')
    <3>1. history \cap OrderMeetings = {}
      BY <1>0, <2>4
    <3>2. \A s \in Requests : NotePlaced(req'[s], db')
      BY <2>1, <2>2, <2>4, <3>1, PlacesBegin DEF OrderInv, Moves
    <3>3. ASSUME req'[r].pc = "insertNote"
          PROVE  \A s \in Requests : req'[s].pc = "saveNote" => req'[s].id \notin req'[r].new
      <4>1. PlaceNote(r)
        BY <2>1, <3>3 DEF Starts
      <4>2. req'[r].new = {ids + 1}
        BY <4>1, Known, PlaceNoteIs DEF Inserts, Is
      <4>3. \A s \in Requests : req[s].pc = "saveNote" => req[s].id \in Ids /\ req[s].id <= ids
        BY DEF TypeInv, StageOK, Saving
      <4>4. \A k \in Ids : k <= ids => k # ids + 1
        BY <1>0, IdsAreNumbers
      <4> QED BY <2>2, <3>3, <4>2, <4>3, <4>4 DEF Moves
    <3>4. ASSUME req'[r].pc = "saveNote"
          PROVE  \A s \in Requests : req'[s].pc = "insertNote" => req'[r].id \notin req'[s].new
      <4>1. req'[r].id \in DOMAIN db.notes
        BY <2>1, <3>4, SavedInStore
      <4>2. \A s \in Requests : req[s].pc = "insertNote" => req'[r].id \notin req[s].new
        BY <3>1, <4>1 DEF OrderInv, NotePlaced, PlacedLast
      <4> QED BY <2>2, <3>4, <4>2 DEF Moves
    <3>5. NewNotesApart'
      BY <2>2, <3>1, <3>3, <3>4 DEF OrderInv, NewNotesApart, Moves
    <3> QED BY <2>2, <3>1, <3>2, <3>5 DEF OrderInv
  <2> QED BY <2>3, <2>4 DEF OrderInv
<1>3. CASE Direct
  <2>1. /\ req' = req /\ ids \in Nat /\ ids' \in Nat /\ ids <= ids'
        /\ \A k \in DOMAIN db'.stores : k \in DOMAIN db.stores \/ k = ids + 1
    BY <1>0, <1>3, DirectStores, DirectFine
  <2>2. db'.notes = db.notes
    BY <1>3, DirectIs DEF Creates, Puts, Keeps, TableNames
  <2>3. \A s \in Requests : req[s].pc = "saveNote" => req[s].row.store \in Ids
    BY DEF TypeInv, StageOK, NoteRow
  <2>4. \A k \in Ids : k <= ids => k <= ids' /\ k # ids + 1
    BY <2>1, Further, IdsAreNumbers
  <2>5. \A s \in Requests : NotePlaced(req[s], db) => NotePlaced(req[s], db')
    BY <2>1, <2>2, <2>3, <2>4 DEF OrderInv, NotePlaced, PlacedLast, PlacedAsBefore
  <2>6. NotesApart(db) => NotesApart(db')
    BY <2>2 DEF NotesApart
  <2>7. NewNotesApart => NewNotesApart'
    BY <2>1 DEF NewNotesApart
  <2>8. \A s \in Requests : req'[s].pc = "saveNote" => req'[s].row.store <= ids'
    BY <2>1, <2>3, <2>4 DEF OrderInv
  <2> QED BY <1>0, <2>1, <2>5, <2>6, <2>7, <2>8 DEF OrderInv
<1>4. CASE Restart
  <2>1. db' = db /\ \A r \in Requests : req'[r] = Idle
    BY <1>4, RestartIs
  <2> QED BY <1>0, <2>1 DEF OrderInv, NewNotesApart, NotePlaced, Idle
<1>5. CASE UNCHANGED vars
  BY <1>5 DEF vars, OrderInv, NewNotesApart, NotePlaced, PlacedLast, PlacedAsBefore, NotesApart
<1> QED BY <1>1, <1>2, <1>3, <1>4, <1>5 DEF Next

\* The quick notes of a store have an order, each a place of its own, although
\* a place is computed before the note is inserted and the whole copy of a note
\* is saved later.
THEOREM NotesStayOrdered == Spec => []NotesOrdered
<1>1. OrderInv => NotesOrdered
  BY DEF OrderInv, NotesOrdered, Happened, OrderMeetings, BackAgain
<1> QED BY <1>1, TypeInvInit, TypeInvNext, ToldInit, ToldNext, StoreInit, StoreNext, OrderInit,
           OrderNext, PTL DEF Spec

-----------------------------------------------------------------------------
(* Quick notes: one always remains. *)

RemainMeetings == {{"removeNote"}, {"cut"}} \cup BackAgain

\* A handler is between the two statements of a PUT of the store s.
Refilled(handlers, s) ==
  \E r \in Requests : handlers[r].pc = "insertNotes" /\ handlers[r].id = s

\* The store s, if it is there, has a note besides gone, or is being refilled.
OthersThan(d, handlers, s, gone) ==
  \/ s \notin DOMAIN d.stores
  \/ \E n \in DOMAIN d.notes : n \notin gone /\ d.notes[n].store = s
  \/ Refilled(handlers, s)

\* Every store has a note, and another one if a handler is about to delete one.
RemainInv ==
  /\ "removeNote" \in scene /\ "createStore" \notin scene
  /\ history \cap RemainMeetings = {}
  => /\ \A s \in DOMAIN db.stores : OthersThan(db, req, s, {})
     /\ \A r \in Requests :
          req[r].pc = "deleteNote" => OthersThan(db, req, req[r].row.store, {req[r].id})

LEMMA RemainInit == Init => RemainInv
<1> SUFFICES ASSUME Init, "removeNote" \in scene PROVE RemainInv
  BY DEF RemainInv
<1>1. \A s \in DOMAIN db.stores : \E n \in DOMAIN db.notes : db.notes[n].store = s
  BY ScenesAssumption DEF Init
<1>2. \A r \in Requests : req[r].pc # "deleteNote"
  BY DEF Init, Idle
<1> QED BY <1>1, <1>2 DEF RemainInv, OthersThan

\* The store a handler takes a note to be of is the one the row says.
LEMMA NoteHome ==
  ASSUME TypeInv, HomeInv, NEW r \in Requests
  PROVE  /\ req[r].pc \in {"saveNote", "deleteNote"} /\ req[r].id \in DOMAIN db.notes =>
              db.notes[req[r].id].store = req[r].row.store
         /\ req[r].pc \in {"insertNote", "insertNotes"} =>
              \A k \in req[r].new :
                k \in DOMAIN db.notes => db.notes[k].store = req[r].id
<1>1. PICK H : HomesOK(H, ids) /\ RowsHome(H, db) /\ CopyHome(H, req[r])
  BY DEF HomeInv, Housed
<1>2. \A k \in DOMAIN db.notes : <<"notes", k, db.notes[k].store>> \in H
  BY <1>1 DEF RowsHome
<1>3. \A k, s, o : <<"notes", k, s>> \in H /\ <<"notes", k, o>> \in H => s = o
  BY <1>1 DEF HomesOK
<1>4. req[r].pc \in {"saveNote", "deleteNote"} => <<"notes", req[r].id, req[r].row.store>> \in H
  BY <1>1 DEF CopyHome
<1>5. req[r].pc \in {"insertNote", "insertNotes"} =>
        \A k \in req[r].new : <<"notes", k, req[r].id>> \in H
  BY <1>1 DEF CopyHome
<1> QED BY <1>2, <1>3, <1>4, <1>5

\* A store with more than one note has one besides any.
LEMMA MoreThanOne ==
  ASSUME TypeInv, NEW s, NEW id, OthersLeft(s)
  PROVE  \E n \in DOMAIN db.notes : n # id /\ db.notes[n].store = s
<1> SUFFICES ASSUME \A n \in DOMAIN db.notes : db.notes[n].store = s => n = id
             PROVE  FALSE
  OBVIOUS
<1>1. NotesOf(s) \subseteq {id}
  BY DEF NotesOf, Of
<1>2. IsFiniteSet({id}) /\ Cardinality({id}) = 1
  BY FS_Singleton
<1>3. Cardinality(NotesOf(s)) <= 1 /\ Cardinality(NotesOf(s)) \in Nat
  BY <1>1, <1>2, FS_Subset, FS_CardinalityType
<1> QED BY <1>3 DEF OthersLeft

LEMMA OnlyInsertNotes ==
  ASSUME TypeInv, NEW r \in Requests, Step(r), req[r].pc = "insertNotes"
  PROVE  InsertNotes(r)
BY WritePinIs, CheckPinIs, SaveStoreIs, DeleteStoreIs, InsertNoteIs, SaveNoteIs, CountNotesIs,
   DeleteNoteIs, ClearNotesIs, InsertAccountIs, RefuseAccountIs, SaveCategoryIs,
   DeleteStationIs, InsertProductIs, ResolveRelationsIs, SaveProductIs, ReloadProductIs,
   DropImageIs, MarkProductIs, InsertGroupIs, SaveGroupIs, DeleteGroupIs, SaveOptionIs,
   DeleteOptionIs, InsertLinkIs, DeleteLinkIs
   DEF Step, StoresStep, NotesStep, AccountsStep, CategoriesStep, StationsStep,
       ProductsStep, ModifiersStep

\* No step but the deletion of a note takes the last note of a store.
LEMMA StepLeavesOthers ==
  ASSUME TypeInv, StoreInv, HomeInv, NEW r \in Requests, Step(r), req[r].pc # "deleteNote",
         history \cap RemainMeetings = {}, NEW s, NEW gone, \A a, b \in gone : a = b,
         OthersThan(db, req, s, gone)
  PROVE  OthersThan(db', req', s, gone)
<1> USE DEF OthersThan
<1>0. Moves(r) /\ Leaves(r)
  BY StepLeaves DEF Leaves
<1>1. DOMAIN db'.stores \subseteq DOMAIN db.stores
  BY StoresChange DEF StoreInv, UpdatedIsThere, RemainMeetings
<1>2. CASE s \notin DOMAIN db.stores
  BY <1>1, <1>2
<1>3. ASSUME NEW n \in DOMAIN db.notes, n \notin gone, db.notes[n].store = s
      PROVE  OthersThan(db', req', s, gone)
  <2>1. CASE db'.notes = db.notes
    BY <1>3, <2>1
  <2>2. ASSUME NEW k \in Ids, req[r].pc = "insertNote", req[r].new = {k},
               PutsNote(k, req[r].row)
        PROVE  OthersThan(db', req', s, gone)
    <3>1. req[r].row.store = req[r].id
      BY <2>2 DEF TypeInv, StageOK
    <3>2. n \in DOMAIN db'.notes /\ db'.notes[n].store = s
      BY <1>3, <2>2, <3>1, NoteHome DEF PutsNote
    <3> QED BY <1>3, <3>2
  <2>3. ASSUME req[r].pc = "saveNote", PutsNote(req[r].id, req[r].row)
        PROVE  OthersThan(db', req', s, gone)
    <3>1. n \in DOMAIN db'.notes /\ db'.notes[n].store = s
      BY <1>3, <2>3, NoteHome DEF PutsNote
    <3> QED BY <1>3, <3>1
  <2>4. ASSUME req[r].pc = "clearNotes", GoesOn(r, "insertNotes"),
               TakesNotes(NotesOf(req[r].id))
        PROVE  OthersThan(db', req', s, gone)
    <3>1. CASE req[r].id = s
      <4>1. req'[r].pc = "insertNotes" /\ req'[r].id = s
        BY <2>4, <3>1 DEF GoesOn, Is
      <4> QED BY <4>1 DEF Refilled
    <3>2. CASE req[r].id # s
      BY <1>3, <2>4, <3>2 DEF TakesNotes, NotesOf, Of
    <3> QED BY <3>1, <3>2
  <2>5. ASSUME NEW k \in Ids, req[r].pc = "insertNotes", req[r].new = {k, k + 1},
               PutsList(k, req[r].id)
        PROVE  OthersThan(db', req', s, gone)
    <3>1. n \in {k, k + 1} => req[r].id = s
      BY <1>3, <2>5, NoteHome
    <3>2. n \in DOMAIN db'.notes /\ db'.notes[n].store = s
      BY <1>3, <2>5, <3>1 DEF PutsList
    <3> QED BY <1>3, <3>2
  <2>6. ASSUME req[r].pc = "deleteStore", TakesNotes(NotesOf(req[r].id)),
               DOMAIN db'.stores = DOMAIN db.stores \ {req[r].id}
        PROVE  OthersThan(db', req', s, gone)
    BY <1>3, <2>6 DEF TakesNotes, NotesOf, Of
  <2> QED BY <2>1, <2>2, <2>3, <2>4, <2>5, <2>6, NotesChange
<1>4. ASSUME NEW t \in Requests, req[t].pc = "insertNotes", req[t].id = s
      PROVE  OthersThan(db', req', s, gone)
  <2>1. CASE t # r
    BY <1>0, <1>4, <2>1 DEF Moves, Refilled
  <2>2. CASE t = r
    <3>1. InsertNotes(r)
      BY <1>4, <2>2, OnlyInsertNotes
    <3>2. CASE db' = db /\ req[r].id \notin DOMAIN db.stores
      BY <1>4, <2>2, <3>2
    <3>3. CASE ~(db' = db /\ req[r].id \notin DOMAIN db.stores)
      <4>1. PICK k \in Ids :
              /\ DOMAIN db'.notes = {k, k + 1} \cup DOMAIN db.notes
              /\ db'.notes[k] = [store |-> req[r].id, order |-> 0]
              /\ db'.notes[k + 1] = [store |-> req[r].id, order |-> 1]
        BY <3>1, <3>3, InsertNotesIs
      <4>2. /\ db'.notes[k].store = s /\ db'.notes[k + 1].store = s
            /\ k \in DOMAIN db'.notes /\ k + 1 \in DOMAIN db'.notes
        BY <1>4, <2>2, <4>1
      <4>3. k \notin gone \/ k + 1 \notin gone
        BY IdsAreNumbers
      <4> QED BY <4>2, <4>3
    <3> QED BY <3>2, <3>3
  <2> QED BY <2>1, <2>2
<1> QED BY <1>2, <1>3, <1>4 DEF Refilled

\* When a note is deleted another one remains, or the store is refilled.
LEMMA DeletionLeavesOne ==
  ASSUME TypeInv, HomeInv, NEW r \in Requests, Step(r), req[r].pc = "deleteNote",
         NEW s \in DOMAIN db.stores, OthersThan(db, req, s, {}),
         OthersThan(db, req, req[r].row.store, {req[r].id})
  PROVE  OthersThan(db', req', s, {})
<1> USE DEF OthersThan
<1>1. Moves(r)
  BY StepLeaves DEF Leaves
<1>2. Refilled(req, s) => Refilled(req', s)
  BY <1>1 DEF Moves, Refilled
<1>3. CASE db'.notes = db.notes
  BY <1>2, <1>3
<1>4. CASE TakesNotes({req[r].id})
  <2>1. CASE s = req[r].row.store
    <3>1. \/ \E n \in DOMAIN db.notes : n \notin {req[r].id} /\ db.notes[n].store = s
          \/ Refilled(req, s)
      BY <2>1
    <3> QED BY <1>2, <1>4, <3>1 DEF TakesNotes
  <2>2. CASE s # req[r].row.store
    <3>1. \/ \E n \in DOMAIN db.notes : db.notes[n].store = s
          \/ Refilled(req, s)
      OBVIOUS
    <3>2. req[r].id \in DOMAIN db.notes => db.notes[req[r].id].store # s
      BY <2>2, NoteHome
    <3> QED BY <1>2, <1>4, <3>1, <3>2 DEF TakesNotes
  <2> QED BY <2>1, <2>2
<1> QED BY <1>3, <1>4, NotesChange

LEMMA DirectKeepsStores ==
  ASSUME TypeInv, Direct, "createStore" \notin scene
  PROVE  db'.stores = db.stores /\ db'.notes = db.notes /\ req' = req /\ scene' = scene
<1>1. db'.notes = db.notes /\ req' = req /\ scene' = scene
  BY DirectIs DEF Creates, Puts, Keeps, TableNames
<1>2. ASSUME NEW t \in TableNames \ {"stores"}, NEW row, Creates(t, row)
      PROVE  db'.stores = db.stores
  BY <1>2 DEF Creates, Puts, Keeps, TableNames
<1>3. ASSUME CreateStore PROVE db'.stores = db.stores
  BY <1>3 DEF CreateStore, AtOnce
<1>4. ASSUME CreateCategory PROVE db'.stores = db.stores
  BY <1>2, <1>4, AtOnceIs DEF CreateCategory, TableNames
<1>5. ASSUME CreateStation PROVE db'.stores = db.stores
  BY <1>2, <1>5, AtOnceIs DEF CreateStation, TableNames
<1>6. ASSUME MoveStation PROVE db'.stores = db.stores
  <2>1. PICK st \in DOMAIN db.stations, s \in DOMAIN db.stores :
          db' = [db EXCEPT !.stations[st].store = s]
    BY <1>6 DEF MoveStation
  <2> QED BY <2>1, Known DEF TableNames
<1>7. ASSUME UploadImage PROVE db'.stores = db.stores
  BY <1>7, Known DEF UploadImage, AtOnce, TableNames
<1>8. ASSUME SellProduct PROVE db'.stores = db.stores
  BY <1>2, <1>8, AtOnceIs DEF SellProduct, TableNames
<1>9. ASSUME RemoveItems PROVE db'.stores = db.stores
  BY <1>9, Known DEF RemoveItems, AtOnce, TableNames
<1> QED BY <1>1, <1>3, <1>4, <1>5, <1>6, <1>7, <1>8, <1>9 DEF Direct

LEMMA RemainNext ==
  TypeInv /\ Told /\ StoreInv /\ HomeInv /\ RemainInv /\ [Next]_vars => RemainInv'
<1> SUFFICES ASSUME TypeInv, Told, StoreInv, HomeInv, RemainInv, [Next]_vars,
                    "removeNote" \in scene', "createStore" \notin scene',
                    history' \cap RemainMeetings = {}
             PROVE  /\ \A s \in DOMAIN db'.stores : OthersThan(db', req', s, {})
                    /\ \A r \in Requests :
                         req'[r].pc = "deleteNote"
                           => OthersThan(db', req', req'[r].row.store, {req'[r].id})
  BY DEF RemainInv, OthersThan, Refilled
<1>0. /\ history \cap RemainMeetings = {}
      /\ scene' = scene => /\ \A s \in DOMAIN db.stores : OthersThan(db, req, s, {})
                           /\ \A r \in Requests :
                                req[r].pc = "deleteNote"
                                  => OthersThan(db, req, req[r].row.store, {req[r].id})
  BY HistoryGrows DEF RemainInv
<1>1. ASSUME NEW r \in Requests, Step(r)
      PROVE  /\ \A s \in DOMAIN db'.stores : OthersThan(db', req', s, {})
             /\ \A t \in Requests :
                  req'[t].pc = "deleteNote"
                    => OthersThan(db', req', req'[t].row.store, {req'[t].id})
  <2>0. Leaves(r) /\ Moves(r) /\ scene' = scene
    BY <1>1, StepLeaves DEF Leaves
  <2>1. DOMAIN db'.stores \subseteq DOMAIN db.stores
    BY <1>0, <1>1, StoresChange DEF StoreInv, UpdatedIsThere, RemainMeetings
  <2>2. ASSUME NEW s \in DOMAIN db'.stores
        PROVE  OthersThan(db', req', s, {})
    <3>1. s \in DOMAIN db.stores /\ OthersThan(db, req, s, {})
      BY <1>0, <2>0, <2>1
    <3>2. CASE req[r].pc = "deleteNote"
      <4>1. OthersThan(db, req, req[r].row.store, {req[r].id})
        BY <1>0, <2>0, <3>2
      <4> QED BY <1>1, <3>1, <3>2, <4>1, DeletionLeavesOne
    <3>3. CASE req[r].pc # "deleteNote"
      <4>1. \A a, b \in {} : a = b
        OBVIOUS
      <4> QED BY <1>0, <1>1, <3>1, <3>3, <4>1, StepLeavesOthers
    <3> QED BY <3>2, <3>3
  <2>3. ASSUME NEW t \in Requests \ {r}, req[t].pc = "deleteNote"
        PROVE  OthersThan(db', req', req[t].row.store, {req[t].id})
    <3>1. req[t].op = "removeNote"
      BY <2>3 DEF Told, OpOK
    <3>2. req[r].pc # "deleteNote"
      <4>1. SUFFICES ASSUME req[r].pc = "deleteNote" PROVE FALSE
        OBVIOUS
      <4>2. req[r].op = "removeNote"
        BY <4>1 DEF Told, OpOK
      <4>3. {req[r].op, req[t].op} = {"removeNote"}
        BY <3>1, <4>2
      <4>4. {"removeNote"} \in Watched /\ {"removeNote"} \in RemainMeetings
        BY DEF Watched, RemainMeetings
      <4> QED BY <1>0, <2>3, <4>1, <4>3, <4>4, Meet
    <3>3. OthersThan(db, req, req[t].row.store, {req[t].id})
      BY <1>0, <2>0, <2>3
    <3>4. \A a, b \in {req[t].id} : a = b
      OBVIOUS
    <3> QED BY <1>0, <1>1, <3>2, <3>3, <3>4, StepLeavesOthers
  <2>4. ASSUME req'[r].pc = "deleteNote"
        PROVE  OthersThan(db', req', req'[r].row.store, {req'[r].id})
    <3>1. CountNotes(r) /\ GoesOn(r, "deleteNote")
      BY <2>0, <2>4 DEF Leaves, GoesOn, Is, Idle
    <3>2. db' = db /\ OthersLeft(req[r].row.store)
      <4>1. ~Ends(r)
        BY <2>4 DEF Ends, Idle
      <4> QED BY <3>1, <4>1, CountNotesIs
    <3>3. req'[r].row = req[r].row /\ req'[r].id = req[r].id
      BY <3>1 DEF GoesOn, Is
    <3>4. \E n \in DOMAIN db.notes : n # req[r].id /\ db.notes[n].store = req[r].row.store
      BY <3>2, MoreThanOne
    <3> QED BY <3>2, <3>3, <3>4 DEF OthersThan
  <2>5. ASSUME NEW t \in Requests, req'[t].pc = "deleteNote"
        PROVE  OthersThan(db', req', req'[t].row.store, {req'[t].id})
    <3>1. CASE t = r
      BY <2>4, <2>5, <3>1
    <3>2. CASE t # r
      <4>1. req'[t] = req[t]
        BY <2>0, <3>2 DEF Moves
      <4>2. OthersThan(db', req', req[t].row.store, {req[t].id})
        BY <2>3, <2>5, <3>2, <4>1
      <4> QED BY <4>1, <4>2 DEF OthersThan, Refilled
    <3> QED BY <3>1, <3>2
  <2> QED BY <2>2, <2>5
<1>2. ASSUME NEW r \in Requests, Request(r)
      PROVE  /\ \A s \in DOMAIN db'.stores : OthersThan(db', req', s, {})
             /\ \A t \in Requests :
                  req'[t].pc = "deleteNote"
                    => OthersThan(db', req', req'[t].row.store, {req'[t].id})
  <2>1. /\ db' = db /\ scene' = scene /\ Moves(r) /\ req[r].pc = "idle"
        /\ req'[r].pc # "deleteNote"
    BY <1>2, RequestStarts DEF Starts
  <2>2. \A s : Refilled(req, s) => Refilled(req', s)
    BY <2>1 DEF Refilled, Moves
  <2>3. \A s, gone : OthersThan(db, req, s, gone) => OthersThan(db', req', s, gone)
    BY <2>1, <2>2 DEF OthersThan
  <2> QED BY <1>0, <2>1, <2>3 DEF Moves
<1>3. CASE Direct
  <2>1. scene' = scene
    BY <1>3, DirectIs DEF Creates
  <2>2. db'.stores = db.stores /\ db'.notes = db.notes /\ req' = req
    BY <1>3, <2>1, DirectKeepsStores
  <2>3. \A s, gone : OthersThan(db, req, s, gone) => OthersThan(db', req', s, gone)
    BY <2>2 DEF OthersThan, Refilled
  <2> QED BY <1>0, <2>1, <2>2, <2>3
<1>4. CASE Restart
  <2>1. /\ db' = db /\ scene' = scene /\ \A r \in Requests : req'[r] = Idle
    BY <1>4, RestartIs
  <2>2. \A s : ~Refilled(req, s)
    <3>1. ASSUME NEW r \in Requests, req[r].pc = "insertNotes"
          PROVE  {"cut"} \in history'
      BY <1>4, <3>1 DEF Restart, At
    <3> QED BY <3>1 DEF Refilled, RemainMeetings
  <2>3. \A s, gone : OthersThan(db, req, s, gone) => OthersThan(db', req', s, gone)
    BY <2>1, <2>2 DEF OthersThan
  <2> QED BY <1>0, <2>1, <2>3 DEF Idle
<1>5. CASE UNCHANGED vars
  BY <1>0, <1>5 DEF vars, OthersThan, Refilled
<1> QED BY <1>1, <1>2, <1>3, <1>4, <1>5 DEF Next

\* Where notes are only removed one by one or replaced as a whole, a store
\* keeps one: the count and the deletion are two steps, and so are the two
\* statements of a PUT, but between them another note, or the PUT, is there.
THEOREM OneNoteRemains == Spec => []NotesRemain
<1>1. RemainInv => NotesRemain
  <2> SUFFICES ASSUME RemainInv, "removeNote" \in scene, "createStore" \notin scene,
                      ~Happened({{"removeNote"}, {"cut"}, {"updateStore", "removeStore"}}),
                      NEW s \in DOMAIN db.stores
               PROVE  NotesOf(s) # {} \/ \E r \in Requests : At(r, "insertNotes") /\ req[r].id = s
    BY DEF NotesRemain
  <2>1. OthersThan(db, req, s, {})
    BY DEF RemainInv, RemainMeetings, BackAgain, Happened
  <2> QED BY <2>1 DEF OthersThan, NotesOf, Of, Refilled, At
<1> QED BY <1>1, TypeInvInit, TypeInvNext, ToldInit, ToldNext, StoreInit, StoreNext, HomeInit,
           HomeNext, RemainInit, RemainNext, PTL DEF Spec

-----------------------------------------------------------------------------
(* Product images: the one that is shown is stored. *)

\* Besides the product k the products show what they showed.
ImagesStay(k) ==
  \A p \in DOMAIN db'.products :
    p # k => p \in DOMAIN db.products /\ db'.products[p].image = db.products[p].image

LEMMA ImagesChange ==
  ASSUME TypeInv, NEW r \in Requests, Step(r)
  PROVE  \/ /\ db'.files = db.files /\ \A k : ImagesStay(k)
            /\ \A p \in DOMAIN db'.products :
                 p \in DOMAIN db.products /\ db'.products[p].image = db.products[p].image
         \/ /\ req[r].pc = "insertProduct" /\ db'.files = db.files
            /\ \E k \in Ids : ImagesStay(k) /\ db'.products[k].image = req[r].row.image
         \/ /\ req[r].pc = "saveProduct" /\ db'.files = db.files
            /\ ImagesStay(req[r].id) /\ db'.products[req[r].id].image = req[r].row.image
         \/ /\ req[r].pc = "dropImage" /\ db'.products = db.products
            /\ db'.files \in {db.files, db.files \ {req[r].seen}}
<1> DEFINE Same0 == \A p \in DOMAIN db'.products :
                      p \in DOMAIN db.products /\ db'.products[p].image = db.products[p].image
<1>1. CASE InsertProduct(r)
  <2>1. CASE db' = db
    BY <2>1 DEF ImagesStay
  <2>2. CASE db' # db
    <3>1. req[r].pc = "insertProduct"
      BY <1>1, InsertProductIs
    <3>2. PICK k \in Ids : Puts(db, db', "products", k, req[r].row)
      BY <1>1, <2>2, InsertProductIs
    <3>3. ImagesStay(k) /\ db'.products[k].image = req[r].row.image /\ db'.files = db.files
      BY <3>2 DEF Puts, Keeps, TableNames, ImagesStay
    <3> QED BY <3>1, <3>3
  <2> QED BY <2>1, <2>2
<1>2. CASE SaveProduct(r)
  <2>1. CASE db' = db
    BY <2>1 DEF ImagesStay
  <2>2. CASE db' # db
    <3>1. req[r].pc = "saveProduct" /\ Puts(db, db', "products", req[r].id, req[r].row)
      BY <1>2, <2>2, SaveProductIs
    <3>2. /\ ImagesStay(req[r].id) /\ db'.products[req[r].id].image = req[r].row.image
          /\ db'.files = db.files
      BY <3>1 DEF Puts, Keeps, TableNames, ImagesStay
    <3> QED BY <3>1, <3>2
  <2> QED BY <2>1, <2>2
<1>3. CASE DropImage(r) \/ KeepImage(r)
  BY <1>3, DropImageIs DEF Keeps, TableNames
<1>4. CASE MarkProduct(r)
  <2>1. CASE db' = db
    BY <2>1 DEF ImagesStay
  <2>2. CASE db' # db
    <3> DEFINE p == req[r].id
               row == [db.products[p] EXCEPT !.deleted = req[r].row.deleted]
    <3>1. p \in DOMAIN db.products /\ Puts(db, db', "products", p, row)
      BY <1>4, <2>2, MarkProductIs
    <3>2. row.image = db.products[p].image
      BY <3>1, Known DEF ProductRow
    <3> HIDE DEF p, row
    <3>3. Same0 /\ db'.files = db.files
      BY <3>1, <3>2 DEF Puts, Keeps, TableNames
    <3> QED BY <3>3 DEF ImagesStay
  <2> QED BY <2>1, <2>2
<1>5. CASE DeleteStation(r)
  BY <1>5, DeleteStationIs DEF StationGone, Keeps, TableNames, ImagesStay
<1>6. CASE DeleteStore(r)
  <2>1. CASE db' = db
    BY <2>1 DEF ImagesStay
  <2>2. CASE db' # db
    <3>1. StoreGone(req[r].id, db')
      BY <1>6, <2>2, DeleteStoreIs
    <3>2. ASSUME NEW p \in DOMAIN db'.products
          PROVE  p \in DOMAIN db.products /\ db'.products[p].image = db.products[p].image
      <4>1. p \in DOMAIN db.products /\ db.products[p] \in ProductRow
        BY <3>1, Known DEF StoreGone
      <4>2. \/ db'.products[p] = db.products[p]
            \/ db'.products[p] = [db.products[p] EXCEPT !.category = None]
        BY <3>1 DEF StoreGone
      <4> QED BY <4>1, <4>2 DEF ProductRow
    <3>3. db'.files = db.files
      BY <3>1 DEF StoreGone, Keeps, TableNames
    <3> QED BY <3>2, <3>3 DEF ImagesStay
  <2> QED BY <2>1, <2>2
<1>7. CASE db'.products = db.products /\ db'.files = db.files
  BY <1>7 DEF ImagesStay
<1> QED BY <1>1, <1>2, <1>3, <1>4, <1>5, <1>6, <1>7, StepLeaves DEF Writers

ImageMeetings == {{"shared"}, {"updateProduct"}}

\* No product besides the one of the id shows the image.
Unshown(image, d, id) ==
  image # None => \A p \in DOMAIN d.products : p # id => d.products[p].image # image

Updating == {"resolve", "saveProduct", "reload", "dropImage"}

\* What a handler knows of the image it is going to store and of the one it
\* found.  (0 is no product.)
ImageKnown(q, d) ==
  /\ q.pc = "insertProduct" => Unshown(q.row.image, d, 0)
  /\ q.pc \in {"insertProduct", "resolve", "saveProduct"} => q.row.image \in d.files \cup {None}
  /\ q.pc \in {"resolve", "saveProduct"} => Unshown(q.row.image, d, q.id)
  /\ q.pc \in {"resolve", "saveProduct", "reload"} => Unshown(q.seen, d, q.id)
  /\ q.pc = "dropImage" => q.seen # None /\ Unshown(q.seen, d, 0)

\* The image of a product that is about to be inserted is nobody else's.
OwnImage(q, o) ==
  q.row.image # None =>
    /\ o.pc = "insertProduct" => o.row.image # q.row.image
    /\ o.pc \in Updating => o.row.image # q.row.image /\ o.seen # q.row.image

ImageInv ==
  /\ \A r \in Requests : req[r].pc \in Updating => req[r].row \in ProductRow
  /\ history \cap ImageMeetings = {} =>
       /\ ImagesApart(db)
       /\ \A r \in Requests : ImageKnown(req[r], db)
       /\ \A r \in Requests : \A s \in Requests \ {r} :
            req[r].pc = "insertProduct" => OwnImage(req[r], req[s])

LEMMA ImageInit == Init => ImageInv
<1> SUFFICES ASSUME Init PROVE ImageInv
  OBVIOUS
<1>1. \A r \in Requests : req[r] = Idle
  BY DEF Init
<1>2. ImagesApart(db)
  BY ScenesAssumption DEF Init
<1> QED BY <1>1, <1>2 DEF ImageInv, ImageKnown, Updating, Idle

\* Of two handlers one at most updates a product.
LEMMA OneUpdates ==
  ASSUME Told, history \cap ImageMeetings = {}, NEW r \in Requests, NEW s \in Requests \ {r},
         req[r].pc \in Updating
  PROVE  req[s].pc \notin Updating
<1>1. SUFFICES ASSUME req[s].pc \in Updating PROVE FALSE
  OBVIOUS
<1>2. req[r].op = "updateProduct" /\ req[s].op = "updateProduct"
  BY <1>1 DEF Told, OpOK, Updating
<1>3. {req[r].op, req[s].op} = {"updateProduct"}
  BY <1>2
<1>4. {"updateProduct"} \in Watched /\ {"updateProduct"} \in ImageMeetings
  BY DEF Watched, ImageMeetings
<1>5. req[r].pc # "idle" /\ req[s].pc # "idle"
  BY <1>1 DEF Updating
<1> QED BY <1>3, <1>4, <1>5, Meet

\* An image that is shown by no product, and is not the one being stored, is
\* shown by no product after a step.
LEMMA StaysUnshown ==
  ASSUME NEW image, NEW id, NEW k, Unshown(image, db, id), ImagesStay(k),
         image # None => k = id \/ db'.products[k].image # image
  PROVE  Unshown(image, db', id)
BY DEF Unshown, ImagesStay

LEMMA StepKeepsImages ==
  ASSUME TypeInv, Told, ImageInv, NEW r \in Requests, Step(r), history \cap ImageMeetings = {}
  PROVE  ImagesApart(db')
<1>0. ImagesApart(db) /\ ImageKnown(req[r], db)
  BY DEF ImageInv
<1>1. ASSUME db'.files = db.files,
             \A p \in DOMAIN db'.products :
               p \in DOMAIN db.products /\ db'.products[p].image = db.products[p].image
      PROVE  ImagesApart(db')
  BY <1>0, <1>1 DEF ImagesApart
<1>2. ASSUME NEW k, db'.files = db.files, ImagesStay(k), Unshown(req[r].row.image, db, k),
             db'.products[k].image = req[r].row.image, req[r].row.image \in db.files \cup {None}
      PROVE  ImagesApart(db')
  BY <1>0, <1>2 DEF ImagesApart, ImagesStay, Unshown
<1>3. ASSUME NEW k \in Ids, req[r].pc = "insertProduct", db'.files = db.files, ImagesStay(k),
             db'.products[k].image = req[r].row.image
      PROVE  ImagesApart(db')
  <2>1. Unshown(req[r].row.image, db, k) /\ req[r].row.image \in db.files \cup {None}
    <3>1. Unshown(req[r].row.image, db, 0) /\ req[r].row.image \in db.files \cup {None}
      BY <1>0, <1>3 DEF ImageKnown
    <3>2. \A p \in DOMAIN db.products : p # 0
      BY Known, IdsAreNumbers DEF Ids
    <3> QED BY <3>1, <3>2 DEF Unshown
  <2> QED BY <1>2, <1>3, <2>1
<1>4. ASSUME req[r].pc = "saveProduct", db'.files = db.files, ImagesStay(req[r].id),
             db'.products[req[r].id].image = req[r].row.image
      PROVE  ImagesApart(db')
  <2>1. Unshown(req[r].row.image, db, req[r].id) /\ req[r].row.image \in db.files \cup {None}
    BY <1>0, <1>4 DEF ImageKnown
  <2> QED BY <1>2, <1>4, <2>1
<1>5. ASSUME req[r].pc = "dropImage", db'.products = db.products,
             db'.files \in {db.files, db.files \ {req[r].seen}}
      PROVE  ImagesApart(db')
  <2>1. \A p \in DOMAIN db.products : p # 0
    BY Known, IdsAreNumbers DEF Ids
  <2> QED BY <1>0, <1>5, <2>1 DEF ImagesApart, ImageKnown, Unshown
<1> QED BY <1>1, <1>3, <1>4, <1>5, ImagesChange

\* A step leaves what the others know of their images true, ...
LEMMA StepKeepsKnown ==
  ASSUME TypeInv, Told, ImageInv, NEW r \in Requests, Step(r), history \cap ImageMeetings = {},
         NEW s \in Requests \ {r}
  PROVE  ImageKnown(req[s], db')
<1> DEFINE q == req[s]
<1>0. /\ ImageKnown(q, db)
      /\ req[r].pc = "insertProduct" => OwnImage(req[r], q)
      /\ q.pc = "insertProduct" => OwnImage(q, req[r])
  BY DEF ImageInv
<1>1. req[r].pc \in Updating => q.pc \notin Updating
  BY OneUpdates
<1>2. \A k : Unshown(None, db', k)
  BY DEF Unshown
<1>3. CASE /\ db'.files = db.files
           /\ \A p \in DOMAIN db'.products :
                p \in DOMAIN db.products /\ db'.products[p].image = db.products[p].image
  <2>1. \A image, id : Unshown(image, db, id) => Unshown(image, db', id)
    BY <1>3 DEF Unshown
  <2> QED BY <1>0, <1>3, <2>1 DEF ImageKnown
<1>4. ASSUME req[r].pc = "insertProduct", db'.files = db.files,
             NEW k \in Ids, ImagesStay(k), db'.products[k].image = req[r].row.image
      PROVE  ImageKnown(q, db')
  <2>1. OwnImage(req[r], q)
    BY <1>0, <1>4
  <2>2. ASSUME q.pc = "insertProduct"
        PROVE  Unshown(q.row.image, db', 0)
    <3>1. q.row.image # None => db'.products[k].image # q.row.image
      BY <1>4, <2>1, <2>2 DEF OwnImage
    <3> QED BY <1>0, <1>4, <2>2, <3>1, StaysUnshown DEF ImageKnown
  <2>3. ASSUME q.pc \in {"resolve", "saveProduct"}
        PROVE  Unshown(q.row.image, db', q.id)
    <3>1. q.row.image # None => db'.products[k].image # q.row.image
      BY <1>4, <2>1, <2>3 DEF OwnImage, Updating
    <3> QED BY <1>0, <1>4, <2>3, <3>1, StaysUnshown DEF ImageKnown
  <2>4. ASSUME q.pc \in Updating
        PROVE  \A id : Unshown(q.seen, db, id) => Unshown(q.seen, db', id)
    <3>1. q.seen # None => db'.products[k].image # q.seen
      BY <1>4, <2>1, <2>4 DEF OwnImage, Updating
    <3> QED BY <1>4, <3>1, StaysUnshown
  <2> QED BY <1>0, <1>4, <2>2, <2>3, <2>4 DEF ImageKnown, Updating
<1>5. ASSUME req[r].pc = "saveProduct", db'.files = db.files, ImagesStay(req[r].id),
             db'.products[req[r].id].image = req[r].row.image
      PROVE  ImageKnown(q, db')
  <2>1. q.pc \notin Updating
    BY <1>1, <1>5 DEF Updating
  <2>2. ASSUME q.pc = "insertProduct"
        PROVE  Unshown(q.row.image, db', 0)
    <3>1. q.row.image # None => db'.products[req[r].id].image # q.row.image
      BY <1>0, <1>5, <2>2 DEF OwnImage, Updating
    <3> QED BY <1>0, <1>5, <2>2, <3>1, StaysUnshown DEF ImageKnown
  <2> QED BY <1>0, <1>5, <2>1, <2>2 DEF ImageKnown, Updating
<1>6. ASSUME req[r].pc = "dropImage", db'.products = db.products,
             db'.files \in {db.files, db.files \ {req[r].seen}}
      PROVE  ImageKnown(q, db')
  <2>1. q.pc \notin Updating
    BY <1>1, <1>6 DEF Updating
  <2>2. q.pc = "insertProduct" => q.row.image = None \/ q.row.image # req[r].seen
    BY <1>0, <1>6 DEF OwnImage, Updating
  <2> QED BY <1>0, <1>6, <2>1, <2>2 DEF ImageKnown, Updating, Unshown
<1> QED BY <1>3, <1>4, <1>5, <1>6, ImagesChange

\* ... and what its own handler knows.
LEMMA StepKeepsOwnImage ==
  ASSUME TypeInv, ImageInv, NEW r \in Requests, Step(r), history \cap ImageMeetings = {}
  PROVE  ImageKnown(req'[r], db')
<1>0. Leaves(r) /\ ImageKnown(req[r], db)
  BY StepLeaves DEF ImageInv
<1>1. CASE req'[r] = Idle
  BY <1>1 DEF ImageKnown, Idle
<1>2. CASE ResolveRelations(r) /\ GoesOn(r, "saveProduct")
  <2>1. /\ req[r].pc = "resolve" /\ req'[r].pc = "saveProduct" /\ req'[r].id = req[r].id
        /\ req'[r].row = req[r].row /\ req'[r].seen = req[r].seen /\ db' = db
    BY <1>2, ResolveRelationsIs DEF GoesOn, Is
  <2> QED BY <1>0, <2>1 DEF ImageKnown
<1>3. CASE SaveProduct(r) /\ GoesOn(r, "reload")
  <2>1. /\ req[r].pc = "saveProduct" /\ req'[r].pc = "reload" /\ req'[r].id = req[r].id
        /\ req'[r].seen = req[r].seen
    BY <1>3, SaveProductIs DEF GoesOn, Is
  <2>2. Puts(db, db', "products", req[r].id, req[r].row)
    <3>1. req'[r] # Idle
      BY <2>1 DEF Idle
    <3> QED BY <1>3, <3>1, SaveProductIs DEF Ends
  <2>3. Unshown(req[r].seen, db', req[r].id)
    BY <1>0, <2>1, <2>2 DEF ImageKnown, Unshown, Puts
  <2> QED BY <2>1, <2>3 DEF ImageKnown
<1>4. CASE ReloadProduct(r) /\ GoesOn(r, "dropImage")
  <2>1. /\ req[r].pc = "reload" /\ req'[r].pc = "dropImage" /\ req'[r].seen = req[r].seen
        /\ db' = db
    BY <1>4, ReloadProductIs DEF GoesOn, Is
  <2>2. Replaced(req[r])
    <3>1. req'[r] # Idle
      BY <2>1 DEF Idle
    <3> QED BY <1>4, <3>1, ReloadProductIs DEF Ends
  <2>3. Unshown(req[r].seen, db, 0) /\ req[r].seen # None
    BY <1>0, <2>1, <2>2 DEF ImageKnown, Unshown, Replaced
  <2> QED BY <2>1, <2>3 DEF ImageKnown
<1>5. ASSUME NEW stage \in {"saveStore", "deleteNote", "insertNotes"}, GoesOn(r, stage)
      PROVE  ImageKnown(req'[r], db')
  BY <1>5 DEF GoesOn, Is, ImageKnown
<1> QED BY <1>0, <1>1, <1>2, <1>3, <1>4, <1>5 DEF Leaves

\* A handler at a stage of an update has come from one with the same row.
LEMMA StepKeepsRow ==
  ASSUME TypeInv, NEW r \in Requests, Step(r)
  PROVE  /\ req'[r].pc # "insertProduct"
         /\ req'[r].pc \in Updating =>
              /\ req[r].pc \in Updating
              /\ req'[r].row = req[r].row /\ req'[r].seen = req[r].seen
<1>0. Leaves(r)
  BY StepLeaves
<1>1. CASE req'[r] = Idle
  BY <1>1 DEF Idle, Updating
<1>2. ASSUME NEW stage \in Updating, GoesOn(r, stage), req[r].pc \in Updating
      PROVE  /\ req'[r].pc # "insertProduct"
             /\ req[r].pc \in Updating
             /\ req'[r].row = req[r].row /\ req'[r].seen = req[r].seen
  BY <1>2 DEF GoesOn, Is, Updating
<1>3. ASSUME NEW stage \in {"saveStore", "deleteNote", "insertNotes"}, GoesOn(r, stage)
      PROVE  req'[r].pc # "insertProduct" /\ req'[r].pc \notin Updating
  BY <1>3 DEF GoesOn, Is, Updating
<1>4. /\ ResolveRelations(r) => req[r].pc \in Updating
      /\ SaveProduct(r) => req[r].pc \in Updating
      /\ ReloadProduct(r) => req[r].pc \in Updating
  BY ResolveRelationsIs, SaveProductIs, ReloadProductIs DEF Updating
<1>5. {"saveProduct", "reload", "dropImage"} \subseteq Updating
  BY DEF Updating
<1> QED BY <1>0, <1>1, <1>2, <1>3, <1>4, <1>5 DEF Leaves

\* An image named without being noted as shared is nobody else's.
LEMMA NotShared ==
  ASSUME TypeInv, ImageInv, NEW r \in Requests, NEW p, NEW image, image # None, image # Same,
         Shared(r, p, image) = {}
  PROVE  /\ Unshown(image, db, p)
         /\ \A s \in Requests \ {r} :
              req[s].pc = "insertProduct" \/ req[s].pc \in Updating =>
                image # req[s].row.image /\ image # req[s].seen
<1>1. image \notin ImagesInUse(r, p)
  BY DEF Shared
<1>2. Unshown(image, db, p)
  BY <1>1 DEF ImagesInUse, Unshown
<1>3. ASSUME NEW s \in Requests \ {r}, req[s].pc = "insertProduct" \/ req[s].pc \in Updating
      PROVE  image # req[s].row.image /\ image # req[s].seen
  <2>1. req[s].row \in ProductRow
    BY <1>3 DEF TypeInv, StageOK, ImageInv
  <2>2. "image" \in DOMAIN req[s].row
    BY <2>1 DEF ProductRow
  <2> QED BY <1>1, <1>3, <2>2 DEF ImagesInUse
<1> QED BY <1>2, <1>3

\* What a handler that begins knows of its images.
LEMMA CreationKnown ==
  ASSUME TypeInv, ImageInv, NEW r \in Requests, Starts(r), req'[r].pc = "insertProduct",
         history' \cap ImageMeetings = {}
  PROVE  /\ ImageKnown(req'[r], db)
         /\ \A s \in Requests \ {r} : OwnImage(req'[r], req[s])
<1>1. CreateProduct(r) /\ {"shared"} \notin history'
  BY DEF Starts, ImageMeetings
<1>2. PICK s \in DOMAIN db.stores, st \in DOMAIN db.stations,
           c \in DOMAIN db.categories \cup {None}, image \in db.files \cup {None} :
        Inserts(r, "createProduct", "insertProduct", 0,
                [store |-> s, station |-> st, category |-> c, image |-> image,
                 deleted |-> FALSE], 1, {ids + 1}, Shared(r, 0, image))
  BY <1>1, Known, CreateProductIs
<1>3. req'[r].row.image = image /\ Shared(r, 0, image) \subseteq history'
  BY <1>2 DEF Inserts, Begins, Is
<1>4. Shared(r, 0, image) = {}
  BY <1>1, <1>3 DEF Shared
<1>5. image # None => image # Same
  BY <1>2, Known, ShopTablesAssumption
<1>6. CASE image = None
  BY <1>3, <1>6 DEF ImageKnown, Unshown, OwnImage
<1>7. CASE image # None
  BY <1>3, <1>4, <1>5, <1>7, NotShared DEF ImageKnown, OwnImage
<1> QED BY <1>6, <1>7

LEMMA UpdateKnown ==
  ASSUME TypeInv, ImageInv, NEW r \in Requests, Starts(r), req'[r].pc = "resolve",
         history \cap ImageMeetings = {}, history' \cap ImageMeetings = {}
  PROVE  /\ ImageKnown(req'[r], db) /\ req'[r].row \in ProductRow
         /\ \A s \in Requests \ {r} :
              req[s].pc = "insertProduct" => OwnImage(req[s], req'[r])
<1>1. LoadProduct(r) /\ {"shared"} \notin history'
  BY DEF Starts, ImageMeetings
<1>2. PICK p \in DOMAIN db.products, patch \in ProductPatches :
        /\ patch.image \in db.files \cup {Same}
        /\ Loads(r, "updateProduct", "resolve", p, Assign(db.products[p], patch),
                 NoRows, Asked(patch), db.products[p].image,
                 Shared(r, p, patch.image)
                   \cup IF patch.store # Same THEN {{"moved"}} ELSE {})
  BY <1>1, Known, LoadProductIs
<1> DEFINE own == db.products[p]
<1>3. /\ req'[r].id = p /\ req'[r].row = Assign(own, patch) /\ req'[r].seen = own.image
      /\ Shared(r, p, patch.image) \subseteq history'
  BY <1>2 DEF Loads, Begins, Is
<1>4. own \in ProductRow /\ patch \in ProductPatch
  BY Known, ProductCatalogAssumption
<1>5. Assign(own, patch).image = Over(patch.image, own.image)
  <2> HIDE DEF own
  <2> QED BY <1>4, AssignedProduct
<1>6. Shared(r, p, patch.image) = {}
  BY <1>1, <1>3 DEF Shared
<1>7. req'[r].row \in ProductRow
  BY <1>3, <1>4, AssignTypes
<1> USE DEF own
<1>8. own.image = None \/ own.image \in db.files
  BY DEF ImageInv, ImagesApart
<1>9. Unshown(own.image, db, p)
  BY DEF ImageInv, ImagesApart, Unshown
<1>10. ASSUME NEW s \in Requests \ {r}, req[s].pc = "insertProduct", req[s].row.image # None
       PROVE  own.image # req[s].row.image
  <2>1. Unshown(req[s].row.image, db, 0)
    BY <1>10 DEF ImageInv, ImageKnown
  <2>2. p # 0
    BY Known, IdsAreNumbers DEF Ids
  <2> QED BY <1>10, <2>1, <2>2 DEF Unshown
<1>11. CASE patch.image = Same
  <2>1. req'[r].row.image = own.image
    BY <1>3, <1>5, <1>11 DEF Over
  <2> HIDE DEF own
  <2>2. ImageKnown(req'[r], db)
    BY <1>3, <1>8, <1>9, <2>1 DEF ImageKnown
  <2> QED BY <1>3, <1>7, <1>10, <2>1, <2>2 DEF OwnImage
<1>12. CASE patch.image # Same
  <2>1. req'[r].row.image = patch.image /\ patch.image \in db.files /\ patch.image # None
    BY <1>2, <1>3, <1>5, <1>12, Known, ShopTablesAssumption DEF Over
  <2> HIDE DEF own
  <2>2. /\ Unshown(patch.image, db, p)
        /\ \A s \in Requests \ {r} :
             req[s].pc = "insertProduct" => patch.image # req[s].row.image
    BY <1>6, <1>12, <2>1, NotShared
  <2>3. ImageKnown(req'[r], db)
    BY <1>3, <1>9, <2>1, <2>2 DEF ImageKnown
  <2> QED BY <1>3, <1>7, <1>10, <2>1, <2>2, <2>3 DEF OwnImage
<1> QED BY <1>11, <1>12

LEMMA ImageNext == TypeInv /\ Told /\ ImageInv /\ [Next]_vars => ImageInv'
<1> SUFFICES ASSUME TypeInv, Told, ImageInv, [Next]_vars PROVE ImageInv'
  OBVIOUS
<1>0. history \subseteq history'
  BY HistoryGrows
<1>1. ASSUME NEW r \in Requests, Step(r) PROVE ImageInv'
  <2>1. Moves(r)
    BY <1>1, StepLeaves DEF Leaves
  <2>2. /\ req'[r].pc # "insertProduct"
        /\ req'[r].pc \in Updating =>
             /\ req[r].pc \in Updating
             /\ req'[r].row = req[r].row /\ req'[r].seen = req[r].seen
    BY <1>1, StepKeepsRow
  <2>3. \A s \in Requests : req'[s].pc \in Updating => req'[s].row \in ProductRow
    BY <2>1, <2>2 DEF ImageInv, Moves
  <2>4. ASSUME history' \cap ImageMeetings = {}
        PROVE  /\ ImagesApart(db') /\ \A s \in Requests : ImageKnown(req'[s], db')
               /\ \A s \in Requests : \A t \in Requests \ {s} :
                    req'[s].pc = "insertProduct" => OwnImage(req'[s], req'[t])
    <3>1. history \cap ImageMeetings = {}
      BY <1>0, <2>4
    <3>2. ImagesApart(db')
      BY <1>1, <3>1, StepKeepsImages
    <3>3. \A s \in Requests : ImageKnown(req'[s], db')
      BY <1>1, <2>1, <3>1, StepKeepsKnown, StepKeepsOwnImage DEF Moves
    <3>4. ASSUME NEW s \in Requests, NEW t \in Requests \ {s}, req'[s].pc = "insertProduct"
          PROVE  OwnImage(req'[s], req'[t])
      <4>1. s # r /\ req'[s] = req[s]
        BY <2>1, <2>2, <3>4 DEF Moves
      <4>2. OwnImage(req[s], req[t])
        BY <3>1, <3>4, <4>1 DEF ImageInv
      <4>3. CASE t = r
        BY <2>2, <4>1, <4>2, <4>3 DEF OwnImage
      <4>4. CASE t # r
        BY <2>1, <4>1, <4>2, <4>4 DEF Moves
      <4> QED BY <4>3, <4>4
    <3> QED BY <3>2, <3>3, <3>4
  <2> QED BY <2>3, <2>4 DEF ImageInv
<1>2. ASSUME NEW r \in Requests, Request(r) PROVE ImageInv'
  <2>1. Starts(r)
    BY <1>2, RequestStarts
  <2>2. db' = db /\ Moves(r) /\ req'[r].pc \notin {"saveProduct", "reload", "dropImage"}
    BY <2>1 DEF Starts
  <2>3. req'[r].pc = "resolve" => req'[r].row \in ProductRow
    BY <1>2, RequestBegins DEF Begun, StageOK
  <2>4. \A s \in Requests : req'[s].pc \in Updating => req'[s].row \in ProductRow
    BY <2>2, <2>3 DEF ImageInv, Moves, Updating
  <2>5. ASSUME history' \cap ImageMeetings = {}
        PROVE  /\ ImagesApart(db') /\ \A s \in Requests : ImageKnown(req'[s], db')
               /\ \A s \in Requests : \A t \in Requests \ {s} :
                    req'[s].pc = "insertProduct" => OwnImage(req'[s], req'[t])
    <3>1. history \cap ImageMeetings = {}
      BY <1>0, <2>5
    <3>2. /\ ImagesApart(db) /\ \A s \in Requests : ImageKnown(req[s], db)
          /\ \A s \in Requests : \A t \in Requests \ {s} :
               req[s].pc = "insertProduct" => OwnImage(req[s], req[t])
      BY <3>1 DEF ImageInv
    <3>3. ImageKnown(req'[r], db)
      <4>1. CASE req'[r].pc \in {"insertProduct", "resolve"}
        BY <2>1, <2>5, <3>1, <4>1, CreationKnown, UpdateKnown
      <4>2. CASE req'[r].pc \notin {"insertProduct", "resolve"}
        BY <2>2, <4>2 DEF ImageKnown
      <4> QED BY <4>1, <4>2
    <3>4. ASSUME req'[r].pc = "insertProduct"
          PROVE  \A s \in Requests \ {r} : OwnImage(req'[r], req[s])
      BY <2>1, <2>5, <3>4, CreationKnown
    <3>5. ASSUME NEW s \in Requests \ {r}, req[s].pc = "insertProduct"
          PROVE  OwnImage(req[s], req'[r])
      <4>1. CASE req'[r].pc = "insertProduct"
        BY <3>4, <3>5, <4>1 DEF OwnImage, Updating
      <4>2. CASE req'[r].pc = "resolve"
        BY <2>1, <2>5, <3>1, <3>5, <4>2, UpdateKnown
      <4>3. CASE req'[r].pc \notin {"insertProduct", "resolve"}
        BY <2>2, <4>3 DEF OwnImage, Updating
      <4> QED BY <4>1, <4>2, <4>3
    <3>6. \A s \in Requests : \A t \in Requests \ {s} :
            req'[s].pc = "insertProduct" => OwnImage(req'[s], req'[t])
      BY <2>2, <3>2, <3>4, <3>5 DEF Moves
    <3>7. \A s \in Requests : ImageKnown(req'[s], db')
      BY <2>2, <3>2, <3>3 DEF Moves
    <3> QED BY <2>2, <3>2, <3>6, <3>7
  <2> QED BY <2>4, <2>5 DEF ImageInv
<1>3. CASE Direct
  <2>1. /\ req' = req /\ db'.products = db.products /\ db.files \subseteq db'.files
    BY <1>3, DirectIs DEF Creates, Puts, Keeps, TableNames
  <2>2. \A s \in Requests : ImageKnown(req[s], db) => ImageKnown(req[s], db')
    BY <2>1 DEF ImageKnown, Unshown
  <2>3. ImagesApart(db) => ImagesApart(db')
    BY <2>1 DEF ImagesApart
  <2> QED BY <1>0, <2>1, <2>2, <2>3 DEF ImageInv
<1>4. CASE Restart
  <2>1. db' = db /\ \A r \in Requests : req'[r] = Idle
    BY <1>4, RestartIs
  <2> QED BY <1>0, <2>1 DEF ImageInv, ImageKnown, Updating, Idle
<1>5. CASE UNCHANGED vars
  BY <1>5 DEF vars, ImageInv, ImageKnown, OwnImage, ImagesApart, Unshown
<1> QED BY <1>1, <1>2, <1>3, <1>4, <1>5 DEF Next

\* A product shows an image that is stored, although an update deletes the
\* image it found three awaits earlier: meanwhile nobody else shows it, or is
\* about to.
THEOREM ShownIsStored == Spec => []ImagesStored
<1>1. ImageInv => ImagesStored
  BY DEF ImageInv, ImagesStored, ImagesApart, Happened, ImageMeetings
<1> QED BY <1>1, TypeInvInit, TypeInvNext, ToldInit, ToldNext, ImageInit, ImageNext,
           PTL DEF Spec

-----------------------------------------------------------------------------
(* Stations: one that was found unused stays so until it is removed. *)

GivenMeetings ==
  {{"updateProduct", "removeStation"}, {"createProduct", "removeStation"},
   {"restoreProduct", "removeStation"}}

\* A product of a step is of the table, at the station it was at, and removed
\* if it was, except where one is saved, inserted or marked.
LEMMA ProductsChange ==
  ASSUME TypeInv, NEW r \in Requests, Step(r), NEW p \in DOMAIN db'.products,
         req[r].pc \notin {"insertProduct", "saveProduct"}
  PROVE  /\ p \in DOMAIN db.products
         /\ db'.products[p].station = db.products[p].station
         /\ \/ db'.products[p].deleted = db.products[p].deleted
            \/ req[r].pc = "markProduct" /\ db'.products[p].deleted = req[r].row.deleted
<1>1. CASE MarkProduct(r)
  <2>1. CASE db' = db
    BY <2>1
  <2>2. CASE db' # db
    <3>1. PICK k, row : k = req[r].id /\ row = [db.products[k] EXCEPT !.deleted = req[r].row.deleted]
      OBVIOUS
    <3>2. k \in DOMAIN db.products /\ Puts(db, db', "products", k, row) /\ req[r].pc = "markProduct"
      BY <1>1, <2>2, <3>1, MarkProductIs
    <3>3. row.station = db.products[k].station /\ row.deleted = req[r].row.deleted
      BY <3>1, <3>2, Known DEF ProductRow
    <3> QED BY <3>2, <3>3 DEF Puts
  <2> QED BY <2>1, <2>2
<1>2. CASE DeleteStation(r)
  BY <1>2, DeleteStationIs DEF StationGone
<1>3. CASE DeleteStore(r)
  <2>1. CASE db' = db
    BY <2>1
  <2>2. CASE db' # db
    <3>1. StoreGone(req[r].id, db')
      BY <1>3, <2>2, DeleteStoreIs
    <3>2. p \in DOMAIN db.products /\ db.products[p] \in ProductRow
      BY <3>1, Known DEF StoreGone
    <3>3. \/ db'.products[p] = db.products[p]
          \/ db'.products[p] = [db.products[p] EXCEPT !.category = None]
      BY <3>1 DEF StoreGone
    <3> QED BY <3>2, <3>3 DEF ProductRow
  <2> QED BY <2>1, <2>2
<1> QED BY <1>1, <1>2, <1>3, StepLeaves, InsertProductIs, SaveProductIs DEF Writers

\* The request that removes a product marks it so.
MarksRemoved(q) == q.pc = "markProduct" /\ q.op = "removeProduct" => q.row.deleted

\* At a station that is about to be removed without force, the products have
\* all been removed.
LeftUnused(q, d) ==
  q.pc = "deleteStation" /\ "force" \notin q.asked =>
    \A p \in DOMAIN d.products : d.products[p].station = q.id => d.products[p].deleted

UnusedInv ==
  /\ \A r \in Requests : MarksRemoved(req[r])
  /\ history \cap GivenMeetings = {} => \A r \in Requests : LeftUnused(req[r], db)

LEMMA UnusedInit == Init => UnusedInv
BY DEF Init, Idle, UnusedInv, MarksRemoved, LeftUnused

LEMMA UnusedNext == TypeInv /\ Told /\ UnusedInv /\ [Next]_vars => UnusedInv'
<1> SUFFICES ASSUME TypeInv, Told, UnusedInv, [Next]_vars
             PROVE  /\ \A s \in Requests : MarksRemoved(req'[s])
                    /\ history' \cap GivenMeetings = {} =>
                         \A s \in Requests : LeftUnused(req'[s], db')
  BY DEF UnusedInv
<1>0. history' \cap GivenMeetings = {} => history \cap GivenMeetings = {}
  BY HistoryGrows
<1>1. ASSUME NEW r \in Requests, Step(r)
      PROVE  /\ \A s \in Requests : MarksRemoved(req'[s])
             /\ history' \cap GivenMeetings = {} =>
                  \A s \in Requests : LeftUnused(req'[s], db')
  <2>1. Leaves(r)
    BY <1>1, StepLeaves
  <2>2. \A s \in Requests : /\ req'[s].pc = "deleteStation" => s # r /\ req'[s] = req[s]
                            /\ req'[s].pc = "markProduct" => s # r /\ req'[s] = req[s]
    BY <2>1 DEF Leaves, Moves, GoesOn, Is, Idle
  <2>3. ASSUME NEW s \in Requests, history \cap GivenMeetings = {},
               req'[s].pc = "deleteStation", "force" \notin req'[s].asked,
               NEW p \in DOMAIN db'.products, db'.products[p].station = req'[s].id
        PROVE  db'.products[p].deleted
    <3>1. s # r /\ req'[s] = req[s] /\ req[s].op = "removeStation" /\ OpOK(req[r])
      BY <2>2, <2>3 DEF Told, OpOK
    <3>2. {req[r].op, req[s].op} \notin GivenMeetings
      BY <2>1, <2>3, <3>1, Meet DEF Leaves, GivenMeetings, Watched
    <3>3. req[r].op \notin {"updateProduct", "createProduct", "restoreProduct"}
      BY <3>1, <3>2 DEF GivenMeetings
    <3>4. req[r].pc \notin {"insertProduct", "saveProduct"}
      BY <3>1, <3>3 DEF OpOK
    <3>5. p \in DOMAIN db.products /\ db.products[p].station = req[s].id
      BY <1>1, <2>3, <3>1, <3>4, ProductsChange
    <3>6. db.products[p].deleted
      BY <2>3, <3>1, <3>5 DEF UnusedInv, LeftUnused
    <3>7. req[r].pc = "markProduct" => req[r].row.deleted
      BY <3>1, <3>3 DEF OpOK, UnusedInv, MarksRemoved
    <3> QED BY <1>1, <3>4, <3>6, <3>7, ProductsChange
  <2>4. \A s \in Requests : MarksRemoved(req'[s])
    BY <2>2 DEF UnusedInv, MarksRemoved
  <2> QED BY <1>0, <2>3, <2>4 DEF LeftUnused
<1>2. ASSUME NEW r \in Requests, Request(r)
      PROVE  /\ \A s \in Requests : MarksRemoved(req'[s])
             /\ history' \cap GivenMeetings = {} =>
                  \A s \in Requests : LeftUnused(req'[s], db')
  <2>1. Starts(r)
    BY <1>2, RequestStarts
  <2>2. db' = db /\ Moves(r)
    BY <2>1 DEF Starts
  <2>3. MarksRemoved(req'[r])
    <3>1. SUFFICES ASSUME req'[r].pc = "markProduct", req'[r].op = "removeProduct"
                   PROVE  req'[r].row.deleted
      BY DEF MarksRemoved
    <3>2. LoadForRemoveProduct(r)
      BY <2>1, <3>1, Known, LoadForRestoreProductIs DEF Starts, Loads, Is
    <3> QED BY <3>2, Known, LoadForRemoveProductIs DEF Loads, Is
  <2>4. LeftUnused(req'[r], db)
    <3>1. SUFFICES ASSUME req'[r].pc = "deleteStation", "force" \notin req'[r].asked,
                          NEW p \in DOMAIN db.products, db.products[p].station = req'[r].id
                   PROVE  db.products[p].deleted
      BY DEF LeftUnused
    <3>2. LoadForRemoveStation(r)
      BY <2>1, <3>1 DEF Starts
    <3>3. Unused(req'[r].id)
      BY <3>1, <3>2, Known, LoadForRemoveStationIs DEF Loads, Is
    <3> QED BY <3>1, <3>3 DEF Unused, ProductsAt, Of
  <2> QED BY <1>0, <2>2, <2>3, <2>4 DEF UnusedInv, Moves
<1>3. CASE Direct
  <2>1. db'.products = db.products /\ req' = req
    BY <1>3, DirectIs DEF Creates, Puts, Keeps, TableNames
  <2> QED BY <1>0, <2>1 DEF UnusedInv, LeftUnused
<1>4. CASE Restart
  BY <1>0, <1>4, RestartIs DEF UnusedInv, MarksRemoved, LeftUnused, Idle
<1>5. CASE UNCHANGED vars
  BY <1>5 DEF vars, UnusedInv
<1> QED BY <1>1, <1>2, <1>3, <1>4, <1>5 DEF Next

KeptProducts ==
  RemovesUnforced =>
    \A p \in DOMAIN db.products : ~db.products[p].deleted => p \in DOMAIN db'.products

LEMMA KeptStep ==
  ASSUME TypeInv, Told, UnusedInv, [Next]_vars
  PROVE  KeptProducts
<1> SUFFICES ASSUME RemovesUnforced, NEW p \in DOMAIN db.products, ~db.products[p].deleted
             PROVE  p \in DOMAIN db'.products
  BY DEF KeptProducts
<1>1. PICK r \in Requests :
        req[r].pc = "deleteStation" /\ "force" \notin req[r].asked /\ req'[r] # req[r]
  BY DEF RemovesUnforced, At
<1>2. LeftUnused(req[r], db)
  BY DEF RemovesUnforced, Happened, UnusedInv, GivenMeetings
<1>3. ASSUME NEW s \in Requests, Step(s) PROVE p \in DOMAIN db'.products
  <2>1. s = r
    BY <1>1, <1>3, StepLeaves DEF Leaves, Moves
  <2>2. Writers(r)
    BY <1>3, <2>1, StepLeaves
  <2>3. CASE DeleteStation(r)
    BY <1>1, <1>2, <2>3, DeleteStationIs DEF StationGone, LeftUnused
  <2>4. CASE ~DeleteStation(r)
    BY <1>1, <2>2, <2>4, DeleteStoreIs, InsertProductIs, SaveProductIs, MarkProductIs DEF Writers
  <2> QED BY <2>3, <2>4
<1>4. ASSUME NEW s \in Requests, Request(s) PROVE p \in DOMAIN db'.products
  BY <1>4, RequestStarts DEF Starts
<1>5. CASE Direct
  BY <1>1, <1>5, DirectFine
<1>6. CASE Restart \/ UNCHANGED vars
  BY <1>6, RestartIs DEF vars
<1> QED BY <1>3, <1>4, <1>5, <1>6 DEF Next

\* A station that is removed without force takes no product along that is on
\* sale: the products are looked at one await before the deletion, and what
\* could give the station one meanwhile is named.
THEOREM SoldProductsStay == Spec => ProductsKept
<1>1. TypeInv /\ Told /\ UnusedInv /\ [Next]_vars => [KeptProducts]_vars
  BY KeptStep
<1> QED BY <1>1, TypeInvInit, TypeInvNext, ToldInit, ToldNext, UnusedInit, UnusedNext,
           PTL DEF Spec, ProductsKept, KeptProducts

-----------------------------------------------------------------------------
(* Ids: what is about to be inserted is new to every table and handler. *)

InUse(d) ==
  DOMAIN d.stores \cup DOMAIN d.stations \cup DOMAIN d.categories \cup DOMAIN d.products
    \cup DOMAIN d.groups \cup DOMAIN d.options \cup DOMAIN d.links \cup DOMAIN d.notes

\* The ids of the rows a handler is about: its own, the options it holds, the
\* group of its option.
About(q) == {q.id} \cup DOMAIN q.held \cup IF q.pc = "saveOption" THEN {q.row.group} ELSE {}

NewAlone ==
  /\ \A r \in Requests : \A k \in About(req[r]) : k \in Nat /\ k <= ids
  /\ \A r \in Requests : \A k \in req[r].new :
       /\ k \notin InUse(db)
       /\ \A s \in Requests : k \notin About(req[s])
       /\ \A s \in Requests \ {r} : k \notin req[s].new

LEMMA InUseIsKnown ==
  ASSUME TypeInv
  PROVE  \A k \in InUse(db) : k \in Nat /\ k <= ids
BY Known, IdsAreNumbers DEF InUse

\* A handler begins with ids of rows that are there, or with the next ones.
LEMMA IdsBegin ==
  ASSUME TypeInv, NEW r \in Requests, Request(r)
  PROVE  /\ About(req'[r]) \subseteq InUse(db) \cup {0}
         /\ \A k \in req'[r].new : k \in Nat /\ ids < k /\ k <= ids'
<1> DOMAIN NoRows = {} /\ ids \in Nat
  BY Known DEF NoRows
<1>1. CASE LoadForSetPin(r)
  <2>1. /\ req'[r].id \in DOMAIN db.stores /\ req'[r].new = {}
        /\ req'[r].held = NoRows /\ req'[r].pc # "saveOption"
    BY <1>1, Known, LoadForSetPinIs DEF Loads, Is
  <2> QED BY <2>1 DEF About, InUse
<1>2. CASE LoadForUpdatePin(r)
  <2>1. /\ req'[r].id \in DOMAIN db.stores /\ req'[r].new = {}
        /\ req'[r].held = NoRows /\ req'[r].pc # "saveOption"
    BY <1>2, Known, LoadForUpdatePinIs DEF Loads, Is
  <2> QED BY <2>1 DEF About, InUse
<1>3. CASE LoadForStoreUpdate(r)
  <2>1. /\ req'[r].id \in DOMAIN db.stores /\ req'[r].new = {}
        /\ req'[r].held = NoRows /\ req'[r].pc # "saveOption"
    BY <1>3, Known, LoadForStoreUpdateIs DEF Loads, Is
  <2> QED BY <2>1 DEF About, InUse
<1>4. CASE LoadForRemoveStore(r)
  <2>1. /\ req'[r].id \in DOMAIN db.stores /\ req'[r].new = {}
        /\ req'[r].held = NoRows /\ req'[r].pc # "saveOption"
    BY <1>4, Known, LoadForRemoveStoreIs DEF Loads, Is
  <2> QED BY <2>1 DEF About, InUse
<1>5. CASE PlaceNote(r)
  <2>1. /\ req'[r].id \in DOMAIN db.stores \cup {0}
        /\ req'[r].held = NoRows /\ req'[r].pc # "saveOption"
        /\ ids' = ids + 1 /\ req'[r].new = {ids + 1}
    BY <1>5, Known, PlaceNoteIs DEF Inserts, Is
  <2> QED BY <2>1 DEF About, InUse
<1>6. CASE LoadNote(r)
  <2>1. /\ req'[r].id \in DOMAIN db.notes /\ req'[r].new = {}
        /\ req'[r].held = NoRows /\ req'[r].pc # "saveOption"
    BY <1>6, Known, LoadNoteIs DEF Loads, Is
  <2> QED BY <2>1 DEF About, InUse
<1>7. CASE LoadForRemoveNote(r)
  <2>1. /\ req'[r].id \in DOMAIN db.notes /\ req'[r].new = {}
        /\ req'[r].held = NoRows /\ req'[r].pc # "saveOption"
    BY <1>7, Known, LoadForRemoveNoteIs DEF Loads, Is
  <2> QED BY <2>1 DEF About, InUse
<1>8. CASE ReplaceNotes(r)
  <2>1. /\ req'[r].id \in DOMAIN db.stores \cup {0}
        /\ req'[r].held = NoRows /\ req'[r].pc # "saveOption"
        /\ ids' = ids + 2 /\ req'[r].new = {ids + 1, ids + 2}
    BY <1>8, Known, ReplaceNotesIs DEF Inserts, Is
  <2> QED BY <2>1 DEF About, InUse
<1>9. CASE Register(r)
  <2>1. /\ req'[r].id \in DOMAIN db.stores \cup {0}
        /\ req'[r].held = NoRows /\ req'[r].pc # "saveOption"
        /\ ids' = ids + 1 /\ req'[r].new = {ids + 1}
    BY <1>9, Known, RegisterIs DEF Inserts, Is
  <2> QED BY <2>1 DEF About, InUse
<1>10. CASE GoogleLogin(r)
  <2>1. /\ req'[r].id \in DOMAIN db.stores \cup {0}
        /\ req'[r].held = NoRows /\ req'[r].pc # "saveOption"
        /\ ids' = ids + 1 /\ req'[r].new = {ids + 1}
    BY <1>10, Known, GoogleLoginIs DEF Inserts, Is
  <2> QED BY <2>1 DEF About, InUse
<1>11. CASE LoadCategory(r)
  <2>1. /\ req'[r].id \in DOMAIN db.categories /\ req'[r].new = {}
        /\ req'[r].held = NoRows /\ req'[r].pc # "saveOption"
    BY <1>11, Known, LoadCategoryIs DEF Loads, Is
  <2> QED BY <2>1 DEF About, InUse
<1>12. CASE LoadForRemoveCategory(r)
  <2>1. /\ req'[r].id \in DOMAIN db.categories /\ req'[r].new = {}
        /\ req'[r].held = NoRows /\ req'[r].pc # "saveOption"
    BY <1>12, Known, LoadForRemoveCategoryIs DEF Loads, Is
  <2> QED BY <2>1 DEF About, InUse
<1>13. CASE LoadForRemoveStation(r)
  <2>1. /\ req'[r].id \in DOMAIN db.stations /\ req'[r].new = {}
        /\ req'[r].held = NoRows /\ req'[r].pc # "saveOption"
    BY <1>13, Known, LoadForRemoveStationIs DEF Loads, Is
  <2> QED BY <2>1 DEF About, InUse
<1>14. CASE CreateProduct(r)
  <2>1. /\ req'[r].id \in DOMAIN db.stores \cup {0}
        /\ req'[r].held = NoRows /\ req'[r].pc # "saveOption"
        /\ ids' = ids + 1 /\ req'[r].new = {ids + 1}
    BY <1>14, Known, CreateProductIs DEF Inserts, Is
  <2> QED BY <2>1 DEF About, InUse
<1>15. CASE LoadProduct(r)
  <2>1. /\ req'[r].id \in DOMAIN db.products /\ req'[r].new = {}
        /\ req'[r].held = NoRows /\ req'[r].pc # "saveOption"
    BY <1>15, Known, LoadProductIs DEF Loads, Is
  <2> QED BY <2>1 DEF About, InUse
<1>16. CASE LoadForRemoveProduct(r)
  <2>1. /\ req'[r].id \in DOMAIN db.products /\ req'[r].new = {}
        /\ req'[r].held = NoRows /\ req'[r].pc # "saveOption"
    BY <1>16, Known, LoadForRemoveProductIs DEF Loads, Is
  <2> QED BY <2>1 DEF About, InUse
<1>17. CASE LoadForRestoreProduct(r)
  <2>1. /\ req'[r].id \in DOMAIN db.products /\ req'[r].new = {}
        /\ req'[r].held = NoRows /\ req'[r].pc # "saveOption"
    BY <1>17, Known, LoadForRestoreProductIs DEF Loads, Is
  <2> QED BY <2>1 DEF About, InUse
<1>18. CASE CreateGroup(r)
  <2>1. /\ req'[r].id \in DOMAIN db.stores \cup {0}
        /\ req'[r].held = NoRows /\ req'[r].pc # "saveOption"
        /\ ids' = ids + 1 /\ req'[r].new = {ids + 1}
    BY <1>18, Known, CreateGroupIs DEF Inserts, Is
  <2> QED BY <2>1 DEF About, InUse
<1>19. CASE LoadGroup(r)
  <2>1. OptionsOf(req'[r].id) \subseteq DOMAIN db.options
    BY DEF OptionsOf, Of
  <2>2. /\ req'[r].id \in DOMAIN db.groups /\ req'[r].new = {}
        /\ DOMAIN req'[r].held = OptionsOf(req'[r].id) /\ req'[r].pc # "saveOption"
    BY <1>19, Known, LoadGroupIs DEF Loads, Is
  <2> QED BY <2>1, <2>2 DEF About, InUse
<1>20. CASE LoadForDeleteGroup(r)
  <2>1. /\ req'[r].id \in DOMAIN db.groups /\ req'[r].new = {}
        /\ req'[r].held = NoRows /\ req'[r].pc # "saveOption"
    BY <1>20, Known, LoadForDeleteGroupIs DEF Loads, Is
  <2> QED BY <2>1 DEF About, InUse
<1>21. CASE CreateOption(r)
  <2>1. /\ req'[r].id \in DOMAIN db.stores \cup {0}
        /\ req'[r].held = NoRows /\ req'[r].pc # "saveOption"
        /\ ids' = ids + 1 /\ req'[r].new = {ids + 1}
    BY <1>21, Known, CreateOptionIs DEF Inserts, Is
  <2> QED BY <2>1 DEF About, InUse
<1>22. CASE LoadOption(r)
  <2>1. PICK o \in DOMAIN db.options, on \in BOOLEAN \cup {Same} :
          Loads(r, "updateOption", "saveOption", o, [db.options[o] EXCEPT !.on = Over(on, @)],
                NoRows, Asked([on |-> on]), None, {})
    BY <1>22, Known, LoadOptionIs
  <2>2. /\ req'[r].id = o /\ req'[r].new = {} /\ req'[r].held = NoRows
        /\ req'[r].row = [db.options[o] EXCEPT !.on = Over(on, @)]
    BY <2>1 DEF Loads, Is
  <2>3. req'[r].row.group = db.options[o].group /\ db.options[o].group \in DOMAIN db.groups
    BY <2>2, Known, RefsAre DEF OptionRow, Sound
  <2> QED BY <2>2, <2>3 DEF About, InUse
<1>23. CASE LoadForDeleteOption(r)
  <2>1. /\ req'[r].id \in DOMAIN db.options /\ req'[r].new = {}
        /\ req'[r].held = NoRows /\ req'[r].pc # "saveOption"
    BY <1>23, Known, LoadForDeleteOptionIs DEF Loads, Is
  <2> QED BY <2>1 DEF About, InUse
<1>24. CASE AssignGroup(r)
  <2>1. /\ req'[r].id \in DOMAIN db.stores \cup {0}
        /\ req'[r].held = NoRows /\ req'[r].pc # "saveOption"
        /\ ids' = ids + 1 /\ req'[r].new = {ids + 1}
    BY <1>24, Known, AssignGroupIs DEF Inserts, Is
  <2> QED BY <2>1 DEF About, InUse
<1>25. CASE LoadForUnassign(r)
  <2>1. /\ req'[r].id \in DOMAIN db.links /\ req'[r].new = {}
        /\ req'[r].held = NoRows /\ req'[r].pc # "saveOption"
    BY <1>25, Known, LoadForUnassignIs DEF Loads, Is
  <2> QED BY <2>1 DEF About, InUse
<1> QED
  BY <1>1, <1>2, <1>3, <1>4, <1>5, <1>6, <1>7, <1>8, <1>9, <1>10, <1>11, <1>12,
  <1>13, <1>14, <1>15, <1>16, <1>17, <1>18, <1>19, <1>20, <1>21, <1>22, <1>23, <1>24,
  <1>25
     DEF Request, StoresRequest, NotesRequest, AccountsRequest, CategoriesRequest,
         StationsRequest, ProductsRequest, ModifiersRequest

\* A step writes the rows its handler is about, or those it inserts, which ends
\* the handler.
LEMMA IdsStep ==
  ASSUME TypeInv, NEW r \in Requests, Step(r)
  PROVE  /\ About(req'[r]) \subseteq About(req[r]) \cup {0}
         /\ \/ /\ req'[r].new = {}
               /\ InUse(db') \subseteq InUse(db) \cup About(req[r]) \cup req[r].new
            \/ /\ req'[r].new = req[r].new
               /\ InUse(db') \subseteq InUse(db) \cup About(req[r])
<1>1. req'[r] = Idle \/ \E pc : GoesOn(r, pc) /\ pc # "saveOption"
  BY StepLeaves DEF Leaves
<1>2. About(req'[r]) \subseteq About(req[r]) \cup {0} /\ req'[r].new \in {{}, req[r].new}
  <2>1. ASSUME NEW pc, GoesOn(r, pc), pc # "saveOption"
        PROVE  About(req'[r]) \subseteq About(req[r]) \cup {0} /\ req'[r].new \in {{}, req[r].new}
    BY <2>1 DEF GoesOn, Is, About
  <2> QED BY <1>1, <2>1 DEF About, Idle, NoRows
<1>3. CASE WritePin(r)
  <2>1. DOMAIN db'.stores \subseteq DOMAIN db.stores \cup About(req[r])
    BY <1>3, WritePinIs DEF Puts, About
  <2>2. db' = db \/ Keeps(db, db', {"stores"})
    BY <1>3, WritePinIs DEF Puts
  <2> QED BY <1>2, <2>1, <2>2 DEF InUse, Keeps, TableNames
<1>4. CASE CheckPin(r)
  BY <1>2, <1>4, CheckPinIs DEF InUse
<1>5. CASE SaveStore(r)
  <2>1. DOMAIN db'.stores \subseteq DOMAIN db.stores \cup About(req[r])
    BY <1>5, SaveStoreIs DEF Puts, About
  <2>2. db' = db \/ Keeps(db, db', {"stores"})
    BY <1>5, SaveStoreIs DEF Puts
  <2> QED BY <1>2, <2>1, <2>2 DEF InUse, Keeps, TableNames
<1>6. CASE DeleteStore(r)
  BY <1>2, <1>6, DeleteStoreIs DEF InUse, StoreGone, Keeps, TableNames
<1>7. CASE InsertNote(r)
  <2>1. DOMAIN db'.notes \subseteq DOMAIN db.notes \cup req[r].new \cup About(req[r])
    BY <1>7, InsertNoteIs DEF Puts, About
  <2>2. (db' = db \/ Keeps(db, db', {"notes"})) /\ req'[r].new = {}
    BY <1>7, InsertNoteIs DEF Puts, Ends, Idle
  <2> QED BY <1>2, <2>1, <2>2 DEF InUse, Keeps, TableNames
<1>8. CASE SaveNote(r)
  BY <1>2, <1>8, SaveNoteIs DEF InUse, Puts, Keeps, TableNames, About
<1>9. CASE CountNotes(r)
  BY <1>2, <1>9, CountNotesIs DEF InUse
<1>10. CASE DeleteNote(r)
  BY <1>2, <1>10, DeleteNoteIs DEF InUse, Drops, Keeps, TableNames
<1>11. CASE ClearNotes(r)
  BY <1>2, <1>11, ClearNotesIs DEF InUse, Drops, Keeps, TableNames
<1>12. CASE InsertNotes(r)
  <2>1. DOMAIN db'.notes \subseteq DOMAIN db.notes \cup req[r].new
    <3>1. CASE db' = db
      BY <3>1
    <3>2. CASE db' # db
      <4>1. PICK k \in Ids : req[r].new = {k, k + 1}
                             /\ DOMAIN db'.notes = {k, k + 1} \cup DOMAIN db.notes
        BY <1>12, <3>2, InsertNotesIs
      <4> QED BY <4>1
    <3> QED BY <3>1, <3>2
  <2>2. db' = db \/ Keeps(db, db', {"notes"})
    BY <1>12, InsertNotesIs
  <2>3. Ends(r)
    BY <1>12, InsertNotesIs
  <2>4. req'[r].new = {}
    BY <2>3 DEF Ends, Idle
  <2>5. InUse(db') \subseteq InUse(db) \cup req[r].new
    BY <2>1, <2>2 DEF InUse, Keeps, TableNames
  <2> QED BY <1>2, <2>4, <2>5
<1>13. CASE InsertAccount(r)
  <2>1. DOMAIN db'.accounts \subseteq DOMAIN db.accounts \cup req[r].new \cup About(req[r])
    BY <1>13, InsertAccountIs DEF Puts, About
  <2>2. (db' = db \/ Keeps(db, db', {"accounts"})) /\ req'[r].new = {}
    BY <1>13, InsertAccountIs DEF Puts, Ends, Idle
  <2> QED BY <1>2, <2>1, <2>2 DEF InUse, Keeps, TableNames
<1>14. CASE RefuseAccount(r)
  BY <1>2, <1>14, RefuseAccountIs DEF InUse
<1>15. CASE SaveCategory(r)
  BY <1>2, <1>15, SaveCategoryIs DEF InUse, Puts, Keeps, TableNames, About
<1>16. CASE DeleteStation(r)
  BY <1>2, <1>16, DeleteStationIs DEF InUse, StationGone, Keeps, TableNames
<1>17. CASE InsertProduct(r)
  <2>1. DOMAIN db'.products \subseteq DOMAIN db.products \cup req[r].new \cup About(req[r])
    BY <1>17, InsertProductIs DEF Puts, About
  <2>2. (db' = db \/ Keeps(db, db', {"products"})) /\ req'[r].new = {}
    BY <1>17, InsertProductIs DEF Puts, Ends, Idle
  <2> QED BY <1>2, <2>1, <2>2 DEF InUse, Keeps, TableNames
<1>18. CASE ResolveRelations(r)
  BY <1>2, <1>18, ResolveRelationsIs DEF InUse
<1>19. CASE SaveProduct(r)
  BY <1>2, <1>19, SaveProductIs DEF InUse, Puts, Keeps, TableNames, About
<1>20. CASE ReloadProduct(r)
  BY <1>2, <1>20, ReloadProductIs DEF InUse
<1>21. CASE DropImage(r)
  BY <1>2, <1>21, DropImageIs DEF InUse, Keeps, TableNames
<1>22. CASE KeepImage(r)
  BY <1>2, <1>22, DropImageIs DEF InUse, Keeps, TableNames
<1>23. CASE MarkProduct(r)
  <2>1. DOMAIN db'.products \subseteq DOMAIN db.products \cup About(req[r])
    BY <1>23, MarkProductIs DEF Puts, About
  <2>2. db' = db \/ Keeps(db, db', {"products"})
    BY <1>23, MarkProductIs DEF Puts
  <2> QED BY <1>2, <2>1, <2>2 DEF InUse, Keeps, TableNames
<1>24. CASE InsertGroup(r)
  <2>1. DOMAIN db'.groups \subseteq DOMAIN db.groups \cup req[r].new \cup About(req[r])
    BY <1>24, InsertGroupIs DEF Puts, About
  <2>2. (db' = db \/ Keeps(db, db', {"groups"})) /\ req'[r].new = {}
    BY <1>24, InsertGroupIs DEF Puts, Ends, Idle
  <2> QED BY <1>2, <2>1, <2>2 DEF InUse, Keeps, TableNames
<1>25. CASE SaveGroup(r)
  <2>1. DOMAIN db'.groups \cup DOMAIN db'.options \subseteq
          DOMAIN db.groups \cup DOMAIN db.options \cup About(req[r])
    BY <1>25, SaveGroupIs DEF About
  <2>2. db' = db \/ Keeps(db, db', {"groups", "options"})
    BY <1>25, SaveGroupIs
  <2>3. req'[r].new = {}
    BY <1>25, SaveGroupIs DEF Ends, Idle
  <2> QED BY <1>2, <2>1, <2>2, <2>3 DEF InUse, Keeps, TableNames
<1>26. CASE DeleteGroup(r)
  BY <1>2, <1>26, DeleteGroupIs DEF InUse, GroupGone, Keeps, TableNames
<1>27. CASE SaveOption(r)
  <2>1. DOMAIN db'.options \subseteq DOMAIN db.options \cup req[r].new \cup About(req[r])
    BY <1>27, SaveOptionIs DEF Puts, About
  <2>2. (db' = db \/ Keeps(db, db', {"options"})) /\ req'[r].new = {}
    BY <1>27, SaveOptionIs DEF Puts, Ends, Idle
  <2> QED BY <1>2, <2>1, <2>2 DEF InUse, Keeps, TableNames
<1>28. CASE DeleteOption(r)
  BY <1>2, <1>28, DeleteOptionIs DEF InUse, Drops, Keeps, TableNames
<1>29. CASE InsertLink(r)
  <2>1. DOMAIN db'.links \subseteq DOMAIN db.links \cup req[r].new \cup About(req[r])
    BY <1>29, InsertLinkIs DEF Puts, About
  <2>2. (db' = db \/ Keeps(db, db', {"links"})) /\ req'[r].new = {}
    BY <1>29, InsertLinkIs DEF Puts, Ends, Idle
  <2> QED BY <1>2, <2>1, <2>2 DEF InUse, Keeps, TableNames
<1>30. CASE DeleteLink(r)
  BY <1>2, <1>30, DeleteLinkIs DEF InUse, Drops, Keeps, TableNames
<1> QED
  BY <1>3, <1>4, <1>5, <1>6, <1>7, <1>8, <1>9, <1>10, <1>11, <1>12, <1>13, <1>14,
  <1>15, <1>16, <1>17, <1>18, <1>19, <1>20, <1>21, <1>22, <1>23, <1>24, <1>25, <1>26,
  <1>27, <1>28, <1>29, <1>30
     DEF Step, StoresStep, NotesStep, AccountsStep, CategoriesStep, StationsStep,
         ProductsStep, ModifiersStep

LEMMA NewInit == Init => NewAlone
BY ScenesAssumption, ShopTablesAssumption DEF Init, NewAlone, About, Idle, NoRows

LEMMA NewNext == TypeInv /\ NewAlone /\ [Next]_vars => NewAlone'
<1> SUFFICES ASSUME TypeInv, NewAlone, [Next]_vars
             PROVE  /\ \A r \in Requests : \A k \in About(req'[r]) : k \in Nat /\ k <= ids'
                    /\ \A r \in Requests : \A k \in req'[r].new :
                         /\ k \notin InUse(db')
                         /\ \A s \in Requests : k \notin About(req'[s])
                         /\ \A s \in Requests \ {r} : k \notin req'[s].new
  BY DEF NewAlone
<1>0. ids \in Nat /\ \A r \in Requests : \A k \in req[r].new : k \in Nat /\ 0 < k /\ k <= ids
  BY Known DEF TypeInv, TypeOK
<1> DEFINE Kept == /\ \A s \in Requests : \A k \in About(req'[s]) : k \in Nat /\ k <= ids'
                   /\ \A s \in Requests : \A k \in req'[s].new :
                        /\ k \notin InUse(db')
                        /\ \A t \in Requests : k \notin About(req'[t])
                        /\ \A t \in Requests \ {s} : k \notin req'[t].new
<1>1. ASSUME NEW r \in Requests, Step(r) PROVE Kept
  <2>1. Moves(r) /\ ids' = ids
    BY <1>1, StepLeaves DEF Leaves
  <2>2. \A s \in Requests : /\ About(req'[s]) \subseteq About(req[s]) \cup {0}
                            /\ req'[s].new \in {{}, req[s].new}
    BY <1>1, <2>1, IdsStep DEF Moves
  <2>3. ASSUME NEW s \in Requests, NEW k \in req'[s].new PROVE k \notin InUse(db')
    <3>1. k \in req[s].new /\ k \notin InUse(db) /\ k \notin About(req[r])
      BY <2>2, <2>3 DEF NewAlone
    <3>2. s # r => k \notin req[r].new
      BY <3>1 DEF NewAlone
    <3> QED BY <1>1, <2>3, <3>1, <3>2, IdsStep
  <2>4. \A s \in Requests : \A k \in About(req'[s]) : k \in Nat /\ k <= ids'
    BY <1>0, <2>1, <2>2 DEF NewAlone
  <2>5. \A s \in Requests : \A k \in req'[s].new :
          /\ \A t \in Requests : k \notin About(req'[t])
          /\ \A t \in Requests \ {s} : k \notin req'[t].new
    BY <1>0, <2>2 DEF NewAlone
  <2> QED BY <2>3, <2>4, <2>5
<1>2. ASSUME NEW r \in Requests, Request(r) PROVE Kept
  <2>1. Moves(r) /\ db' = db /\ ids' \in Nat /\ ids <= ids'
    BY <1>2, RequestStarts DEF Starts
  <2>2. /\ About(req'[r]) \subseteq InUse(db) \cup {0}
        /\ \A k \in req'[r].new : k \in Nat /\ ids < k /\ k <= ids'
    BY <1>2, IdsBegin
  <2>3. \A k \in InUse(db) \cup {0} : k \in Nat /\ k <= ids
    BY <1>0, InUseIsKnown
  <2>4. \A s \in Requests : \A k \in About(req'[s]) : k \in Nat /\ k <= ids
    BY <2>1, <2>2, <2>3 DEF NewAlone, Moves
  <2>5. \A k \in req'[r].new :
          /\ k \notin InUse(db)
          /\ \A t \in Requests : k \notin About(req'[t])
          /\ \A t \in Requests \ {r} : k \notin req'[t].new
    BY <1>0, <2>1, <2>2, <2>3, <2>4 DEF Moves
  <2>6. \A s \in Requests \ {r} : \A k \in req'[s].new :
          /\ k \notin InUse(db)
          /\ \A t \in Requests : k \notin About(req'[t])
          /\ \A t \in Requests \ {s} : k \notin req'[t].new
    BY <1>0, <2>1, <2>2 DEF NewAlone, Moves
  <2> QED BY <1>0, <2>1, <2>4, <2>5, <2>6
<1>3. CASE Direct
  <2>1. req' = req /\ ids' \in Nat /\ ids <= ids'
    BY <1>3, DirectFine
  <2>2. InUse(db') \subseteq InUse(db) \cup {ids + 1}
    BY <1>3, Known, DirectIs DEF Creates, Puts, Keeps, TableNames, InUse
  <2> QED BY <1>0, <2>1, <2>2 DEF NewAlone
<1>4. CASE Restart
  BY <1>0, <1>4, RestartIs DEF Idle, About, NoRows
<1>5. CASE UNCHANGED vars
  BY <1>5 DEF vars, NewAlone
<1> QED BY <1>1, <1>2, <1>3, <1>4, <1>5 DEF Next

-----------------------------------------------------------------------------
(* Options: none ever changes its group, nor is it claimed by two. *)

\* A handler takes option o to be, or to become, one of group g.
Claims(q, o, g) ==
  \/ q.pc = "insertOption" /\ o \in q.new /\ q.row.group = g
  \/ q.pc = "saveOption" /\ o = q.id /\ q.row.group = g
  \/ q.pc = "saveGroup" /\ o \in DOMAIN q.held /\ q.id = g

Belongs(d, handlers, o, g) ==
  \/ o \in DOMAIN d.options /\ d.options[o].group = g
  \/ \E r \in Requests : Claims(handlers[r], o, g)

OneGroup == \A o, g, h : Belongs(db, req, o, g) /\ Belongs(db, req, o, h) => g = h

LEMMA BelongsIsKnown ==
  ASSUME TypeInv, NEW o, NEW g, Belongs(db, req, o, g)
  PROVE  o \in Nat /\ o <= ids
<1>1. CASE o \in DOMAIN db.options
  BY <1>1, Known, IdsAreNumbers
<1>2. ASSUME NEW r \in Requests, Claims(req[r], o, g) PROVE o \in Nat /\ o <= ids
  <2>1. req[r].new \subseteq 1..ids /\ StageOK(req[r], ids) /\ ids \in Nat
    BY Known DEF TypeInv, TypeOK
  <2>2. CASE req[r].pc = "insertOption" /\ o \in req[r].new
    BY <2>1, <2>2
  <2>3. CASE req[r].pc = "saveOption" /\ o = req[r].id
    BY <2>1, <2>3, IdsAreNumbers DEF StageOK, Saving
  <2>4. CASE req[r].pc = "saveGroup" /\ o \in DOMAIN req[r].held
    BY <2>1, <2>4, IdsAreNumbers DEF StageOK
  <2> QED BY <1>2, <2>2, <2>3, <2>4 DEF Claims
<1> QED BY <1>1, <1>2 DEF Belongs

LEMMA StepClaimsNone ==
  ASSUME TypeInv, NEW r \in Requests, Step(r), NEW o, NEW g, Belongs(db', req', o, g)
  PROVE  Belongs(db, req, o, g)
<1>1. ASSUME NEW s \in Requests, Claims(req'[s], o, g) PROVE Belongs(db, req, o, g)
  <2>1. s # r => req'[s] = req[s]
    BY <1>1, StepLeaves DEF Leaves, Moves
  <2>2. req'[r].pc \notin {"insertOption", "saveOption", "saveGroup"}
    BY StepLeaves DEF Leaves, Idle, GoesOn, Is
  <2> QED BY <1>1, <2>1, <2>2 DEF Claims, Belongs
<1>2. ASSUME o \in DOMAIN db'.options, db'.options[o].group = g
      PROVE  Belongs(db, req, o, g)
  <2>1. CASE DeleteStore(r)
    BY <1>2, <2>1, DeleteStoreIs DEF StoreGone, Belongs
  <2>2. CASE SaveGroup(r)
    <3>1. CASE o \in DOMAIN req[r].held /\ db' # db
      <4>1. req[r].pc = "saveGroup" /\ db'.options[o] = req[r].held[o]
        BY <2>2, <3>1, SaveGroupIs
      <4>2. req[r].held[o].group = req[r].id
        BY <3>1, <4>1 DEF TypeInv, StageOK
      <4> QED BY <1>2, <3>1, <4>1, <4>2 DEF Belongs, Claims
    <3>2. CASE ~(o \in DOMAIN req[r].held /\ db' # db)
      BY <1>2, <2>2, <3>2, SaveGroupIs DEF Belongs
    <3> QED BY <3>1, <3>2
  <2>3. CASE DeleteGroup(r)
    BY <1>2, <2>3, DeleteGroupIs DEF GroupGone, Belongs
  <2>4. CASE SaveOption(r)
    <3>1. CASE db' = db
      BY <1>2, <3>1 DEF Belongs
    <3>2. CASE db' # db
      <4>1. PICK k \in Ids :
              /\ Puts(db, db', "options", k, req[r].row)
              /\ \/ req[r].pc = "insertOption" /\ req[r].new = {k}
                 \/ req[r].pc = "saveOption" /\ req[r].id = k
        BY <2>4, <3>2, SaveOptionIs
      <4>2. o = k => Claims(req[r], o, g)
        BY <1>2, <4>1 DEF Puts, Claims
      <4>3. o # k => o \in DOMAIN db.options /\ db.options[o] = db'.options[o]
        BY <1>2, <4>1 DEF Puts
      <4> QED BY <1>2, <4>2, <4>3 DEF Belongs
    <3> QED BY <3>1, <3>2
  <2>5. CASE DeleteOption(r)
    BY <1>2, <2>5, DeleteOptionIs DEF Drops, Belongs
  <2>6. CASE db'.options = db.options
    BY <1>2, <2>6 DEF Belongs
  <2> QED BY <2>1, <2>2, <2>3, <2>4, <2>5, <2>6, StepLeaves DEF Writers
<1> QED BY <1>1, <1>2 DEF Belongs

\* A handler that begins claims options of the group they are in, or a new one.
LEMMA BeginClaims ==
  ASSUME TypeInv, NEW r \in Requests, Request(r), NEW o, NEW g, Claims(req'[r], o, g)
  PROVE  \/ o \in DOMAIN db.options /\ db.options[o].group = g
         \/ ~(o <= ids) /\ req'[r].pc = "insertOption" /\ req'[r].row.group = g
<1>0. ids \in Nat
  BY Known
<1>1. Starts(r)
  BY RequestStarts
<1>2. CASE req'[r].pc = "insertOption"
  <2>1. CreateOption(r)
    BY <1>1, <1>2 DEF Starts
  <2>2. req'[r].new = {ids + 1}
    BY <1>0, <2>1, Known, CreateOptionIs DEF Inserts, Is
  <2> QED BY <1>0, <1>2, <2>2 DEF Claims
<1>3. CASE req'[r].pc = "saveOption"
  <2>1. LoadOption(r)
    BY <1>1, <1>3 DEF Starts
  <2>2. PICK k \in DOMAIN db.options, on \in BOOLEAN \cup {Same} :
          Loads(r, "updateOption", "saveOption", k, [db.options[k] EXCEPT !.on = Over(on, @)],
                NoRows, Asked([on |-> on]), None, {})
    BY <2>1, Known, LoadOptionIs
  <2>3. req'[r].id = k /\ req'[r].row = [db.options[k] EXCEPT !.on = Over(on, @)]
    BY <2>2 DEF Loads, Is
  <2>4. req'[r].row.group = db.options[k].group
    BY <2>3, Known DEF OptionRow
  <2> QED BY <1>3, <2>3, <2>4 DEF Claims
<1>4. CASE req'[r].pc = "saveGroup"
  <2>1. LoadGroup(r)
    BY <1>1, <1>4 DEF Starts
  <2>2. DOMAIN req'[r].held = OptionsOf(req'[r].id)
    BY <2>1, Known, LoadGroupIs DEF Loads, Is
  <2> QED BY <1>4, <2>2 DEF Claims, OptionsOf, Of
<1> QED BY <1>2, <1>3, <1>4 DEF Claims

LEMMA OneGroupInit == Init => OneGroup
BY DEF Init, OneGroup, Belongs, Claims, Idle

LEMMA OneGroupNext == TypeInv /\ OneGroup /\ [Next]_vars => OneGroup'
<1> SUFFICES ASSUME TypeInv, OneGroup, [Next]_vars, NEW o, NEW g, NEW h,
                    Belongs(db', req', o, g), Belongs(db', req', o, h)
             PROVE  g = h
  BY DEF OneGroup
<1>1. ASSUME NEW r \in Requests, Step(r) PROVE g = h
  BY <1>1, StepClaimsNone DEF OneGroup
<1>2. ASSUME NEW r \in Requests, Request(r) PROVE g = h
  <2>1. Moves(r) /\ db' = db
    BY <1>2, RequestStarts DEF Starts
  <2>2. \A x : Belongs(db', req', o, x) => Belongs(db, req, o, x) \/ Claims(req'[r], o, x)
    BY <2>1 DEF Belongs, Moves
  <2>3. CASE o <= ids
    <3>1. \A x : Claims(req'[r], o, x) => Belongs(db, req, o, x)
      BY <1>2, <2>3, BeginClaims DEF Belongs
    <3> QED BY <2>2, <3>1 DEF OneGroup
  <2>4. CASE ~(o <= ids)
    <3>1. \A x : ~Belongs(db, req, o, x)
      BY <2>4, BelongsIsKnown
    <3>2. \A x : Claims(req'[r], o, x) => req'[r].row.group = x
      BY <1>2, <3>1, BeginClaims DEF Belongs
    <3> QED BY <2>2, <3>1, <3>2
  <2> QED BY <2>3, <2>4
<1>3. CASE Direct
  <2>1. db'.options = db.options /\ req' = req
    BY <1>3, DirectIs DEF Creates, Puts, Keeps, TableNames
  <2> QED BY <2>1 DEF OneGroup, Belongs
<1>4. CASE Restart
  BY <1>4, RestartIs DEF OneGroup, Belongs, Claims, Idle
<1>5. CASE UNCHANGED vars
  BY <1>5 DEF vars, OneGroup
<1> QED BY <1>1, <1>2, <1>3, <1>4, <1>5 DEF Next

-----------------------------------------------------------------------------
(* What is gone stays gone: a copy is saved onto its row, or refused. *)

GoneMeetings ==
  {{"updateStore", "removeStore"}, {"updateNote", "removeNote"},
   {"updateNote", "replaceNotes"}, {"updateProduct", "removeStation"},
   {"updateProduct", "removeStore"}, {"updateGroup", "deleteGroup"},
   {"updateGroup", "deleteOption"}, {"updateOption", "deleteOption"}}

\* The row of a copy is there, or its parent has gone.
RowThere(q, d) ==
  /\ q.pc = "saveNote" => q.id \in DOMAIN d.notes \/ q.row.store \notin DOMAIN d.stores
  /\ q.pc \in {"resolve", "saveProduct"} => q.id \in DOMAIN d.products
  /\ q.pc = "saveGroup" =>
       \/ q.id \in DOMAIN d.groups /\ DOMAIN q.held \subseteq DOMAIN d.options
       \/ q.row.store \notin DOMAIN d.stores
  /\ q.pc = "saveOption" =>
       q.id \in DOMAIN d.options \/ q.row.group \notin DOMAIN d.groups

ThereInv ==
  history \cap GoneMeetings = {} => \A r \in Requests : RowThere(req[r], db)

\* A category goes only with its store.
CategoryThere(q, d) ==
  q.pc = "saveCategory" => q.id \in DOMAIN d.categories \/ q.row.store \notin DOMAIN d.stores

CategoryInv ==
  history \cap BackAgain = {} => \A r \in Requests : CategoryThere(req[r], db)

LEMMA Apart ==
  ASSUME Told, history \cap GoneMeetings = {}, NEW r \in Requests, NEW s \in Requests \ {r},
         req[r].pc # "idle", req[s].pc # "idle"
  PROVE  {req[r].op, req[s].op} \notin GoneMeetings
<1>1. GoneMeetings \subseteq Watched
  BY DEF GoneMeetings, Watched
<1> QED BY <1>1, Meet

\* A copy belongs to the store of its row.
LEMMA CopyStore ==
  ASSUME TypeInv, HomeInv, NEW r \in Requests
  PROVE  /\ req[r].pc \in {"saveNote", "saveCategory", "saveGroup"} => req[r].row.store <= ids
         /\ req[r].pc = "saveNote" /\ req[r].id \in DOMAIN db.notes =>
              db.notes[req[r].id].store = req[r].row.store
         /\ req[r].pc = "saveCategory" /\ req[r].id \in DOMAIN db.categories =>
              db.categories[req[r].id].store = req[r].row.store
         /\ req[r].pc = "saveGroup" /\ req[r].id \in DOMAIN db.groups =>
              db.groups[req[r].id].store = req[r].row.store
<1>1. PICK H : HomesOK(H, ids) /\ RowsHome(H, db) /\ CopyHome(H, req[r])
  BY DEF HomeInv, Housed
<1>2. \A t, k, s, o : <<t, k, s>> \in H /\ <<t, k, o>> \in H => s = o
  BY <1>1 DEF HomesOK
<1>3. \A t, k, s : <<t, k, s>> \in H => s <= ids
  BY <1>1 DEF HomesOK
<1>4. /\ req[r].pc = "saveNote" => <<"notes", req[r].id, req[r].row.store>> \in H
      /\ req[r].pc = "saveCategory" => <<"categories", req[r].id, req[r].row.store>> \in H
      /\ req[r].pc = "saveGroup" => <<"groups", req[r].id, req[r].row.store>> \in H
  BY <1>1 DEF CopyHome
<1> QED BY <1>1, <1>2, <1>3, <1>4 DEF RowsHome

\* What others do leaves a copy its row, or takes the parent too.
LEMMA OthersLeaveRow ==
  ASSUME TypeInv, Told, StoreInv, HomeInv, NewAlone, OneGroup, history \cap GoneMeetings = {},
         \A q \in Requests : RowThere(req[q], db),
         NEW r \in Requests, NEW s \in Requests \ {r}, Step(s), req[r].pc # "idle"
  PROVE  RowThere(req[r], db')
<1> DEFINE q == req[r]
<1>0. /\ req[s].pc # "idle" /\ {q.op, req[s].op} \notin GoneMeetings
      /\ OpOK(q) /\ OpOK(req[s]) /\ RowThere(q, db)
  BY StepLeaves, Apart DEF Leaves, Told
<1>1. \A k \in DOMAIN db'.stores : k \in DOMAIN db.stores \/ ~(k <= ids)
  <2>1. history \cap BackAgain = {}
    BY DEF BackAgain, GoneMeetings
  <2> QED BY <2>1, NoStoreReturns DEF Next
<1>2. CASE q.pc = "saveNote"
  <2>1. q.op = "updateNote" /\ q.row.store <= ids
    BY <1>0, <1>2, CopyStore DEF OpOK
  <2>2. req[s].op \notin {"removeNote", "replaceNotes"}
    BY <1>0, <2>1 DEF GoneMeetings
  <2>3. req[s].pc \notin {"deleteNote", "clearNotes"}
    BY <1>0, <2>2 DEF OpOK
  <2>4. CASE q.row.store \notin DOMAIN db.stores
    BY <1>1, <1>2, <2>1, <2>4 DEF RowThere
  <2>5. CASE q.id \in DOMAIN db.notes
    <3>1. db.notes[q.id].store = q.row.store
      BY <1>2, <2>5, CopyStore
    <3>2. CASE req[s].pc = "deleteStore" /\ db'.notes # db.notes
      <4>1. /\ DOMAIN db'.notes = DOMAIN db.notes \ NotesOf(req[s].id)
            /\ DOMAIN db'.stores = DOMAIN db.stores \ {req[s].id}
        BY <3>2, NotesChange DEF TakesNotes
      <4> QED BY <1>2, <2>5, <3>1, <4>1 DEF NotesOf, Of, RowThere
    <3>3. CASE ~(req[s].pc = "deleteStore" /\ db'.notes # db.notes)
      <4>1. q.id \in DOMAIN db'.notes
        BY <2>3, <2>5, <3>3, NotesChange DEF PutsNote, PutsList
      <4> QED BY <1>2, <4>1 DEF RowThere
    <3> QED BY <3>2, <3>3
  <2> QED BY <1>0, <1>2, <2>4, <2>5 DEF RowThere
<1>3. CASE q.pc \in {"resolve", "saveProduct"}
  <2>1. q.op = "updateProduct" /\ q.id \in DOMAIN db.products
    BY <1>0, <1>3 DEF OpOK, RowThere
  <2>2. req[s].op \notin {"removeStation", "removeStore"}
    BY <1>0, <2>1 DEF GoneMeetings
  <2>3. req[s].pc \notin {"deleteStation", "deleteStore"}
    BY <1>0, <2>2 DEF OpOK
  <2>4. ~DeleteStation(s) /\ ~DeleteStore(s)
    BY <2>3, DeleteStationIs, DeleteStoreIs
  <2>5. q.id \in DOMAIN db'.products
    BY <2>1, <2>4, StepLeaves, InsertProductIs, SaveProductIs, MarkProductIs DEF Writers, Puts
  <2> QED BY <1>3, <2>5 DEF RowThere
<1>4. CASE q.pc = "saveGroup"
  <2>1. q.op = "updateGroup" /\ q.row.store <= ids
    BY <1>0, <1>4, CopyStore DEF OpOK
  <2>2. req[s].op \notin {"deleteGroup", "deleteOption"}
    BY <1>0, <2>1 DEF GoneMeetings
  <2>3. ~DeleteGroup(s) /\ ~DeleteOption(s)
    BY <1>0, <2>2, DeleteGroupIs, DeleteOptionIs DEF OpOK
  <2>4. CASE q.row.store \notin DOMAIN db.stores
    BY <1>1, <1>4, <2>1, <2>4 DEF RowThere
  <2>5. CASE q.id \in DOMAIN db.groups /\ DOMAIN q.held \subseteq DOMAIN db.options
    <3>1. db.groups[q.id].store = q.row.store
      BY <1>4, <2>5, CopyStore
    <3>2. CASE DeleteStore(s)
      <4>1. db' = db \/ StoreGone(req[s].id, db')
        BY <3>2, DeleteStoreIs
      <4>2. ASSUME NEW o \in DOMAIN q.held PROVE db.options[o].group = q.id
        <5>1. Belongs(db, req, o, q.id) /\ Belongs(db, req, o, db.options[o].group)
          BY <1>4, <2>5, <4>2 DEF Belongs, Claims
        <5> QED BY <5>1 DEF OneGroup
      <4> QED BY <1>0, <1>4, <2>5, <3>1, <4>1, <4>2 DEF StoreGone, RowThere
    <3>3. CASE ~DeleteStore(s)
      <4>1. q.id \in DOMAIN db'.groups
        BY <2>3, <2>5, <3>3, StepLeaves, InsertGroupIs, SaveGroupIs DEF Writers, Puts
      <4>2. DOMAIN q.held \subseteq DOMAIN db'.options
        BY <2>3, <2>5, <3>3, StepLeaves, SaveOptionIs, SaveGroupIs DEF Writers, Puts
      <4> QED BY <1>4, <4>1, <4>2 DEF RowThere
    <3> QED BY <3>2, <3>3
  <2> QED BY <1>0, <1>4, <2>4, <2>5 DEF RowThere
<1>5. CASE q.pc = "saveOption"
  <2>1. q.op = "updateOption"
    BY <1>0, <1>5 DEF OpOK
  <2>2. req[s].op # "deleteOption"
    BY <1>0, <2>1 DEF GoneMeetings
  <2>3. ~DeleteOption(s)
    BY <1>0, <2>2, DeleteOptionIs DEF OpOK
  <2>4. CASE q.row.group \notin DOMAIN db.groups
    <3>1. q.row.group \in About(q)
      BY <1>5 DEF About
    <3>2. q.row.group \notin DOMAIN db'.groups
      <4>1. CASE InsertGroup(s)
        BY <2>4, <3>1, <4>1, InsertGroupIs DEF NewAlone, Puts
      <4>2. CASE SaveGroup(s)
        <5>1. req[s].pc = "saveGroup"
          BY <4>2, SaveGroupIs
        <5> QED BY <2>4, <4>2, <5>1, SaveGroupIs DEF RowThere
      <4>3. CASE DeleteGroup(s)
        BY <2>4, <4>3, DeleteGroupIs DEF GroupGone
      <4>4. CASE DeleteStore(s)
        BY <2>4, <4>4, DeleteStoreIs DEF StoreGone
      <4>5. CASE db'.groups = db.groups
        BY <2>4, <4>5
      <4> QED BY <4>1, <4>2, <4>3, <4>4, <4>5, StepLeaves DEF Writers
    <3> QED BY <1>5, <3>2 DEF RowThere
  <2>5. CASE q.id \in DOMAIN db.options
    <3>1. db.options[q.id].group = q.row.group
      <4>1. /\ Belongs(db, req, q.id, q.row.group)
            /\ Belongs(db, req, q.id, db.options[q.id].group)
        BY <1>5, <2>5 DEF Belongs, Claims
      <4> QED BY <4>1 DEF OneGroup
    <3>2. CASE DeleteStore(s)
      BY <1>0, <1>5, <2>5, <3>1, <3>2, DeleteStoreIs DEF StoreGone, RowThere
    <3>3. CASE DeleteGroup(s)
      BY <1>0, <1>5, <2>5, <3>1, <3>3, DeleteGroupIs DEF GroupGone, RowThere
    <3>4. CASE ~DeleteStore(s) /\ ~DeleteGroup(s)
      <4>1. q.id \in DOMAIN db'.options
        BY <2>3, <2>5, <3>4, StepLeaves, SaveOptionIs, SaveGroupIs DEF Writers, Puts
      <4> QED BY <1>5, <4>1 DEF RowThere
    <3> QED BY <3>2, <3>3, <3>4
  <2> QED BY <1>0, <1>5, <2>4, <2>5 DEF RowThere
<1> QED BY <1>2, <1>3, <1>4, <1>5 DEF RowThere

\* A handler that begins has found its row.
LEMMA BeginsWithRow ==
  ASSUME TypeInv, NEW r \in Requests, Request(r)
  PROVE  RowThere(req'[r], db)
<1>1. Starts(r)
  BY RequestStarts
<1>2. CASE req'[r].pc = "saveNote"
  BY <1>1, <1>2, SavedInStore DEF RowThere
<1>3. CASE req'[r].pc = "resolve"
  <2>1. LoadProduct(r)
    BY <1>1, <1>3 DEF Starts
  <2>2. req'[r].id \in DOMAIN db.products
    BY <2>1, Known, LoadProductIs DEF Loads, Is
  <2> QED BY <1>3, <2>2 DEF RowThere
<1>4. CASE req'[r].pc = "saveGroup"
  <2>1. LoadGroup(r)
    BY <1>1, <1>4 DEF Starts
  <2>2. req'[r].id \in DOMAIN db.groups /\ DOMAIN req'[r].held = OptionsOf(req'[r].id)
    BY <2>1, Known, LoadGroupIs DEF Loads, Is
  <2> QED BY <1>4, <2>2 DEF RowThere, OptionsOf, Of
<1>5. CASE req'[r].pc = "saveOption"
  <2>1. LoadOption(r)
    BY <1>1, <1>5 DEF Starts
  <2>2. req'[r].id \in DOMAIN db.options
    BY <2>1, Known, LoadOptionIs DEF Loads, Is
  <2> QED BY <1>5, <2>2 DEF RowThere
<1> QED BY <1>1, <1>2, <1>3, <1>4, <1>5 DEF RowThere, Starts

LEMMA ThereInit == Init => ThereInv
BY DEF Init, ThereInv, RowThere, Idle

LEMMA ThereNext ==
  TypeInv /\ Told /\ StoreInv /\ HomeInv /\ NewAlone /\ OneGroup /\ ThereInv /\ [Next]_vars
    => ThereInv'
<1> SUFFICES ASSUME TypeInv, Told, StoreInv, HomeInv, NewAlone, OneGroup, ThereInv, [Next]_vars,
                    history' \cap GoneMeetings = {}, NEW t \in Requests
             PROVE  RowThere(req'[t], db')
  BY DEF ThereInv
<1>0. history \cap GoneMeetings = {} /\ \A q \in Requests : RowThere(req[q], db)
  BY HistoryGrows DEF ThereInv
<1>1. ASSUME NEW r \in Requests, Step(r) PROVE RowThere(req'[t], db')
  <2>1. Moves(r)
    BY <1>1, StepLeaves DEF Leaves
  <2>2. CASE t # r /\ req[t].pc # "idle"
    <3>1. req'[t] = req[t] /\ r \in Requests \ {t}
      BY <2>1, <2>2 DEF Moves
    <3>2. RowThere(req[t], db')
      BY <1>0, <1>1, <2>2, <3>1, OthersLeaveRow
    <3> QED BY <3>1, <3>2
  <2>3. CASE t # r /\ req[t].pc = "idle"
    BY <2>1, <2>3 DEF Moves, RowThere
  <2>4. CASE t = r /\ ResolveRelations(r)
    BY <1>0, <2>4, ResolveRelationsIs DEF GoesOn, Is, Ends, Idle, RowThere
  <2>5. CASE t = r /\ ~ResolveRelations(r)
    BY <1>1, <2>5, StepLeaves DEF Leaves, Idle, GoesOn, Is, RowThere
  <2> QED BY <2>2, <2>3, <2>4, <2>5
<1>2. ASSUME NEW r \in Requests, Request(r) PROVE RowThere(req'[t], db')
  <2>1. Moves(r) /\ db' = db
    BY <1>2, RequestStarts DEF Starts
  <2> QED BY <1>0, <1>2, <2>1, BeginsWithRow DEF Moves
<1>3. CASE Direct
  <2>1. req' = req /\ \A k \in DOMAIN db'.stores : k \in DOMAIN db.stores \/ k = ids + 1
    BY <1>3, DirectStores
  <2>2. /\ DOMAIN db.notes \subseteq DOMAIN db'.notes
        /\ DOMAIN db.products \subseteq DOMAIN db'.products
        /\ db'.groups = db.groups /\ db'.options = db.options
    BY <1>3, DirectIs DEF Creates, Puts, Keeps, TableNames
  <2>3. req[t].pc \in {"saveNote", "saveGroup"} => req[t].row.store # ids + 1
    BY Known, CopyStore
  <2> QED BY <1>0, <2>1, <2>2, <2>3 DEF RowThere
<1>4. CASE Restart
  BY <1>4, RestartIs DEF RowThere, Idle
<1>5. CASE UNCHANGED vars
  BY <1>0, <1>5 DEF vars
<1> QED BY <1>1, <1>2, <1>3, <1>4, <1>5 DEF Next

LEMMA CategoryInit == Init => CategoryInv
BY DEF Init, CategoryInv, CategoryThere, Idle

LEMMA CategoryNext ==
  TypeInv /\ StoreInv /\ HomeInv /\ CategoryInv /\ [Next]_vars => CategoryInv'
<1> SUFFICES ASSUME TypeInv, StoreInv, HomeInv, CategoryInv, [Next]_vars,
                    history' \cap BackAgain = {}, NEW t \in Requests
             PROVE  CategoryThere(req'[t], db')
  BY DEF CategoryInv
<1>0. CategoryThere(req[t], db) /\ history \cap BackAgain = {}
  BY HistoryGrows DEF CategoryInv
<1>1. \A k \in DOMAIN db'.stores : k \in DOMAIN db.stores \/ ~(k <= ids)
  BY <1>0, NoStoreReturns
<1>2. ASSUME req'[t] = req[t], DOMAIN db.categories \subseteq DOMAIN db'.categories
      PROVE  CategoryThere(req'[t], db')
  BY <1>0, <1>1, <1>2, CopyStore DEF CategoryThere
<1>3. ASSUME NEW r \in Requests, Step(r) PROVE CategoryThere(req'[t], db')
  <2>1. Moves(r) /\ req'[r].pc # "saveCategory"
    BY <1>3, StepLeaves DEF Leaves, Idle, GoesOn, Is
  <2>2. CASE t = r
    BY <2>1, <2>2 DEF CategoryThere
  <2>3. CASE t # r /\ DeleteStore(r) /\ db' # db
    <3>1. req'[t] = req[t] /\ StoreGone(req[r].id, db')
      BY <2>1, <2>3, DeleteStoreIs DEF Moves
    <3>2. CASE t # r /\ req[t].pc = "saveCategory" /\ req[t].id \in DOMAIN db.categories
      <4>1. db.categories[req[t].id].store = req[t].row.store
        BY <3>2, CopyStore
      <4> QED BY <3>1, <3>2, <4>1 DEF StoreGone, CategoryThere
    <3> QED BY <1>0, <3>1, <3>2, <2>3 DEF StoreGone, CategoryThere
  <2>4. CASE t # r /\ ~(DeleteStore(r) /\ db' # db)
    <3>1. DOMAIN db.categories \subseteq DOMAIN db'.categories
      BY <1>3, <2>4, StepLeaves, SaveCategoryIs DEF Writers, Puts
    <3> QED BY <1>2, <2>1, <2>4, <3>1 DEF Moves
  <2> QED BY <2>2, <2>3, <2>4
<1>4. ASSUME NEW r \in Requests, Request(r) PROVE CategoryThere(req'[t], db')
  <2>1. Starts(r) /\ Moves(r) /\ db' = db
    BY <1>4, RequestStarts DEF Starts
  <2>2. ASSUME t = r, req'[r].pc = "saveCategory" PROVE req'[r].id \in DOMAIN db.categories
    <3>1. LoadCategory(r) \/ LoadForRemoveCategory(r)
      BY <2>1, <2>2 DEF Starts
    <3> QED BY <3>1, Known, LoadCategoryIs, LoadForRemoveCategoryIs DEF Loads, Is
  <2> QED BY <1>0, <2>1, <2>2 DEF Moves, CategoryThere
<1>5. CASE Direct
  <2>1. req' = req /\ DOMAIN db.categories \subseteq DOMAIN db'.categories
    BY <1>5, DirectIs DEF Creates, Puts, Keeps, TableNames
  <2> QED BY <1>2, <2>1
<1>6. CASE Restart
  BY <1>6, RestartIs DEF CategoryThere, Idle
<1>7. CASE UNCHANGED vars
  BY <1>0, <1>7 DEF vars
<1> QED BY <1>3, <1>4, <1>5, <1>6, <1>7 DEF Next

RowsReturnNot ==
  \A t \in Copied : \A k \in DOMAIN db'[t] \ DOMAIN db[t] :
    \/ k > ids \/ \E r \in Requests : k \in req[r].new
    \/ Happened(GoneMeetings)

LEMMA StepReturnsNone ==
  ASSUME TypeInv, StoreInv, ThereInv, CategoryInv, NEW r \in Requests, Step(r), history \cap GoneMeetings = {}
  PROVE  \A t \in Copied : \A k \in DOMAIN db'[t] \ DOMAIN db[t] : k \in req[r].new
<1>0. RowThere(req[r], db)
  BY DEF ThereInv
<1> history \cap BackAgain = {} /\ CategoryThere(req[r], db)
  BY DEF BackAgain, GoneMeetings, CategoryInv
<1>1. ASSUME NEW k \in DOMAIN db'.stores \ DOMAIN db.stores PROVE k \in req[r].new
  BY <1>1, StoresChange DEF StoreInv, UpdatedIsThere
<1>2. ASSUME NEW k \in DOMAIN db'.notes \ DOMAIN db.notes PROVE k \in req[r].new
  BY <1>0, <1>2, NotesChange DEF PutsNote, PutsList, TakesNotes, RowThere
<1>3. ASSUME NEW k \in DOMAIN db'.categories \ DOMAIN db.categories PROVE k \in req[r].new
  BY <1>3, StepLeaves, SaveCategoryIs, DeleteStoreIs DEF Writers, Puts, StoreGone, CategoryThere
<1>4. ASSUME NEW k \in DOMAIN db'.products \ DOMAIN db.products PROVE k \in req[r].new
  <2>1. CASE SaveProduct(r)
    BY <1>0, <1>4, <2>1, SaveProductIs DEF Puts, RowThere
  <2>2. CASE InsertProduct(r)
    BY <1>4, <2>2, InsertProductIs DEF Puts
  <2>3. CASE ~SaveProduct(r) /\ ~InsertProduct(r)
    BY <1>4, <2>3, StepLeaves, MarkProductIs, DeleteStoreIs, DeleteStationIs
       DEF Writers, Puts, StoreGone, StationGone
  <2> QED BY <2>1, <2>2, <2>3
<1>5. ASSUME NEW k \in DOMAIN db'.groups \ DOMAIN db.groups PROVE k \in req[r].new
  <2>1. CASE SaveGroup(r)
    BY <1>0, <1>5, <2>1, SaveGroupIs DEF RowThere
  <2>2. CASE ~SaveGroup(r)
    BY <1>5, <2>2, StepLeaves, InsertGroupIs, DeleteGroupIs, DeleteStoreIs
       DEF Writers, Puts, StoreGone, GroupGone
  <2> QED BY <2>1, <2>2
<1>6. ASSUME NEW k \in DOMAIN db'.options \ DOMAIN db.options PROVE k \in req[r].new
  <2>1. CASE SaveGroup(r)
    BY <1>0, <1>6, <2>1, SaveGroupIs DEF RowThere
  <2>2. CASE SaveOption(r)
    BY <1>0, <1>6, <2>2, SaveOptionIs DEF RowThere, Puts
  <2>3. CASE ~SaveGroup(r) /\ ~SaveOption(r)
    BY <1>6, <2>3, StepLeaves, DeleteOptionIs, DeleteGroupIs, DeleteStoreIs
       DEF Writers, Drops, StoreGone, GroupGone
  <2> QED BY <2>1, <2>2, <2>3
<1> QED BY <1>1, <1>2, <1>3, <1>4, <1>5, <1>6 DEF Copied

LEMMA GoneStep ==
  ASSUME TypeInv, StoreInv, ThereInv, CategoryInv, [Next]_vars
  PROVE  RowsReturnNot
<1> SUFFICES ASSUME NEW t \in Copied, NEW k \in DOMAIN db'[t] \ DOMAIN db[t],
                    history \cap GoneMeetings = {}
             PROVE  k > ids \/ \E r \in Requests : k \in req[r].new
  BY DEF RowsReturnNot, Happened
<1>1. ASSUME NEW r \in Requests, Step(r) PROVE k \in req[r].new
  BY <1>1, StepReturnsNone
<1>2. ASSUME NEW r \in Requests, Request(r) PROVE FALSE
  BY <1>2, RequestStarts DEF Starts
<1>3. CASE Direct
  <2>1. k = ids + 1
    BY <1>3, DirectIs DEF Creates, Puts, Keeps, TableNames, Copied
  <2> QED BY <2>1, Known
<1>4. CASE Restart \/ UNCHANGED vars
  BY <1>4, RestartIs DEF vars
<1> QED BY <1>1, <1>2, <1>3, <1>4 DEF Next

\* A row that was deleted does not come back: what a handler has loaded and
\* saves back is there, or the save is refused for want of its parent, unless
\* the update and the deletion overlap.
THEOREM DeletedStaysDeleted == Spec => GoneForGood
<1>1. TypeInv /\ StoreInv /\ ThereInv /\ CategoryInv /\ [Next]_vars => [RowsReturnNot]_vars
  BY GoneStep
<1> QED BY <1>1, TypeInvInit, TypeInvNext, ToldInit, ToldNext, StoreInit, StoreNext,
           HomeInit, HomeNext, NewInit, NewNext, OneGroupInit, OneGroupNext,
           ThereInit, ThereNext, CategoryInit, CategoryNext,
           PTL DEF Spec, GoneForGood, RowsReturnNot, GoneMeetings

-----------------------------------------------------------------------------
(* What is saved: a copy is the row as it is, but for what the body asks. *)

AskedMeetings ==
  {{"updateNote"}, {"updateCategory"}, {"updateCategory", "removeCategory"},
   {"updateProduct"}, {"updateProduct", "removeProduct"},
   {"updateGroup"}, {"updateGroup", "updateOption"}, {"updateOption"},
   {"updateStore", "removeStore"}}

\* The columns a handler writes by the nature of its request.
AskedOK(q) ==
  /\ q.pc = "writePin" => "pin" \in q.asked
  /\ q.pc \in {"checkPin", "saveStore"} => "settings" \in q.asked
  /\ q.pc = "saveCategory" /\ q.op = "removeCategory" => q.asked = {"active"}
  /\ q.pc \in {"resolve", "saveProduct"} => q.row.deleted = FALSE
  /\ q.pc = "markProduct" =>
       "deleted" \in q.asked /\ (q.op = "restoreProduct" => q.row.deleted = FALSE)

AskedInv == \A r \in Requests : AskedOK(req[r])

LEMMA AskedInit == Init => AskedInv
BY DEF Init, AskedInv, AskedOK, Idle

LEMMA AskedNext == TypeInv /\ Told /\ AskedInv /\ [Next]_vars => AskedInv'
<1> SUFFICES ASSUME TypeInv, Told, AskedInv, [Next]_vars, NEW t \in Requests
             PROVE  AskedOK(req'[t])
  BY DEF AskedInv
<1>0. AskedOK(req[t])
  BY DEF AskedInv
<1>1. ASSUME NEW r \in Requests, Step(r) PROVE AskedOK(req'[t])
  <2>1. Leaves(r) /\ Moves(r)
    BY <1>1, StepLeaves DEF Leaves
  <2>2. CASE t # r
    BY <1>0, <2>1, <2>2 DEF Moves
  <2>3. CASE t = r
    <3>1. CASE req'[r] = Idle
      BY <2>3, <3>1 DEF AskedOK, Idle
    <3>2. CASE CheckPin(r) /\ GoesOn(r, "saveStore")
      BY <1>0, <2>3, <3>2, CheckPinIs DEF GoesOn, Is, AskedOK
    <3>3. CASE ResolveRelations(r) /\ GoesOn(r, "saveProduct")
      BY <1>0, <2>3, <3>3, ResolveRelationsIs DEF GoesOn, Is, AskedOK
    <3>4. ASSUME NEW stage \in {"deleteNote", "insertNotes", "reload", "dropImage"},
                 GoesOn(r, stage)
          PROVE  AskedOK(req'[t])
      BY <2>3, <3>4 DEF GoesOn, Is, AskedOK
    <3> QED BY <2>1, <3>1, <3>2, <3>3, <3>4 DEF Leaves
  <2> QED BY <2>2, <2>3
<1>2. ASSUME NEW r \in Requests, Request(r) PROVE AskedOK(req'[t])
  <2>1. Starts(r) /\ Moves(r)
    BY <1>2, RequestStarts DEF Starts
  <2>2. CASE t # r
    BY <1>0, <2>1, <2>2 DEF Moves
  <2>3. CASE req'[r].pc = "writePin"
    <3>1. LoadForSetPin(r) \/ LoadForUpdatePin(r)
      BY <2>1, <2>3 DEF Starts
    <3>2. req'[r].asked = {"pin"}
      BY <3>1, Known, LoadForSetPinIs, LoadForUpdatePinIs DEF Loads, Is
    <3> QED BY <2>2, <2>3, <3>2 DEF AskedOK
  <2>4. CASE req'[r].pc = "checkPin"
    <3>1. LoadForStoreUpdate(r)
      BY <2>1, <2>4 DEF Starts
    <3>2. req'[r].asked = {"settings"}
      BY <3>1, Known, LoadForStoreUpdateIs DEF Loads, Is
    <3> QED BY <2>2, <2>4, <3>2 DEF AskedOK
  <2>5. CASE req'[r].pc = "saveCategory"
    <3>1. LoadCategory(r) \/ LoadForRemoveCategory(r)
      BY <2>1, <2>5 DEF Starts
    <3>2. LoadCategory(r) => req'[r].op = "updateCategory"
      BY Known, LoadCategoryIs DEF Loads, Is
    <3>3. LoadForRemoveCategory(r) => req'[r].asked = {"active"}
      BY Known, LoadForRemoveCategoryIs DEF Loads, Is
    <3> QED BY <2>2, <2>5, <3>1, <3>2, <3>3 DEF AskedOK
  <2>6. CASE req'[r].pc = "resolve"
    <3>1. LoadProduct(r)
      BY <2>1, <2>6 DEF Starts
    <3>2. PICK p \in DOMAIN db.products, patch \in ProductPatches :
            ~db.products[p].deleted /\ req'[r].row = Assign(db.products[p], patch)
      BY <3>1, Known, LoadProductIs DEF Loads, Is
    <3>3. db.products[p] \in ProductRow /\ patch \in ProductPatch
      BY Known, ProductCatalogAssumption
    <3>4. Assign(db.products[p], patch).deleted = db.products[p].deleted
      BY <3>3 DEF Assign, ProductRow, ProductPatch
    <3>5. req'[r].row.deleted = FALSE
      BY <3>2, <3>3, <3>4 DEF ProductRow
    <3> QED BY <2>2, <2>6, <3>5 DEF AskedOK
  <2>7. CASE req'[r].pc = "markProduct"
    <3>1. LoadForRemoveProduct(r) \/ LoadForRestoreProduct(r)
      BY <2>1, <2>7 DEF Starts
    <3>2. LoadForRemoveProduct(r) => req'[r].op = "removeProduct" /\ req'[r].asked = {"deleted"}
      BY Known, LoadForRemoveProductIs DEF Loads, Is
    <3>3. LoadForRestoreProduct(r) => req'[r].row.deleted = FALSE /\ req'[r].asked = {"deleted"}
      BY Known, LoadForRestoreProductIs DEF Loads, Is
    <3> QED BY <2>2, <2>7, <3>1, <3>2, <3>3 DEF AskedOK
  <2> QED BY <2>1, <2>2, <2>3, <2>4, <2>5, <2>6, <2>7 DEF AskedOK, Starts
<1>3. CASE Direct
  BY <1>0, <1>3, DirectFine
<1>4. CASE Restart
  BY <1>4, RestartIs DEF AskedOK, Idle
<1>5. CASE UNCHANGED vars
  BY <1>0, <1>5 DEF vars
<1> QED BY <1>1, <1>2, <1>3, <1>4, <1>5 DEF Next

\* A copy has the columns of its row, but for those its body sets.
AsBefore(q, rows) ==
  q.id \in DOMAIN rows => \A c \in DOMAIN rows[q.id] \ q.asked : q.row[c] = rows[q.id][c]

\* The copy's category is gone, and the product has been released from it.
Released(q, d, n) ==
  /\ q.row.category \notin DOMAIN d.categories \cup {None} /\ q.row.category <= n
  /\ d.products[q.id].category = None

ProductAsBefore(q, d, n) ==
  q.id \in DOMAIN d.products =>
    \A c \in DOMAIN d.products[q.id] \ q.asked :
      \/ q.row[c] = d.products[q.id][c]
      \/ c = "category" /\ Released(q, d, n)

CopyOK(q, d, n) ==
  /\ q.pc = "saveNote" => AsBefore(q, d.notes)
  /\ q.pc = "saveCategory" => AsBefore(q, d.categories)
  /\ q.pc \in {"resolve", "saveProduct"} => ProductAsBefore(q, d, n)
  /\ q.pc = "saveGroup" =>
       /\ AsBefore(q, d.groups)
       /\ \A o \in DOMAIN q.held : o \in DOMAIN d.options => q.held[o] = d.options[o]
  /\ q.pc = "saveOption" => AsBefore(q, d.options)

\* Two copies of one category differ in what was asked only.
Agree(p, q) ==
  p.pc = "saveCategory" /\ q.pc = "saveCategory" /\ p.id = q.id =>
    \A c \in DOMAIN q.row \ p.asked : p.row[c] = q.row[c]

CopyInv ==
  history \cap AskedMeetings = {} =>
    /\ \A r \in Requests : CopyOK(req[r], db, ids)
    /\ \A r \in Requests : \A s \in Requests \ {r} : Agree(req[r], req[s])

LEMMA ApartAsked ==
  ASSUME Told, history \cap AskedMeetings = {}, NEW r \in Requests, NEW s \in Requests \ {r},
         req[r].pc # "idle", req[s].pc # "idle"
  PROVE  {req[r].op, req[s].op} \notin AskedMeetings
<1>1. AskedMeetings \subseteq Watched
  BY DEF AskedMeetings, Watched
<1> QED BY <1>1, Meet

\* What others do leaves a copy as its row is.
LEMMA OthersLeaveCopy ==
  ASSUME TypeInv, Told, CategoryInv, NewAlone, AskedInv, history \cap AskedMeetings = {},
         NEW r \in Requests, NEW s \in Requests \ {r}, Step(s), req[r].pc # "idle",
         CopyOK(req[r], db, ids), Agree(req[r], req[s])
  PROVE  CopyOK(req[r], db', ids)
<1> DEFINE q == req[r]
<1>0. /\ req[s].pc # "idle" /\ {q.op, req[s].op} \notin AskedMeetings
      /\ OpOK(q) /\ OpOK(req[s]) /\ CopyOK(q, db, ids)
  BY StepLeaves, ApartAsked DEF Leaves, Told
<1>1. q.id \notin req[s].new /\ \A o \in DOMAIN q.held : o \notin req[s].new
  BY DEF NewAlone, About
<1>7. \A k \in DOMAIN db.categories : k # None /\ k <= ids
  BY Known, ShopTablesAssumption
<1>8. ASSUME ~SaveGroup(s), req[s].pc # "saveOption", NEW o \in DOMAIN db'.options,
             o \notin req[s].new
      PROVE  o \in DOMAIN db.options /\ db'.options[o] = db.options[o]
  <2>1. CASE SaveOption(s) /\ db' # db
    <3>1. PICK k \in Ids : /\ Puts(db, db', "options", k, req[s].row)
                          /\ req[s].new = {k}
      BY <1>8, <2>1, SaveOptionIs
    <3> QED BY <1>8, <3>1 DEF Puts
  <2>2. CASE DeleteOption(s)
    BY <1>8, <2>2, DeleteOptionIs DEF Drops
  <2>3. CASE DeleteGroup(s)
    BY <1>8, <2>3, DeleteGroupIs DEF GroupGone
  <2>4. CASE DeleteStore(s)
    BY <1>8, <2>4, DeleteStoreIs DEF StoreGone
  <2>5. CASE db'.options = db.options
    BY <1>8, <2>5
  <2> QED BY <1>8, <2>1, <2>2, <2>3, <2>4, <2>5, StepLeaves DEF Writers
<1>2. CASE q.pc = "saveNote"
  <2>1. q.op = "updateNote"
    BY <1>0, <1>2 DEF OpOK
  <2>2. req[s].op # "updateNote"
    BY <1>0, <2>1 DEF AskedMeetings
  <2>3. req[s].pc # "saveNote"
    BY <1>0, <2>2 DEF OpOK
  <2>4. q.id \in DOMAIN db'.notes => q.id \in DOMAIN db.notes /\ db'.notes[q.id] = db.notes[q.id]
    BY <1>1, <2>3, NotesChange DEF PutsNote, PutsList, TakesNotes
  <2> QED BY <1>0, <1>2, <2>4 DEF CopyOK, AsBefore
<1>3. CASE q.pc = "saveCategory"
  <2>1. CASE SaveCategory(s) /\ db' # db
    <3>1. req[s].pc = "saveCategory" /\ Puts(db, db', "categories", req[s].id, req[s].row)
      BY <2>1, SaveCategoryIs
    <3>2. CASE q.id = req[s].id
      <4>1. db'.categories[q.id] = req[s].row
        BY <3>1, <3>2 DEF Puts
      <4> QED BY <1>3, <3>1, <3>2, <4>1 DEF Agree, CopyOK, AsBefore
    <3>3. CASE q.id # req[s].id
      BY <1>0, <1>3, <3>1, <3>3 DEF Puts, CopyOK, AsBefore
    <3> QED BY <3>2, <3>3
  <2>2. CASE ~(SaveCategory(s) /\ db' # db)
    <3>1. q.id \in DOMAIN db'.categories =>
            q.id \in DOMAIN db.categories /\ db'.categories[q.id] = db.categories[q.id]
      BY <2>2, StepLeaves, DeleteStoreIs DEF Writers, StoreGone
    <3> QED BY <1>0, <1>3, <3>1 DEF CopyOK, AsBefore
  <2> QED BY <2>1, <2>2
<1>4. CASE q.pc \in {"resolve", "saveProduct"}
  <2> DEFINE old == db.products[q.id]
             row == db'.products[q.id]
  <2>1. q.op = "updateProduct" /\ ProductAsBefore(q, db, ids)
    BY <1>0, <1>4 DEF OpOK, CopyOK
  <2>2. req[s].op \notin {"updateProduct", "removeProduct"}
    BY <1>0, <2>1 DEF AskedMeetings
  <2>3. ~SaveProduct(s)
    BY <1>0, <2>2, SaveProductIs DEF OpOK
  <2> SUFFICES ASSUME q.id \in DOMAIN db'.products PROVE ProductAsBefore(q, db', ids)
    BY <1>4 DEF CopyOK, ProductAsBefore
  <2>4. ASSUME Released(q, db, ids), q.id \in DOMAIN db.products, row.category = old.category
        PROVE  Released(q, db', ids)
    <3>1. q.row.category \notin DOMAIN db'.categories
      <4>1. CASE SaveCategory(s)
        <5>1. CategoryThere(req[s], db)
          BY DEF CategoryInv, BackAgain, AskedMeetings
        <5> QED BY <2>4, <4>1, <5>1, SaveCategoryIs DEF Puts, CategoryThere, Released
      <4>2. CASE ~SaveCategory(s)
        BY <2>4, <4>2, StepLeaves, DeleteStoreIs DEF Writers, StoreGone, Released
      <4> QED BY <4>1, <4>2
    <3> QED BY <2>4, <3>1 DEF Released
  <2>5. ASSUME q.id \in DOMAIN db.products, row = old PROVE ProductAsBefore(q, db', ids)
    BY <2>1, <2>4, <2>5 DEF ProductAsBefore
  <2>6. CASE DeleteStore(s) /\ db' # db
    <3>1. StoreGone(req[s].id, db')
      BY <2>6, DeleteStoreIs
    <3>2. q.id \in DOMAIN db.products /\ old \in ProductRow
      BY <3>1, Known DEF StoreGone
    <3>3. CASE row = old
      BY <2>5, <3>2, <3>3
    <3>4. CASE row # old
      <4>1. /\ old.category \in DOMAIN db.categories \ DOMAIN db'.categories
            /\ row = [old EXCEPT !.category = None]
        BY <3>1, <3>4 DEF StoreGone
      <4>2. row.category = None /\ DOMAIN row = DOMAIN old
        BY <3>2, <4>1 DEF ProductRow
      <4>3. \A c \in DOMAIN old : c # "category" => row[c] = old[c]
        BY <4>1
      <4>4. ASSUME "category" \notin q.asked PROVE Released(q, db', ids)
        <5>1. q.row.category = old.category
          <6>1. old.category # None
            BY <1>7, <4>1
          <6>2. "category" \in DOMAIN old
            BY <3>2 DEF ProductRow
          <6>3. q.row["category"] = old["category"]
            BY <2>1, <3>2, <4>4, <6>1, <6>2 DEF ProductAsBefore, Released
          <6> QED BY <6>3
        <5>2. old.category # None /\ old.category <= ids
          BY <1>7, <4>1
        <5> QED BY <4>1, <4>2, <5>1, <5>2 DEF Released
      <4> QED BY <2>1, <3>2, <4>2, <4>3, <4>4 DEF ProductAsBefore
    <3> QED BY <3>3, <3>4
  <2>7. CASE MarkProduct(s) /\ db' # db
    <3>1. PICK k : k = req[s].id
      OBVIOUS
    <3>2. PICK new : new = [db.products[k] EXCEPT !.deleted = req[s].row.deleted]
      OBVIOUS
    <3>3. /\ req[s].pc = "markProduct" /\ k \in DOMAIN db.products
          /\ Puts(db, db', "products", k, new)
      BY <2>7, <3>1, <3>2, MarkProductIs
    <3>4. CASE q.id # k
      BY <2>5, <3>3, <3>4 DEF Puts
    <3>5. CASE q.id = k
      <4>1. req[s].op = "restoreProduct"
        BY <1>0, <2>2, <3>3 DEF OpOK
      <4>2. req[s].row.deleted = FALSE /\ q.row.deleted = FALSE
        BY <1>4, <3>3, <4>1 DEF AskedInv, AskedOK
      <4>3. row = new /\ old \in ProductRow /\ q.id \in DOMAIN db.products
        BY <3>3, <3>5, Known DEF Puts
      <4>4. /\ DOMAIN row = DOMAIN old /\ row.deleted = FALSE /\ row.category = old.category
            /\ \A c \in DOMAIN old : c # "deleted" => row[c] = old[c]
        BY <3>2, <3>5, <4>2, <4>3 DEF ProductRow
      <4> QED BY <2>1, <2>4, <4>2, <4>3, <4>4 DEF ProductAsBefore
    <3> QED BY <3>4, <3>5
  <2>8. CASE InsertProduct(s) /\ db' # db
    BY <1>1, <2>5, <2>8, InsertProductIs DEF Puts
  <2>9. CASE DeleteStation(s)
    BY <2>5, <2>9, DeleteStationIs DEF StationGone
  <2>10. CASE db'.products = db.products
    BY <2>5, <2>10
  <2> QED BY <2>3, <2>6, <2>7, <2>8, <2>9, <2>10, StepLeaves DEF Writers
<1>5. CASE q.pc = "saveGroup"
  <2>1. q.op = "updateGroup"
    BY <1>0, <1>5 DEF OpOK
  <2>2. req[s].op \notin {"updateGroup", "updateOption"}
    BY <1>0, <2>1 DEF AskedMeetings
  <2>3. ~SaveGroup(s) /\ req[s].pc # "saveOption"
    BY <1>0, <2>2, SaveGroupIs DEF OpOK
  <2>4. q.id \in DOMAIN db'.groups =>
          q.id \in DOMAIN db.groups /\ db'.groups[q.id] = db.groups[q.id]
    BY <1>1, <2>3, StepLeaves, InsertGroupIs, DeleteGroupIs, DeleteStoreIs
       DEF Writers, Puts, GroupGone, StoreGone
  <2>5. ASSUME NEW o \in DOMAIN q.held, o \in DOMAIN db'.options
        PROVE  o \in DOMAIN db.options /\ db'.options[o] = db.options[o]
    BY <1>1, <1>8, <2>3, <2>5
  <2> QED BY <1>0, <1>5, <2>4, <2>5 DEF CopyOK, AsBefore
<1>6. CASE q.pc = "saveOption"
  <2>1. q.op = "updateOption"
    BY <1>0, <1>6 DEF OpOK
  <2>2. req[s].op \notin {"updateGroup", "updateOption"}
    BY <1>0, <2>1 DEF AskedMeetings
  <2>3. ~SaveGroup(s) /\ req[s].pc # "saveOption"
    BY <1>0, <2>2, SaveGroupIs DEF OpOK
  <2>4. q.id \in DOMAIN db'.options =>
          q.id \in DOMAIN db.options /\ db'.options[q.id] = db.options[q.id]
    BY <1>1, <1>8, <2>3
  <2> QED BY <1>0, <1>6, <2>4 DEF CopyOK, AsBefore
<1> QED BY <1>2, <1>3, <1>4, <1>5, <1>6 DEF CopyOK

\* A body's columns are set, the others are the row's.
LEMMA AssignKeeps ==
  ASSUME NEW row, NEW patch, NEW c \in DOMAIN row \ Asked(patch)
  PROVE  Assign(row, patch)[c] = row[c]
BY DEF Assign, Asked, Over

\* A handler begins with a copy of its row.
LEMMA BeginsAsRow ==
  ASSUME TypeInv, NEW r \in Requests, Request(r)
  PROVE  /\ CopyOK(req'[r], db, ids)
         /\ req'[r].pc = "saveCategory" =>
              req'[r].id \in DOMAIN db.categories /\ req'[r].row \in CategoryRow
<1>1. Starts(r) /\ StageOK(req'[r], ids')
  BY RequestStarts, RequestBegins DEF Begun
<1>2. CASE req'[r].pc = "saveNote"
  <2>1. LoadNote(r)
    BY <1>1, <1>2 DEF Starts
  <2>2. PICK n \in DOMAIN db.notes, place \in Places :
          /\ req'[r].id = n /\ req'[r].row = Assign(db.notes[n], [order |-> place])
          /\ req'[r].asked = Asked([order |-> place])
    BY <2>1, Known, LoadNoteIs DEF Loads, Is
  <2> QED BY <1>2, <2>2, AssignKeeps DEF CopyOK, AsBefore
<1>3. CASE req'[r].pc = "saveCategory"
  <2>1. LoadCategory(r) \/ LoadForRemoveCategory(r)
    BY <1>1, <1>3 DEF Starts
  <2>2. CASE LoadCategory(r)
    <3>1. PICK k \in DOMAIN db.categories, patch \in CategoryPatches :
            /\ req'[r].id = k /\ req'[r].row = Assign(db.categories[k], patch)
            /\ req'[r].asked = Asked(patch)
      BY <2>2, Known, LoadCategoryIs DEF Loads, Is
    <3> QED BY <1>1, <1>3, <3>1, AssignKeeps DEF CopyOK, AsBefore, StageOK
  <2>3. CASE LoadForRemoveCategory(r)
    <3>1. PICK k \in DOMAIN db.categories :
            /\ req'[r].id = k /\ req'[r].row = [db.categories[k] EXCEPT !.active = FALSE]
            /\ req'[r].asked = {"active"}
      BY <2>3, Known, LoadForRemoveCategoryIs DEF Loads, Is
    <3> QED BY <1>1, <1>3, <3>1 DEF CopyOK, AsBefore, StageOK
  <2> QED BY <2>1, <2>2, <2>3
<1>4. CASE req'[r].pc = "resolve"
  <2>1. LoadProduct(r)
    BY <1>1, <1>4 DEF Starts
  <2>2. PICK p \in DOMAIN db.products, patch \in ProductPatches :
          /\ req'[r].id = p /\ req'[r].row = Assign(db.products[p], patch)
          /\ req'[r].asked = Asked(patch)
    BY <2>1, Known, LoadProductIs DEF Loads, Is
  <2> QED BY <1>4, <2>2, AssignKeeps DEF CopyOK, ProductAsBefore
<1>5. CASE req'[r].pc = "saveGroup"
  <2>1. LoadGroup(r)
    BY <1>1, <1>5 DEF Starts
  <2>2. PICK g \in DOMAIN db.groups, patch \in GroupPatches :
          /\ req'[r].id = g /\ req'[r].row = Assign(db.groups[g], patch)
          /\ req'[r].asked = Asked(patch)
          /\ req'[r].held = [o \in OptionsOf(g) |-> db.options[o]]
    BY <2>1, Known, LoadGroupIs DEF Loads, Is
  <2> QED BY <1>5, <2>2, AssignKeeps DEF CopyOK, AsBefore
<1>6. CASE req'[r].pc = "saveOption"
  <2>1. LoadOption(r)
    BY <1>1, <1>6 DEF Starts
  <2>2. PICK o \in DOMAIN db.options, on \in BOOLEAN \cup {Same} :
          Loads(r, "updateOption", "saveOption", o, [db.options[o] EXCEPT !.on = Over(on, @)],
                NoRows, Asked([on |-> on]), None, {})
    BY <2>1, Known, LoadOptionIs
  <2>3. PICK own : own = db.options[o]
    OBVIOUS
  <2>4. /\ req'[r].id = o /\ req'[r].row = [own EXCEPT !.on = Over(on, own.on)]
        /\ req'[r].asked = Asked([on |-> on]) /\ own \in OptionRow
    BY <2>2, <2>3, Known DEF Loads, Is
  <2>5. \A c \in DOMAIN own \ Asked([on |-> on]) : req'[r].row[c] = own[c]
    BY <2>4 DEF Asked, Over, OptionRow
  <2> QED BY <1>6, <2>3, <2>4, <2>5 DEF CopyOK, AsBefore
<1> QED BY <1>1, <1>2, <1>3, <1>4, <1>5, <1>6 DEF CopyOK, Starts

\* It agrees with the copies others have of that row.
LEMMA NewCopyAgrees ==
  ASSUME TypeInv, Told', AskedInv', history' \cap AskedMeetings = {},
         NEW r \in Requests, NEW s \in Requests \ {r}, Request(r), CopyOK(req[s], db, ids)
  PROVE  Agree(req'[r], req[s]) /\ Agree(req[s], req'[r])
<1> SUFFICES ASSUME req'[r].pc = "saveCategory", req[s].pc = "saveCategory",
                    req'[r].id = req[s].id
             PROVE  Agree(req'[r], req[s]) /\ Agree(req[s], req'[r])
  BY DEF Agree
<1> DEFINE k == req[s].id
<1>1. req'[s] = req[s]
  BY RequestStarts DEF Starts, Moves
<1>2. {req'[r].op, req[s].op} \notin AskedMeetings
  BY <1>1 DEF Told, AskedMeetings, Watched
<1>3. /\ req'[r].op \in {"updateCategory", "removeCategory"}
      /\ req[s].op \in {"updateCategory", "removeCategory"}
  BY <1>1 DEF Told, OpOK
<1>4. req'[r].op = "removeCategory" /\ req[s].op = "removeCategory"
  BY <1>2, <1>3 DEF AskedMeetings
<1>5. req'[r].asked = {"active"} /\ req[s].asked = {"active"}
  BY <1>1, <1>4 DEF AskedInv, AskedOK
<1>6. /\ CopyOK(req'[r], db, ids) /\ k \in DOMAIN db.categories
      /\ req'[r].row \in CategoryRow /\ req[s].row \in CategoryRow
      /\ db.categories[k] \in CategoryRow
  BY BeginsAsRow, Known DEF TypeInv, StageOK
<1>7. \A c \in DOMAIN db.categories[k] \ {"active"} :
        req'[r].row[c] = db.categories[k][c] /\ req[s].row[c] = db.categories[k][c]
  BY <1>5, <1>6 DEF CopyOK, AsBefore
<1>8. DOMAIN req'[r].row = DOMAIN db.categories[k] /\ DOMAIN req[s].row = DOMAIN db.categories[k]
  BY <1>6 DEF CategoryRow
<1> QED BY <1>5, <1>7, <1>8 DEF Agree

\* Ids that are handed out later do not matter.
LEMMA CopyGrows ==
  ASSUME TypeInv, NEW r \in Requests, CopyOK(req[r], db, ids), NEW n \in Nat, ids <= n
  PROVE  CopyOK(req[r], db, n)
<1>1. ASSUME req[r].pc \in {"resolve", "saveProduct"}, Released(req[r], db, ids)
      PROVE  Released(req[r], db, n)
  <2>1. req[r].row.category \in Nat /\ ids \in Nat
    BY <1>1, Known, IdsAreNumbers DEF TypeInv, StageOK, ProductRow, Released
  <2> QED BY <1>1, <2>1 DEF Released
<1> QED BY <1>1 DEF CopyOK, ProductAsBefore

\* What takes one call adds rows that no copy is of.
LEMMA DirectLeavesCopy ==
  ASSUME TypeInv, NewAlone, NEW r \in Requests, Direct, CopyOK(req[r], db, ids)
  PROVE  CopyOK(req[r], db', ids)
<1> DEFINE q == req[r]
<1>1. /\ db'.notes = db.notes /\ db'.products = db.products
      /\ db'.groups = db.groups /\ db'.options = db.options
      /\ \A k \in DOMAIN db'.categories :
           \/ k = ids + 1
           \/ k \in DOMAIN db.categories /\ db'.categories[k] = db.categories[k]
  BY DirectIs DEF Creates, Puts, Keeps, TableNames
<1>2. q.id # ids + 1
  <2>1. q.id \in About(q)
    BY DEF About
  <2>2. q.id \in Nat /\ q.id <= ids
    BY <2>1 DEF NewAlone
  <2> QED BY <2>2, Known
<1>3. ASSUME q.pc \in {"resolve", "saveProduct"}, Released(q, db, ids)
      PROVE  Released(q, db', ids)
  <2>1. q.row.category \in Nat /\ ids \in Nat
    BY <1>3, Known, IdsAreNumbers DEF TypeInv, StageOK, ProductRow, Released
  <2> QED BY <1>1, <1>3, <2>1 DEF Released
<1> QED BY <1>1, <1>2, <1>3 DEF CopyOK, AsBefore, ProductAsBefore

LEMMA CopyInit == Init => CopyInv
BY DEF Init, CopyInv, CopyOK, Agree, Idle

LEMMA CopyNext ==
  TypeInv /\ Told /\ CategoryInv /\ NewAlone /\ AskedInv /\ CopyInv /\ [Next]_vars => CopyInv'
<1> SUFFICES ASSUME TypeInv, Told, CategoryInv, NewAlone, AskedInv, CopyInv, [Next]_vars,
                    history' \cap AskedMeetings = {}
             PROVE  /\ \A t \in Requests : CopyOK(req'[t], db', ids')
                    /\ \A t \in Requests : \A u \in Requests \ {t} : Agree(req'[t], req'[u])
  BY DEF CopyInv
<1>0. /\ \A t \in Requests : CopyOK(req[t], db, ids)
      /\ \A t \in Requests : \A u \in Requests \ {t} : Agree(req[t], req[u])
      /\ history \cap AskedMeetings = {}
  BY HistoryGrows DEF CopyInv
<1>a. Told' /\ AskedInv'
  BY ToldNext, AskedNext
<1>1. ASSUME NEW r \in Requests, Step(r)
      PROVE  /\ \A t \in Requests : CopyOK(req'[t], db', ids')
             /\ \A t \in Requests : \A u \in Requests \ {t} : Agree(req'[t], req'[u])
  <2>1. Moves(r) /\ ids' = ids /\ req'[r].pc # "saveCategory"
    BY <1>1, StepLeaves DEF Leaves, Idle, GoesOn, Is
  <2>2. ASSUME NEW t \in Requests \ {r} PROVE CopyOK(req'[t], db', ids')
    <3>1. CASE req[t].pc = "idle"
      BY <2>1, <3>1 DEF Moves, CopyOK
    <3>2. CASE req[t].pc # "idle"
      <4>1. CopyOK(req[t], db', ids)
        BY <1>0, <1>1, <3>2, OthersLeaveCopy
      <4> QED BY <2>1, <4>1 DEF Moves
    <3> QED BY <3>1, <3>2
  <2>3. CASE ResolveRelations(r)
    <3>1. CopyOK(req'[r], db', ids')
      <4>1. db' = db /\ req[r].pc = "resolve" /\ (req'[r] = Idle \/ GoesOn(r, "saveProduct"))
        BY <2>3, ResolveRelationsIs DEF Ends
      <4>2. CASE req'[r] = Idle
        BY <4>2 DEF Idle, CopyOK
      <4>3. CASE GoesOn(r, "saveProduct")
        <5>1. /\ req'[r].pc = "saveProduct" /\ req'[r].id = req[r].id
              /\ req'[r].row = req[r].row /\ req'[r].asked = req[r].asked
          BY <4>3 DEF GoesOn, Is
        <5>2. ProductAsBefore(req[r], db, ids)
          BY <1>0, <4>1 DEF CopyOK
        <5> QED BY <2>1, <4>1, <5>1, <5>2 DEF CopyOK, ProductAsBefore, Released
      <4> QED BY <4>1, <4>2, <4>3
    <3> QED BY <1>0, <2>1, <2>2, <3>1 DEF Moves, Agree
  <2>4. CASE ~ResolveRelations(r)
    <3>1. CopyOK(req'[r], db', ids')
      BY <1>1, <2>4, StepLeaves DEF Leaves, Idle, GoesOn, Is, CopyOK
    <3> QED BY <1>0, <2>1, <2>2, <3>1 DEF Moves, Agree
  <2> QED BY <2>3, <2>4
<1>2. ASSUME NEW r \in Requests, Request(r)
      PROVE  /\ \A t \in Requests : CopyOK(req'[t], db', ids')
             /\ \A t \in Requests : \A u \in Requests \ {t} : Agree(req'[t], req'[u])
  <2>1. Moves(r) /\ db' = db /\ ids <= ids' /\ ids' \in Nat
    BY <1>2, RequestStarts DEF Starts
  <2>2. ASSUME NEW t \in Requests \ {r} PROVE CopyOK(req'[t], db', ids')
    BY <1>0, <2>1, CopyGrows DEF Moves
  <2>3. CopyOK(req'[r], db', ids')
    <3>1. CopyOK(req'[r], db, ids)
      BY <1>2, BeginsAsRow
    <3>2. req'[r].pc \in {"resolve", "saveProduct"} /\ Released(req'[r], db, ids) =>
            Released(req'[r], db, ids')
      <4>1. StageOK(req'[r], ids')
        BY <1>2, RequestBegins DEF Begun
      <4>2. ASSUME req'[r].pc \in {"resolve", "saveProduct"}, Released(req'[r], db, ids)
            PROVE  req'[r].row.category \in Nat /\ ids \in Nat
        BY <4>1, <4>2, Known, IdsAreNumbers DEF StageOK, ProductRow, Released
      <4> QED BY <2>1, <4>2 DEF Released
    <3> QED BY <2>1, <3>1, <3>2 DEF CopyOK, ProductAsBefore
  <2>4. ASSUME NEW t \in Requests \ {r}
        PROVE  Agree(req'[r], req'[t]) /\ Agree(req'[t], req'[r])
    <3>1. Agree(req'[r], req[t]) /\ Agree(req[t], req'[r])
      BY <1>0, <1>a, <1>2, NewCopyAgrees
    <3> QED BY <2>1, <3>1 DEF Moves
  <2> QED BY <1>0, <2>1, <2>2, <2>3, <2>4 DEF Moves
<1>3. CASE Direct
  <2>1. req' = req /\ ids <= ids' /\ ids' \in Nat /\ TypeInv'
    BY <1>3, DirectFine, TypeInvNext
  <2>2. ASSUME NEW t \in Requests PROVE CopyOK(req[t], db', ids')
    <3>1. CopyOK(req[t], db', ids)
      BY <1>0, <1>3, DirectLeavesCopy
    <3>2. req[t].pc \in {"resolve", "saveProduct"} /\ Released(req[t], db', ids) =>
            Released(req[t], db', ids')
      <4>1. ASSUME req[t].pc \in {"resolve", "saveProduct"}, Released(req[t], db', ids)
            PROVE  req[t].row.category \in Nat /\ ids \in Nat
        BY <4>1, Known, IdsAreNumbers DEF TypeInv, StageOK, ProductRow, Released
      <4> QED BY <2>1, <4>1 DEF Released
    <3> QED BY <3>1, <3>2 DEF CopyOK, ProductAsBefore
  <2> QED BY <1>0, <2>1, <2>2
<1>4. CASE Restart
  BY <1>4, RestartIs DEF CopyOK, Agree, Idle
<1>5. CASE UNCHANGED vars
  BY <1>0, <1>5 DEF vars
<1> QED BY <1>1, <1>2, <1>3, <1>4, <1>5 DEF Next

\* What a step may change, where no copies have met.
ColumnsAsked ==
  \A t \in Copied : \A k \in DOMAIN db[t] \cap DOMAIN db'[t] : \A c \in DOMAIN db[t][k] :
    db'[t][k][c] # db[t][k][c] =>
      \/ \E r \in Requests : req[r].id = k /\ c \in req[r].asked /\ req'[r] # req[r]
      \/ t = "products" /\ c = "category" /\ db'[t][k][c] = None
      \/ Happened(AskedMeetings)

\* A step changes a column its own body sets, or clears a category.
LEMMA StepAsked ==
  ASSUME TypeInv, NewAlone, AskedInv, CopyInv, NEW r \in Requests, Step(r),
         history \cap AskedMeetings = {},
         NEW t \in Copied, NEW k \in DOMAIN db[t] \cap DOMAIN db'[t], NEW c \in DOMAIN db[t][k],
         db'[t][k][c] # db[t][k][c]
  PROVE  \/ req[r].id = k /\ c \in req[r].asked
         \/ t = "products" /\ c = "category" /\ db'[t][k][c] = None
<1> DEFINE q == req[r]
<1>0. CopyOK(q, db, ids) /\ AskedOK(q)
  BY DEF CopyInv, AskedInv
<1>1. k \notin q.new
  BY DEF NewAlone, InUse, Copied
<1>2. CASE t = "stores"
  <2>1. db.stores[k] \in StoreRow /\ db'.stores # db.stores
    BY <1>2, Known
  <2>2. CASE WritePin(r)
    <3>1. /\ q.pc = "writePin"
          /\ Puts(db, db', "stores", q.id, [pin |-> q.row.pin, settings |-> db.stores[q.id].settings])
      BY <2>1, <2>2, WritePinIs
    <3> QED BY <1>0, <1>2, <2>1, <3>1 DEF AskedOK, Puts, StoreRow
  <2>3. CASE SaveStore(r)
    <3>1. /\ q.pc = "saveStore"
          /\ Puts(db, db', "stores", q.id,
                  [pin |-> IF q.id \in DOMAIN db.stores THEN db.stores[q.id].pin ELSE None,
                   settings |-> q.row.settings])
      BY <2>3, SaveStoreIs
    <3> QED BY <1>0, <1>2, <2>1, <3>1 DEF AskedOK, Puts, StoreRow
  <2>4. CASE DeleteStore(r)
    BY <1>2, <2>1, <2>4, DeleteStoreIs DEF StoreGone
  <2> QED BY <2>1, <2>2, <2>3, <2>4, StepLeaves DEF Writers
<1>3. CASE t = "notes"
  <2>1. q.pc = "saveNote" /\ q.id = k /\ PutsNote(k, q.row)
    BY <1>1, <1>3, NotesChange DEF PutsNote, PutsList, TakesNotes
  <2>2. c = "store" \/ c = "order"
    BY <1>3, Known DEF NoteRow
  <2>3. db'.notes[k][c] = q.row[c]
    BY <2>1, <2>2 DEF PutsNote
  <2> QED BY <1>0, <1>3, <2>1, <2>3 DEF CopyOK, AsBefore
<1>4. CASE t = "categories"
  <2>1. CASE SaveCategory(r)
    BY <1>0, <1>4, <2>1, SaveCategoryIs DEF Puts, CopyOK, AsBefore
  <2>2. CASE ~SaveCategory(r)
    BY <1>4, <2>2, StepLeaves, DeleteStoreIs DEF Writers, StoreGone
  <2> QED BY <2>1, <2>2
<1>5. CASE t = "products"
  <2>1. db.products[k] \in ProductRow
    BY <1>5, Known
  <2>2. CASE SaveProduct(r)
    <3>1. /\ q.pc = "saveProduct" /\ Insertable(q.row)
          /\ Puts(db, db', "products", q.id, q.row)
      BY <1>5, <2>2, SaveProductIs
    <3>2. q.id = k /\ ProductAsBefore(q, db, ids) /\ ~Released(q, db, ids)
      BY <1>0, <1>5, <3>1 DEF CopyOK, Puts, Insertable, Released
    <3> QED BY <1>5, <3>1, <3>2 DEF Puts, ProductAsBefore
  <2>3. CASE MarkProduct(r)
    <3>1. PICK new : new = [db.products[k] EXCEPT !.deleted = q.row.deleted]
      OBVIOUS
    <3>2. /\ q.pc = "markProduct" /\ q.id = k
          /\ Puts(db, db', "products", k, new)
      BY <1>5, <2>3, <3>1, MarkProductIs DEF Puts
    <3>3. c = "deleted"
      BY <1>5, <2>1, <3>1, <3>2 DEF Puts
    <3> QED BY <1>0, <3>2, <3>3 DEF AskedOK
  <2>4. CASE InsertProduct(r)
    BY <1>1, <1>5, <2>4, InsertProductIs DEF Puts
  <2>5. CASE DeleteStation(r)
    BY <1>5, <2>5, DeleteStationIs DEF StationGone
  <2>6. CASE DeleteStore(r)
    <3>1. StoreGone(q.id, db')
      BY <1>5, <2>6, DeleteStoreIs
    <3>2. db'.products[k] = [db.products[k] EXCEPT !.category = None]
      BY <1>5, <3>1 DEF StoreGone
    <3> QED BY <1>5, <2>1, <3>2
  <2> QED BY <1>5, <2>2, <2>3, <2>4, <2>5, <2>6, StepLeaves DEF Writers
<1>6. CASE t = "groups"
  <2>1. CASE SaveGroup(r)
    BY <1>0, <1>6, <2>1, SaveGroupIs DEF CopyOK, AsBefore
  <2>2. CASE ~SaveGroup(r)
    BY <1>1, <1>6, <2>2, StepLeaves, InsertGroupIs, DeleteGroupIs, DeleteStoreIs
       DEF Writers, Puts, GroupGone, StoreGone
  <2> QED BY <2>1, <2>2
<1>7. CASE t = "options"
  <2>1. CASE SaveGroup(r)
    BY <1>0, <1>7, <2>1, SaveGroupIs DEF CopyOK
  <2>2. CASE SaveOption(r)
    <3>1. PICK n \in Ids : /\ Puts(db, db', "options", n, q.row)
                          /\ \/ q.new = {n}
                             \/ q.pc = "saveOption" /\ q.id = n
      BY <1>7, <2>2, SaveOptionIs
    <3> QED BY <1>0, <1>1, <1>7, <3>1 DEF Puts, CopyOK, AsBefore
  <2>3. CASE ~SaveGroup(r) /\ ~SaveOption(r)
    BY <1>7, <2>3, StepLeaves, DeleteOptionIs, DeleteGroupIs, DeleteStoreIs
       DEF Writers, Drops, GroupGone, StoreGone
  <2> QED BY <2>1, <2>2, <2>3
<1> QED BY <1>2, <1>3, <1>4, <1>5, <1>6, <1>7 DEF Copied

\* No other action changes a row that is there.
LEMMA AskedStep ==
  ASSUME TypeInv, NewAlone, AskedInv, CopyInv, [Next]_vars
  PROVE  ColumnsAsked
<1> SUFFICES ASSUME NEW t \in Copied, NEW k \in DOMAIN db[t] \cap DOMAIN db'[t],
                    NEW c \in DOMAIN db[t][k], db'[t][k][c] # db[t][k][c],
                    history \cap AskedMeetings = {}
             PROVE  \/ \E r \in Requests : req[r].id = k /\ c \in req[r].asked /\ req'[r] # req[r]
                    \/ t = "products" /\ c = "category" /\ db'[t][k][c] = None
  BY DEF ColumnsAsked, Happened
<1>1. ASSUME NEW r \in Requests, Step(r)
      PROVE  \/ req[r].id = k /\ c \in req[r].asked /\ req'[r] # req[r]
             \/ t = "products" /\ c = "category" /\ db'[t][k][c] = None
  <2>1. req'[r] # req[r]
    <3>1. req[r].pc # "idle"
      BY <1>1, StepLeaves DEF Leaves
    <3>2. \/ req'[r].pc = "idle"
          \/ req[r].pc = "checkPin" /\ req'[r].pc = "saveStore"
          \/ req[r].pc = "countNotes" /\ req'[r].pc = "deleteNote"
          \/ req[r].pc = "clearNotes" /\ req'[r].pc = "insertNotes"
          \/ req[r].pc = "resolve" /\ req'[r].pc = "saveProduct"
          \/ req[r].pc = "saveProduct" /\ req'[r].pc = "reload"
          \/ req[r].pc = "reload" /\ req'[r].pc = "dropImage"
      BY <1>1, StepLeaves, CheckPinIs, CountNotesIs, ClearNotesIs, ResolveRelationsIs,
         SaveProductIs, ReloadProductIs DEF Leaves, Idle, GoesOn, Is
    <3> QED BY <3>1, <3>2
  <2> QED BY <1>1, <2>1, StepAsked
<1>2. ASSUME NEW r \in Requests, Request(r) PROVE FALSE
  BY <1>2, RequestStarts DEF Starts
<1>3. ASSUME Direct PROVE FALSE
  <2>1. k <= ids /\ ids \in Nat
    BY Known DEF Copied
  <2>2. \/ \E u \in TableNames : \E row : Puts(db, db', u, ids + 1, row)
        \/ \E u \in {"stations", "files", "items"} : Keeps(db, db', {u})
    BY <1>3, DirectIs DEF Creates, Puts, TableNames
  <2>3. CASE \E u \in {"stations", "files", "items"} : Keeps(db, db', {u})
    BY <2>3 DEF Keeps, TableNames, Copied
  <2>4. ASSUME NEW u \in TableNames, NEW row, Puts(db, db', u, ids + 1, row) PROVE FALSE
    <3>1. CASE t = u
      BY <2>1, <2>4, <3>1 DEF Puts
    <3>2. CASE t # u
      BY <2>4, <3>2 DEF Puts, Keeps, TableNames, Copied
    <3> QED BY <3>1, <3>2
  <2> QED BY <2>2, <2>3, <2>4
<1>4. CASE Restart \/ UNCHANGED vars
  BY <1>4, RestartIs DEF vars
<1> QED BY <1>1, <1>2, <1>3, <1>4 DEF Next

\* A save changes what its body asks for and nothing else: whichever handlers
\* run between the load and the save, the copy has the columns of its row,
\* but for those the body sets, unless two updates of the table overlap, or a
\* store comes back and then a category that products were released from.
THEOREM SavesWhatIsAsked == Spec => OnlyAsked
<1>1. TypeInv /\ NewAlone /\ AskedInv /\ CopyInv /\ [Next]_vars => [ColumnsAsked]_vars
  BY AskedStep
<1> QED BY <1>1, TypeInvInit, TypeInvNext, ToldInit, ToldNext, StoreInit, StoreNext,
           HomeInit, HomeNext, NewInit, NewNext, CategoryInit, CategoryNext,
           AskedInit, AskedNext, CopyInit, CopyNext,
           PTL DEF Spec, OnlyAsked, ColumnsAsked, AskedMeetings

-----------------------------------------------------------------------------
(* Options: a group that has enough of them keeps enough. *)

OptionMeetings ==
  {{"updateOption"}, {"updateOption", "deleteOption"}, {"deleteOption"},
   {"updateGroup", "updateOption"}, {"updateGroup", "deleteOption"}}

\* The available options of a group, in a database d.
AvailableIn(d, g) == {o \in DOMAIN d.options : d.options[o].group = g /\ d.options[o].on}

\* The handler is going to take an available option away.
TakesAway(q, d) ==
  /\ q.id \in DOMAIN d.options /\ d.options[q.id].on
  /\ \/ q.pc = "deleteOption"
     \/ q.pc = "saveOption" /\ ~q.row.on

\* The others are enough for its group.
CanSpare(d, o) ==
  Cardinality(AvailableIn(d, d.options[o].group) \ {o}) >= d.groups[d.options[o].group].min

\* The options that the copy of a group holds are as they are in the table.
HeldAsRows(q, d) ==
  q.pc = "saveGroup" =>
    \A o \in DOMAIN q.held : o \in DOMAIN d.options => q.held[o] = d.options[o]

HeldAlike(p, q) ==
  p.pc = "saveGroup" /\ q.pc = "saveGroup" =>
    \A o \in DOMAIN p.held \cap DOMAIN q.held : p.held[o] = q.held[o]

SpareInv ==
  history \cap OptionMeetings = {} =>
    /\ \A r \in Requests : TakesAway(req[r], db) => CanSpare(db, req[r].id)
    /\ \A r \in Requests : HeldAsRows(req[r], db)
    /\ \A r \in Requests : \A s \in Requests \ {r} : HeldAlike(req[r], req[s])

LEMMA AvailableIs ==
  ASSUME NEW g
  PROVE  Available(g) = AvailableIn(db, g)
BY DEF Available, OptionsOf, Of, AvailableIn

LEMMA ApartOptions ==
  ASSUME Told, history \cap OptionMeetings = {}, NEW r \in Requests, NEW s \in Requests \ {r},
         req[r].pc # "idle", req[s].pc # "idle"
  PROVE  {req[r].op, req[s].op} \notin OptionMeetings
<1>1. OptionMeetings \subseteq Watched
  BY DEF OptionMeetings, Watched
<1> QED BY <1>1, Meet

LEMMA LeastsAreInt == MinSelects \cup {0, 1} \subseteq Int
<1>1. MinSelects \subseteq Int
  BY ShopTablesAssumption
<1> QED BY <1>1

LEMMA LeastIsInt ==
  ASSUME TypeInv, NEW g \in DOMAIN db.groups
  PROVE  db.groups[g].min \in Int
<1>1. db.groups[g] \in GroupRow
  BY Known
<1>2. db.groups[g].min \in MinSelects \cup {0, 1}
  BY <1>1 DEF GroupRow
<1> QED BY <1>2, LeastsAreInt

LEMMA AvailableFinite ==
  ASSUME NEW d, TablesOK(d), NEW g
  PROVE  IsFiniteSet(AvailableIn(d, g)) /\ Cardinality(AvailableIn(d, g)) \in Nat
<1>1. AvailableIn(d, g) \subseteq 1..MaxIds
  BY DEF TablesOK, Table, AvailableIn, Ids
<1>2. IsFiniteSet(1..MaxIds)
  BY IdsAreNumbers, FS_Interval
<1>3. IsFiniteSet(AvailableIn(d, g))
  BY <1>1, <1>2, FS_Subset
<1> QED BY <1>3, FS_CardinalityType

\* More available options are enough if fewer are.
LEMMA MoreIsEnough ==
  ASSUME NEW d, TablesOK(d), NEW g, NEW few, NEW min \in Int, Cardinality(few) >= min,
         few \subseteq AvailableIn(d, g)
  PROVE  Cardinality(AvailableIn(d, g)) >= min
<1>1. IsFiniteSet(AvailableIn(d, g)) /\ Cardinality(AvailableIn(d, g)) \in Nat
  BY AvailableFinite
<1>2. IsFiniteSet(few) /\ Cardinality(few) <= Cardinality(AvailableIn(d, g))
  BY <1>1, FS_Subset
<1>3. Cardinality(few) \in Nat
  BY <1>2, FS_CardinalityType
<1> QED BY <1>1, <1>2, <1>3

LEMMA MoreCanSpare ==
  ASSUME NEW d, TablesOK(d), NEW g, NEW few, NEW o, NEW min \in Int,
         Cardinality(few \ {o}) >= min, few \subseteq AvailableIn(d, g)
  PROVE  Cardinality(AvailableIn(d, g) \ {o}) >= min
<1>1. IsFiniteSet(AvailableIn(d, g) \ {o})
  BY AvailableFinite, FS_Subset
<1>2. IsFiniteSet(few \ {o}) /\ Cardinality(few \ {o}) <= Cardinality(AvailableIn(d, g) \ {o})
  BY <1>1, FS_Subset
<1>3. Cardinality(few \ {o}) \in Nat /\ Cardinality(AvailableIn(d, g) \ {o}) \in Nat
  BY <1>1, <1>2, FS_CardinalityType
<1> QED BY <1>2, <1>3

\* Where no option is changed on its own, those that are there stay as they
\* are while their group stays.
LEMMA OptionsStay ==
  ASSUME TypeInv, NEW s \in Requests, Step(s), req[s].pc \notin {"saveOption", "deleteOption"},
         NewAlone, HeldAsRows(req[s], db)
  PROVE  /\ \A o \in DOMAIN db.options :
              db.options[o].group \in DOMAIN db'.groups => o \in DOMAIN db'.options
         /\ \A o \in DOMAIN db.options \cap DOMAIN db'.options : db'.options[o] = db.options[o]
         /\ \A o \in DOMAIN db'.options \ DOMAIN db.options :
              \/ o \in req[s].new
              \/ /\ req[s].pc = "saveGroup" /\ o \in DOMAIN req[s].held
                 /\ db'.options[o] = req[s].held[o]
<1> DEFINE q == req[s]
<1>1. CASE SaveGroup(s)
  <2>1. CASE db' = db
    BY <2>1
  <2>2. CASE db' # db
    <3>1. /\ q.pc = "saveGroup" /\ DOMAIN db'.options = DOMAIN q.held \cup DOMAIN db.options
          /\ \A o \in DOMAIN q.held : db'.options[o] = q.held[o]
          /\ \A o \in DOMAIN db.options \ DOMAIN q.held : db'.options[o] = db.options[o]
      BY <1>1, <2>2, SaveGroupIs
    <3> QED BY <3>1 DEF HeldAsRows
  <2> QED BY <2>1, <2>2
<1>2. CASE SaveOption(s) /\ db' # db
  <2>1. PICK k \in Ids : Puts(db, db', "options", k, q.row) /\ q.new = {k}
    BY <1>2, SaveOptionIs
  <2>2. k \notin DOMAIN db.options
    BY <2>1 DEF NewAlone, InUse
  <2> QED BY <2>1, <2>2 DEF Puts
<1>3. CASE DeleteGroup(s)
  BY <1>3, DeleteGroupIs DEF GroupGone
<1>4. CASE DeleteStore(s) /\ db' # db
  BY <1>4, DeleteStoreIs DEF StoreGone
<1>5. CASE db'.options = db.options
  BY <1>5
<1> QED BY <1>1, <1>2, <1>3, <1>4, <1>5, StepLeaves, DeleteOptionIs DEF Writers

\* What others do leaves enough without the option that is to go.
LEMMA OthersLeaveSpare ==
  ASSUME TypeInv, Told, NewAlone, SpareInv, history \cap OptionMeetings = {},
         NEW r \in Requests, NEW s \in Requests \ {r}, Step(s), TakesAway(req[r], db')
  PROVE  CanSpare(db', req[r].id)
<1> DEFINE q == req[r]
           k == req[r].id
           g == db.options[k].group
<1>1. /\ req[s].pc # "idle" /\ {q.op, req[s].op} \notin OptionMeetings
      /\ OpOK(q) /\ OpOK(req[s])
  BY StepLeaves, ApartOptions DEF Leaves, Told, TakesAway
<1>2. req[s].pc \notin {"saveOption", "deleteOption", "saveGroup"}
  BY <1>1 DEF OpOK, OptionMeetings, TakesAway
<1>3. k \notin req[s].new /\ HeldAsRows(req[s], db)
  BY DEF NewAlone, About, SpareInv
<1>4. k \in DOMAIN db.options /\ k \in DOMAIN db'.options /\ db'.options[k] = db.options[k]
  BY <1>2, <1>3, OptionsStay DEF TakesAway
<1>5. CanSpare(db, k)
  BY <1>4 DEF SpareInv, TakesAway
<1>6. TablesOK(db') /\ g \in DOMAIN db.groups /\ g \in DOMAIN db'.groups
  BY <1>4, StepFine, RefsAre, Known DEF Fine, Sound
<1>7. db'.groups[g] = db.groups[g]
  <2>1. CASE InsertGroup(s)
    <3>1. db' = db \/ \E n \in req[s].new : Puts(db, db', "groups", n, req[s].row)
      BY <2>1, InsertGroupIs
    <3>2. \A n \in req[s].new : n # g
      BY <1>6 DEF NewAlone, InUse
    <3> QED BY <1>6, <3>1, <3>2 DEF Puts
  <2>2. CASE DeleteGroup(s)
    BY <1>6, <2>2, DeleteGroupIs DEF GroupGone
  <2>3. CASE DeleteStore(s)
    BY <1>6, <2>3, DeleteStoreIs DEF StoreGone
  <2>4. CASE db'.groups = db.groups
    BY <2>4
  <2> QED BY <1>2, <2>1, <2>2, <2>3, <2>4, StepLeaves, SaveGroupIs DEF Writers
<1>8. AvailableIn(db, g) \subseteq AvailableIn(db', g)
  BY <1>2, <1>3, <1>6, OptionsStay DEF AvailableIn
<1>9. db.groups[g].min \in Int
  BY <1>6, LeastIsInt
<1> HIDE DEF k
<1>10. Cardinality(AvailableIn(db, g) \ {k}) >= db.groups[g].min
  BY <1>5 DEF CanSpare
<1> HIDE DEF g
<1>11. Cardinality(AvailableIn(db', g) \ {k}) >= db.groups[g].min
  BY <1>6, <1>8, <1>9, <1>10, MoreCanSpare
<1> QED BY <1>4, <1>7, <1>11 DEF CanSpare, k, g

\* What others do leaves the options that a copy holds.
LEMMA OthersLeaveHeld ==
  ASSUME TypeInv, Told, NewAlone, SpareInv, history \cap OptionMeetings = {},
         NEW r \in Requests, NEW s \in Requests \ {r}, Step(s)
  PROVE  HeldAsRows(req[r], db')
<1> DEFINE q == req[r]
<1> SUFFICES ASSUME q.pc = "saveGroup", NEW o \in DOMAIN q.held, o \in DOMAIN db'.options
             PROVE  q.held[o] = db'.options[o]
  BY DEF HeldAsRows
<1>1. /\ req[s].pc # "idle" /\ {q.op, req[s].op} \notin OptionMeetings
      /\ OpOK(q) /\ OpOK(req[s])
  BY StepLeaves, ApartOptions DEF Leaves, Told
<1>2. req[s].pc \notin {"saveOption", "deleteOption"}
  BY <1>1 DEF OpOK, OptionMeetings
<1>3. o \notin req[s].new
  BY DEF NewAlone, About
<1>4. HeldAsRows(req[s], db) /\ HeldAsRows(q, db) /\ HeldAlike(q, req[s])
  BY DEF SpareInv
<1> QED BY <1>2, <1>3, <1>4, OptionsStay DEF HeldAsRows, HeldAlike

\* A handler begins with what it has found.
LEMMA BeginsSpare ==
  ASSUME TypeInv, NEW r \in Requests, Request(r)
  PROVE  /\ TakesAway(req'[r], db) => CanSpare(db, req'[r].id)
         /\ req'[r].pc = "saveGroup" =>
              \A o \in DOMAIN req'[r].held :
                o \in DOMAIN db.options /\ req'[r].held[o] = db.options[o]
<1>1. Starts(r)
  BY RequestStarts
<1>2. CASE req'[r].pc = "saveGroup"
  <2>1. LoadGroup(r)
    BY <1>1, <1>2 DEF Starts
  <2>2. PICK g \in DOMAIN db.groups : req'[r].held = [o \in OptionsOf(g) |-> db.options[o]]
    BY <2>1, Known, LoadGroupIs DEF Loads, Is
  <2> QED BY <1>2, <2>2 DEF TakesAway, OptionsOf, Of
<1>3. CASE req'[r].pc = "saveOption"
  <2>1. LoadOption(r)
    BY <1>1, <1>3 DEF Starts
  <2>2. PICK o \in DOMAIN db.options, on \in BOOLEAN \cup {Same} :
          /\ on = FALSE => Spare(db.options[o].group, o)
          /\ Loads(r, "updateOption", "saveOption", o, [db.options[o] EXCEPT !.on = Over(on, @)],
                   NoRows, Asked([on |-> on]), None, {})
    BY <2>1, Known, LoadOptionIs
  <2>3. PICK own : own = db.options[o]
    OBVIOUS
  <2>4. req'[r].id = o /\ req'[r].row = [own EXCEPT !.on = Over(on, own.on)] /\ own \in OptionRow
    BY <2>2, <2>3, Known DEF Loads, Is
  <2>5. req'[r].row.on = Over(on, own.on)
    BY <2>4 DEF OptionRow
  <2>6. own.on /\ ~req'[r].row.on => on = FALSE
    BY <2>2, <2>5 DEF Over
  <2>7. on = FALSE => CanSpare(db, o)
    BY <2>2, AvailableIs DEF Spare, CanSpare
  <2> QED BY <1>3, <2>3, <2>4, <2>6, <2>7 DEF TakesAway
<1>4. CASE req'[r].pc = "deleteOption"
  <2>1. LoadForDeleteOption(r)
    BY <1>1, <1>4 DEF Starts
  <2>2. PICK o \in DOMAIN db.options :
          (db.options[o].on => Spare(db.options[o].group, o)) /\ req'[r].id = o
    BY <2>1, Known, LoadForDeleteOptionIs DEF Loads, Is
  <2> QED BY <1>4, <2>2, AvailableIs DEF Spare, CanSpare, TakesAway
<1> QED BY <1>2, <1>3, <1>4 DEF TakesAway

LEMMA SpareInit == Init => SpareInv
BY DEF Init, SpareInv, TakesAway, HeldAsRows, HeldAlike, Idle

LEMMA SpareNext ==
  TypeInv /\ Told /\ NewAlone /\ SpareInv /\ [Next]_vars => SpareInv'
<1> SUFFICES ASSUME TypeInv, Told, NewAlone, SpareInv, [Next]_vars,
                    history' \cap OptionMeetings = {}
             PROVE  /\ \A t \in Requests : TakesAway(req'[t], db') => CanSpare(db', req'[t].id)
                    /\ \A t \in Requests : HeldAsRows(req'[t], db')
                    /\ \A t \in Requests : \A u \in Requests \ {t} : HeldAlike(req'[t], req'[u])
  BY DEF SpareInv
<1>0. /\ history \cap OptionMeetings = {}
      /\ \A t \in Requests : TakesAway(req[t], db) => CanSpare(db, req[t].id)
      /\ \A t \in Requests : HeldAsRows(req[t], db)
      /\ \A t \in Requests : \A u \in Requests \ {t} : HeldAlike(req[t], req[u])
  BY HistoryGrows DEF SpareInv
<1>1. ASSUME NEW r \in Requests, Step(r)
      PROVE  /\ \A t \in Requests : TakesAway(req'[t], db') => CanSpare(db', req'[t].id)
             /\ \A t \in Requests : HeldAsRows(req'[t], db')
             /\ \A t \in Requests : \A u \in Requests \ {t} : HeldAlike(req'[t], req'[u])
  <2>1. Moves(r) /\ req'[r].pc \notin {"saveOption", "deleteOption", "saveGroup"}
    BY <1>1, StepLeaves DEF Leaves, Idle, GoesOn, Is
  <2>2. ASSUME NEW t \in Requests \ {r}, TakesAway(req[t], db') PROVE CanSpare(db', req[t].id)
    BY <1>0, <1>1, <2>2, OthersLeaveSpare
  <2>3. ASSUME NEW t \in Requests \ {r} PROVE HeldAsRows(req[t], db')
    BY <1>0, <1>1, OthersLeaveHeld
  <2>4. HeldAsRows(req'[r], db') /\ ~TakesAway(req'[r], db')
    BY <2>1 DEF HeldAsRows, TakesAway
  <2>5. \A t \in Requests : \A u \in Requests \ {t} : HeldAlike(req'[t], req'[u])
    BY <1>0, <2>1 DEF Moves, HeldAlike
  <2> QED BY <2>1, <2>2, <2>3, <2>4, <2>5 DEF Moves
<1>2. ASSUME NEW r \in Requests, Request(r)
      PROVE  /\ \A t \in Requests : TakesAway(req'[t], db') => CanSpare(db', req'[t].id)
             /\ \A t \in Requests : HeldAsRows(req'[t], db')
             /\ \A t \in Requests : \A u \in Requests \ {t} : HeldAlike(req'[t], req'[u])
  <2>1. Moves(r) /\ db' = db
    BY <1>2, RequestStarts DEF Starts
  <2>2. /\ TakesAway(req'[r], db) => CanSpare(db, req'[r].id)
        /\ req'[r].pc = "saveGroup" =>
             \A o \in DOMAIN req'[r].held :
               o \in DOMAIN db.options /\ req'[r].held[o] = db.options[o]
    BY <1>2, BeginsSpare
  <2>3. HeldAsRows(req'[r], db)
    BY <2>2 DEF HeldAsRows
  <2>4. ASSUME NEW t \in Requests \ {r}
        PROVE  HeldAlike(req'[r], req[t]) /\ HeldAlike(req[t], req'[r])
    <3>1. HeldAsRows(req[t], db)
      BY <1>0
    <3> QED BY <2>2, <3>1 DEF HeldAlike, HeldAsRows
  <2> QED BY <1>0, <2>1, <2>2, <2>3, <2>4 DEF Moves
<1>3. CASE Direct
  <2>1. req' = req /\ db'.options = db.options /\ db'.groups = db.groups
    BY <1>3, DirectIs DEF Creates, Puts, Keeps, TableNames
  <2> QED BY <1>0, <2>1 DEF TakesAway, CanSpare, AvailableIn, HeldAsRows
<1>4. CASE Restart
  BY <1>4, RestartIs DEF TakesAway, HeldAsRows, HeldAlike, Idle
<1>5. CASE UNCHANGED vars
  BY <1>0, <1>5 DEF vars
<1> QED BY <1>1, <1>2, <1>3, <1>4, <1>5 DEF Next

\* What a step leaves a group, where no changes of its options have met.
EnoughKept ==
  \A g \in DOMAIN db.groups \cap DOMAIN db'.groups :
    LET enough == Cardinality(Available(g)) >= db.groups[g].min IN
      \/ ~enough \/ db'.groups[g].min > db.groups[g].min
      \/ (Cardinality(Available(g)) >= db.groups[g].min)'
      \/ Happened(OptionMeetings)

\* A step leaves a group its options, or one goes that can be spared.
LEMMA StepKeepsEnough ==
  ASSUME TypeInv, NewAlone, OneGroup, SpareInv, history \cap OptionMeetings = {},
         NEW s \in Requests, Step(s), NEW g \in DOMAIN db.groups \cap DOMAIN db'.groups,
         Cardinality(AvailableIn(db, g)) >= db.groups[g].min,
         ~(db'.groups[g].min > db.groups[g].min)
  PROVE  Cardinality(AvailableIn(db', g)) >= db'.groups[g].min
<1> DEFINE q == req[s]
<1>0. HeldAsRows(q, db) /\ (TakesAway(q, db) => CanSpare(db, q.id))
  BY DEF SpareInv
<1>1. TablesOK(db') /\ db'.groups[g].min \in Int /\ db.groups[g].min \in Int
  <2>1. TablesOK(db')
    BY StepFine DEF Fine, Sound
  <2>2. db'.groups[g] \in GroupRow
    BY <2>1 DEF TablesOK, Table
  <2>3. db'.groups[g].min \in MinSelects \cup {0, 1}
    BY <2>2 DEF GroupRow
  <2> QED BY <2>1, <2>3, LeastIsInt, LeastsAreInt
<1>2. db'.groups[g].min <= db.groups[g].min
  BY <1>1
<1>3. ASSUME AvailableIn(db, g) \subseteq AvailableIn(db', g)
      PROVE  Cardinality(AvailableIn(db', g)) >= db'.groups[g].min
  <2>1. Cardinality(AvailableIn(db', g)) >= db.groups[g].min
    BY <1>1, <1>3, MoreIsEnough
  <2>2. Cardinality(AvailableIn(db', g)) \in Nat
    BY <1>1, AvailableFinite
  <2> QED BY <1>1, <1>2, <2>1, <2>2
<1>4. ASSUME NEW o \in DOMAIN db.options, TakesAway(q, db), q.id = o, db'.groups = db.groups,
             AvailableIn(db', g) = AvailableIn(db, g) \ {o}
      PROVE  Cardinality(AvailableIn(db', g)) >= db'.groups[g].min
  <2>1. CASE db.options[o].group = g
    BY <1>0, <1>4, <2>1 DEF CanSpare
  <2>2. CASE db.options[o].group # g
    BY <1>3, <1>4, <2>2 DEF AvailableIn
  <2> QED BY <2>1, <2>2
<1>5. CASE q.pc \notin {"saveOption", "deleteOption"}
  BY <1>0, <1>3, <1>5, OptionsStay DEF AvailableIn
<1>6. CASE DeleteOption(s)
  <2>1. q.pc = "deleteOption" /\ Drops(db, db', "options", {q.id})
    BY <1>6, DeleteOptionIs
  <2>2. /\ db'.groups = db.groups /\ DOMAIN db'.options = DOMAIN db.options \ {q.id}
        /\ \A o \in DOMAIN db'.options : db'.options[o] = db.options[o]
    BY <2>1 DEF Drops, Keeps, TableNames
  <2>3. AvailableIn(db', g) = AvailableIn(db, g) \ {q.id}
    BY <2>2 DEF AvailableIn
  <2>4. CASE TakesAway(q, db)
    BY <1>4, <2>2, <2>3, <2>4 DEF TakesAway
  <2>5. CASE ~TakesAway(q, db)
    <3>1. q.id \notin AvailableIn(db, g)
      BY <2>1, <2>5 DEF TakesAway, AvailableIn
    <3>2. AvailableIn(db, g) \subseteq AvailableIn(db', g)
      BY <2>3, <3>1
    <3> QED BY <1>3, <3>2
  <2> QED BY <2>4, <2>5
<1>7. CASE SaveOption(s) /\ q.pc = "saveOption" /\ db' # db
  <2>1. Puts(db, db', "options", q.id, q.row) /\ q.row \in OptionRow
    BY <1>7, SaveOptionIs DEF TypeInv, StageOK
  <2>2. /\ db'.groups = db.groups /\ DOMAIN db'.options = {q.id} \cup DOMAIN db.options
        /\ db'.options[q.id] = q.row
        /\ \A o \in DOMAIN db.options : o # q.id => db'.options[o] = db.options[o]
    BY <2>1 DEF Puts, Keeps, TableNames
  <2>3. q.id \in DOMAIN db.options => db.options[q.id].group = q.row.group
    <3>1. q.id \in DOMAIN db.options => /\ Belongs(db, req, q.id, q.row.group)
                                        /\ Belongs(db, req, q.id, db.options[q.id].group)
      BY <1>7 DEF Belongs, Claims
    <3> QED BY <3>1 DEF OneGroup
  <2>4. CASE TakesAway(q, db)
    <3>1. AvailableIn(db', g) = AvailableIn(db, g) \ {q.id}
      BY <1>7, <2>2, <2>4 DEF AvailableIn, TakesAway
    <3> QED BY <1>4, <2>2, <2>4, <3>1 DEF TakesAway
  <2>5. CASE ~TakesAway(q, db)
    BY <1>3, <1>7, <2>2, <2>3, <2>5 DEF TakesAway, AvailableIn
  <2> QED BY <2>4, <2>5
<1>8. CASE db' = db
  BY <1>8
<1>9. q.pc = "saveOption" => SaveOption(s)
  BY WritePinIs, CheckPinIs, SaveStoreIs, DeleteStoreIs, InsertNoteIs, SaveNoteIs, CountNotesIs,
     DeleteNoteIs, ClearNotesIs, InsertNotesIs, InsertAccountIs, RefuseAccountIs,
     SaveCategoryIs, DeleteStationIs, InsertProductIs, ResolveRelationsIs, SaveProductIs,
     ReloadProductIs, DropImageIs, MarkProductIs, InsertGroupIs, SaveGroupIs, DeleteGroupIs,
     DeleteOptionIs, InsertLinkIs, DeleteLinkIs
     DEF Step, StoresStep, NotesStep, AccountsStep, CategoriesStep, StationsStep,
         ProductsStep, ModifiersStep
<1>10. q.pc = "deleteOption" => DeleteOption(s)
  BY WritePinIs, CheckPinIs, SaveStoreIs, DeleteStoreIs, InsertNoteIs, SaveNoteIs, CountNotesIs,
     DeleteNoteIs, ClearNotesIs, InsertNotesIs, InsertAccountIs, RefuseAccountIs,
     SaveCategoryIs, DeleteStationIs, InsertProductIs, ResolveRelationsIs, SaveProductIs,
     ReloadProductIs, DropImageIs, MarkProductIs, InsertGroupIs, SaveGroupIs, DeleteGroupIs,
     SaveOptionIs, InsertLinkIs, DeleteLinkIs
     DEF Step, StoresStep, NotesStep, AccountsStep, CategoriesStep, StationsStep,
         ProductsStep, ModifiersStep
<1> QED BY <1>5, <1>6, <1>7, <1>8, <1>9, <1>10

LEMMA EnoughStep ==
  ASSUME TypeInv, NewAlone, OneGroup, SpareInv, [Next]_vars
  PROVE  EnoughKept
<1> SUFFICES ASSUME NEW g \in DOMAIN db.groups \cap DOMAIN db'.groups,
                    Cardinality(AvailableIn(db, g)) >= db.groups[g].min,
                    ~(db'.groups[g].min > db.groups[g].min),
                    history \cap OptionMeetings = {}
             PROVE  Cardinality(AvailableIn(db', g)) >= db'.groups[g].min
  BY DEF EnoughKept, Happened, Available, OptionsOf, Of, AvailableIn
<1>1. ASSUME NEW r \in Requests, Step(r)
      PROVE  Cardinality(AvailableIn(db', g)) >= db'.groups[g].min
  BY <1>1, StepKeepsEnough
<1>2. ASSUME db'.options = db.options, db'.groups = db.groups
      PROVE  Cardinality(AvailableIn(db', g)) >= db'.groups[g].min
  BY <1>2 DEF AvailableIn
<1>3. ASSUME NEW r \in Requests, Request(r) PROVE db' = db
  BY <1>3, RequestStarts DEF Starts
<1>4. CASE Direct
  <2>1. db'.options = db.options /\ db'.groups = db.groups
    BY <1>4, DirectIs DEF Creates, Puts, Keeps, TableNames
  <2> QED BY <1>2, <2>1
<1>5. CASE Restart \/ UNCHANGED vars
  BY <1>2, <1>5, RestartIs DEF vars
<1> QED BY <1>1, <1>2, <1>3, <1>4, <1>5 DEF Next

\* A group keeps as many available options as it requires: what a handler
\* counted before its await still holds when it takes an option away, unless
\* changes of the options, or of the group and its options, overlap.
THEOREM RequiredCanBeChosen == Spec => EnoughOptions
<1>1. TypeInv /\ NewAlone /\ OneGroup /\ SpareInv /\ [Next]_vars => [EnoughKept]_vars
  BY EnoughStep
<1> QED BY <1>1, TypeInvInit, TypeInvNext, ToldInit, ToldNext, NewInit, NewNext,
           OneGroupInit, OneGroupNext, SpareInit, SpareNext,
           PTL DEF Spec, EnoughOptions, EnoughKept, OptionMeetings

=============================================================================
