-------------------------------- MODULE Realtime -------------------------------
(***************************************************************************)
(* RealtimeGateway between the order services and what is looked at: a     *)
(* till in the room of the store, a kitchen display in that of its         *)
(* station, and the public receipt page of a payment (PublicReceipts).     *)
(*                                                                         *)
(* An event leaves after the save it is about, once the handler that saved *)
(* goes on.  That of a receipt reads the payment and the order first.  A   *)
(* till or display reads the row an event names when it gets the event.    *)
(*                                                                         *)
(* A behaviour is either about events, with Kitchen's handlers as they     *)
(* are, or about the rooms of one socket.                                  *)
(***************************************************************************)
EXTENDS Kitchen, Sockets

CONSTANTS Till, Display, Page,     \* the clients
          StoreRoom, StationRoom,  \* their rooms
          PatchRooms               \* the rooms of stations a PATCH may name

VARIABLES
  scene,     \* "events" or "rooms"
  mail,      \* request -> the event its handler has yet to send
  shown,     \* what the clients show
  missed     \* the clients that have something to load again

live == <<scene, mail, shown, missed>>
allVars == <<vars, socket, lapsed, live>>

ASSUME RealtimeAssumption ==
  /\ {Till, Display, Page} \subseteq Clients
  /\ {StoreRoom, StationRoom} \subseteq OwnerRooms
  /\ PatchRooms \subseteq Rooms
  /\ Receipts = PaymentIds
  /\ Till # Display /\ Till # Page /\ Display # Page

NoMail ==
  [about |-> "none", stage |-> "done", order |-> NoOrder, item |-> 0, status |-> Keep,
   room |-> StoreRoom]
Busy(r) == mail[r] # NoMail
Written(r, what, room) ==
  [about |-> what, stage |-> "send", order |-> req[r].order, item |-> req[r].item,
   status |-> Keep, room |-> room]
Post(r, m) == mail' = [mail EXCEPT ![r] = m]

Nothing == [till |-> NoRows, display |-> NoRows, receipt |-> 0, status |-> Keep]

\* A screen that has connected, joined its room, and loaded what it shows.
OnlineIn(room) ==
  [Off EXCEPT !.phase = "open", !.token = "owner", !.auth = TRUE,
              !.rooms = {room}, !.wants = {room}]
Offline == [c \in Clients |-> Off]

LiveInit ==
  /\ Init /\ lapsed = {}
  /\ mail = [r \in Requests |-> NoMail] /\ shown = Nothing
  /\ \/ /\ scene = "events" /\ missed = {Page}
        /\ socket = [c \in Clients |-> CASE c = Till -> OnlineIn(StoreRoom)
                                         [] c = Display -> OnlineIn(StationRoom)
                                         [] OTHER -> [Off EXCEPT !.phase = "open"]]
     \/ scene = "rooms" /\ socket = Offline /\ missed = {}

-----------------------------------------------------------------------------
(* The order services, with what they write to the gateway. *)

\* The end of create and of update.  An update replaces station items without
\* an event to their stations.
SaveAndTell(r) ==
  LET made == req[r].op = "create" IN
    /\ SaveBuilt(r)
    /\ Post(r, Written(r, IF made THEN "created" ELSE "updated", StoreRoom))
    /\ missed' = IF made \/ req[r].built = NoRows THEN missed ELSE missed \cup {Display}

\* update of a station item: the event precedes syncOrderCompletion.  It goes
\* to the station the body names, which exists but need not be the item's.
ServeAndTell(r) ==
  /\ SaveTask(r)
  /\ \E room \in PatchRooms : Post(r, Written(r, "task", room))
  /\ UNCHANGED missed

\* Mutation: syncOrderCompletion does not tell what it has done.
CompleteQuietly(r) == CompleteOrder(r) /\ UNCHANGED <<mail, missed>>

CompleteAndTell(r) ==
  CompleteOrder(r) /\ Post(r, Written(r, "updated", StoreRoom)) /\ UNCHANGED missed

\* What the gateway hears nothing of.
Untold(r) ==
  /\ \/ ClearItems(r)
     \/ BuildItem(r)
     \/ RejectItem(r)
     \/ RejectTask(r)
     \/ SyncCompletion(r)
     \/ PaymentsStep(r)
  /\ UNCHANGED <<mail, missed>>

Serve(r) ==
  /\ ~Busy(r)
  /\ SaveAndTell(r) \/ ServeAndTell(r) \/ CompleteAndTell(r) \/ Untold(r)
  /\ UNCHANGED <<scene, shown, socket, lapsed>>

\* A slot is free again when its events have left.
Take(r) ==
  /\ scene = "events" /\ ~Busy(r)
  /\ CreateOrder(r) \/ LoadForUpdate(r) \/ LoadTask(r) \/ LoadForPay(r)
  /\ UNCHANGED <<live, socket, lapsed>>

-----------------------------------------------------------------------------
(* The gateway. *)

Hears(c, room) == room \in socket[c].rooms

\* Those who should hear an event sent to room, and do not.
Deaf(c, room) == IF Hears(c, room) THEN {} ELSE {c}

TillReads(o) ==
  IF Hears(Till, StoreRoom) /\ o \in DOMAIN orders
  THEN Put(Row(o, orders[o]), shown.till) ELSE shown.till

DisplayReads(room, keys) ==
  IF Hears(Display, room)
  THEN Put([i \in keys \cap DOMAIN tasks |-> tasks[i]], shown.display) ELSE shown.display

Sending(r, what) == mail[r].about = what /\ mail[r].stage = "send"
Quiet == UNCHANGED <<vars, scene, socket, lapsed>>

\* Mutation: only the store hears of a new order.
EmitToStore(r) ==
  /\ Sending(r, "created")
  /\ shown' = [shown EXCEPT !.till = TillReads(mail[r].order)]
  /\ missed' = missed \cup Deaf(Till, StoreRoom)
  /\ Post(r, NoMail) /\ Quiet

\* emitOrderCreated: to the store, and to the stations of the items.
EmitOrderCreated(r) ==
  LET o == mail[r].order IN
    /\ Sending(r, "created")
    /\ shown' = [shown EXCEPT !.till = TillReads(o),
                              !.display = DisplayReads(StationRoom, TasksOf(o))]
    /\ missed' = missed \cup Deaf(Till, StoreRoom) \cup Deaf(Display, StationRoom)
    /\ Post(r, NoMail) /\ Quiet

\* emitOrderUpdated: to the store, and then on to the receipt.
EmitOrderUpdated(r) ==
  /\ Sending(r, "updated")
  /\ shown' = [shown EXCEPT !.till = TillReads(mail[r].order)]
  /\ missed' = missed \cup Deaf(Till, StoreRoom)
  /\ Post(r, [mail[r] EXCEPT !.stage = "look"]) /\ Quiet

\* emitOrderStationItemUpdated: a display in another room has missed it.
EmitOrderStationItemUpdated(r) ==
  /\ Sending(r, "task")
  /\ shown' = [shown EXCEPT !.display = DisplayReads(mail[r].room, {mail[r].item})]
  /\ missed' = missed \cup Deaf(Display, mail[r].room)
  /\ Post(r, NoMail) /\ Quiet

\* Mutation: the status is the one the handler remembers.
Remembered(r) == "NEW"

\* The status of the order a payment is loaded with.
StatusFor(r) == orders[mail[r].order]

\* emitReceiptUpdated: any payment of the order is loaded, with the order, ...
LoadReceipt(r) ==
  LET o == mail[r].order IN
    /\ mail[r].stage = "look"
    /\ IF PaymentsOf(o) = {} THEN Post(r, NoMail)
       ELSE \E p \in PaymentsOf(o) :
              Post(r, [mail[r] EXCEPT !.stage = "push", !.item = p, !.status = StatusFor(r)])
    /\ UNCHANGED <<shown, missed>> /\ Quiet

\* ... and its status goes to the receipt's room, or that it has expired.
\* Another event that has been loaded, but not sent, may now come too late.
EmitReceiptUpdated(r) ==
  LET p == mail[r].item IN
    /\ mail[r].stage = "push"
    /\ shown' = IF shown.receipt = p /\ Hears(Page, p) /\ Readable(p)
                THEN [shown EXCEPT !.status = mail[r].status] ELSE shown
    /\ missed' = missed \cup (IF shown.receipt = p THEN Deaf(Page, p) ELSE {})
                        \cup {Page : s \in {t \in Requests \ {r} : mail[t].stage = "push"}}
    /\ Post(r, NoMail) /\ Quiet

Emit(r) ==
  \/ EmitOrderCreated(r)
  \/ EmitOrderUpdated(r)
  \/ EmitOrderStationItemUpdated(r)
  \/ LoadReceipt(r)
  \/ EmitReceiptUpdated(r)

-----------------------------------------------------------------------------
(* The clients. *)

\* A screen that was cut off, or is reloaded, joins its room and then loads.
LoadTill ==
  /\ scene = "events" /\ Till \in missed
  /\ socket' = [socket EXCEPT ![Till] = OnlineIn(StoreRoom)]
  /\ shown' = [shown EXCEPT !.till = orders]
  /\ missed' = missed \ {Till}
  /\ UNCHANGED <<vars, scene, mail, lapsed>>

LoadDisplay ==
  /\ scene = "events" /\ Display \in missed
  /\ socket' = [socket EXCEPT ![Display] = OnlineIn(StationRoom)]
  /\ shown' = [shown EXCEPT !.display = tasks]
  /\ missed' = missed \ {Display}
  /\ UNCHANGED <<vars, scene, mail, lapsed>>

\* findByToken, of a receipt that has not expired.  What is already on its
\* way to the page may be older than what it loads.
FindByToken ==
  \E p \in DOMAIN payments :
    /\ scene = "events" /\ Page \in missed /\ Readable(p)
    /\ shown' = [shown EXCEPT !.receipt = p, !.status = orders[payments[p].order]]
    /\ missed' = IF \E r \in Requests : mail[r].stage = "push" THEN missed
                 ELSE missed \ {Page}
    /\ UNCHANGED <<vars, scene, mail, socket, lapsed>>

\* The page joins the room of the receipt it shows, which may expire.
FollowReceipt ==
  /\ scene = "events" /\ shown.receipt # 0 /\ UNCHANGED <<vars, live>>
  /\ \/ shown.receipt \notin socket[Page].wants /\ JoinReceipt(Page)
     \/ FinishJoinReceipt(Page)
     \/ Lapse

\* The rooms of one socket.
Visit ==
  /\ scene = "rooms" /\ UNCHANGED <<vars, live>>
  /\ SocketsStep(Page) \/ Lapse

\* The process stops: handlers, events and connections are gone.
Crash ==
  /\ scene = "events" /\ Restart
  /\ mail' = [r \in Requests |-> NoMail]
  /\ socket' = [Offline EXCEPT ![Page] = [Off EXCEPT !.phase = "open"]]
  /\ missed' = {Till, Display, Page}
  /\ UNCHANGED <<scene, shown, lapsed>>

LiveNext ==
  \/ \E r \in Requests : Take(r) \/ Serve(r) \/ Emit(r)
  \/ LoadTill
  \/ LoadDisplay
  \/ FindByToken
  \/ FollowReceipt
  \/ Visit
  \/ Crash

LiveSpec == LiveInit /\ [][LiveNext]_allVars

-----------------------------------------------------------------------------

Unsent(o) == \E r \in Requests : mail[r].order = o /\ mail[r].stage = "send"
Serving(i) == \E r \in Requests : mail[r].item = i /\ mail[r].about = "task"
Pending(o) == \E r \in Requests : mail[r].order = o /\ Busy(r)

\* A till that missed no event shows every order as it is, once its events
\* have left, whatever handlers changed the order at once.
TillCurrent ==
  Till \notin missed =>
    \A o \in DOMAIN orders :
      ~Unsent(o) => o \in DOMAIN shown.till /\ shown.till[o] = orders[o]

\* A display that missed no event shows every station item as it is, unless
\* updates have replaced items of an order, or an update of a station item
\* has named another station than the item's.
DisplayCurrent ==
  Display \notin missed =>
    \A i \in DOMAIN tasks :
      ~Unsent(items[i].order) /\ ~Serving(i) =>
        i \in DOMAIN shown.display /\ shown.display[i] = tasks[i]

\* A receipt page that missed no event shows the status of the order, unless
\* the receipt has expired, the order was paid twice, or one event of the
\* order overtook another.
ReceiptCurrent ==
  LET p == shown.receipt IN
    Page \notin missed /\ p \in DOMAIN payments \ lapsed =>
      LET o == payments[p].order IN
        ~Pending(o) /\ PaymentsOf(o) = {p} => shown.status = orders[o]
=============================================================================
