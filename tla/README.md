# ktichy-backend: a TLA+ model of the back end

ktichy is the back end of a restaurant point of sale: a NestJS server over a
MySQL database, used by the till, the kitchen's station screens and the owner's
back office. This directory holds TLA+ modules that model its services and its
web socket gateway, the TLC configurations that check them on small instances,
and proofs of theorems about them for every instance. Paths below are relative to the repository (`src/...`
is the application).

## 1. The system

One Node.js process serves HTTP requests and web sockets. Handlers run
concurrently: each is interrupted at every `await`, and almost every `await` is
one call of a TypeORM repository. No handler opens a transaction around two
calls, no table has a version column, and nothing locks. So the state is in the
database and in the copies of rows that handlers in flight hold. The hard
behaviour of this system is what those stale copies do when they are saved.

| Component | State it keeps | Operations | Works with | What makes it correct |
|---|---|---|---|---|
| Orders (`src/orders`) | `order`, `order_item`, `order_item_modifier` | create, update (replaces the items when the body has a product list), remove; reads | Products, Modifiers, Stores, Realtime; Transactions calls its update | items keep their price snapshot; an edit leaves all of the new items or all of the old ones; an order that is removed stays removed; no item without order or station item |
| Order station items (`src/order-station-item`) | `order_station_item` | update, then syncOrderCompletion on the order | Orders' tables, Realtime | the order is completed when its last item is served, and a finished order stays as it is |
| Payments (`src/payments`) | `payment` | pay; PromptPay QR (read only) | reads orders and items | an order is paid once, and for what its items cost |
| Products (`src/products`) | `product` | create, update, soft delete, restore | Stations, Categories, Uploads; read by Orders | an entry off sale or deleted is not sold; history does not change |
| Modifiers (`src/modifiers`) | groups, options, links to products | create, update, delete, assign; `validateAndCalculate` (pure) | read by Orders | a group never requires more options than it has available; the price is base plus selected adjustments |
| Pairing codes, requests, Devices (`src/pairing-*`, `src/devices`) | `pairing_code`, `pairing_request`, `device` | create/reuse a code, join by code, approve, update, remove | Stores, Stations, JWT | a code pairs one device, not after it expired; a device's station belongs to its store |
| Stations (`src/stations`) | `station` | create, update, remove (force) | products and station items hang on it | nothing in use is removed without force |
| Stores (`src/stores`) | `store`, PIN hash | create, setPin, updatePin, update with PIN, remove | everything hangs on it | the PIN is set once; settings change only with the PIN in force |
| Quick notes (`src/quick-note`) | `quick_note` | create, update, remove, replace | Stores | a store that has notes keeps at least one; sort orders are distinct |
| Categories (`src/category`) | `category` | create, update, deactivate | Products | an update changes what it was asked to change |
| Realtime (`src/realtime`) | rooms of web sockets | connect, join/leave, receipt.join/leave; emits called by Orders and station items | JWT, Stores, Stations, Payments | a socket is only in rooms it may see; a screen that follows the events shows the tables |
| Public receipts (`src/public-receipts`) | none (reads `payment`) | find by token | Payments | no receipt after its expiry |
| Transactions (`src/transactions`) | none (views) | filters, counts, amounts; PATCH calls Orders' update | Orders, Payments | the counts beside the tabs are those of the lists |
| Reports (`src/reports`) | none (views) | ranges, sums, breakdowns, top products, calendar | Orders, Payments | a report covers whole days, and its parts add up |
| Users (`src/users`) | `user` | register, login, first Google login | Auth | what passed the lookups is not refused at the insert |
| Uploads (`src/uploads`) | files in object storage | store an image, delete it | Products | no image that is shown is deleted |
| Auth, filters, scripts | none | tokens; error answers; maintenance | | |

The hard parts, in the order of how much depends on them: stale copies of
orders and items written back; check-then-insert without a unique key
(payments, codes, PIN, notes, links); deletes before a step that can fail
(order edits, note replacement); a restart between two calls; completion as a
separate step after the station item is saved; events emitted after the fact.
`PROJECT.json` lists each at its line, under `hazards`.

## 2. Modules

| Module | Models | Lines of the source |
|---|---|---|
| `Tables` | tables as functions from keys to rows: save, delete, well-formedness | TypeORM, MySQL |
| `OrderTables` | the tables `order`, `order_item`, `order_station_item`, `payment` and the menu; the requests in flight; reads and writes of the repositories | entities, foreign keys of the first migration |
| `Orders` | `OrdersService`: create, update, remove, buildOrderItems | `src/orders/orders.service.ts` |
| `StationItems` | `OrderStationItemService`: update, syncOrderCompletion | `src/order-station-item/order-station-item.service.ts` |
| `Payments` | `PaymentsService.pay` | `src/payments/payments.service.ts` |
| `Kitchen` | the three services on one database, menu changes, restarts; their properties | |
| `Ticket` | the abstract specification: what an order is promised from being taken to being completed | |
| `Service` | the refinement mapping from `Kitchen` to `Ticket` | |
| `Sockets` | connections, tokens, rooms: join-room, leave-room, receipt.join, receipt.leave | `src/realtime/realtime.gateway.ts` |
| `Realtime` | `Kitchen`'s handlers with the events they emit, the receipts, and what the clients show | `realtime.gateway.ts`, `src/public-receipts` |
| `PairingTables` | the tables `pairing_code`, `device`, `station` and `store` as far as pairing goes | entities, first migration |
| `PairingCodes` | `PairingCodesService`: create, joinByCode, update, remove | `src/pairing-codes/pairing-codes.service.ts` |
| `Devices` | `DevicesService`: create, update, remove; stations and stores that move or go | `src/devices/devices.service.ts` |
| `Pairing` | both services on one database, time, restarts; their properties | |
| `ShopTables` | the tables of the back office, their foreign keys and unique keys; the requests in flight | entities, migrations |
| `StoreSettings` | `StoresService`: create, setPin, updatePin, update, remove | `src/stores/stores.service.ts` |
| `QuickNotes` | `QuickNoteService`: create, update, remove, replace | `src/quick-note/quick-note.service.ts` |
| `Accounts` | `UsersService`: register, first Google login | `src/users/users.service.ts` |
| `Categories` | `CategoryService`: create, update, remove | `src/category/category.service.ts` |
| `Stations` | `StationsService`: create, update, remove with force | `src/stations/stations.service.ts` |
| `ProductCatalog` | `ProductService`: create, update with its image clean-up, remove, restore | `src/products/products.service.ts`, `src/uploads/uploads.service.ts` |
| `Modifiers` | `ModifiersService`: groups, options, links to products | `src/modifiers/modifiers.service.ts` |
| `Shop` | the services of the back office on one database; their properties | |
| `Sums` | the sum of the values of a function, for the views | |
| `Ledger` | orders and payments as the views see them, growing in time | orders, payments, entities |
| `Transactions` | the history: view, filters, counts | `src/transactions/transactions.service.ts` |
| `Reports` | ranges, summary, breakdowns, top products, calendar | `src/reports/reports.service.ts` |
| `ModifierSelection` | `validateAndCalculate`, and what the menu view offers | `src/modifiers/modifier-selection.service.ts` |
| `Figures` | the views over a ledger, or a choice of modifiers; their properties | |
| `MCKitchen`, `MCPairing`, `MCShop`, `MCRealtime`, `MCFigures` | values of the constants for TLC | |
| `Kitchen_proofs` | type correctness and referential integrity of `Kitchen`; an item keeps its price and quantity, and so does every copy of it | |
| `Service_proofs` | a served order is completed; the services implement `Ticket`, step by step; requests one after the other charge an order once, and its total | |
| `Pairing_proofs` | type correctness of `Pairing`; its codes are one per station, pair one device, close and stay spent; its displays stay at home | |
| `Realtime_proofs` | a socket is in the rooms it may be in and asked for; till, display and receipt page show what is stored | |
| `Shop_proofs` | type correctness of `Shop`, foreign keys included | |
| `ShopPromises_proofs` | the promises of the back office, each up to the overlaps it names | |
| `SumTheorems` | sums over finite sets: one at a time, in two parts, sorted into classes, renamed | |
| `Figures_proofs` | the figures of the history and the reports agree; exactly what is offered is accepted, and charged once | |

`Orders`, `StationItems` and `Payments` extend `OrderTables`; `Kitchen` extends
the three and composes them: a step of the system is one step of one handler,
a new request, a change of the menu, or a restart. `Realtime` extends `Kitchen`
and `Sockets`: its steps are `Kitchen`'s with the event each of them writes, the
gateway's, and the clients'. `Service` extends `Kitchen` too. `Pairing` and
`Shop` are built like `Kitchen`, each on tables of its own: what they have in
common with it (stores, stations, products) is in each as far as its services
read it, and the steps of the others that matter there are steps of its own
(`ChangeMenu`, `RemoveStation`, `SellProduct`). `Figures` computes from a ledger
in which a save is one step: the views only read.

### State

`req[r]` is what one request has in memory: `pc`, the `await` it is suspended
at, and everything the handler reads before an `await` and uses after it. In
`Kitchen`: `order`, `held` (its copy of the order's items), `status` (the status
its copy has), `lines` (the product list still to be looked up), `built` (the
items `buildOrderItems` has made), `item` (the station item, next new item, or
payment it is about), `bill`. In `Shop`: `id` and `row` (the row it is about and
its copy), `asked` (the columns its body sets), `seen` (a PIN or an image it
looked at), `new` (ids it will insert). In every module the fields are commented
where `Idle` is declared.

`db` in `Shop` holds the tables of the back office as a record; `scene` there,
in `Pairing`, in `Realtime` and in the ledger chooses at the start which
operations (and which rows) a behaviour has, so that one run explores several
small systems instead of their product.

| Handler | Actions, in order |
|---|---|
| `OrdersService.create` | `CreateOrder`, then `BuildItem` per line (or `RejectItem`), `SaveBuilt` |
| `OrdersService.update` | `LoadForUpdate`; with a list `ClearItems` (when items are loaded), `BuildItem` per line (or `RejectItem`); `SaveBuilt` |
| `OrdersService.remove` | `LoadForRemove`, `RemoveOrder` |
| `OrderStationItemService.update` | `LoadTask`, `SaveTask` (or `RejectTask`), `SyncCompletion`, `CompleteOrder` |
| `PaymentsService.pay` | `LoadForPay`, `CheckPayment` (or `RefusePayment`), `ChargeOrder` (or `ChargeFails`) |
| `PairingCodesService.create` | `FindPending`, `InsertCode` |
| `PairingCodesService.joinByCode` | `FindCode`, then `RejectJoin`, or `FindExpired` and `SaveExpired`, or `Admit`, `PairDevice` (or `PairFails`), `CloseCode` |
| `PairingCodesService.update`, `remove` | `LoadForPatch`, `SavePatched`; `LoadForRemove`, `RemoveCode` |
| `DevicesService.create` | `RegisterDevice` (one step: its lookup only repeats a unique key) |
| `DevicesService.update` | `LoadDevice`, `AcceptTarget` (or `RejectTarget`) when the body names a store or station, `SaveDevice` (or `SaveDeviceFails`) |
| `DevicesService.remove` | `LoadForRemoveDevice`, `DeleteDevice` |
| `StoresService.create`, `remove` | `CreateStore`; `LoadForRemoveStore`, `DeleteStore` |
| `StoresService.setPin`, `updatePin` | `LoadForSetPin` or `LoadForUpdatePin`, `WritePin` |
| `StoresService.update` | `LoadForStoreUpdate`, `CheckPin`, `SaveStore` |
| `QuickNoteService.create`, `update` | `PlaceNote`, `InsertNote`; `LoadNote`, `SaveNote` |
| `QuickNoteService.remove`, `replace` | `LoadForRemoveNote`, `CountNotes`, `DeleteNote`; `ReplaceNotes`, `ClearNotes`, `InsertNotes` |
| `UsersService.create`, Google login | `Register` or `GoogleLogin`, `InsertAccount` (or `RefuseAccount`) |
| `CategoryService` | `CreateCategory`; `LoadCategory` or `LoadForRemoveCategory`, `SaveCategory` |
| `StationsService` | `CreateStation`; `MoveStation`; `LoadForRemoveStation`, `DeleteStation` |
| `ProductService.create` | `CreateProduct`, `InsertProduct` |
| `ProductService.update` | `LoadProduct`, `ResolveRelations`, `SaveProduct`, and with a new image `ReloadProduct`, `DropImage` (or `KeepImage`) |
| `ProductService.remove`, `restore` | `LoadForRemoveProduct` or `LoadForRestoreProduct`, `MarkProduct` |
| `ModifiersService`, groups | `CreateGroup`, `InsertGroup`; `LoadGroup`, `SaveGroup`; `LoadForDeleteGroup`, `DeleteGroup` |
| `ModifiersService`, options | `CreateOption`; `LoadOption`, `SaveOption`; `LoadForDeleteOption`, `DeleteOption` |
| `ModifiersService`, links | `AssignGroup`, `InsertLink`; `LoadForUnassign`, `DeleteLink` |
| `handleConnection` | `Connect`, `Verify` |
| `join-room`, `leave-room` | `JoinRoom`, `FinishJoinRoom` (an owner's lookups); `Leave` |
| `receipt.join`, `receipt.leave` | `JoinReceipt`, `FinishJoinReceipt`; `Leave` |
| `emitOrderCreated`, `emitOrderStationItemUpdated` | `EmitOrderCreated`; `EmitOrderStationItemUpdated` |
| `emitOrderUpdated`, `emitReceiptUpdated` | `EmitOrderUpdated`, `LoadReceipt`, `EmitReceiptUpdated` |
| `PublicReceiptsService.findByToken` | `FindByToken` |
| `TransactionsService` | `View`, `List`, `Counts` (operators) |
| `ReportsService` | `ResolveRange`, `Summary`, `PaymentBreakdown`, `DeliveryProviders`, `HourlyOrders`, `TopProducts`, `CalendarDays` (operators) |
| `ModifierSelectionService.validateAndCalculate` | `TakeEntry` per entry of the request (or `RefuseEntry`), `Conclude` |

### Abstractions

Of all modules:

* One repository call is one atomic step. TypeORM wraps a `save` in a
  transaction of its own; a `findOne` with relations may take two SELECTs, which
  the model reads as one. Lookups in a row that nothing separates but their
  awaits are one step where only the last of them can matter: the two reads of
  setPin and updatePin, the relations a product update resolves, the two rows an
  assignment looks up, the rows a new product names.
* TypeORM and the database are outside `src/`: their operators are marked
  external. `save` of a copy is modelled as TypeORM 0.3 does it: the loaded
  columns of the copy replace those of the row when they differ; a row that is
  gone is inserted. For an order (`SaveOrder`), when the relation `items` is
  loaded, rows of the order that the copy lacks get `orderId` NULL, and rows the
  copy has are attached or inserted.
* Ids (`nanoid10`) are handed out when a request is accepted instead of at the
  insert. They are compared for equality only and never drawn twice.
* Bodies that fail validation before any state is touched are left out.
* `history` is a history variable: it records overlaps and events the services
  do not provide for, no action reads it, and every property names the events it
  does not survive.

`Kitchen`, `Service`:

* A product with one choice of modifiers is one menu entry, with a price in
  cents and a flag that is true when it may be sold (`isActive`, not deleted,
  the modifier selection valid).
* Each order item has one station item, since `buildOrderItems` makes exactly
  one; it is named by its item.
* Of an order only the status is kept; of a payment its order, amount and
  change; of an optional amount of a body, a list of none or one. The lookup of
  the store (create) and of the station (station item update) are left out:
  nothing here removes a store or a station. The station of a station item
  update decides only where its event goes, see `Realtime`.
* Amounts are integers, cents. `toCents` rounds both sides of every comparison.

`Realtime`:

* The clients are not in the repository: a till, a display and a receipt page
  that use the gateway as its events suggest. A till or display joins its room,
  then loads, and from then on reads the row an event names when the event
  comes. A receipt page shows the status an event carries.
* A `PATCH` of a station item carries a `stationId`. The service looks that
  station up and sends the event to its room; it never compares it with the
  station of the item. `ServeAndTell` therefore takes any room of `PatchRooms`,
  which has the item's own station and another one in the run.
* A request slot is busy until the events of its handler have left. Removing an
  order emits nothing and is left out. One payment has one receipt.

`Pairing`:

* Time is a counter (`Tick`, up to `MaxTime`) and a code's lifetime a number of
  ticks. A lookup under a column that is NULL (`stationId` of a code for the
  whole store) is answered by any row, as TypeORM 0.3 leaves such a condition
  out.

`Shop`:

* One owner: the checks that a row is the caller's are left out. Names, prices,
  texts and `isActive` of products are left out; all columns of a store besides
  its PIN are one value; a PIN's hash is the PIN, hashing and comparing are
  awaits. PUT replaces the notes by a list of two.
* An order item of a product is a row that keeps its product and station from
  being deleted (RESTRICT). The database may then refuse to delete a store or
  not, depending on the order in which it cascades: both happen in the model.
* Deleting an image may fail; the service ignores it (`KeepImage`).

`Ledger`, `Transactions`, `Reports`:

* Each service call is one step; orders are not removed. Times are whole hours,
  a day has `DayHours` of them, a month is two days, a week `Week` days. The
  delivery platform "Unknown" is None. Which of two payments of an order a view
  shows is any fixed one. Lists of top products have length `Listed`. The search
  by order number is left out.

## 3. Properties and runs

Deadlock is not checked: when the ids of an instance are used up and no client
sends anything, the system rests.

Bounds: two concurrent requests are enough for every race here, since each
involves one handler holding a stale copy and one changing the rows under it;
the serial run checks longer histories with one. One order suffices where the
property is about the copies of one order. `MaxItems = 3` allows an order of
one item to be edited twice (so an item is deleted, rebuilt and rebuilt again)
or an order of two items and an edit. Two prices let a snapshot differ from the
menu. Requests are symmetric in the safety runs; the run with liveness
properties has no symmetry.

| Run | Checks | Instance |
|---|---|---|
| `kitchen_all` | `TypeOK`, `RefInt`, `CopiesAgree`, `SnapshotFrozen` | two requests, every operation, menu changes, restarts |
| `kitchen_service` | `ServedCompletes`, `EventuallyCompleted`, `ImplementsTicket` | two requests: create, serve, pay, menu; screens set all three statuses; an order of one or two items; `FairSpec` |
| `kitchen_serial` | `AtMostOnePaid`, `ChargedIsTotal`, `NoOrphans` | one request at a time, two orders, every operation, menu changes, restarts between any two calls |
| `pairing` | `TypeOK`, `OneDevicePerCode`, `UsedCloses`, `OneOpenCode`, `SpentForGood`, `DevicesAtHome` | two requests, two stores with a station each, two devices; two scenes: codes (two of them, three moments of time, restarts) and devices (one code; devices, stations and stores that move or go); 2.5 million states |
| `shop` | `TypeOK`, `GoneForGood`, `OnlyAsked`, `PinGuarded`, `SettingsGuarded`, `NotesRemain`, `NotesOrdered`, `NoLateRefusal`, `ImagesStored`, `AtHome`, `ProductsKept`, `BoundsValid`, `EnoughOptions` | two requests, fourteen scenes, each a set of operations on a small database; 0.9 million states |
| `realtime` | `TillCurrent`, `DisplayCurrent`, `ReceiptCurrent`, `RoomsAsWanted` | two requests, one order, three clients, one receipt, updates of station items that name their station or another, expiry, restarts; or one socket, three rooms and a receipt; 2.9 million states |
| `figures` | `CountsAgree`, `RangesWhole`, `BreakdownsAddUp`, `TakingsAgree`, `ProductsEarnRevenue`, `OfferedIsAccepted`, `ChargedOnce` | two orders and two payments, either cooked, edited and paid within two hours, or paid over five hours of two-hour days (no edits: the products of those reports are not promised anything after one, and no other figure of theirs is about lines); or menus of up to two groups and three options with every request of up to two entries; 0.5 million states |

### Orders

* `RefInt` holds with no restriction: foreign keys and the way `save` inserts
  keep every reference valid, whichever stale copy is written.
* `CopiesAgree` and `SnapshotFrozen`: an item's price and quantity never change,
  not even by being deleted and written back from a stale copy, and not when
  the menu does.
* `ServedCompletes`: whatever the order in which two screens save, the one that
  saves last finds the other's and completes the order. It needs that nobody
  edits the order meanwhile (an edit without status saves the status it loaded
  over COMPLETED) and that the process is not restarted: there is no other
  place that completes an order.
* `EventuallyCompleted` is the same as a liveness property. Fairness is weak, per
  request, and only over steps of a handler that has been started (`Step`): the
  event loop resumes a handler when the database has answered. No request ever
  has to arrive.
* `ImplementsTicket`: with the same operations the two services together are the
  life cycle of `Ticket`: an order is completed only after a moment at which all
  of its station items were served, stays completed whatever the stations take
  back, and is completed if it stays served. The refinement maps the status of
  the row to the ticket, the station items to `served`, and a handler on its way
  to the save of COMPLETED to `decided`: between that handler's look at the
  station items and its save a station may take an item back, which is why
  `Ticket` does not promise that a completed order is served.
* The properties of `kitchen_serial` are what the services guarantee when
  requests do not overlap, including after a restart in the middle of one. Each
  of them fails when two requests overlap: `AtMostOnePaid` and `NoOrphans` are
  shown below; `ChargedIsTotal` fails when an edit replaces the items between
  the load and the insert of a payment. `NoOrphans` also fails when an edit
  writes back an item that another edit has deleted, which inserts the item
  without a station item. For the same reason an order that was removed can come
  back, when an edit that had loaded it saves its copy.

### Events and what the screens show

Events and handlers interleave: two handlers may save an order in one order and
emit in the other. `TillCurrent` holds nevertheless, since a till reads the row
an event names when it gets the event, so the last event brings the last row. So
does `DisplayCurrent`, but for two things that a display does not hear of and
has to load: an update that replaces the items of an order, since no event tells
the stations of the old items, nor those of the new; and an update of a station
item whose body names another station, since its event goes to that one's room.
What is left is that every other way of making and serving an item, with events
delayed past each other's saves, reaches the display. `ReceiptCurrent` has
more exceptions, since `receipt.updated` carries a status read before it is
sent: two such events may arrive out of order, one that is on its way when the
page loads may be older than what it loads, and `findOne` tells only one receipt
of an order that was paid twice. After a restart each screen is current again
once it has joined and loaded, in that order.

`RoomsAsWanted` has two halves. A socket is never in a room its token is not good
for, without exception. When no lookup is pending it is in exactly those it
asked for, unless it asked before the verification of its token was done (the
gateway refuses that) or left a room whose join was still looking (the join then
takes effect after the leave). A socket that joins the room of an expired
receipt again is told so but stays in the room.

### Pairing

* `UsedCloses` and `SpentForGood` are what is left of "one code, one device" when
  joins overlap, codes expire and are removed: a code that has paired a device
  is closed or about to be, and no stale copy opens it again. `PATCH` can: it
  saves the status it loaded. `OneDevicePerCode` holds when, besides, no two
  joins of the code overlap and the process does not stop between the save of
  the device and that of the code. Of two joins the slower may find its copy
  expired and write EXPIRED over CLOSED; neither status can be joined with.
* `OneOpenCode`: `create` answers with the code there is; only two creates at
  once, or a `PATCH`, give a station two.
* `DevicesAtHome` holds although every update of a device saves a copy loaded
  three awaits earlier, because the copy is saved whole: whichever update comes
  last, its store and its station are a pair that was checked. It does not
  survive a device stored with a station of another store (neither
  `POST /devices` nor `POST /pairing-codes` compares them), a `PATCH` of the
  store alone, or a station that changes its store.

Bounds: a code is spent by one join, so two requests give every overlap of two
handlers; two codes let an expired one be followed by a new one; three moments
are before, at and after the expiry of a code.

### The back office

Almost every update loads a row, awaits something, and saves the row. So the
interesting question is which promises survive which overlaps. Each property
says what holds and names the overlaps that break it; everything else in its
scenes, with restarts, does not. `BoundsValid` and the references of `TypeOK`
survive everything.

| Property | Promise | What it does not survive |
|---|---|---|
| `GoneForGood` | a row that was deleted does not come back | an update of the row in flight when it is deleted |
| `OnlyAsked` | a save changes only the columns its body sets | two updates of one table at once; an update of a product in flight while it is removed puts it back on sale; a store that comes back |
| `PinGuarded` | a PIN is replaced only by who was given it | two setPin, or two updatePin |
| `SettingsGuarded` | settings change only with the PIN in force | a PIN that is written between the check and the save |
| `NotesRemain` | a store that has notes keeps one | two removes; a stop between the two statements of PUT |
| `NotesOrdered` | no two notes of a store share a place | a body that names the place; two requests that place notes |
| `NoLateRefusal` | a registration that passed its lookups is not refused at the insert | another registration meanwhile: it gets the database's error |
| `ImagesStored` | an image that is shown is stored | an image that two products show; two updates of a product |
| `AtHome` | a product, its station, category and groups belong to one store | a product or station moved to another store |
| `ProductsKept` | a station removed without force takes no product along | a product given to the station meanwhile |
| `EnoughOptions` | a group that has the options it requires keeps them | changes of two options, or of group and option, at once |
| `BoundsValid` | min, max and kind of a group fit together | (none) |

The scenes keep the product of all operations out of the run: two handlers only
meet through rows they both touch, and each scene holds the operations that touch
the rows it starts with. The scenes are named and listed in `MCShop`.

### Views and the choice of modifiers

* `CountsAgree`: the list and the counts beside it sort orders into flows by two
  pieces of code; for every filter and every ledger they agree.
* `RangesWhole`, `BreakdownsAddUp`: ranges are whole days, the last day of a
  month included, and methods, providers and hours add up to the summary.
* `TakingsAgree`, `ProductsEarnRevenue`: the history, the reports and the top
  products tell of the same money, unless an order was paid twice (the history
  shows one payment) or edited after it was paid (products and receipts are
  those of now, the revenue is that of then). The list of top products stands
  for all of the revenue only if it lists all products; but a product that came
  to nothing, with its options, does not show.
* `OfferedIsAccepted`, `ChargedOnce`: the loop of `validateAndCalculate`, checked
  entry by entry against a definition of what a till may put together.

A month of two days, a week of two, and a day of two hours have a first and a
last of each, and a day before and after; two orders are needed for sums and
sorting, two payments for one order paid twice or two orders paid.

### Where the code departs from what the repository says

Each is a finding in `PROJECT.json`, with the quoted line:

| Run | Property | What happens |
|---|---|---|
| `double_pay` | `AtMostOnePaid` | two payments of one order in flight both find none and both insert |
| `emptied_order` | `OrderNeverEmptied` | an edit deletes the items, then a product is off sale: the order stays empty |
| `cancelled_completed` | `CancelledIsFinal` | the last item of a cancelled order is served: it becomes COMPLETED |
| `racing_edits` | `NoOrphans` | two edits replace the items: those of the first stay, with station items, but without order |
| `lost_product` | `RemovedRecoverable` | a station whose only product is removed counts as unused; deleting it takes the product's row along |

Further departures were met while modelling and are part of the models without a
run of their own:

* `docs/api-products.md:354` describes a hard delete of products; the code sets
  `deletedAt`. Groups are deleted for good where the docs speak of a soft delete.
* Removing a station with `force=true` fails when station items refer to it
  (RESTRICT); the check it skips would have said so.
* `updateGroup` fails, or writes options back, when an option was created,
  changed or deleted since the group was loaded.
* `PATCH /transactions/:id` answers with a view of an order loaded without its
  payments and station items (`docs/api-transactions.md:125,362`).
* Preset `month` without a month in a report: the year is read as 0.
* `docs/features/realtime.md:10` has orders and statuses pushed to the kitchen's
  screens. A station screen gets no event for items an edit replaces, and none
  for an item whose update names another station
  (`order-station-item.service.ts:72`): the body's `stationId` has to exist, not
  to be the item's. Removing an order emits nothing.

## 4. Proofs

Every proof is for all values of the constants; the only assumptions are the
named ones of the modules, which give the constants their types, and those three
theorems of `Service_proofs` state in their own text.

Eight modules hold theorems. The order services come first: `Service_proofs`
extends `Kitchen_proofs`, and `Realtime_proofs` extends `Service_proofs`, so that
an invariant is proved once and carried along. `ShopPromises_proofs` extends
`Shop_proofs`, `Figures_proofs` extends `SumTheorems`, and `Pairing_proofs`
stands alone.

### Orders

`Kitchen_proofs`, from `OrderTablesAssumption`:

* `TypeCorrect`: `Spec => []TypeOK`;
* `ReferencesHold`: `Spec => []RefInt`.

The inductive invariant is `TypeInv == TypeOK /\ RefInt`. `TypeOK` alone is not
inductive without what a handler relies on at each stage (`StageOK`: the ids it
was given cover the items it has yet to build, the status it will write is one
of the row's), and the two need each other: loading a station item
(`LoadTask`) reads the order of its item, which exists because of `RefInt`.
The proof has three layers: what a write does to well-formed tables
(`DeleteItemsOK`, `DeleteOrderRowOK`, `SaveOrderOK`), what a step does to the
locals of its handler (one lemma per action that does not just end the handler),
and one lemma per service that puts the two together.

and, in its last part:

* `CopiesStayEqual`: `Spec => []CopiesAgree`;
* `SnapshotsFrozen`: `Spec => SnapshotFrozen`.

That a row does not change its price needs every copy that may overwrite it to
have the same price, and that holds only because a new item never gets the id
of an old row or of a copy somebody still holds. So the inductive invariant is
`SnapInv == IdsFresh /\ CopiesAgree`: the ids a handler is going to insert
(`Reserved`) were handed out to it alone, and no row and no copy has one of
them. Every action but one is `Harmless`: it only removes rows, keeps or reads
the copies it has, and uses its own or new ids; `HarmlessStep` shows once that
such a step keeps the invariant. The exception, the save of an order, has a
lemma of its own (`SaveBuiltSnap`).

`Service_proofs`, from the same assumption and a hypothesis each:

* `ServedIsCompleted`: `NoUpdates /\ Spec => []ServedCompletes`;
* `ServiceImplementsTicket`: `NoEdits /\ Spec => Promise!Safe`;
* `PaidOnce`, `ItemsKeepTheirOrder`, `TotalIsCharged`:
  `Serial /\ Spec => []AtMostOnePaid`, `[]NoOrphans` and `ChargedIsTotal`.

The hypotheses are those under which the code keeps the promise, and the runs
make them: `NoUpdates` (no edits and no restarts: an edit may replace the items
between the last save and the look at all of them, a restart may cut that look
off), `NoEdits` (and no removals: a removed order's life cycle would go back)
and `Serial` (two payments of an order at once both insert; the runs
`double_pay` and `racing_edits` show what overlapping requests do).
`OrdersHanded` says that order ids are handed out once. `InService` says that a
new order is known only to the handler that makes it (`MakesNew`) and that a
handler about to save a station item knows the order it belongs to
(`KnowsItsOrder`); with it, an order can only need completing anew by the save
of an item, whose handler then `Watches` it. `OrdersStay` keeps the order of a
handler on its way to the completion in the table, which makes each step of the
services one of `Ticket`'s or a stutter of `<<Tickets, ServedOnes, Decided>>`.
`OneByOne` says that what the only handler has loaded is still all there is
(`Undisturbed`), wherever it was cut off before. `ChargedIsTotal` compares two
sums of the same rows, so it needs no fact about the fold itself.

### Pairing

`Pairing_proofs`, from `PairingTablesAssumption`:

* `PairingTypeCorrect`: `Spec => []TypeOK`, foreign keys included (`RefsHold`);
* `UsedCodesClose`: `Spec => []UsedCloses`;
* `SpentStaysSpent`: `Spec => SpentForGood`;
* `OneCodeIsOpen`: `Spec => []OneOpenCode`;
* `OneDeviceJoins`: `Spec => []OneDevicePerCode`;
* `StayAtHome`: `Spec => []DevicesAtHome`.

`UsedCodesClose` and `SpentStaysSpent` share the invariant `CodesInv`. Its parts build on
each other: `IdsInv`, that the id of a code about to be inserted is new to every
row, copy and device; `StagesInv`, what a handler's copy holds at its stage (a
join that is closing the code holds a copy that is CLOSED); and `UsedInv`,
`UsedCloses` for every code that is `Used`: a device that joined with it is
stored, or an update holds a copy of such a device and may yet store it again.
Without the copies the invariant is not inductive, since a device can be removed
and come back; without `IdsInv`, a stored device might carry the id of a code
still to be inserted as PENDING. `StayAtHome` needs the copies as well: `HomeInv`
says that what an update is about to save, or will save without another check
of the station, is at home as long as none of the three events was recorded.
`OpenInv` adds to `OneOpenCode` that no open code has the place of a code about
to be inserted, and that nobody else is about to insert. `SingleInv` counts as
joined with a code every device that is stored with it or held by an update
(`JoinedWith`): a join that may still pair has its code to itself, and the code
is not `Used`.

### Events and what the screens show

`Realtime_proofs`, from `OrderTablesAssumption`, `SocketsAssumption` and
`RealtimeAssumption` (which has the till, the display and the page be three
different clients):

* `RoomsHold`: `LiveSpec => []RoomsAsWanted`, for any number of clients, rooms and
  receipts, with `Kitchen` running beside them;
* `TillFollows`: `LiveSpec => []TillCurrent`;
* `DisplayFollows`: `LiveSpec => []DisplayCurrent`;
* `ReceiptFollows`: `LiveSpec => []ReceiptCurrent`.

The invariant `SocketInv` says of every socket that it is `Fine`: of its type,
in rooms of its token only, with pending joins that only a verified owner or a
receipt page can have (`JoinsOK`), and, unless it has crossed, its rooms and the
pending joins that will succeed (`Good`) are together what it wants
(`OnCourse`). The second half of `RoomsAsWanted` is `OnCourse` without pending
joins; `JoinsOK` tells which of them are good when their lookup is answered.

The other three are for any number of requests. `HandlersInv` collects what
`Service_proofs` knows of the handlers: every step of `LiveNext` is one of
`Kitchen`'s `Next`, or leaves `Kitchen`'s variables alone. It adds `NewAlone`
(nobody else knows an order that is being made) and `PaysApart` (payment ids
are handed out once). `EventsOK` is the type of what is on its way. On them
stand three invariants of one shape, that a client is up to date or an event
will bring it there:

* `TillInv`: an order is on the till as it is, or an event of it has yet to be
  sent to the store;
* `DisplayInv`: while the display has missed nothing (an event that goes to the
  room of another station is one it misses, whatever `PatchRooms` is), a station
  item is on the display as it is, or its own event has
  yet to be sent (`TellsTask`), or it came with a new order whose first event
  will carry it (`TellsNew`). The last needs `Knows`: until then no handler may
  save the order from a copy without the item;
* `PageInv`: the page shows the status of the order with nothing on its way, or
  the current status is on its way, or two are and the first to arrive makes
  the page look again, or an event has yet to look up the receipt
  (`PageFollows`).

### The back office

`Shop_proofs`, from `ShopTablesAssumption` (`Same` is no id) and
`ScenesAssumption` (a scene starts from a database as the services leave it):

* `ShopTypeCorrect`: `Spec => []TypeOK`, foreign keys and ids included.

The invariant is `TypeInv`: `TypeOK` and, for every handler, `StageOK`: the copy
it is going to save is a row of its table under an id that was handed out, the
rows it is going to insert have such ids. It needs no knowledge about parents,
because the database refuses a row whose parent has gone (`Commit`); what it
needs is that each deletion takes along or releases all that refers to the row.
One lemma says so for each shape of write (`Puts`, `Drops`, `StoreGone`,
`StationGone`, a category that is released from its products).

`ShopPromises_proofs`, from the same assumptions:

* `LookupsSuffice`: `Spec => []NoLateRefusal`;
* `BoundsStayValid`: `Spec => []BoundsValid`;
* `PinIsGuarded`: `Spec => PinGuarded`, `SettingsAreGuarded`:
  `Spec => SettingsGuarded`;
* `EverythingAtHome`: `Spec => []AtHome`;
* `NotesStayOrdered`: `Spec => []NotesOrdered`, `OneNoteRemains`:
  `Spec => []NotesRemain`;
* `ShownIsStored`: `Spec => []ImagesStored`;
* `SoldProductsStay`: `Spec => ProductsKept`;
* `DeletedStaysDeleted`: `Spec => GoneForGood`;
* `SavesWhatIsAsked`: `Spec => OnlyAsked`;
* `RequiredCanBeChosen`: `Spec => EnoughOptions`.

These are promises up to the overlaps they name, and what makes them provable is
`Told`: two handlers whose overlap is watched are never at work at once without
`history` having it. So as long as an overlap is not in `history`, a handler
that has one of its operations can count on the other not to run. Beside it:

* `ContactInv`: the contacts of a registration about to insert are free;
* `BoundsInv`: every copy of a group that will be saved has passed one check;
* `StoreInv`: the PIN that was compared is in force until what was asked is
  written, and a store in update is there;
* `HomeInv`: there is a set `homes` of tables, ids and stores such that each row
  of the tables, each copy held by a handler and each row about to be inserted
  has its home in it, and none has two. A row that was deleted keeps its home in
  `homes`, which is how a group or a product that a handler saves back is known
  to come back to the same store;
* `OrderInv` and `RemainInv`: the place of a note about to be inserted is after
  all others and a copy has the place of its note; a note that will be removed
  has another beside it;
* `ImageInv`: no product shows, or will show, the image an update is about to
  delete;
* `UnusedInv`: at a station about to be removed without force, all products have
  been removed;
* `NewAlone`: the ids of rows about to be inserted are new to every table and
  every handler;
* `OneGroup`: the tables and all handlers agree on the group of an option;
* `ThereInv` and `CategoryInv`: the row of a copy is there, or its parent has
  gone, for good; a category goes only with its store;
* `CopyInv`: a copy has the columns of its row, but for those its body sets, and
  two copies of one category differ in what was asked only. The exception is a
  copy of a product whose category has gone (`Released`): its save is refused;
* `SpareInv`: an option about to be taken away can be spared, and the options
  that the copy of a group holds are as they are in the table (`HeldAsRows`), and
  alike in all copies (`HeldAlike`): a group that was deleted with its options
  may be saved back from one copy while another handler holds a second.

The proofs brought up overlaps that five properties now name: a store that is
saved back after its removal comes back without its PIN and its notes (`PinGuarded`, `SettingsGuarded`,
`NotesRemain`, `NotesOrdered`); a note that is saved back takes its old place,
which another may have by then (`NotesOrdered`); and a category that is saved
back with its store is there again for a copy of a product that was released
from it, whose save then sets the category although its body does not
(`OnlyAsked`).

### Sums

`SumTheorems` has no assumption. The figures of the views are sums, and a sum
over a set is a fold that takes the elements in an order of its own. To know
anything of one takes induction over the set, and the library's induction
theorems have a predicate as their parameter, which the provers cannot fill in.
But that strict inclusion among the subsets of a finite set is well-founded is a
fact about sets of sets. So every lemma looks at the set of those subsets for
which it fails, takes a smallest one (`Smallest`), and removes an element from it.
In this way `AddsSome` and `AddsOnce` show that the recursion behind the fold has
exactly one solution. `SumTake` follows, that any element may be taken out
first, and from it:

* `SumUnion`: two sets without a common element add up;
* `SumGroup`: sorting the elements into classes and adding up the classes gives
  the sum;
* `SumRenamed`: so does naming the elements otherwise, if no two get one name;
* `SumOnes`: counting is adding ones;
* `BestExist`: of a finite set, the best so many exist.

### The views and the choice of modifiers

`Figures_proofs`, from `LedgerAssumption`, `CartsAssumption` (carts are lists of
lines with a price and a quantity; the price may be negative),
`ReportsAssumption`, `FiguresAssumption` and `ModifierSelectionAssumption`:

* `CountsFollowLists`: `FiguresSpec => []CountsAgree`;
* `RangesAreDays`: `FiguresSpec => []RangesWhole`;
* `PartsMakeTheWhole`: `FiguresSpec => []BreakdownsAddUp`;
* `SameMoney`: `FiguresSpec => []TakingsAgree`;
* `ProductsAddUp`: `FiguresSpec => []ProductsEarnRevenue`;
* `SelectionOffered`: `FiguresSpec => []OfferedIsAccepted`;
* `SelectionCharged`: `FiguresSpec => []ChargedOnce`.

They hold for any number of orders, payments, days, products and options, where
the run has a few of each. `LedgerInv` says of the ledger that its ids are
handed out in order (`Numbered`), that a payment is of an order and not of the
future (`BillsOK`), that two payments of one order are in `history` (`OncePaid`),
and that a payment is of what its order holds unless an edit is (`PaidAsHeld`).
`RangesWhole` rests on arithmetic with `\div`: an hour lies between the bounds of
a range exactly if its day does (`DayOf`). Each breakdown is `SumGroup` with its
key: the method, the provider, the hour, the day of the calendar, the product of
a line. `ProductsAddUp` groups the lines of all bills twice, by product and by
bill (`RevenueIs`). Its proof brought up the free products: without them the sum
of the listed products is less than the revenue whenever one is not listed; a
product that is free, or whose options are discounts, makes the two agree by
chance, so the second half of the property excludes it.

`OfferedIsAccepted` speaks of the end of the loop only. `LoopInv` says what the
loop knows on the way: the entries before `at` fit the menu (`Fits`), name
different groups, and `seen` is the set of the groups they name. A refusal is
then a counterexample to `OnOffer`, and an acceptance, with no required group
outside `seen`, is a proof of it. `Noted` adds that the options noted are those of
the entries before `at`, each once, so that `ChargedOnce` is a case of
`SumRenamed`.

### Model-checked only

Every safety property that a passing run checks is stated by a theorem. Out of
the provers' reach are liveness and fairness: `EventuallyCompleted`, and the
fairness half of `ImplementsTicket`, of which `ServiceImplementsTicket` proves the
safety half.

## 5. Not modelled, and the plan

Not modelled:

* PromptPay QR: formats a string from two settings; no state.
* Pairing requests: no code creates one, so `approve` never gets past its first
  lookup.
* Authentication: token verification by a library and guards without state. What
  a verified token may do is part of `Sockets`.
* Uploads: of the service only which image is stored and which is deleted;
  image processing and the object storage are not modelled.
* The HTTP shell: one process, concurrent requests, restarts; not the formatting
  of answers, errors and logs. The same of the schema: its columns and keys, not
  the migrations as programs. Maintenance scripts are run by hand.
* `user_identities` is a stub in the code. Of a receipt the status is modelled; its
  list of items and its amounts are read only.

Left in the plan: the item list and the amounts of a receipt, as figures over
the ledger; and the DTO checks of store settings, as far as they decide what can
be stored.
