SPECIFICATION LiveSpec
CONSTANTS
  tea = tea
  r1 = r1
  r2 = r2
  Requests = {r1, r2}
  Products = {tea}
  Prices = {1}
  Quantities = {1}
  Ops = {"create", "update", "serve", "pay", "restart"}
  OrderCarts <- TeaCart
  EditCarts <- TeaOrNone
  Patches = {"READY"}
  TaskPatches = {"served"}
  PayBodies <- QrBody
  MaxOrders = 1
  MaxItems = 2
  MaxPayments = 1
  Till = Till
  Display = Display
  Page = Page
  Clients = {Till, Display, Page}
  store = store
  station = station
  elsewhere = elsewhere
  StoreRoom = store
  StationRoom = station
  PatchRooms = {station, elsewhere}
  Rooms = {store, station, elsewhere}
  OwnerRooms = {store, station}
  DeviceRooms = {station}
  Payloads <- PayloadsMC
  Receipts = {1}
SYMMETRY RequestSymmetry
INVARIANTS TillCurrent DisplayCurrent ReceiptCurrent RoomsAsWanted
CHECK_DEADLOCK FALSE
