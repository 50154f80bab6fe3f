SPECIFICATION FairSpec
CONSTANTS
  r1 = r1
  r2 = r2
  tea = tea
  rice = rice
  Requests <- TwoRequests
  Products <- TwoProducts
  Prices = {1}
  Quantities = {1}
  Ops = {"create", "serve", "pay", "menu"}
  OrderCarts <- TeaOrTeaRice
  EditCarts <- TeaOrNone
  Patches = {"keep"}
  TaskPatches = {"pending", "complete", "served"}
  PayBodies <- QrBody
  MaxOrders = 1
  MaxItems = 3
  MaxPayments = 1
INVARIANTS ServedCompletes
PROPERTIES EventuallyCompleted ImplementsTicket
CHECK_DEADLOCK FALSE
