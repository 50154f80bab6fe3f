SPECIFICATION Spec
CONSTANTS
  r1 = r1
  r2 = r2
  tea = tea
  rice = rice
  Requests <- OneRequest
  Products <- OneProduct
  Prices = {1, 2}
  Quantities = {1}
  Ops = {"create", "update", "remove", "serve", "pay", "menu", "restart"}
  OrderCarts <- TeaCart
  EditCarts <- TeaOrNone
  Patches = {"keep"}
  TaskPatches = {"served"}
  PayBodies <- PayBodiesMC
  MaxOrders = 2
  MaxItems = 4
  MaxPayments = 3
INVARIANTS AtMostOnePaid NoOrphans
PROPERTIES ChargedIsTotal
CHECK_DEADLOCK FALSE
