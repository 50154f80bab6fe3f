SPECIFICATION Spec
CONSTANTS
  r1 = r1
  r2 = r2
  tea = tea
  rice = rice
  Requests <- OneRequest
  Products <- OneProduct
  Prices = {1}
  Quantities = {1}
  Ops = {"create", "update", "serve"}
  OrderCarts <- TeaCart
  EditCarts <- NoCart
  Patches = {"CANCELLED"}
  TaskPatches = {"served"}
  PayBodies <- QrBody
  MaxOrders = 1
  MaxItems = 3
  MaxPayments = 1
PROPERTIES CancelledIsFinal
CHECK_DEADLOCK FALSE
