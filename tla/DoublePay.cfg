SPECIFICATION Spec
CONSTANTS
  r1 = r1
  r2 = r2
  tea = tea
  rice = rice
  Requests <- TwoRequests
  Products <- OneProduct
  Prices = {1}
  Quantities = {1}
  Ops = {"create", "pay"}
  OrderCarts <- TeaCart
  EditCarts <- TeaOrNone
  Patches = {"keep"}
  TaskPatches = {"served"}
  PayBodies <- QrBody
  MaxOrders = 1
  MaxItems = 3
  MaxPayments = 2
SYMMETRY RequestSymmetry
INVARIANTS AtMostOnePaid
CHECK_DEADLOCK FALSE
