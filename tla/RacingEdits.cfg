SPECIFICATION Spec
CONSTANTS
  r1 = r1
  r2 = r2
  tea = tea
  rice = rice
  Requests <- TwoRequests
  Products <- OneProduct
  Prices = {1}
  Quantities = {1}
  Ops = {"create", "update"}
  OrderCarts <- TeaCart
  EditCarts <- TeaCart
  Patches = {"keep"}
  TaskPatches = {"served"}
  PayBodies <- QrBody
  MaxOrders = 1
  MaxItems = 3
  MaxPayments = 1
SYMMETRY RequestSymmetry
INVARIANTS NoOrphans
CHECK_DEADLOCK FALSE
