SPECIFICATION Spec
CONSTANTS
  r1 = r1
  r2 = r2
  tea = tea
  rice = rice
  Requests <- TwoRequests
  Products <- OneProduct
  Prices = {1, 2}
  Quantities = {1}
  Ops = {"create", "update", "remove", "serve", "pay", "menu", "restart"}
  OrderCarts <- TeaCart
  EditCarts <- TeaOrNone
  Patches = {"keep", "CANCELLED"}
  TaskPatches = {"served"}
  PayBodies <- PayBodiesMC
  MaxOrders = 1
  MaxItems = 3
  MaxPayments = 1
SYMMETRY RequestSymmetry
INVARIANTS TypeOK RefInt CopiesAgree
PROPERTIES SnapshotFrozen
CHECK_DEADLOCK FALSE
