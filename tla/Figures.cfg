SPECIFICATION FiguresSpec
CONSTANTS
  None = None
  noodles = noodles
  tea = tea
  large = large
  extra = extra
  egg = egg
  size = size
  topping = topping
  grab = grab
  Carts <- CartsMC
  Scenes <- CookingAndTaking
  Kinds = {"DINE_IN", "DELIVERY"}
  Platforms = {grab}
  Methods = {"CASH", "TRANSFER"}
  Assigned = {"READY", "CANCELLED"}
  DayHours = 2
  MaxTime = 4
  MaxSales = 2
  MaxBills = 2
  Week = 2
  Month <- MonthMC
  Listed = 1
  Groups = {size, topping}
  Options = {large, extra, egg}
  Menus <- MenusMC
  Selections <- SelectionsMC
  Filters <- FiltersMC
INVARIANTS CountsAgree  BreakdownsAddUp TakingsAgree ProductsEarnRevenue OfferedIsAccepted ChargedOnce
CHECK_DEADLOCK FALSE
