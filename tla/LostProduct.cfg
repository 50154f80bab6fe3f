SPECIFICATION Spec
CONSTANTS
  r1 = r1
  r2 = r2
  None = None
  Same = Same
  Requests = {r1}
  Scenes <- ClosingOnly
  Pins = {11}
  Settings = {"a", "b"}
  Contacts = {"x"}
  MinSelects = {0, 1, 2}
  MaxSelects = {0, 1, 2}
  MaxIds = 10
  CategoryPatches <- CategoryPatchesMC
  ProductPatches <- ProductPatchesMC
  GroupPatches <- GroupPatchesMC
PROPERTIES RemovedRecoverable
CHECK_DEADLOCK FALSE
