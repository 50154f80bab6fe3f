SPECIFICATION Spec
CONSTANTS
  r1 = r1
  r2 = r2
  None = None
  Same = Same
  Requests = {r1, r2}
  Scenes <- AllScenes
  Pins = {11, 12, 13}
  Settings = {"a", "b"}
  Contacts = {"x", "y"}
  MinSelects = {0, 1, 2}
  MaxSelects = {0, 1, 2}
  MaxIds = 10
  CategoryPatches <- CategoryPatchesMC
  ProductPatches <- ProductPatchesMC
  GroupPatches <- GroupPatchesMC
SYMMETRY RequestSymmetry
INVARIANTS TypeOK NotesRemain NotesOrdered NoLateRefusal ImagesStored AtHome BoundsValid
PROPERTIES GoneForGood OnlyAsked PinGuarded SettingsGuarded ProductsKept EnoughOptions
CHECK_DEADLOCK FALSE
