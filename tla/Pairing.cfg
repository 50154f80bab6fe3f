SPECIFICATION Spec
CONSTANTS
  r1 = r1
  r2 = r2
  A = A
  B = B
  grill = grill
  bar = bar
  None = None
  Requests = {r1, r2}
  Stores = {A, B}
  Stations = {grill, bar}
  StationOf <- StationOfMC
  Scenes <- CodingAndMoving
  CodePatches <- CodePatchesMC
  DeviceBodies <- DeviceBodiesMC
  DevicePatches <- DevicePatchesMC
  MaxCodes = 2
  MaxDevices = 2
  MaxTime = 2
SYMMETRY RequestSymmetry
INVARIANTS TypeOK OneDevicePerCode UsedCloses OneOpenCode DevicesAtHome
PROPERTIES SpentForGood
CHECK_DEADLOCK FALSE
