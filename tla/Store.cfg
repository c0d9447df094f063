\* The parts of the store, each with the steps of its users in every order.
SPECIFICATION StoreSpec
SYMMETRY CircuitSymmetry
CONSTANTS
  DeviceIds = {lamp, lamp2}
  CircuitIds = {c1, c2, c3, c4}
  LiveDevices = {lamp}
  LiveCircuits = {c1, c2, c3}
  OwnSensors = {own}
  MAX_CONFLICTS = 2
  MaxHeard = 4
  MaxRenames = 1
  NoRow = NoRow
  b1 = b1
  Breakers = {b1}
  Entities = {1, 2}
  DeviceOf <- MCDeviceOf
  PowerMeters = {2}
  LOOKBACK = 2
  MaxReadings = 7
  MaxWrites = 2
  Never = Never
  k1 = k1
  k2 = k2
  washer = washer
  dryer = dryer
  Panel = {k1, k2}
  Names = {washer, dryer}
  Windows <- MCWindows
  TitleName <- MCTitle
  THRESHOLD = 1
  TOLERANCE = 1
  MaxLearns = 2
  NoName = NoName
  Idle = Idle
INVARIANTS
  StoreTypeOK
  RowsAreEarned
  Disagreements
  TripsEnd
  ShapesAreCompact
PROPERTIES
  ImplementsPlacement
  PlaceNeverWeakens
  NamesFollowTheirShapes
  AutolabelKeepsNames
CHECK_DEADLOCK FALSE
