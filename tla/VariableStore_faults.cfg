SPECIFICATION Spec
CONSTANTS
  a = a
  b = b
  c = c
  need = need
  v0 = v0
  v1 = v1
  Names <- ThreeNames
  NeedReclaim = need
  Values = {v0, v1}
  Absent = Absent
  Size <- SizeOfThree
  Capacity = 3
  Threshold = 1
  Preserved <- PreserveAB
  HasTable = TRUE
  NoRequest = NoRequest
  Off = Off
  RuntimeReclaim = TRUE
  Deletes = {"size"}
  MaxSets = 4
  MaxCrashes = 2
  MaxErrors = 1
  MaxMisses = 1
  FaultsMix = FALSE
INVARIANTS
  TypeOK
  CacheTellsTheTruth
  OneAddedCopy
PROPERTIES
  ImplementsMap
  RefusedForAReason
CHECK_DEADLOCK FALSE
