SPECIFICATION FairSpec
CONSTANTS
  a = a
  b = b
  c = c
  need = need
  v0 = v0
  v1 = v1
  Names <- TwoNames
  NeedReclaim = need
  Values = {v0, v1}
  Absent = Absent
  Size <- SizeOfTwo
  Capacity = 4
  Threshold = 1
  Preserved <- PreserveNone
  HasTable = FALSE
  NoRequest = NoRequest
  Off = Off
  RuntimeReclaim = FALSE
  Deletes = {"size", "access"}
  MaxSets = 5
  MaxCrashes = 0
  MaxErrors = 0
  MaxMisses = 0
  FaultsMix = FALSE
PROPERTIES
  ImplementsMap
  RefusalIsRemembered
  SetVariableReturns
CHECK_DEADLOCK FALSE
