SPECIFICATION Spec
CONSTANTS
  a = a
  b = b
  c = c
  need = need
  v0 = v0
  v1 = v1
  Names <- TwoNames
  NeedReclaim = need
  Values = {v0, v1}
  Absent = Absent
  Size <- SizeOfTwo
  Capacity = 4
  Threshold = 1
  Preserved <- PreserveA
  HasTable = TRUE
  NoRequest = NoRequest
  Off = Off
  RuntimeReclaim = TRUE
  Deletes = {"access"}
  MaxSets = 3
  MaxCrashes = 1
  MaxErrors = 0
  MaxMisses = 0
  FaultsMix = FALSE
PROPERTIES
  DeletedIsGone
CHECK_DEADLOCK FALSE
