SPECIFICATION Spec
CONSTANTS
  N = 2
  Slots = 1
  Values = {v0, v1}
  Initial = v0
  v0 = v0
  v1 = v1
  Keep = Keep
  NoRequest = NoRequest
  MaxWrites = 2
  MaxCrashes = 1
  MaxFaults = 0
  FaultKinds = {"silent"}
  Asserts = FALSE
  TornErase = TRUE
INVARIANT
  StoreNeverLost
CHECK_DEADLOCK FALSE
