SPECIFICATION Spec
CONSTANTS
  N = 2
  Slots = 2
  Values = {v0, v1}
  Initial = v0
  v0 = v0
  v1 = v1
  Keep = Keep
  NoRequest = NoRequest
  MaxWrites = 3
  MaxCrashes = 2
  MaxFaults = 1
  FaultKinds = {"silent"}
  Asserts = FALSE
  TornErase = FALSE
INVARIANTS
  TypeInv
  SafeInv
  StoreNeverLost
  HealthyIsWhole
  IdleIsClean
PROPERTIES
  ImplementsStore
CHECK_DEADLOCK FALSE
