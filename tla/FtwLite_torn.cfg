SPECIFICATION FairSpec
CONSTANTS
  N = 2
  Slots = 7
  Values = {v0, v1}
  Initial = v0
  v0 = v0
  v1 = v1
  Keep = Keep
  NoRequest = NoRequest
  MaxWrites = 2
  MaxCrashes = 2
  MaxFaults = 1
  FaultKinds = {"silent", "reported"}
  Asserts = TRUE
  TornErase = TRUE
INVARIANT
  JournalOrdered
PROPERTIES
  OldOrNew
  SuccessIsInFlash
  BootEnds
CHECK_DEADLOCK FALSE
