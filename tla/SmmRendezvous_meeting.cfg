SPECIFICATION Spec
CONSTANTS
  p = p
  q = q
  r = r
  core0 = core0
  core1 = core1
  Cpus <- ThreeThreads
  NoCpu = NoCpu
  BootBsp = p
  Core <- TwoCores
  Configurations <- Both
  PatientTimer = TRUE
  MaxSmis = 2
  MaxTasks = 1
INVARIANTS
  TypeOK
  OthersAreHeld
  MtrrsAreSwitched
  AssertionsHold
  ProceduresRunOnce
  BspIsThere
PROPERTIES
  SessionIsClosed
CHECK_DEADLOCK FALSE
