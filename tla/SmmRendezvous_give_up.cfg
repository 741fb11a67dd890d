SPECIFICATION Spec
CONSTANTS
  p = p
  q = q
  r = r
  core0 = core0
  core1 = core1
  Cpus <- TwoThreads
  NoCpu = NoCpu
  BootBsp = p
  Core <- OneCore
  Configurations <- OnePlatform
  PatientTimer = TRUE
  MaxSmis = 1
  MaxTasks = 0
PROPERTIES
  GivesUpUncounted
CHECK_DEADLOCK FALSE
