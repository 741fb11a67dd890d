SPECIFICATION FairSpec
CONSTANTS
  p = p
  q = q
  r = r
  core0 = core0
  core1 = core1
  Cpus <- ThreeThreads
  NoCpu = NoCpu
  BootBsp = p
  Core <- TwoCores
  Configurations <- OneElected
  PatientTimer = TRUE
  MaxSmis = 1
  MaxTasks = 1
PROPERTIES
  EveryoneLeaves
CHECK_DEADLOCK FALSE
