CONSTANTS
  io = io  pack = pack  cpu = cpu  ahead = ahead  behind = behind  user = user  root = root  bad = bad
  v1 = v1  v2 = v2  v3 = v3  msg = msg  req = req  other = other
  NoDriver = NoDriver  NoType = NoType
  Drivers <- TheDrivers
  Volumes <- TheVolumes
  Files <- TheFiles
  Apriori <- TheApriori
  Needs <- TheNeeds
  Before <- TheBefore
  After <- TheAfter
  Sealed <- TheSealed
  NoPath = {v3}
  Installs <- TheInstalls
  Registers <- TheRegisters
  Calls <- TheCalls
  Protocols <- TheProtocols
  CpuDriver = cpu
  Unloadable = {bad}
  OneShot = {user}
  UserTypes = {msg, req, other}
  CpuIo = "cpuio"
  FirstVolumes <- TheFirstVolumes
  MaxSmis = 2
  MaxEvents = 4
  MaxCalls = 1
SPECIFICATION Spec
INVARIANT DispatchedAllItCould
CHECK_DEADLOCK FALSE
