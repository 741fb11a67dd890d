SPECIFICATION FairSpec
CONSTANTS
  t = t
  j = j
  g = g
  w = w
  u = u
  i = i
  pair = pair
  idle = idle
  Events <- AllEvents
  CheckTimers = CheckTimers
  Idle = i
  App = App
  NotifyTpl <- NotifyTpls
  NotifySignal = {t, j, g, i}
  NotifyWait = {w}
  Timers = {t, u}
  Group <- Groups
  NoGroup = NoGroup
  Later = {g}
  Signals <- SignalCalls
  Arms <- SetTimerCalls
  Closes <- CloseCalls
  Checks <- CheckCalls
  WaitList <- Awaited
  FirstQueue <- FirstEvents
  LetGo = TRUE
  Durations = {1}
  MaxOps = 1
  MaxNested = 1
  MaxLate = 1
  MaxDelay = 1
INVARIANTS
  TypeOK
  SignalsAreKept
  PrioritiesHold
  ClosedIsForgotten
  TickSeesEarliest
PROPERTIES
  ImplementsNotifications
  WorkIsDone
  WaitReturns
