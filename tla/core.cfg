SPECIFICATION Spec
CONSTANTS
  t1 = t1
  t2 = t2
  c1 = c1
  c2 = c2
  k1 = k1
  None = None
  NoToken = NoToken
  Sched = Sched
  Tokens = {k1}
  TimeMax = 7
  MaxTime = 2
  Tasks = {t1, t2}
  Clients = {c1, c2}
  TokenOf <- SameToken
  Delays <- DelayRange
  MayPost = {c1, c2, t1}
  MayCancel = {c1, c2, t1}
  MayWait = {t1, c2}
  MayShutdown = {c1, c2, t2}
  DtorCalls = {}
INVARIANTS
  TokenExclusion
  TokensHeldExactly
  CancelWins
  CountersExact
  TokenFIFO
  NeverEarly
PROPERTIES
  IdleMeansIdle
  ShutdownDrains
  NothingRunsAfterShutdown
  DelayedTasksSpec
CHECK_DEADLOCK FALSE
