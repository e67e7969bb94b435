SPECIFICATION MtSpec
CONSTANTS
  t1 = t1
  t2 = t2
  Main = Main
  Helper = Helper
  None = None
  NoToken = NoToken
  Sched = Sched
  Tokens = {}
  Tasks = {t1, t2}
  Clients = {Main, Helper}
  TokenOf <- Unsequenced
  Delays = {1}
  MaxTime = 1
  TimeMax = 7
  Workers = 1
  Submitted = {t1}
  MayPost = {Main, t2}
  MayCancel = {Main, t1}
  MayWait = {Main, Helper, t2}
  MayShutdown = {Main, Helper}
  MayPoll = {Helper}
  MayPurge = {Helper, t1}
  DtorCalls = {t2}
INVARIANTS
  ClaimedIsHeld
  PromisesTellTruth
  PoolOutlivesRunner
PROPERTIES
  ShutdownSettles
  PollingIsSafe
  PurgeIsRemembered
CHECK_DEADLOCK FALSE
