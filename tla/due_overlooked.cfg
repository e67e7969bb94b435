SPECIFICATION FairSpec
CONSTANTS
  t1 = t1
  t2 = t2
  c1 = c1
  c2 = c2
  k1 = k1
  None = None
  NoToken = NoToken
  Sched = Sched
  Tokens = {k1}
  TimeMax = 7
  MaxTime = 1
  Tasks = {t1, t2}
  Clients = {c1, c2}
  TokenOf <- Unsequenced
  Delays = {0, 1}
  MayPost = {c1}
  MayCancel = {}
  MayWait = {c2}
  MayShutdown = {}
  DtorCalls = {}
PROPERTIES
  DueIsDispatched
CHECK_DEADLOCK FALSE
