SPECIFICATION DemoSpec
CONSTANTS
  A = A
  B = B
  P = P
  Q = Q
  k1 = k1
  Main = Main
  Helper = Helper
  None = None
  NoToken = NoToken
  Sched = Sched
  Tokens = {k1}
  Tasks = {A, B, P, Q}
  Clients = {Main, Helper}
  TokenOf <- PairedTokens
  Delays = {1, 2, 4, 6, 250}
  MaxTime = 12
  TimeMax = 300
  Long = 250
  Workers = 4
  Scenarios = {"broken"}
  Submitted = {}
  MayPost = {Main}
  MayCancel = {Main}
  MayWait = {Main, Helper, A}
  MayShutdown = {Main, A}
  MayPoll = {}
  MayPurge = {}
  DtorCalls = {}
INVARIANTS
  CancelBreaksAtOnce
CHECK_DEADLOCK FALSE
