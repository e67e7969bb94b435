SPECIFICATION FairSpec
CONSTANTS
  t1 = t1
  t2 = t2
  t3 = t3
  c1 = c1
  c2 = c2
  None = None
  Tasks = {t1, t2}
  Clients = {c1, c2}
  MaxThreads = 2
  Batches <- UpToTwo
  PauseEnabled = TRUE
  PriorityEnabled = TRUE
  Priority <- SecondFirst
  WaitDeadlockChecks = TRUE
  Hardware = 0
  MayDetach = {c2, t1}
  MayWait = {c1, t1}
  MayWaitFor = {c2}
  MayPurge = {c2}
  MayPause = {c2, t1}
  MayReset = {c1}
  MayDestroy = {c1}
INVARIANTS
  RunningExact
  SomebodyComes
  NothingLeftBehind
PROPERTIES
  WaitMeansIdle
  ExecutorSpec
  QueuedRuns
CHECK_DEADLOCK FALSE
