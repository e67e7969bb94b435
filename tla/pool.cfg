SPECIFICATION FairSpec
CONSTANTS
  t1 = t1
  t2 = t2
  t3 = t3
  c1 = c1
  c2 = c2
  None = None
  Tasks = {t1, t2, t3}
  Clients = {c1, c2}
  MaxThreads = 3
  Batches = {}
  PauseEnabled = FALSE
  PriorityEnabled = FALSE
  Priority <- NoPriorities
  WaitDeadlockChecks = FALSE
  Hardware = 0
  MayDetach = {c2, t1}
  MayWait = {c1}
  MayWaitFor = {c1}
  MayPurge = {}
  MayPause = {}
  MayReset = {c1}
  MayDestroy = {c1}
INVARIANTS
  TypeOK
  TaskInOnePlace
  WorkConserving
PROPERTIES
  CallsReturn
CHECK_DEADLOCK FALSE
