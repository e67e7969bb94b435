SPECIFICATION FairSpec
CONSTANTS
  t1 = t1
  t2 = t2
  t3 = t3
  c1 = c1
  c2 = c2
  None = None
  Tasks = {t1, t2}
  Clients = {c1, c2}
  MaxThreads = 2
  Batches = {}
  PauseEnabled = FALSE
  PriorityEnabled = FALSE
  Priority <- NoPriorities
  WaitDeadlockChecks = FALSE
  Hardware = 0
  MayDetach = {c1, c2}
  MayWait = {c1}
  MayWaitFor = {c2}
  MayPurge = {}
  MayPause = {}
  MayReset = {}
  MayDestroy = {}
PROPERTIES
  WaitIsNotified
CHECK_DEADLOCK FALSE
