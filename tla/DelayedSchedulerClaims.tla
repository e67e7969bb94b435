----------------------- MODULE DelayedSchedulerClaims -----------------------
(***************************************************************************)
(* What the README and the comments say of the scheduler and the code does *)
(* not do.  Each property here is stated the way the text states it and is *)
(* refuted by one run, whose counterexample is a behaviour of the code.    *)
(***************************************************************************)
EXTENDS DelayedScheduler

(* Shutdown returns.  stop_ is set and cv_ notified without mutex_, so both  *)
(* can fall between the test of stop_ in ThreadMain and its wait.            *)
ShutdownReturns ==
  \A a \in Clients : pc[a] = "sdNotify" ~> pc[a] = "ready"

(* A task whose time has come is handed to the pool.  NextWakeTime looks     *)
(* only at tasks due after its own reading of the clock: one that became due *)
(* or was posted since the last pop is overlooked until another event.  And  *)
(* Post wakes one waiter of cv_, which may be a caller of WaitUntilIdle.     *)
DueIsDispatched ==
  \A t \in Tasks : (t \in queue /\ dueAt[t] <= now) ~> stage[t] # "kPending"

=============================================================================
