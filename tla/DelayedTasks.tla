---------------------------- MODULE DelayedTasks ----------------------------
(***************************************************************************)
(* What the delayed-task API promises about each task, with no queue, no   *)
(* lock and no thread: a task is scheduled for a time, published or        *)
(* refused, and then is either cancelled or dispatched once, not before    *)
(* its time, and never while a task of the same token is being run.        *)
(***************************************************************************)
EXTENDS Integers

CONSTANTS Tasks, TokenOf, NoToken, None

VARIABLES now, dueAt, state

vars == <<now, dueAt, state>>

Init ==
  /\ now = 0
  /\ dueAt = [t \in Tasks |-> None]
  /\ state = [t \in Tasks |-> "none"]

Move(t, from, to) ==
  /\ state[t] = from
  /\ state' = [state EXCEPT ![t] = to]

Tick == now' = now + 1 /\ UNCHANGED <<dueAt, state>>

(* The time is chosen once, and never in the past.                           *)
Schedule(t) ==
  /\ dueAt[t] = None
  /\ dueAt' = [dueAt EXCEPT ![t] = dueAt'[t]]
  /\ dueAt'[t] \in Int /\ dueAt'[t] >= now
  /\ UNCHANGED <<now, state>>

Publish(t) ==
  /\ dueAt[t] # None
  /\ Move(t, "none", "kPending")
  /\ UNCHANGED <<now, dueAt>>

Refuse(t) ==
  /\ dueAt[t] # None
  /\ Move(t, "none", "kCancelled")
  /\ UNCHANGED <<now, dueAt>>

Cancel(t) == Move(t, "kPending", "kCancelled") /\ UNCHANGED <<now, dueAt>>

Conflict(t, u) == t # u /\ TokenOf[t] = TokenOf[u] /\ TokenOf[t] # NoToken

Dispatch(t) ==
  /\ Move(t, "kPending", "kDispatched")
  /\ dueAt[t] <= now
  /\ \A u \in Tasks : Conflict(t, u) => state[u] # "kDispatched"
  /\ UNCHANGED <<now, dueAt>>

Finish(t) == Move(t, "kDispatched", "kFinished") /\ UNCHANGED <<now, dueAt>>

Next ==
  \/ Tick
  \/ \E t \in Tasks :
       \/ Schedule(t) \/ Publish(t) \/ Refuse(t)
       \/ Cancel(t) \/ Dispatch(t) \/ Finish(t)

Spec == Init /\ [][Next]_vars

=============================================================================
