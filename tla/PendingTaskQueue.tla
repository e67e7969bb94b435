-------------------------- MODULE PendingTaskQueue --------------------------
(***************************************************************************)
(* The passive data of the delayed-task subsystem: the CancelState of each *)
(* task, the SequenceTracker and the PendingTaskQueue, with the operations *)
(* DelayedScheduler calls on them.  CancelState is atomic and is changed   *)
(* with no lock held; the other two are only touched under the scheduler's *)
(* mutex_.  PopDueRunnable is therefore a sequence of steps, one for each  *)
(* look at a candidate: a Cancel() may fall between any two of them.       *)
(***************************************************************************)
EXTENDS Integers, FiniteSets

CONSTANTS
  Tasks,     (* the tasks a behaviour may post, each at most once            *)
  Tokens,    (* ids of valid SequenceTokens                                  *)
  NoToken,   (* the default token, id 0: unsequenced                         *)
  TokenOf,   (* the token each task is posted with                           *)
  None       (* null: no time, no task                                       *)

ASSUME QueueAssumption ==
  /\ IsFiniteSet(Tasks)
  /\ NoToken \notin Tokens
  /\ TokenOf \in [Tasks -> Tokens \cup {NoToken}]
  /\ None \notin Tasks
  /\ None \notin Int

VARIABLES
  stage,        (* CancelState::stage, "none" before the task is published   *)
  runAt,        (* DelayedTask::run_at, None before Post computes it         *)
  seq,          (* DelayedTask::sequence_num                                 *)
  queue,        (* keys of tasks_                                            *)
  activeCount,  (* active_count_                                             *)
  running,      (* SequenceTracker::running_                                 *)
  scanNow,      (* PopDueRunnable: its argument now                          *)
  todo,         (* PopDueRunnable: tasks_ from the iterator onwards          *)
  claiming,     (* PopDueRunnable: candidate between its check and its CAS   *)
  due           (* PopDueRunnable: the vector it fills, Execute empties      *)

taskVars  == <<runAt, seq>>
queueVars == <<queue, activeCount>>
scanVars  == <<scanNow, todo, claiming, due>>

Stages == {"none", "kPending", "kDispatched", "kCancelled", "kFinished"}

QueueInit ==
  /\ stage = [t \in Tasks |-> "none"]
  /\ runAt = [t \in Tasks |-> None]
  /\ seq = [t \in Tasks |-> 0]
  /\ queue = {} /\ activeCount = 0 /\ running = {}
  /\ scanNow = 0 /\ todo = {} /\ claiming = None /\ due = {}

-----------------------------------------------------------------------------
(* CancelState.  A compare_exchange that fails changes nothing, so the       *)
(* operations are given by their successful case.                            *)

IsCancelled(t) == stage[t] = "kCancelled"

(* Faulty: a store in place of the compare-exchange.                         *)
TryCancelStores(t) == stage' = [stage EXCEPT ![t] = "kCancelled"]

TryCancel(t) ==
  /\ stage[t] = "kPending"
  /\ stage' = [stage EXCEPT ![t] = "kCancelled"]

(* Faulty: a store in place of the compare-exchange.                         *)
TryDispatchStores(t) == stage' = [stage EXCEPT ![t] = "kDispatched"]

TryDispatch(t) ==
  /\ stage[t] = "kPending"
  /\ stage' = [stage EXCEPT ![t] = "kDispatched"]

MarkFinished(t) == stage' = [stage EXCEPT ![t] = "kFinished"]

-----------------------------------------------------------------------------
(* SequenceTracker.                                                          *)

(* Faulty: the tracker is not asked.                                         *)
IsRunnableAlways(tok) == tok = tok

IsRunnable(tok) == tok = NoToken \/ tok \notin running

Acquire(tok) == running' = running \cup ({tok} \ {NoToken})

(* Faulty: the token is not given back.                                      *)
ReleaseForgotten(tok) == running' = running \cup ({tok} \ {tok})

ReleaseToken(tok) == running' = running \ {tok}

-----------------------------------------------------------------------------
(* PendingTaskQueue: a map ordered by ScheduleKey.                           *)

(* Faulty: the newer of two tasks due at one time comes first.               *)
BeforeNewestFirst(t, u) ==
  \/ runAt[t] < runAt[u]
  \/ runAt[t] = runAt[u] /\ seq[t] > seq[u]

Before(t, u) ==
  \/ runAt[t] < runAt[u]
  \/ runAt[t] = runAt[u] /\ seq[t] < seq[u]

First(t, S) == t \in S /\ \A u \in S \ {t} : Before(t, u)

Insert(t) == queue' = queue \cup {t} /\ activeCount' = activeCount + 1

Erase(t) == queue' = queue \ {t} /\ activeCount' = activeCount - 1

TakeAll == queue' = {} /\ activeCount' = 0

(* The run_at of the first entry that is neither cancelled nor due yet.      *)
NextWakeTime(now) ==
  LET later == {t \in queue : ~IsCancelled(t) /\ runAt[t] > now}
  IN  IF later = {}
      THEN None
      ELSE runAt[CHOOSE t \in later : \A u \in later : runAt[t] <= runAt[u]]

(* PopDueRunnable(now, tracker): begin, one action per branch, the end of    *)
(* the loop being todo = {}.                                                 *)
PopStart(now) ==
  /\ scanNow' = now
  /\ todo' = queue
  /\ UNCHANGED <<stage, taskVars, queueVars, running, claiming, due>>

Candidate(t) == claiming = None /\ First(t, todo)

PopCancelled(t) ==
  /\ Candidate(t) /\ IsCancelled(t)
  /\ Erase(t)
  /\ todo' = todo \ {t}
  /\ UNCHANGED <<stage, taskVars, running, scanNow, claiming, due>>

PopNotDue(t) ==
  /\ Candidate(t) /\ ~IsCancelled(t)
  /\ runAt[t] > scanNow
  /\ todo' = {}
  /\ UNCHANGED <<stage, taskVars, queueVars, running, scanNow, claiming, due>>

PopBlocked(t) ==
  /\ Candidate(t) /\ ~IsCancelled(t)
  /\ runAt[t] <= scanNow
  /\ ~IsRunnable(TokenOf[t])
  /\ todo' = todo \ {t}
  /\ UNCHANGED <<stage, taskVars, queueVars, running, scanNow, claiming, due>>

(* Faulty: the candidate's run_at is not compared with now.                  *)
PopRunnableUndue(t) ==
  /\ Candidate(t) /\ ~IsCancelled(t)
  /\ IsRunnable(TokenOf[t])
  /\ claiming' = t
  /\ UNCHANGED <<stage, taskVars, queueVars, running, scanNow, todo, due>>

PopRunnable(t) ==
  /\ Candidate(t) /\ ~IsCancelled(t)
  /\ runAt[t] <= scanNow
  /\ IsRunnable(TokenOf[t])
  /\ claiming' = t
  /\ UNCHANGED <<stage, taskVars, queueVars, running, scanNow, todo, due>>

PopClaim(t) ==
  /\ claiming = t
  /\ TryDispatch(t)
  /\ Acquire(TokenOf[t])
  /\ due' = due \cup {t}
  /\ Erase(t)
  /\ todo' = todo \ {t}
  /\ claiming' = None
  /\ UNCHANGED <<taskVars, scanNow>>

(* Faulty: active_count_ is not decremented.                                 *)
PopLostRaceUncounted(t) ==
  /\ claiming = t /\ stage[t] # "kPending"
  /\ queue' = queue \ {t}
  /\ todo' = todo \ {t}
  /\ claiming' = None
  /\ UNCHANGED <<stage, taskVars, activeCount, running, scanNow, due>>

(* Faulty: Acquire comes before TryDispatch.                                 *)
PopLostRaceAcquires(t) ==
  /\ claiming = t /\ stage[t] # "kPending"
  /\ Acquire(TokenOf[t])
  /\ Erase(t)
  /\ todo' = todo \ {t}
  /\ claiming' = None
  /\ UNCHANGED <<stage, taskVars, scanNow, due>>

PopLostRace(t) ==
  /\ claiming = t /\ stage[t] # "kPending"
  /\ Erase(t)
  /\ todo' = todo \ {t}
  /\ claiming' = None
  /\ UNCHANGED <<stage, taskVars, running, scanNow, due>>

=============================================================================
