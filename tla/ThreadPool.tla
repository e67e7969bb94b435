----------------------------- MODULE ThreadPool -----------------------------
(***************************************************************************)
(* BS::thread_pool in C++17, with and without its options: worker threads  *)
(* that take tasks from one queue, and the callers of detach_task,         *)
(* detach_bulk, wait, wait_for, purge, pause, unpause, reset and the       *)
(* destructor.  A caller is a client or a task that a worker is running.   *)
(* tasks_mutex is never held from one step to the next: a step is one      *)
(* critical section or one notification.                                   *)
(***************************************************************************)
EXTENDS Integers, FiniteSets, Sequences, Functions

CONSTANTS
  Tasks,        (* the tasks that may be submitted, each at most once        *)
  Clients,      (* threads outside the pool                                  *)
  None,         (* no task                                                   *)
  MaxThreads,   (* bound on the number of workers                            *)
  Batches,      (* what detach_bulk may be given: sequences of tasks         *)
  PauseEnabled, (* tp::pause: FALSE for the pool of mtPool::pool()           *)
  PriorityEnabled, (* tp::priority: FALSE too                                *)
  Priority,     (* the priority each task is submitted with                  *)
  WaitDeadlockChecks, (* tp::wait_deadlock_checks: FALSE too                 *)
  Hardware,     (* thread_t::hardware_concurrency()                          *)
  MayDetach, MayWait, MayWaitFor, MayPurge, MayPause, (* who may call what   *)
  MayReset, MayDestroy

Actor  == Clients \cup Tasks
Worker == 1..MaxThreads

ASSUME PoolAssumption ==
  /\ IsFiniteSet(Tasks) /\ IsFiniteSet(Clients)
  /\ Clients \cap Tasks = {} /\ None \notin Tasks
  /\ MaxThreads \in Nat \ {0}
  /\ \A b \in Batches : b \in Seq(Tasks) /\ b # <<>> /\ IsInjective(b)
  /\ PauseEnabled \in BOOLEAN /\ PriorityEnabled \in BOOLEAN
  /\ Priority \in [Tasks -> Int]
  /\ WaitDeadlockChecks \in BOOLEAN
  /\ Hardware \in 0..MaxThreads
  /\ MayDetach \subseteq Actor /\ MayWait \subseteq Actor
  /\ MayWaitFor \subseteq Actor /\ MayPurge \subseteq Actor
  /\ MayPause \subseteq Actor
  /\ MayReset \subseteq Clients /\ MayDestroy \subseteq Clients

VARIABLES
  tasks,          (* tasks                                                   *)
  tasksRunning,   (* tasks_running                                           *)
  threadCount,    (* thread_count                                            *)
  waiting,        (* waiting                                                 *)
  workersRunning, (* workers_running                                         *)
  paused,         (* paused                                                  *)
  wpc,            (* where each worker is                                    *)
  job,            (* the task a worker is running                            *)
  sleepers,       (* workers blocked on task_available_cv                    *)
  doneWaiters,    (* callers blocked on tasks_done_cv                        *)
  pc,             (* where each client and each task is                      *)
  wasPaused,      (* the local of reset                                      *)
  closed          (* the destructor has been called                          *)

queueVars  == <<tasks, tasksRunning, waiting>>
threadVars == <<threadCount, workersRunning, wpc, job, sleepers>>
pauseVars  == <<paused, wasPaused>>
vars == <<queueVars, threadVars, pauseVars, doneWaiters, pc, closed>>

(* Faulty: an unknown number of hardware threads is taken for a number.      *)
HardwareThreads(n) == IF n > 0 THEN n ELSE Hardware

DetermineThreadCount(n) ==
  IF n > 0 THEN n ELSE IF Hardware > 0 THEN Hardware ELSE 1

Threads(n) == [w \in Worker |-> IF w <= n THEN "lock" ELSE "none"]

Init ==
  /\ tasks = <<>> /\ waiting = FALSE /\ paused = FALSE
  /\ \E n \in 0..MaxThreads : threadCount = DetermineThreadCount(n)
  /\ tasksRunning = threadCount /\ workersRunning = TRUE
  /\ wpc = Threads(threadCount)
  /\ job = [w \in Worker |-> None]
  /\ sleepers = {} /\ doneWaiters = {}
  /\ pc = [a \in Actor |-> IF a \in Clients THEN "ready" ELSE "new"]
  /\ wasPaused = FALSE /\ closed = FALSE

Goto(a, from, to) == pc[a] = from /\ pc' = [pc EXCEPT ![a] = to]

(* Nobody but the tasks still running calls a pool that is being destroyed.  *)
Calls(a) == pc[a] = "ready" /\ (closed => a \in Tasks)

Queued == {t \in Tasks : pc[t] = "queued"}
Executing == {t \in Tasks : \E w \in Worker : job[w] = t}

(* The predicates of the two condition variables.                            *)
Available == tasks # <<>> /\ ~paused
Done(running) == running = 0 /\ (paused \/ tasks = <<>>)

-----------------------------------------------------------------------------
(* worker.  "lock": on its way to tasks_mutex, counted in tasks_running.     *)

(* The rest of the critical section, once the wait's predicate is evaluated. *)
Block(w, running) ==
  /\ ~Available /\ workersRunning
  /\ wpc' = [wpc EXCEPT ![w] = "asleep"]
  /\ sleepers' = sleepers \cup {w}
  /\ tasksRunning' = running
  /\ UNCHANGED <<tasks, job, pc>>

Break(w, running) ==
  /\ ~workersRunning
  /\ wpc' = [wpc EXCEPT ![w] = "exited"]
  /\ tasksRunning' = running
  /\ UNCHANGED <<tasks, job, pc, sleepers>>

(* Faulty: priorities are compared the wrong way round.                      *)
LeastUrgent(i) ==
  IF PriorityEnabled
  THEN \A k \in DOMAIN tasks : Priority[tasks[i]] <= Priority[tasks[k]]
  ELSE i = 1

(* pop_task: the front of the queue, or one of those of greatest priority.   *)
Foremost(i) ==
  IF PriorityEnabled
  THEN \A k \in DOMAIN tasks : Priority[tasks[i]] >= Priority[tasks[k]]
  ELSE i = 1

Without(s, i) == [k \in 1..Len(s) - 1 |-> IF k < i THEN s[k] ELSE s[k + 1]]

(* Faulty: the task is copied and not popped.                                *)
CopyTask(w, i) ==
  /\ job' = [job EXCEPT ![w] = tasks[i]]
  /\ pc' = [pc EXCEPT ![tasks[i]] = "ready"]
  /\ UNCHANGED tasks

PopTask(w, i) ==
  /\ job' = [job EXCEPT ![w] = tasks[i]]
  /\ pc' = [pc EXCEPT ![tasks[i]] = "ready"]
  /\ tasks' = Without(tasks, i)

(* Faulty: a running task is not counted.                                    *)
TakeNotCounted(w, running) ==
  /\ Available /\ workersRunning
  /\ wpc' = [wpc EXCEPT ![w] = "run"]
  /\ \E i \in DOMAIN tasks : Foremost(i) /\ PopTask(w, i)
  /\ tasksRunning' = running
  /\ UNCHANGED sleepers

Take(w, running) ==
  /\ Available /\ workersRunning
  /\ wpc' = [wpc EXCEPT ![w] = "run"]
  /\ \E i \in DOMAIN tasks : Foremost(i) /\ PopTask(w, i)
  /\ tasksRunning' = running + 1
  /\ UNCHANGED sleepers

Await(w, running) == Block(w, running) \/ Break(w, running) \/ Take(w, running)

(* Faulty: the test for the last task comes before the decrement.            *)
ArriveTestsFirst(w) ==
  /\ wpc[w] = "lock"
  /\ doneWaiters' = IF waiting /\ Done(tasksRunning) THEN {} ELSE doneWaiters
  /\ Await(w, tasksRunning - 1)
  /\ UNCHANGED <<waiting, threadCount, workersRunning, pauseVars, closed>>

(* A worker has started, or has finished a task.                             *)
Arrive(w) ==
  /\ wpc[w] = "lock"
  /\ doneWaiters' = IF waiting /\ Done(tasksRunning - 1) THEN {} ELSE doneWaiters
  /\ Await(w, tasksRunning - 1)
  /\ UNCHANGED <<waiting, threadCount, workersRunning, pauseVars, closed>>

Wake(w) ==
  /\ wpc[w] = "asleep" /\ w \notin sleepers
  /\ Await(w, tasksRunning)
  /\ UNCHANGED <<waiting, threadCount, workersRunning, pauseVars, doneWaiters,
                 closed>>

(* The task returns or throws, and is destroyed.                             *)
Finish(w) ==
  /\ wpc[w] = "run" /\ Goto(job[w], "ready", "done")
  /\ wpc' = [wpc EXCEPT ![w] = "lock"]
  /\ job' = [job EXCEPT ![w] = None]
  /\ UNCHANGED <<queueVars, threadCount, workersRunning, sleepers, pauseVars,
                 doneWaiters, closed>>

(* Condition variables may wake for no reason.                               *)
SpuriousWake ==
  /\ \/ \E w \in sleepers : sleepers' = sleepers \ {w} /\ UNCHANGED doneWaiters
     \/ \E a \in doneWaiters :
          doneWaiters' = doneWaiters \ {a} /\ UNCHANGED sleepers
  /\ UNCHANGED <<queueVars, threadCount, workersRunning, wpc, job, pauseVars,
                 pc, closed>>

-----------------------------------------------------------------------------
(* detach_task and detach_bulk.                                              *)

(* Faulty: notifies only if the queue was empty, as detach_bulk does.        *)
DetachTaskIfEmpty(a, t) ==
  /\ a \in MayDetach /\ Calls(a) /\ pc[t] = "new"
  /\ tasks' = Append(tasks, t)
  /\ pc' = [pc EXCEPT ![a] = IF tasks = <<>> THEN "notifyOne" ELSE "ready",
                      ![t] = "queued"]
  /\ UNCHANGED <<tasksRunning, waiting, threadVars, pauseVars, doneWaiters,
                 closed>>

DetachTask(a, t) ==
  /\ a \in MayDetach /\ Calls(a) /\ pc[t] = "new"
  /\ tasks' = Append(tasks, t)
  /\ pc' = [pc EXCEPT ![a] = "notifyOne", ![t] = "queued"]
  /\ UNCHANGED <<tasksRunning, waiting, threadVars, pauseVars, doneWaiters,
                 closed>>

DetachBulk(a, b) ==
  /\ a \in MayDetach /\ Calls(a)
  /\ \A t \in Range(b) : pc[t] = "new"
  /\ tasks' = tasks \o b
  /\ pc' = [x \in Actor |->
              IF x \in Range(b) THEN "queued"
              ELSE IF x = a /\ tasks = <<>> /\ ~paused THEN "notifyAll"
              ELSE pc[x]]
  /\ UNCHANGED <<tasksRunning, waiting, threadVars, pauseVars, doneWaiters,
                 closed>>

NotifyOne(a) ==
  /\ Goto(a, "notifyOne", "ready")
  /\ \/ sleepers = {} /\ UNCHANGED sleepers
     \/ \E w \in sleepers : sleepers' = sleepers \ {w}
  /\ UNCHANGED <<queueVars, threadCount, workersRunning, wpc, job, pauseVars,
                 doneWaiters, closed>>

NotifyAll(a) ==
  /\ Goto(a, "notifyAll", "ready")
  /\ sleepers' = {}
  /\ UNCHANGED <<queueVars, threadCount, workersRunning, wpc, job, pauseVars,
                 doneWaiters, closed>>

-----------------------------------------------------------------------------
(* purge, pause, unpause.                                                    *)

Purge(a) ==
  /\ a \in MayPurge /\ Calls(a)
  /\ tasks' = <<>>
  /\ pc' = [x \in Actor |-> IF x \in Queued THEN "purged" ELSE pc[x]]
  /\ UNCHANGED <<tasksRunning, waiting, threadVars, pauseVars, doneWaiters,
                 closed>>

Pause(a) ==
  /\ PauseEnabled /\ a \in MayPause /\ Calls(a)
  /\ paused' = TRUE
  /\ UNCHANGED <<queueVars, threadVars, wasPaused, doneWaiters, pc, closed>>

(* Faulty: the workers are not notified.                                     *)
UnpauseSilently(a) ==
  /\ PauseEnabled /\ a \in MayPause /\ Calls(a)
  /\ paused' = FALSE
  /\ UNCHANGED <<queueVars, threadVars, wasPaused, doneWaiters, pc, closed>>

Unpause(a) ==
  /\ PauseEnabled /\ a \in MayPause /\ Calls(a)
  /\ paused' = FALSE
  /\ pc' = [pc EXCEPT ![a] = "notifyAll"]
  /\ UNCHANGED <<queueVars, threadVars, wasPaused, doneWaiters, closed>>

-----------------------------------------------------------------------------
(* wait and wait_for.  A call that finds the predicate true returns in the   *)
(* same critical section.                                                    *)

(* Places where a caller blocks, and where it goes when the wait is over.    *)
After == [waiting |-> "ready", timed |-> "ready", resetWait |-> "resetStop",
          dtorWait |-> "dtorStop"]

CallWait(a, at, blocked) ==
  /\ \/ /\ Done(tasksRunning)
        /\ Goto(a, at, After[blocked])
        /\ waiting' = FALSE
        /\ UNCHANGED doneWaiters
     \/ /\ ~Done(tasksRunning)
        /\ Goto(a, at, blocked)
        /\ waiting' = TRUE
        /\ doneWaiters' = doneWaiters \cup {a}
  /\ UNCHANGED <<tasks, tasksRunning, threadVars, wasPaused>>

(* Faulty: nobody is told that he waits for himself.                         *)
NeverSelfWait(a) == FALSE

(* get_pool() == this: the call throws wait_deadlock and changes nothing.    *)
SelfWait(a) == WaitDeadlockChecks /\ a \in Executing

Wait(a) ==
  /\ a \in MayWait /\ Calls(a) /\ ~SelfWait(a)
  /\ CallWait(a, "ready", "waiting")
  /\ UNCHANGED <<paused, closed>>

WaitFor(a) ==
  /\ a \in MayWaitFor /\ Calls(a) /\ ~SelfWait(a)
  /\ CallWait(a, "ready", "timed")
  /\ UNCHANGED <<paused, closed>>

(* Notified: the predicate is evaluated again, waiting is not set again.     *)
Resume(a) ==
  /\ pc[a] \in DOMAIN After /\ a \notin doneWaiters
  /\ \/ /\ Done(tasksRunning)
        /\ pc' = [pc EXCEPT ![a] = After[pc[a]]]
        /\ waiting' = FALSE
        /\ UNCHANGED doneWaiters
     \/ /\ ~Done(tasksRunning)
        /\ doneWaiters' = doneWaiters \cup {a}
        /\ UNCHANGED <<pc, waiting>>
  /\ UNCHANGED <<tasks, tasksRunning, threadVars, pauseVars, closed>>

(* The duration passes: wait_for returns whatever the predicate says.        *)
Timeout(a) ==
  /\ Goto(a, "timed", "ready")
  /\ waiting' = FALSE
  /\ doneWaiters' = doneWaiters \ {a}
  /\ UNCHANGED <<tasks, tasksRunning, threadVars, pauseVars, closed>>

-----------------------------------------------------------------------------
(* reset and the destructor: wait, destroy_threads, create_threads.  No two  *)
(* of these calls may overlap.                                               *)

Restarting(a) == pc[a] \in {"resetCall", "resetWait", "resetStop", "resetNotify",
                            "resetJoin", "resetCreate", "resetResume"}

Reset(a) ==
  /\ a \in MayReset /\ Calls(a)
  /\ \A b \in Actor : ~Restarting(b)
  /\ pc' = [pc EXCEPT ![a] = "resetCall"]
  /\ wasPaused' = paused
  /\ paused' = (paused \/ PauseEnabled)
  /\ UNCHANGED <<queueVars, threadVars, doneWaiters, closed>>

ResetWait(a) ==
  /\ CallWait(a, "resetCall", "resetWait")
  /\ UNCHANGED <<paused, closed>>

(* Faulty: the workers are stopped without waiting for the tasks.            *)
DestructorAtOnce(a) ==
  /\ a \in MayDestroy /\ ~closed
  /\ \A c \in Clients : pc[c] = "ready"
  /\ closed' = TRUE
  /\ pc' = [pc EXCEPT ![a] = "dtorStop"]
  /\ UNCHANGED <<queueVars, threadVars, pauseVars, doneWaiters>>

Destructor(a) ==
  /\ a \in MayDestroy /\ ~closed
  /\ \A c \in Clients : pc[c] = "ready"
  /\ closed' = TRUE
  /\ CallWait(a, "ready", "dtorWait")
  /\ UNCHANGED paused

StopWorkers(a) ==
  /\ \/ Goto(a, "resetStop", "resetNotify")
     \/ Goto(a, "dtorStop", "dtorNotify")
  /\ workersRunning' = FALSE
  /\ UNCHANGED <<queueVars, threadCount, wpc, job, sleepers, pauseVars,
                 doneWaiters, closed>>

NotifyStop(a) ==
  /\ \/ Goto(a, "resetNotify", "resetJoin")
     \/ Goto(a, "dtorNotify", "dtorJoin")
  /\ sleepers' = {}
  /\ UNCHANGED <<queueVars, threadCount, workersRunning, wpc, job, pauseVars,
                 doneWaiters, closed>>

JoinWorkers(a) ==
  /\ \A w \in 1..threadCount : wpc[w] = "exited"
  /\ \/ Goto(a, "resetJoin", "resetCreate")
     \/ Goto(a, "dtorJoin", "destroyed")
  /\ UNCHANGED <<queueVars, threadVars, pauseVars, doneWaiters, closed>>

(* Faulty: tasks_running is left at the value the old workers gave it.       *)
CreateThreadsUncounted(a, n) ==
  /\ Goto(a, "resetCreate", "resetResume")
  /\ threadCount' = DetermineThreadCount(n)
  /\ workersRunning' = TRUE
  /\ wpc' = Threads(threadCount')
  /\ UNCHANGED <<queueVars, job, sleepers, pauseVars, doneWaiters, closed>>

CreateThreads(a, n) ==
  /\ Goto(a, "resetCreate", "resetResume")
  /\ threadCount' = DetermineThreadCount(n)
  /\ tasksRunning' = threadCount'
  /\ workersRunning' = TRUE
  /\ wpc' = Threads(threadCount')
  /\ UNCHANGED <<tasks, waiting, job, sleepers, pauseVars, doneWaiters,
                 closed>>

(* Faulty: the flag is restored and nobody is notified.                      *)
ResumePoolSilently(a) ==
  /\ Goto(a, "resetResume", "ready")
  /\ paused' = wasPaused
  /\ wasPaused' = FALSE
  /\ UNCHANGED <<queueVars, threadVars, doneWaiters, closed>>

(* With pausing: restore the flag; a notification is due unless still paused.*)
ResumePool(a) ==
  /\ pc[a] = "resetResume"
  /\ pc' = [pc EXCEPT ![a] =
              IF PauseEnabled /\ ~wasPaused THEN "notifyAll" ELSE "ready"]
  /\ paused' = wasPaused
  /\ wasPaused' = FALSE
  /\ UNCHANGED <<queueVars, threadVars, doneWaiters, closed>>

-----------------------------------------------------------------------------
(* The rest of a call already begun.                                         *)
CallContinues(a) ==
  \/ NotifyOne(a) \/ NotifyAll(a) \/ Resume(a)
  \/ ResetWait(a) \/ StopWorkers(a) \/ NotifyStop(a) \/ JoinWorkers(a)
  \/ \E n \in 0..MaxThreads : CreateThreads(a, n)
  \/ ResumePool(a)

CallBegins(a) ==
  \/ \E t \in Tasks : DetachTask(a, t)
  \/ \E b \in Batches : DetachBulk(a, b)
  \/ Purge(a) \/ Pause(a) \/ Unpause(a)
  \/ Wait(a) \/ WaitFor(a) \/ Reset(a) \/ Destructor(a)

Next ==
  \/ \E w \in Worker : Arrive(w) \/ Wake(w) \/ Finish(w)
  \/ \E a \in Actor : CallBegins(a) \/ CallContinues(a) \/ Timeout(a)
  \/ SpuriousWake

Spec == Init /\ [][Next]_vars

(* Workers and callers run, durations pass, and a task ends: it may call the *)
(* pool, but not for ever.  Nobody has to call.                              *)
Fairness ==
  /\ \A w \in Worker : WF_vars(Arrive(w) \/ Wake(w)) /\ SF_vars(Finish(w))
  /\ \A a \in Actor : WF_vars(CallContinues(a)) /\ WF_vars(Timeout(a))

FairSpec == Spec /\ Fairness

-----------------------------------------------------------------------------
Places == {"new", "queued", "purged", "done", "ready", "notifyOne", "notifyAll",
           "resetCall", "resetStop", "resetNotify", "resetJoin", "resetCreate",
           "resetResume", "dtorStop", "dtorNotify", "dtorJoin", "destroyed"}
          \cup DOMAIN After

TypeOK ==
  /\ tasks \in Seq(Tasks) /\ tasksRunning \in 0..MaxThreads
  /\ threadCount \in Worker
  /\ waiting \in BOOLEAN /\ workersRunning \in BOOLEAN
  /\ paused \in BOOLEAN /\ wasPaused \in BOOLEAN /\ closed \in BOOLEAN
  /\ wpc \in [Worker -> {"none", "lock", "run", "asleep", "exited"}]
  /\ job \in [Worker -> Tasks \cup {None}]
  /\ sleepers \subseteq Worker /\ doneWaiters \subseteq Actor
  /\ pc \in [Actor -> Places]

(* tasks_running, kept by arithmetic in worker and create_threads across     *)
(* restarts, is the number of workers that run a task or are on their way to *)
(* the mutex: it never wraps below 0 and is 0 only when nothing runs.        *)
Busy == {w \in Worker : wpc[w] \in {"lock", "run"}}
RunningExact == tasksRunning = Cardinality(Busy)

(* A task is in the queue once, or with one worker, or in neither.           *)
TaskInOnePlace ==
  /\ Range(tasks) = Queued /\ IsInjective(tasks)
  /\ \A w \in Worker :
       /\ (wpc[w] = "run") <=> (job[w] \in Tasks)
       /\ job[w] \in Tasks => /\ pc[job[w]] \notin {"new", "queued", "purged", "done"}
                              /\ \A v \in Worker \ {w} : job[v] # job[w]

(* Workers that will look at the queue without being notified again.         *)
Awake == {w \in Worker : wpc[w] = "lock"}
         \cup {w \in Worker : wpc[w] = "asleep" /\ w \notin sleepers}
Notifying(place) == {a \in Actor : pc[a] = place}

(* With detach_task alone no worker sleeps while a task waits for it:        *)
(* notifications already sent or still to be sent cover the queue.  They are *)
(* sent after the unlock, in any order, and a worker may not need its own.   *)
WorkConserving ==
  Available /\ workersRunning /\ sleepers # {} /\ Notifying("notifyAll") = {} =>
    Len(tasks) <= Cardinality(Awake) + Cardinality(Notifying("notifyOne"))

(* With detach_bulk, which notifies only if the queue was empty, the least   *)
(* that holds: while there is work, somebody is going to look for it.        *)
SomebodyComes ==
  Available /\ workersRunning =>
    Busy \cup Awake # {} \/ Notifying("notifyAll") \cup Notifying("notifyOne") # {}

(* wait, reset and the destructor go on (unless wait_for timed out) only at a*)
(* moment when no task is running and, unless the pool is paused, none is    *)
(* queued, although all they read is tasks_running and the queue.            *)
Waits(a) == pc[a] \in DOMAIN After \/ pc[a] = "resetCall"
WaitMeansIdle ==
  [][\A a \in Actor : Waits(a) /\ pc'[a] \in Range(After) /\ ~Timeout(a) =>
       Executing = {} /\ (paused \/ Queued = {})]_vars

(* When the destructor is done every worker has exited, nothing runs, and    *)
(* every task accepted has run or been purged, unless the pool is paused.    *)
NothingLeftBehind ==
  (\E a \in Clients : pc[a] = "destroyed") =>
    /\ \A w \in Worker : wpc[w] \in {"none", "exited"}
    /\ Executing = {} /\ (paused \/ Queued = {})

(* What users of the pool rely on (Executor): a task accepted is begun at    *)
(* most once, the foremost first, on no more threads than there are, and     *)
(* ends, unless purge drops it; a restart of the workers changes nothing.    *)
Abs == INSTANCE Executor WITH
  Jobs <- Tasks, Urgency <- Priority, Ordered <- PriorityEnabled,
  Slots <- MaxThreads, waitingJobs <- tasks, executing <- Executing,
  ended <- {t \in Tasks : pc[t] = "done"},
  purged <- {t \in Tasks : pc[t] = "purged"}
ExecutorSpec == Abs!Spec

(* A queued task is run or purged, once the pool is not paused for good,     *)
(* across restarts of the workers and whatever notifications went where.     *)
QueuedRuns ==
  <>[]~paused => \A t \in Tasks : pc[t] = "queued" ~> pc[t] # "queued"

(* A lone waiter gets out: nobody else's wait clears `waiting` meanwhile and *)
(* nothing empties the queue or pauses the pool without a notification.      *)
CallsReturn ==
  \A a \in Clients :
    pc[a] \notin {"ready", "destroyed"} ~> pc[a] \in {"ready", "destroyed"}

=============================================================================
