-------------------------- MODULE DelayedScheduler --------------------------
(***************************************************************************)
(* DelayedScheduler and the threads that meet in it: the scheduler thread  *)
(* (ThreadMain), the clients that call Post, Cancel, WaitUntilIdle and     *)
(* Shutdown, and the closures that run on the executor's worker threads,   *)
(* whose callbacks may call the same operations.  A closure is named by    *)
(* its task.  Every step is what one thread does between two points where  *)
(* another thread can interfere: one critical section of mutex_, one       *)
(* access to an atomic, one notification of cv_.                           *)
(***************************************************************************)
EXTENDS PendingTaskQueue

CONSTANTS
  Clients,      (* threads outside the executor that call the API           *)
  Sched,        (* the scheduler thread                                     *)
  Delays,       (* the delays Post may be given                             *)
  MaxTime,      (* bound on the clock                                       *)
  TimeMax,      (* largest value of a steady_clock time_point               *)
  MayPost, MayCancel, MayWait, MayShutdown, (* who may make which call      *)
  DtorCalls     (* tasks whose captures call the scheduler when destroyed   *)

Actor == Clients \cup Tasks

ASSUME SchedulerAssumption ==
  /\ IsFiniteSet(Clients)
  /\ Clients \cap Tasks = {}
  /\ Sched \notin Actor
  /\ None \notin Actor
  /\ Delays \subseteq Int
  /\ MaxTime \in Nat /\ TimeMax \in Nat /\ MaxTime <= TimeMax
  /\ MayPost \subseteq Actor /\ MayCancel \subseteq Actor
  /\ MayWait \subseteq Actor /\ MayShutdown \subseteq Actor
  /\ DtorCalls \subseteq Tasks

VARIABLES
  now,        (* steady_clock                                               *)
  stop,       (* stop_                                                      *)
  nextSeq,    (* next_sequence_num_                                         *)
  inFlight,   (* in_flight_                                                 *)
  waiters,    (* threads blocked on cv_                                     *)
  joined,     (* thread_ has been joined: joinable() is false               *)
  spc,        (* where the scheduler thread is                              *)
  wake,       (* the wake time of its wait, None for an untimed one         *)
  pc,         (* where each client and each closure is                      *)
  arg,        (* the task an actor is posting                               *)
  handles,    (* tasks whose DelayedTaskHandle Post has returned            *)
  discarded,  (* the vector of Shutdown                                     *)
  dueAt,      (* history: when the task was posted, plus its delay          *)
  ahead       (* history: tasks of the same token that must run before      *)

timeVars == <<now, dueAt, ahead>>
schedVars == <<spc, wake>>
callVars  == <<pc, arg, handles>>
stopVars  == <<stop, joined, discarded>>
dataVars  == <<stage, taskVars, nextSeq, queueVars, running>>

vars == <<timeVars, schedVars, callVars, stopVars, dataVars, scanVars,
          inFlight, waiters>>

Init ==
  /\ QueueInit
  /\ now = 0 /\ stop = FALSE /\ nextSeq = 0 /\ inFlight = 0
  /\ waiters = {} /\ joined = FALSE
  /\ spc = "top" /\ wake = None
  /\ pc = [a \in Actor |-> IF a \in Clients THEN "ready" ELSE "none"]
  /\ arg = [a \in Actor |-> None]
  /\ handles = {} /\ discarded = {}
  /\ dueAt = [t \in Tasks |-> None]
  /\ ahead = [t \in Tasks |-> {}]

-----------------------------------------------------------------------------
(* mutex_ and cv_.  Only the scheduler thread keeps mutex_ from one step to  *)
(* the next; every other critical section is one step.                       *)

MutexFree == spc \notin {"scan", "relockSelf", "sleep"}

Block(w)  == waiters' = waiters \cup {w}
NotifyAll == waiters' = {}
NotifyOne ==
  \/ waiters = {} /\ UNCHANGED waiters
  \/ \E w \in waiters : waiters' = waiters \ {w}

(* A condition variable may wake a waiter for no reason.                     *)
SpuriousWake(w) ==
  /\ w \in waiters
  /\ waiters' = waiters \ {w}
  /\ UNCHANGED <<timeVars, schedVars, callVars, stopVars, dataVars, scanVars,
                 inFlight>>

Tick ==
  /\ now < MaxTime
  /\ now' = now + 1
  /\ UNCHANGED <<dueAt, ahead, schedVars, callVars, stopVars, dataVars,
                 scanVars, inFlight, waiters>>

Goto(a, from, to) == pc[a] = from /\ pc' = [pc EXCEPT ![a] = to]

(* Faulty: the callers are not told apart.                                   *)
FailIfInDelayedTaskNever(a) == a = a

(* g_in_delayed_task is set in exactly the threads that run a callback.      *)
FailIfInDelayedTask(a) == a \notin Tasks

-----------------------------------------------------------------------------
(* Post: stamp, critical section, notification.                              *)

Positive(d) == IF d > 0 THEN d ELSE 0

(* now() + delay in the clock's 64-bit representation.                       *)
Wrap(x) == IF x > TimeMax THEN x - 2 * (TimeMax + 1) ELSE x

RunAt(d) == IF d > 0 THEN Wrap(now + d) ELSE now

PostStamp(a, t, d) ==
  /\ a \in MayPost /\ runAt[t] = None
  /\ Goto(a, "ready", "post")
  /\ arg' = [arg EXCEPT ![a] = t]
  /\ runAt' = [runAt EXCEPT ![t] = RunAt(d)]
  /\ dueAt' = [dueAt EXCEPT ![t] = now + Positive(d)]
  /\ ahead' = [ahead EXCEPT ![t] =
                 {u \in handles : /\ TokenOf[u] = TokenOf[t]
                                  /\ TokenOf[t] # NoToken
                                  /\ dueAt[u] <= now + Positive(d)}]
  /\ UNCHANGED <<now, handles, schedVars, stopVars, stage, seq, nextSeq,
                 queueVars, running, scanVars, inFlight, waiters>>

PostInsert(a) ==
  /\ MutexFree /\ ~stop
  /\ Goto(a, "post", "postNotify")
  /\ stage' = [stage EXCEPT ![arg[a]] = "kPending"]
  /\ seq' = [seq EXCEPT ![arg[a]] = nextSeq]
  /\ nextSeq' = nextSeq + 1
  /\ Insert(arg[a])
  /\ UNCHANGED <<timeVars, arg, handles, schedVars, stopVars, runAt, running,
                 scanVars, inFlight, waiters>>

PostReject(a) ==
  /\ MutexFree /\ stop
  /\ Goto(a, "post", "ready")
  /\ stage' = [stage EXCEPT ![arg[a]] = "kCancelled"]
  /\ arg' = [arg EXCEPT ![a] = None]
  /\ NotifyAll
  /\ UNCHANGED <<timeVars, handles, schedVars, stopVars, taskVars, nextSeq,
                 queueVars, running, scanVars, inFlight>>

PostNotify(a) ==
  /\ Goto(a, "postNotify", "ready")
  /\ NotifyOne
  /\ handles' = handles \cup {arg[a]}
  /\ arg' = [arg EXCEPT ![a] = None]
  /\ UNCHANGED <<timeVars, schedVars, stopVars, dataVars, scanVars, inFlight>>

-----------------------------------------------------------------------------
(* DelayedTaskHandle::Cancel: the CAS, then the notification.                *)

Cancel(a, t) ==
  /\ a \in MayCancel /\ t \in handles
  /\ Goto(a, "ready", "cancelNotify")
  /\ TryCancel(t)
  /\ UNCHANGED <<timeVars, arg, handles, schedVars, stopVars, taskVars,
                 nextSeq, queueVars, running, scanVars, inFlight, waiters>>

CancelNotify(a) ==
  /\ Goto(a, "cancelNotify", "ready")
  /\ NotifyAll
  /\ UNCHANGED <<timeVars, arg, handles, schedVars, stopVars, dataVars,
                 scanVars, inFlight>>

-----------------------------------------------------------------------------
(* WaitUntilIdle, and WaitForInFlight at the end of Shutdown.  A thread      *)
(* evaluates the predicate when it is not blocked and gets mutex_.           *)

(* Faulty: tasks on the executor are forgotten.                              *)
IdleQueueOnly == activeCount = 0

Idle == activeCount = 0 /\ inFlight = 0

WaitUntilIdle(a) ==
  /\ a \in MayWait /\ FailIfInDelayedTask(a)
  /\ Goto(a, "ready", "idleWait")
  /\ UNCHANGED <<timeVars, arg, handles, schedVars, stopVars, dataVars,
                 scanVars, inFlight, waiters>>

WaitOn(a, at, predicate) ==
  /\ pc[a] = at /\ a \notin waiters /\ MutexFree
  /\ \/ predicate /\ pc' = [pc EXCEPT ![a] = "ready"] /\ UNCHANGED waiters
     \/ ~predicate /\ Block(a) /\ UNCHANGED pc
  /\ UNCHANGED <<timeVars, arg, handles, schedVars, stopVars, dataVars,
                 scanVars, inFlight>>

IdleCheck(a) == WaitOn(a, "idleWait", Idle)

(* Faulty: returns without waiting.                                          *)
WaitForInFlightSkipped(a) ==
  \/ WaitOn(a, "sdWait", TRUE)
  \/ WaitOn(a, "reWait", TRUE)

(* "sdWait" for the caller whose CAS of stop_ succeeded, "reWait" for others *)
WaitForInFlight(a) ==
  \/ WaitOn(a, "sdWait", inFlight = 0)
  \/ WaitOn(a, "reWait", inFlight = 0)

-----------------------------------------------------------------------------
(* Shutdown.  The caller that wins the CAS runs the pcs sdNotify, sdJoin,    *)
(* sdTake, sdCancel, sdWait; any other runs reJoin, reWait.  The pcs         *)
(* sdJoining and reJoining are inside thread_.join().                        *)

CallShutdown(a) ==
  /\ a \in MayShutdown /\ FailIfInDelayedTask(a)
  /\ \/ ~stop /\ Goto(a, "ready", "sdNotify")
     \/ stop /\ Goto(a, "ready", "reJoin")
  /\ stop' = TRUE
  /\ UNCHANGED <<timeVars, arg, handles, schedVars, joined, discarded, dataVars,
                 scanVars, inFlight, waiters>>

ShutdownNotify(a) ==
  /\ Goto(a, "sdNotify", "sdJoin")
  /\ NotifyAll
  /\ UNCHANGED <<timeVars, arg, handles, schedVars, stopVars, dataVars,
                 scanVars, inFlight>>

(* if (thread_.joinable()) thread_.join().                                   *)
Joinable(a, at, inside, after) ==
  /\ \/ joined /\ Goto(a, at, after)
     \/ ~joined /\ Goto(a, at, inside)
  /\ UNCHANGED <<timeVars, arg, handles, schedVars, stopVars, dataVars,
                 scanVars, inFlight, waiters>>

Join(a, inside, after) ==
  /\ spc = "exited"
  /\ Goto(a, inside, after)
  /\ joined' = TRUE
  /\ UNCHANGED <<timeVars, arg, handles, schedVars, stop, discarded, dataVars,
                 scanVars, inFlight, waiters>>

(* Two threads inside join() on one std::thread: undefined.  The second may  *)
(* return like the first, or get system_error, which leaves Shutdown.        *)
InJoin(a) == pc[a] \in {"sdJoining", "reJoining"}

JoinThrows(a) ==
  /\ InJoin(a)
  /\ joined \/ \E b \in Actor \ {a} : InJoin(b)
  /\ pc' = [pc EXCEPT ![a] = "ready"]
  /\ UNCHANGED <<timeVars, arg, handles, schedVars, stopVars, dataVars,
                 scanVars, inFlight, waiters>>

(* Faulty: a caller that comes later does not join the thread.               *)
ShutdownJoinFirst(a) ==
  \/ Joinable(a, "sdJoin", "sdJoining", "sdTake")
  \/ Joinable(a, "reJoin", "reWait", "reWait")
  \/ Join(a, "sdJoining", "sdTake")
  \/ JoinThrows(a)

ShutdownJoin(a) ==
  \/ Joinable(a, "sdJoin", "sdJoining", "sdTake")
  \/ Joinable(a, "reJoin", "reJoining", "reWait")
  \/ Join(a, "sdJoining", "sdTake")
  \/ Join(a, "reJoining", "reWait")
  \/ JoinThrows(a)

ShutdownTakeAll(a) ==
  /\ MutexFree
  /\ Goto(a, "sdTake", "sdCancel")
  /\ discarded' = queue
  /\ TakeAll
  /\ UNCHANGED <<timeVars, arg, handles, schedVars, stop, joined, stage,
                 taskVars, nextSeq, running, scanVars, inFlight, waiters>>

ShutdownCancel(a, t) ==
  /\ pc[a] = "sdCancel"
  /\ First(t, {u \in discarded : stage[u] = "kPending"})
  /\ TryCancel(t)
  /\ NotifyAll
  /\ UNCHANGED <<timeVars, callVars, schedVars, stopVars, taskVars, nextSeq,
                 queueVars, running, scanVars, inFlight>>

(* discarded.clear() and the second notify_all.                              *)
ShutdownDiscard(a) ==
  /\ \A t \in discarded : stage[t] # "kPending"
  /\ Goto(a, "sdCancel", "sdWait")
  /\ discarded' = {}
  /\ NotifyAll
  /\ UNCHANGED <<timeVars, arg, handles, schedVars, stop, joined, dataVars,
                 scanVars, inFlight>>

-----------------------------------------------------------------------------
(* ThreadMain and DispatchDueTasks.  At "top" the thread is blocked on cv_   *)
(* if it is in waiters, else it needs mutex_ to test the loop condition.     *)

LoopTop ==
  /\ spc = "top" /\ Sched \notin waiters
  /\ spc' = IF stop THEN "exited" ELSE "pop"
  /\ wake' = None
  /\ UNCHANGED <<timeVars, callVars, stopVars, dataVars, scanVars, inFlight,
                 waiters>>

WaitTimeout ==
  /\ Sched \in waiters /\ wake # None
  /\ now >= wake
  /\ waiters' = waiters \ {Sched}
  /\ UNCHANGED <<timeVars, schedVars, callVars, stopVars, dataVars, scanVars,
                 inFlight>>

PopBegin ==
  /\ spc = "pop" /\ spc' = "scan"
  /\ PopStart(now)
  /\ UNCHANGED <<timeVars, wake, callVars, stopVars, nextSeq, inFlight, waiters>>

(* Erasing an entry destroys its captures: one that locks mutex_ again,      *)
(* which this thread holds, never comes back.                                *)
Destroy(t) == spc' = IF t \in DtorCalls THEN "relockSelf" ELSE spc

PopCandidate(t) ==
  /\ spc = "scan"
  /\ \/ PopCancelled(t) /\ Destroy(t)
     \/ PopNotDue(t) /\ UNCHANGED spc
     \/ PopBlocked(t) /\ UNCHANGED spc
     \/ PopRunnable(t) /\ UNCHANGED spc
     \/ PopClaim(t) /\ UNCHANGED spc
     \/ PopLostRace(t) /\ Destroy(t)
  /\ UNCHANGED <<timeVars, wake, callVars, stopVars, nextSeq, inFlight, waiters>>

PopEnd ==
  /\ spc = "scan" /\ todo = {} /\ claiming = None
  /\ spc' = "popNotify"
  /\ inFlight' = inFlight + Cardinality(due)
  /\ scanNow' = 0
  /\ UNCHANGED <<timeVars, wake, callVars, stopVars, dataVars, todo, claiming,
                 due, waiters>>

(* Faulty: waiters are not told that the pop dropped cancelled tasks.        *)
PopNotifySilent ==
  /\ spc = "popNotify" /\ spc' = "exec"
  /\ UNCHANGED <<timeVars, wake, callVars, stopVars, dataVars, scanVars,
                 inFlight, waiters>>

PopNotify ==
  /\ spc = "popNotify" /\ spc' = "exec"
  /\ NotifyAll
  /\ UNCHANGED <<timeVars, wake, callVars, stopVars, dataVars, scanVars, inFlight>>

(* executor_.Execute: the closure is the executor's from now on.             *)
Execute(t) ==
  /\ spc = "exec" /\ First(t, due)
  /\ due' = due \ {t}
  /\ Goto(t, "none", "handed")
  /\ UNCHANGED <<timeVars, schedVars, arg, handles, stopVars, dataVars, scanNow,
                 todo, claiming, inFlight, waiters>>

(* Back in ThreadMain: lock, test stop_, compute the wake time.              *)
Relock ==
  /\ spc = "exec" /\ due = {}
  /\ IF stop
     THEN spc' = "exited" /\ UNCHANGED wake
     ELSE spc' = "sleep" /\ wake' = NextWakeTime(now)
  /\ UNCHANGED <<timeVars, callVars, stopVars, dataVars, scanVars, inFlight,
                 waiters>>

Sleep ==
  /\ spc = "sleep" /\ spc' = "top"
  /\ Block(Sched)
  /\ UNCHANGED <<timeVars, wake, callVars, stopVars, dataVars, scanVars, inFlight>>

-----------------------------------------------------------------------------
(* The closure on a worker thread of the executor.                           *)

Start(t) ==
  /\ Goto(t, "handed", "ready")
  /\ UNCHANGED <<timeVars, arg, handles, schedVars, stopVars, dataVars, scanVars,
                 inFlight, waiters>>

(* The callback returns or throws; then MarkFinished.                        *)
CallbackReturn(t) ==
  /\ Goto(t, "ready", "release")
  /\ MarkFinished(t)
  /\ UNCHANGED <<timeVars, arg, handles, schedVars, stopVars, taskVars, nextSeq,
                 queueVars, running, scanVars, inFlight, waiters>>

(* Faulty: in_flight_ is not decremented.                                    *)
ReleaseUncounted(t) ==
  /\ MutexFree
  /\ Goto(t, "release", "notify")
  /\ ReleaseToken(TokenOf[t])
  /\ UNCHANGED <<timeVars, arg, handles, schedVars, stopVars, stage, taskVars,
                 nextSeq, queueVars, scanVars, inFlight, waiters>>

Release(t) ==
  /\ MutexFree
  /\ Goto(t, "release", "notify")
  /\ ReleaseToken(TokenOf[t])
  /\ inFlight' = inFlight - 1
  /\ UNCHANGED <<timeVars, arg, handles, schedVars, stopVars, stage, taskVars,
                 nextSeq, queueVars, scanVars, waiters>>

(* Faulty: waiters are not told that the task has finished.                  *)
CompletionSilent(t) ==
  /\ Goto(t, "notify", "destroy")
  /\ UNCHANGED <<timeVars, arg, handles, schedVars, stopVars, dataVars, scanVars,
                 inFlight, waiters>>

CompletionNotify(t) ==
  /\ Goto(t, "notify", "destroy")
  /\ NotifyAll
  /\ UNCHANGED <<timeVars, arg, handles, schedVars, stopVars, dataVars, scanVars,
                 inFlight>>

(* The worker destroys the closure, and the task's captures with it.         *)
DestroyClosure(t) ==
  /\ Goto(t, "destroy", "gone")
  /\ UNCHANGED <<timeVars, arg, handles, schedVars, stopVars, dataVars, scanVars,
                 inFlight, waiters>>

-----------------------------------------------------------------------------
(* A call once made is carried on; nobody is obliged to make one.            *)
CallStarts(a) ==
  \/ \E t \in Tasks, d \in Delays : PostStamp(a, t, d)
  \/ \E t \in Tasks : Cancel(a, t)
  \/ WaitUntilIdle(a)
  \/ CallShutdown(a)

CallContinues(a) ==
  \/ PostInsert(a) \/ PostReject(a) \/ PostNotify(a)
  \/ CancelNotify(a)
  \/ IdleCheck(a) \/ WaitForInFlight(a)
  \/ ShutdownNotify(a) \/ ShutdownJoin(a) \/ ShutdownTakeAll(a)
  \/ ShutdownDiscard(a) \/ \E t \in Tasks : ShutdownCancel(a, t)

SchedStep ==
  \/ LoopTop \/ WaitTimeout
  \/ PopBegin \/ PopEnd \/ PopNotify
  \/ \E t \in Tasks : PopCandidate(t) \/ Execute(t)
  \/ Relock \/ Sleep

WorkerStep(t) ==
  \/ Start(t) \/ CallbackReturn(t)
  \/ Release(t) \/ CompletionNotify(t) \/ DestroyClosure(t)

Next ==
  \/ Tick
  \/ \E a \in Actor : CallStarts(a) \/ CallContinues(a)
  \/ SchedStep
  \/ \E t \in Tasks : WorkerStep(t)
  \/ \E w \in waiters : SpuriousWake(w)

Spec == Init /\ [][Next]_vars

(* Time passes, the scheduler thread runs, a call is carried on and a        *)
(* callback returns.  Strong fairness: who keeps asking for mutex_ gets it,  *)
(* even if the scheduler thread is woken, and takes it, for ever.            *)
Fairness ==
  /\ WF_vars(Tick)
  /\ WF_vars(SchedStep)
  /\ \A a \in Actor : SF_vars(CallContinues(a))
  /\ \A t \in Tasks : SF_vars(WorkerStep(t))

FairSpec == Spec /\ Fairness
-----------------------------------------------------------------------------
(* Tasks that have been dispatched and whose token is not released yet.      *)
Claimed == {t \in Tasks : stage[t] = "kDispatched" \/ pc[t] = "release"}

(* Claimed tasks that PopDueRunnable has not returned yet: the accounting of *)
(* in_flight_ comes after the loop, in the same critical section.            *)
Uncounted == IF spc \in {"scan", "relockSelf"} THEN due ELSE {}

CallPCs == {"ready", "post", "postNotify", "cancelNotify", "idleWait",
            "sdNotify", "sdJoin", "sdJoining", "sdTake", "sdCancel", "sdWait",
            "reJoin", "reJoining", "reWait"}
ClosurePCs == {"none", "handed", "release", "notify", "destroy", "gone"}
SchedPCs == {"top", "pop", "scan", "relockSelf", "popNotify", "exec", "sleep",
             "exited"}

(* Every variable keeps the type its declaration gives it.                   *)
TypeOK ==
  /\ stage \in [Tasks -> Stages]
  /\ runAt \in [Tasks -> Int \cup {None}]
  /\ seq \in [Tasks -> Nat]
  /\ queue \subseteq Tasks /\ activeCount \in Int
  /\ running \subseteq Tokens
  /\ scanNow \in Int /\ todo \subseteq Tasks /\ due \subseteq Tasks
  /\ claiming \in Tasks \cup {None}
  /\ now \in Nat /\ stop \in BOOLEAN /\ nextSeq \in Nat /\ inFlight \in Int
  /\ waiters \subseteq Actor \cup {Sched}
  /\ joined \in BOOLEAN
  /\ spc \in SchedPCs
  /\ wake \in Int \cup {None}
  /\ pc \in [Actor -> CallPCs \cup ClosurePCs]
  /\ arg \in [Actor -> Tasks \cup {None}]
  /\ handles \subseteq Tasks /\ discarded \subseteq Tasks
  /\ dueAt \in [Tasks -> Int \cup {None}]
  /\ ahead \in [Tasks -> SUBSET Tasks]

(* Two tasks of one valid token are never both between their dispatch and    *)
(* the release of the token, whatever threads dispatch and release do.       *)
TokenExclusion ==
  \A t, u \in Claimed :
    t # u /\ TokenOf[t] = TokenOf[u] => TokenOf[t] = NoToken

(* The tracker holds exactly the tokens of those tasks: none leaks, which    *)
(* would block its sequence for ever, none is given back early.              *)
TokensHeldExactly == running = {TokenOf[t] : t \in Claimed} \ {NoToken}

(* One token, one order: when u was posted after Post of t had returned, for *)
(* a time no earlier than t's, u is not dispatched before t has finished or  *)
(* been cancelled.                                                           *)
TokenFIFO ==
  \A u \in Tasks : stage[u] \in {"kDispatched", "kFinished"} =>
    \A t \in ahead[u] : stage[t] \in {"kFinished", "kCancelled"}

(* A Cancel that returned true wins for good: the task is not among those    *)
(* popped, and its closure never reaches the executor.                       *)
CancelWins == \A t \in Tasks : IsCancelled(t) => t \notin due /\ pc[t] = "none"

(* No task is dispatched before the delay it was posted with has passed.     *)
NeverEarly ==
  \A t \in Tasks : stage[t] \in {"kDispatched", "kFinished"} => dueAt[t] <= now

(* The two counters WaitUntilIdle and Shutdown wait on count what they say.  *)
InFlightExact == inFlight = Cardinality(Claimed \ Uncounted)
ActiveExact == activeCount = Cardinality(queue)
CountersExact == InFlightExact /\ ActiveExact

(* When WaitUntilIdle returns, the queue is empty and nothing dispatched is  *)
(* unfinished, in the middle of a pop as well.                               *)
IdleMeansIdle ==
  [][\A a \in Actor : pc[a] = "idleWait" /\ pc'[a] = "ready"
       => queue = {} /\ Claimed = {}]_vars

(* When the Shutdown that stopped the scheduler returns, its thread is gone, *)
(* no published task can ever run, and every dispatched one has finished.    *)
ShutdownDrains ==
  [][\A a \in Actor : pc[a] = "sdWait" /\ pc'[a] = "ready"
       => /\ spc = "exited" /\ queue = {} /\ due = {}
          /\ \A t \in Tasks : stage[t] \in {"none", "kCancelled", "kFinished"}]_vars

(* Whichever Shutdown comes to its end, the one that stopped the scheduler   *)
(* or a later one, no callback runs then or ever after: the thread is gone   *)
(* with nothing left to hand over, and no closure still holds its token.  A  *)
(* later one may find tasks that are not cancelled yet, none that can run.   *)
NothingRunsAfterShutdown ==
  [][\A a \in Actor : pc[a] \in {"sdWait", "reWait"} /\ pc'[a] = "ready"
       => spc = "exited" /\ due = {} /\ Claimed = {}]_vars

(* The API's promise (DelayedTasks) is kept by the implementation.           *)
Abs == INSTANCE DelayedTasks WITH state <- stage
DelayedTasksSpec == Abs!Spec

-----------------------------------------------------------------------------
(* A dispatched task is executed to the end and its closure destroyed.       *)
DispatchedEnds ==
  \A t \in Tasks : stage[t] = "kDispatched" ~> pc[t] = "gone"

(* As long as the scheduler thread keeps coming back to DispatchDueTasks,    *)
(* every task due within the clock's bound leaves the queue, cancelled ones  *)
(* and those that find their token taken included.                           *)
SweptWhileAwake ==
  []<>(spc = "pop") =>
    \A t \in Tasks : (t \in queue /\ dueAt[t] <= MaxTime) ~> t \notin queue

(* A WaitUntilIdle whose condition holds for good returns.                   *)
IdleIsNoticed ==
  \A a \in Clients : (pc[a] = "idleWait" /\ []Idle) ~> pc[a] = "ready"

(* Once the scheduler thread is gone, every Shutdown comes to an end.        *)
ShutdownEnds ==
  \A a \in Clients :
    (spc = "exited" /\ pc[a] \in {"sdJoin", "reJoin"}) ~> pc[a] = "ready"

=============================================================================
