------------------------------- MODULE MtPool -------------------------------
(***************************************************************************)
(* The library as a program uses it: delayed(), a DelayedTaskRunner over   *)
(* DelayedScheduler, whose executor hands every closure to pool(), a       *)
(* thread pool that keeps the promise of Executor.  Added to the two are   *)
(* the futures of SubmitDelayed, the counters a program may poll, purge    *)
(* of the shared pool, and the construction and destruction of the two     *)
(* singletons.                                                             *)
(***************************************************************************)
EXTENDS DelayedScheduler, SequencesExt

CONSTANTS
  Main,       (* the client that runs main()                                 *)
  Workers,    (* threads of the pool                                         *)
  Submitted,  (* tasks posted by SubmitDelayed, which returns no handle      *)
  MayPoll,    (* who asks for PendingCount, then for InFlightCount           *)
  MayPurge    (* who calls pool().purge()                                    *)

ASSUME MtPoolAssumption ==
  /\ Main \in Clients \cap MayShutdown
  /\ Workers \in Nat \ {0}
  /\ Submitted \subseteq Tasks
  /\ MayPoll \subseteq Clients /\ MayPurge \subseteq Actor

VARIABLES
  waitingJobs, executing, ended, purged,  (* the pool                        *)
  future,     (* the future of the promise each task holds                   *)
  seen,       (* history: what a PendingCount of 0 spoke of, else None       *)
  statics,    (* singletons constructed and not destroyed, in that order     *)
  exiting     (* how far main's destruction of them is                       *)

poolVars == <<waitingJobs, executing, ended, purged>>
lifeVars == <<statics, exiting>>
libVars  == <<poolVars, future, seen, lifeVars>>

Pool == INSTANCE Executor WITH
  Jobs <- Tasks, Urgency <- [t \in Tasks |-> 0], Ordered <- FALSE,
  Slots <- Workers

MtInit ==
  /\ Init /\ Pool!Init
  /\ future = [t \in Tasks |-> "none"]
  /\ seen = None
  /\ statics = <<>> /\ exiting = "no"

-----------------------------------------------------------------------------
(* pool() and delayed(): a singleton is constructed by the first call.       *)

Construct(name, order) == IF name \in Range(order) THEN order ELSE Append(order, name)

(* Faulty: delayed() does not call pool(), which then waits for a closure.   *)
RunnerOnly(order) == Construct("runner", order)

RunnerAfterPool(order) == Construct("runner", Construct("pool", order))

Alive(name) == name \in Range(statics)

(* A thread that is in no call: a client until main returns, or a callback.  *)
MayCall(a) == pc[a] = "ready" /\ (a \in Clients => exiting = "no")

(* pool(), from main or from ThreadPoolExecutor.                             *)
UsePool == statics' = Construct("pool", statics)

CallPool(a) ==
  /\ MayCall(a) /\ ~Alive("pool")
  /\ UsePool
  /\ UNCHANGED <<vars, poolVars, future, seen, exiting>>

CallDelayed(a) ==
  /\ MayCall(a) /\ ~Alive("runner")
  /\ statics' = RunnerAfterPool(statics)
  /\ UNCHANGED <<vars, poolVars, future, seen, exiting>>

-----------------------------------------------------------------------------
(* The promise a task captures.  It is broken if the captures are destroyed  *)
(* while it is neither fulfilled nor given an exception.                     *)

BreakPromises(S) ==
  future' = [t \in Tasks |->
               IF t \in S /\ future[t] = "pending" THEN "broken" ELSE future[t]]

Post(a, t, d) ==
  /\ PostStamp(a, t, d)
  /\ future' = [future EXCEPT ![t] = "pending"]
  /\ UNCHANGED <<poolVars, seen, lifeVars>>

RejectPost(a) ==
  /\ PostReject(a)
  /\ BreakPromises({arg[a]})
  /\ UNCHANGED <<poolVars, seen, lifeVars>>

(* Faulty: what the loop claims is destroyed with what it drops.             *)
DropCandidateAll(t) ==
  /\ PopCandidate(t)
  /\ BreakPromises(queue \ queue')
  /\ UNCHANGED <<poolVars, seen, lifeVars>>

(* PopDueRunnable destroys what it erases and does not return.               *)
DropCandidate(t) ==
  /\ PopCandidate(t)
  /\ BreakPromises(queue \ (queue' \cup due'))
  /\ UNCHANGED <<poolVars, seen, lifeVars>>

(* Faulty: the vector keeps the cancelled tasks.                             *)
DiscardKept(a) == ShutdownDiscard(a) /\ UNCHANGED libVars

Discard(a) ==
  /\ ShutdownDiscard(a)
  /\ BreakPromises(discarded)
  /\ UNCHANGED <<poolVars, seen, lifeVars>>

-----------------------------------------------------------------------------
(* ThreadPoolExecutor and the closure on a worker of the pool.               *)

(* Faulty: a closure is dropped when another one waits.                      *)
HandOverDropped(t) ==
  /\ Execute(t)
  /\ UsePool
  /\ IF waitingJobs = <<>> THEN Pool!Submit(<<t>>) ELSE UNCHANGED poolVars
  /\ UNCHANGED <<future, seen, exiting>>

HandOver(t) ==
  /\ Execute(t)
  /\ UsePool
  /\ Pool!Submit(<<t>>)
  /\ UNCHANGED <<future, seen, exiting>>

BeginClosure(i) ==
  /\ Pool!Begin(i)
  /\ Start(waitingJobs[i])
  /\ UNCHANGED <<future, seen, lifeVars>>

(* The function SubmitDelayed was given returns, or throws.                  *)
Fulfil(t) ==
  /\ pc[t] = "ready" /\ future[t] = "pending"
  /\ \E outcome \in {"value", "exception"} :
       future' = [future EXCEPT ![t] = outcome]
  /\ UNCHANGED <<vars, poolVars, seen, lifeVars>>

EndCallback(t) ==
  /\ t \in Submitted => future[t] # "pending"
  /\ CallbackReturn(t)
  /\ UNCHANGED libVars

EndClosure(t) ==
  /\ DestroyClosure(t)
  /\ Pool!End(t)
  /\ BreakPromises({t})
  /\ UNCHANGED <<seen, lifeVars>>

(* pool().purge() destroys the closures that no worker has begun: nobody     *)
(* calls MarkFinished, releases their tokens or counts them out of in_flight_*)
PurgePool(a) ==
  /\ a \in MayPurge /\ MayCall(a)
  /\ waitingJobs # <<>>
  /\ Pool!Purge
  /\ pc' = [x \in Actor |-> IF x \in Range(waitingJobs) THEN "gone" ELSE pc[x]]
  /\ BreakPromises(Range(waitingJobs))
  /\ UNCHANGED <<timeVars, arg, handles, schedVars, stopVars, dataVars, scanVars,
                 inFlight, waiters, seen, lifeVars>>

-----------------------------------------------------------------------------
(* PendingCount locks mutex_, InFlightCount does not.                        *)

(* Faulty: the queue is read without mutex_.                                 *)
PendingCountUnlocked(a) ==
  /\ a \in MayPoll /\ MayCall(a) /\ Alive("runner") /\ queue = {}
  /\ seen' = handles
  /\ UNCHANGED <<vars, poolVars, future, lifeVars>>

PendingCount(a) ==
  /\ a \in MayPoll /\ MayCall(a) /\ Alive("runner")
  /\ MutexFree /\ queue = {}
  /\ seen' = handles
  /\ UNCHANGED <<vars, poolVars, future, lifeVars>>

InFlightCount(a) ==
  /\ a \in MayPoll /\ MayCall(a) /\ Alive("runner") /\ seen # None
  /\ seen' = None
  /\ UNCHANGED <<vars, poolVars, future, lifeVars>>

-----------------------------------------------------------------------------
(* The end of the process, after main: the singletons are destroyed, the     *)
(* last one first, when no other client is in a call.                        *)

ReturnFromMain ==
  /\ exiting = "no" /\ exiting' = "yes"
  /\ \A a \in Clients : pc[a] = "ready"
  /\ UNCHANGED <<vars, poolVars, future, seen, statics>>

(* The destructors of the runner and of its scheduler each call Shutdown.    *)
DestructorShutdown(from, to) ==
  /\ exiting = from /\ exiting' = to
  /\ CallShutdown(Main)
  /\ UNCHANGED <<poolVars, future, seen, statics>>

Youngest(name) == statics # <<>> /\ Last(statics) = name

DestroyRunner ==
  \/ Youngest("runner") /\ DestructorShutdown("yes", "~DelayedTaskRunner")
  \/ DestructorShutdown("~DelayedTaskRunner", "~DelayedScheduler")

Destroyed(name, from) ==
  /\ exiting = from /\ pc[Main] = "ready"
  /\ Youngest(name)
  /\ statics' = Front(statics)
  /\ exiting' = "yes"
  /\ UNCHANGED <<vars, poolVars, future, seen>>

(* The destructor of the pool waits until it is idle.                        *)
DestroySingleton ==
  \/ Destroyed("runner", "~DelayedScheduler")
  \/ waitingJobs = <<>> /\ executing = {} /\ Destroyed("pool", "yes")

-----------------------------------------------------------------------------
(* DelayedTaskRunner forwards to the scheduler, which refuses a callback     *)
(* that would wait for itself.                                               *)
CallRunner(a) ==
  /\ Alive("runner") /\ MayCall(a)
  /\ \/ \E t \in Tasks, d \in Delays : Post(a, t, d)
     \/ /\ \/ \E t \in Tasks \ Submitted : Cancel(a, t)
           \/ WaitUntilIdle(a) \/ CallShutdown(a)
        /\ UNCHANGED libVars

RunnerContinues(a) ==
  \/ /\ \/ PostInsert(a) \/ PostNotify(a) \/ CancelNotify(a)
        \/ IdleCheck(a) \/ WaitForInFlight(a)
        \/ ShutdownNotify(a) \/ ShutdownJoin(a) \/ ShutdownTakeAll(a)
        \/ \E t \in Tasks : ShutdownCancel(a, t)
     /\ UNCHANGED libVars
  \/ RejectPost(a) \/ Discard(a)

(* The scheduler thread starts when the runner is constructed.               *)
SchedulerRuns ==
  /\ Alive("runner")
  /\ \/ /\ LoopTop \/ WaitTimeout \/ PopBegin \/ PopEnd \/ PopNotify
           \/ Relock \/ Sleep
        /\ UNCHANGED libVars
     \/ \E t \in Tasks : DropCandidate(t) \/ HandOver(t)

ClosureRuns(t) ==
  \/ (Release(t) \/ CompletionNotify(t)) /\ UNCHANGED libVars
  \/ EndClosure(t)

MtNext ==
  \/ \E a \in Actor :
       \/ CallPool(a) \/ CallDelayed(a) \/ CallRunner(a) \/ RunnerContinues(a)
       \/ PendingCount(a) \/ InFlightCount(a) \/ PurgePool(a)
  \/ SchedulerRuns
  \/ \E i \in DOMAIN waitingJobs : BeginClosure(i)
  \/ \E t \in Tasks : Fulfil(t) \/ EndCallback(t) \/ ClosureRuns(t)
  \/ ReturnFromMain \/ DestroyRunner \/ DestroySingleton
  \/ (Tick \/ \E w \in waiters : SpuriousWake(w)) /\ UNCHANGED libVars

(* The library under every program whose clients and callbacks make these    *)
(* calls.                                                                    *)
MtSpec == MtInit /\ [][MtNext]_<<vars, libVars>>

-----------------------------------------------------------------------------
(* No closure is lost or doubled between the scheduler and the pool: what    *)
(* keeps a token and is to be counted out of in_flight_ is still to be       *)
(* handed over, waits in the pool, is executed there up to the release of    *)
(* its token, or was purged; and what is still to be handed over is new to   *)
(* the pool.                                                                 *)
ClaimedIsHeld ==
  /\ Claimed = UNION {due, Range(waitingJobs), purged,
                      {t \in executing : pc[t] \notin {"notify", "destroy"}}}
  /\ due \cap Pool!Known = {}

(* The future of SubmitDelayed tells what became of the task: it is broken   *)
(* only if the task was cancelled, discarded or purged and never ran, has a  *)
(* value or an exception only if the task was begun, and has one whenever    *)
(* the task has finished.                                                    *)
PromisesTellTruth ==
  \A t \in Submitted :
    /\ future[t] = "broken" =>
         /\ stage[t] = "kCancelled" \/ t \in purged
         /\ t \notin executing \cup ended
    /\ future[t] \in {"value", "exception"} => t \in executing \cup ended
    /\ stage[t] = "kFinished" => future[t] \in {"value", "exception"}

(* When the Shutdown that stopped the scheduler returns, every future that   *)
(* SubmitDelayed had returned is ready: with a value or an exception if the  *)
(* task ran, broken if it was cancelled or discarded.  Nobody waits for ever.*)
ShutdownSettles ==
  [][\A a \in Clients : pc[a] = "sdWait" /\ pc'[a] = "ready"
       => \A t \in handles \cap Submitted : future[t] # "pending"]_<<vars, libVars>>

(* A program that reads PendingCount() = 0 and then InFlightCount() = 0, in  *)
(* this order, knows that what was posted before is neither queued nor       *)
(* dispatched and unfinished, although the two are read under no common lock *)
(* (what a Shutdown has taken out of the queue it may have yet to cancel).   *)
PollingIsSafe ==
  [][seen # None /\ seen' = None /\ inFlight = 0
       => seen \cap (queue \cup Claimed) = {}]_<<vars, libVars>>

(* purge of the shared pool is not forgiven: no WaitUntilIdle and no         *)
(* Shutdown ever returns once it has dropped a closure of the scheduler.     *)
PurgeIsRemembered ==
  [][\A a \in Clients :
       pc[a] \in {"idleWait", "sdWait", "reWait"} /\ pc'[a] = "ready"
         => purged = {}]_<<vars, libVars>>

(* The pool outlives the runner: once a pool that has been used is destroyed *)
(* the scheduler thread has exited and the runner is gone, whichever of      *)
(* pool() and delayed() was called first.                                    *)
PoolOutlivesRunner ==
  ended # {} /\ ~Alive("pool") => spc = "exited" /\ due = {} /\ ~Alive("runner")

=============================================================================
