---------------------------- MODULE ParallelLoops ----------------------------
(***************************************************************************)
(* detach_blocks, detach_loop, detach_sequence, the submit_ functions of   *)
(* the same names and submit_task, on a pool that keeps the promise of     *)
(* Executor: one call, whose jobs the pool runs while others may purge it, *)
(* and a caller that asks the multi_future for results.  Jobs are numbered *)
(* as the call creates them; a promise and its future are one.             *)
(***************************************************************************)
EXTENDS Blocks, FiniteSets, Sequences, Functions

CONSTANTS
  Ranges,       (* the arguments of the calls: blocks, and the fields of a   *)
                (* division other than wanted                                *)
  Divisions,    (* divisions on which Partition is checked                   *)
  ThreadCount,  (* thread_count                                              *)
  MaxJobs,      (* bound on the jobs of a call                               *)
  Durations,    (* what wait_for may be given                                *)
  MaxTime       (* bound on the clock                                        *)

Job == 1..MaxJobs

VARIABLES
  call,         (* the call                                                  *)
  waitingJobs, executing, ended, purged,  (* the pool                        *)
  at,           (* the next index a job will call its function with          *)
  called,       (* history: how often the function was called with an index  *)
  future,       (* the future of each job                                    *)
  cpc,          (* where the caller is                                       *)
  next,         (* the future it looks at                                    *)
  count,        (* ready_count: the local                                    *)
  now,          (* steady_clock                                              *)
  deadline,     (* when wait_for or wait_until gives up                      *)
  result        (* what get did                                              *)

poolVars   == <<waitingJobs, executing, ended, purged>>
jobVars    == <<call, at, called>>
callerVars == <<cpc, next, count, deadline, result>>
vars == <<poolVars, jobVars, callerVars, future, now>>

Pool == INSTANCE Executor WITH
  Jobs <- Job, Urgency <- [j \in Job |-> 0], Ordered <- FALSE,
  Slots <- ThreadCount

(* The calls: their two indices are of one type when the range is formed.    *)
Call(kind, submit, r) == [kind |-> kind, submit |-> submit, range |-> r]

DetachBlocks(r)   == Call("blocks", FALSE, r)
DetachLoop(r)     == Call("loop", FALSE, r)
DetachSequence(r) == Call("sequence", FALSE, r)
SubmitBlocks(r)   == Call("blocks", TRUE, r)
SubmitLoop(r)     == Call("loop", TRUE, r)
SubmitSequence(r) == Call("sequence", TRUE, r)

(* A task by itself is called once, as it were with the first index.         *)
SubmitTask(r)     == Call("task", TRUE, r)

Calls ==
  UNION {{DetachBlocks(r), DetachLoop(r), DetachSequence(r), SubmitBlocks(r),
          SubmitLoop(r), SubmitSequence(r), SubmitTask(r)} : r \in Ranges}

Indices == call.range.lo..call.range.hi
RangeOf(c) ==
  IF c.kind = "task" THEN {c.range.first} ELSE c.range.first..c.range.after - 1

Init ==
  /\ call \in Calls
  /\ Pool!Init
  /\ at = [j \in Job |-> 0]
  /\ called = [i \in Indices |-> 0]
  /\ future = [j \in Job |-> "none"]
  /\ cpc = "call" /\ next = 1 /\ count = 0
  /\ now = 0 /\ deadline = 0
  /\ result = "none"

-----------------------------------------------------------------------------
(* enqueue_blocks, enqueue_loop, enqueue_sequence.                           *)

DivisionOf(r) ==
  [lo |-> r.lo, hi |-> r.hi, promoted |-> r.promoted, first |-> r.first,
   after |-> r.after, wanted |-> IF r.blocks # 0 THEN r.blocks ELSE ThreadCount]

BlockPieces(r) ==
  LET d == DivisionOf(r)
  IN  [j \in 1..NumBlocks(d) |-> [start |-> Start(d, j - 1), end |-> End(d, j - 1)]]

SequencePieces(r) ==
  [j \in 1..TotalSize(r) |-> [start |-> r.first + j - 1, end |-> r.first + j]]

Pieces(c) ==
  CASE c.kind = "task" -> <<[start |-> c.range.first, end |-> c.range.first + 1]>>
    [] c.kind = "sequence" -> SequencePieces(c.range)
    [] OTHER -> BlockPieces(c.range)

(* Of the arguments: BS::blocks can divide the range, and Job numbers all.   *)
ASSUME LoopsAssumption ==
  /\ ThreadCount \in Nat \ {0} /\ MaxJobs \in Nat
  /\ MaxTime \in Nat /\ Durations \subseteq Nat
  /\ \A r \in Ranges : Legal(DivisionOf(r))
  /\ \A c \in Calls : Len(Pieces(c)) <= MaxJobs

NumJobs == Len(Pieces(call))
Piece(j) == Pieces(call)[j]

(* An empty range gives an empty multi_future and hands nothing over.        *)
EnqueueNothing ==
  /\ cpc = "call" /\ NumJobs = 0
  /\ cpc' = IF call.submit THEN "futures" ELSE "done"
  /\ UNCHANGED <<poolVars, jobVars, future, now, next, count, deadline, result>>

(* submit_bulk makes a task_and_future of every task; detach_bulk does not.  *)
Enqueue ==
  /\ cpc = "call" /\ NumJobs # 0
  /\ Pool!Submit([j \in 1..NumJobs |-> j])
  /\ future' = [j \in Job |->
                  IF call.submit /\ j <= NumJobs THEN "pending" ELSE "none"]
  /\ cpc' = IF call.submit THEN "futures" ELSE "done"
  /\ UNCHANGED <<jobVars, now, next, count, deadline, result>>

-----------------------------------------------------------------------------
(* A job on a worker: block_task, loop_task or sequence_task, wrapped by     *)
(* task_and_future if it was submitted.                                      *)

BeginJob(i) ==
  /\ Pool!Begin(i)
  /\ at' = [at EXCEPT ![waitingJobs[i]] = Piece(waitingJobs[i]).start]
  /\ UNCHANGED <<call, called, callerVars, future, now>>

(* The indices the next call of the function is for.                         *)
Upcoming(j) == IF call.kind = "blocks" THEN at[j]..Piece(j).end - 1 ELSE {at[j]}

(* Faulty: the loop runs to the last index and one more.                     *)
MoreThanEnd(j) == at[j] <= Piece(j).end

More(j) == at[j] < Piece(j).end

CallFunction(j) ==
  called' = [i \in Indices |-> IF i \in Upcoming(j) THEN called[i] + 1 ELSE called[i]]

FunctionReturns(j) ==
  /\ j \in executing /\ More(j)
  /\ CallFunction(j)
  /\ at' = [at EXCEPT ![j] = IF call.kind = "blocks" THEN Piece(j).end ELSE @ + 1]
  /\ UNCHANGED <<call, poolVars, callerVars, future, now>>

Settle(j, how) ==
  future' = [future EXCEPT ![j] = IF @ = "pending" THEN how ELSE @]

(* Faulty: the exception leaves the task and the promise stays empty.        *)
FunctionThrowsAway(j) ==
  /\ j \in executing /\ More(j)
  /\ CallFunction(j)
  /\ Pool!End(j)
  /\ UNCHANGED <<call, at, callerVars, future, now>>

(* Faulty: the promise is fulfilled after the exception has been caught.     *)
FunctionThrowsValue(j) ==
  /\ j \in executing /\ More(j)
  /\ CallFunction(j)
  /\ Settle(j, "value")
  /\ Pool!End(j)
  /\ UNCHANGED <<call, at, callerVars, now>>

(* set_exception; without a promise the worker swallows the exception.       *)
FunctionThrows(j) ==
  /\ j \in executing /\ More(j)
  /\ CallFunction(j)
  /\ Settle(j, "exception")
  /\ Pool!End(j)
  /\ UNCHANGED <<call, at, callerVars, now>>

(* set_value, after the last call.                                           *)
JobEnds(j) ==
  /\ j \in executing /\ ~More(j)
  /\ Settle(j, "value")
  /\ Pool!End(j)
  /\ UNCHANGED <<jobVars, callerVars, now>>

(* purge() or the end of a paused pool destroys the promises with the tasks. *)
PurgePool ==
  /\ waitingJobs # <<>>
  /\ Pool!Purge
  /\ future' = [j \in Job |->
                  IF j \in Range(waitingJobs) /\ future[j] = "pending"
                  THEN "broken" ELSE future[j]]
  /\ UNCHANGED <<jobVars, callerVars, now>>

-----------------------------------------------------------------------------
(* multi_future: get once, the others any number of times before it.         *)

Ready(j) == future[j] \in {"value", "exception", "broken"}
AllReady == \A j \in 1..NumJobs : Ready(j)

CallerStep(from, to) == cpc = from /\ cpc' = to

CallGet ==
  /\ CallerStep("futures", "get") /\ next' = 1
  /\ UNCHANGED <<poolVars, jobVars, future, now, count, deadline, result>>

(* Faulty: get of the futures that are ready, the others are skipped.        *)
GetReady ==
  /\ cpc = "get" /\ next <= NumJobs
  /\ \/ future[next] \in {"value", "pending"}
        /\ next' = next + 1 /\ UNCHANGED <<cpc, result>>
     \/ future[next] \in {"exception", "broken"}
        /\ result' = future[next] /\ cpc' = "done" /\ UNCHANGED next
  /\ UNCHANGED <<poolVars, jobVars, future, now, count, deadline>>

(* Blocks until the future is ready; an exception leaves the loop.           *)
GetOne ==
  /\ cpc = "get" /\ next <= NumJobs
  /\ \/ future[next] = "value" /\ next' = next + 1 /\ UNCHANGED <<cpc, result>>
     \/ future[next] \in {"exception", "broken"}
        /\ result' = future[next] /\ cpc' = "done" /\ UNCHANGED next
  /\ UNCHANGED <<poolVars, jobVars, future, now, count, deadline>>

GetReturns ==
  /\ next > NumJobs /\ CallerStep("get", "done")
  /\ result' = "value"
  /\ UNCHANGED <<poolVars, jobVars, future, now, next, count, deadline>>

CallWait ==
  /\ CallerStep("futures", "wait") /\ next' = 1
  /\ UNCHANGED <<poolVars, jobVars, future, now, count, deadline, result>>

WaitOne ==
  /\ cpc = "wait"
  /\ \/ next <= NumJobs /\ Ready(next) /\ next' = next + 1 /\ UNCHANGED cpc
     \/ next > NumJobs /\ cpc' = "futures" /\ UNCHANGED next
  /\ UNCHANGED <<poolVars, jobVars, future, now, count, deadline, result>>

(* wait_for(d) and wait_until(now + d).                                      *)
CallWaitFor(d) ==
  /\ CallerStep("futures", "waitFor")
  /\ next' = 1 /\ deadline' = now + d
  /\ UNCHANGED <<poolVars, jobVars, future, now, count, result>>

(* The wait for one future ends when it is ready or at the deadline.         *)
WaitForEnds == cpc = "waitFor" /\ next <= NumJobs /\ (Ready(next) \/ now >= deadline)

NextFuture == next' = next + 1 /\ cpc' = IF next = NumJobs THEN "futures" ELSE cpc

(* Faulty: the time is not looked at after the wait.                         *)
WaitForOneUntimed ==
  /\ WaitForEnds /\ NextFuture
  /\ UNCHANGED <<poolVars, jobVars, future, now, count, deadline, result>>

(* Then the time is looked at: false if it is past the deadline, true after  *)
(* the last future.                                                          *)
WaitForOne ==
  /\ WaitForEnds
  /\ \/ deadline < now /\ cpc' = "futures" /\ UNCHANGED next
     \/ deadline >= now /\ NextFuture
  /\ UNCHANGED <<poolVars, jobVars, future, now, count, deadline, result>>

WaitForNothing ==
  /\ NumJobs = 0 /\ CallerStep("waitFor", "futures")
  /\ UNCHANGED <<poolVars, jobVars, future, now, next, count, deadline, result>>

CallReadyCount ==
  /\ CallerStep("futures", "count") /\ next' = 1 /\ count' = 0
  /\ UNCHANGED <<poolVars, jobVars, future, now, deadline, result>>

(* Faulty: the future is not asked.                                          *)
CountAny ==
  /\ cpc = "count" /\ next <= NumJobs
  /\ next' = next + 1 /\ count' = count + 1
  /\ UNCHANGED <<cpc, poolVars, jobVars, future, now, deadline, result>>

CountOne ==
  /\ cpc = "count" /\ next <= NumJobs
  /\ next' = next + 1
  /\ count' = IF Ready(next) THEN count + 1 ELSE count
  /\ UNCHANGED <<cpc, poolVars, jobVars, future, now, deadline, result>>

ReadyCountReturns ==
  /\ next > NumJobs /\ CallerStep("count", "futures")
  /\ UNCHANGED <<poolVars, jobVars, future, now, next, count, deadline, result>>

Tick ==
  /\ now < MaxTime /\ now' = now + 1
  /\ UNCHANGED <<poolVars, jobVars, callerVars, future>>

-----------------------------------------------------------------------------
WorkerStep ==
  \/ \E i \in DOMAIN waitingJobs : BeginJob(i)
  \/ \E j \in Job : FunctionReturns(j) \/ FunctionThrows(j) \/ JobEnds(j)

CallerContinues ==
  \/ EnqueueNothing \/ Enqueue
  \/ GetOne \/ GetReturns \/ WaitOne \/ WaitForOne \/ WaitForNothing
  \/ CountOne \/ ReadyCountReturns

Next ==
  \/ WorkerStep \/ CallerContinues
  \/ CallGet \/ CallWait \/ CallReadyCount
  \/ \E d \in Durations : CallWaitFor(d)
  \/ PurgePool \/ Tick

(* The pool runs what it is handed, calls of the function return, the caller *)
(* goes on with a call it has made.                                          *)
Spec == Init /\ [][Next]_vars
FairSpec == Spec /\ WF_vars(WorkerStep) /\ WF_vars(CallerContinues)

-----------------------------------------------------------------------------
(* No index is handed to the function twice, and none outside the range, by  *)
(* whatever jobs are running at the same time.                               *)
IndexOnce ==
  \A i \in Indices : called[i] <= IF i \in RangeOf(call) THEN 1 ELSE 0

(* get() returns normally only when the function has been called with every  *)
(* index of the range, exactly once, and no call of it is under way: what it *)
(* refers to in the caller may be destroyed.  (After get() has thrown, other *)
(* jobs may still be running.)                                               *)
GetMeansDone ==
  result = "value" =>
    executing = {} /\ \A i \in RangeOf(call) : called[i] = 1

(* A future tells what became of its job: a value if the function returned   *)
(* for all its indices, an exception if it ran and did not, a broken promise *)
(* if and only if it was purged.                                             *)
FuturesTellTruth ==
  call.submit => \A j \in 1..NumJobs :
    /\ future[j] = "broken" <=> j \in purged
    /\ Ready(j) /\ j \notin purged => j \in ended
    /\ future[j] = "value" =>
         \A i \in Piece(j).start..Piece(j).end - 1 : called[i] = 1

(* wait_for and wait_until return true only if every future is ready or the  *)
(* clock shows the deadline itself: they compare with <, so a coarse clock,  *)
(* or a duration of zero, makes them return true with nothing ready.  And    *)
(* ready_count, which looks at one future after another, counts all of them  *)
(* only if all are ready.                                                    *)
AnswersHonest ==
  [][/\ CallerStep("waitFor", "futures") /\ next' > NumJobs
          => AllReady \/ now = deadline
     /\ CallerStep("count", "futures") /\ count = NumJobs => AllReady]_vars

(* get() comes back, whatever is thrown or purged.                           *)
GetComesBack == cpc = "get" ~> cpc = "done"

(* Before the call: had any other range and type of index been asked for,    *)
(* BS::blocks would partition it, and both ends would have kept their values *)
(* (but for a negative one beside a uint64_t).                               *)
RangesPartitioned ==
  cpc = "call" => \A d \in Divisions : Legal(d) => Partition(d)

IndexTypesHold == cpc = "call" => CommonTypeHolds

=============================================================================
