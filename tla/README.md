# A verification project for mtPool

mtPool is a C++17 library: a process-wide `BS::thread_pool` (`pool()`) and a
delayed-task service (`delayed()`) that keeps tasks until they are due, runs at
most one task of a *sequence token* at a time, and hands due tasks to the pool.
This directory holds TLA+ modules translated from its source, TLC runs that
check them on small instances, and theorems about them proved with TLAPS.

## 1. Inventory

| Component (source) | State | Operations | Hard behaviour | What makes it correct |
|---|---|---|---|---|
| `CancelState`, `DelayedTaskHandle` (`cancel_state.h`, `delayed_task_handle.cpp`) | one atomic stage per task, a `weak_ptr` to `cv_` | `TryCancel`, `TryDispatch`, `MarkFinished`, `Cancel` | changed without a lock, races the scheduler thread | cancelled or dispatched, never both; a won Cancel is final |
| `SequenceTracker` | set of tokens in use | `IsRunnable`, `Acquire`, `Release` | acquired by the scheduler thread, released by workers | exclusion; no leak, no early release |
| `PendingTaskQueue` | map ordered by (time, sequence number), counter | `Insert`, `PopDueRunnable`, `NextWakeTime`, `TakeAll` | looks at candidates one by one while handles cancel them | order within a token, exact counter, nothing forgotten |
| `DelayedScheduler` | `mutex_`, `cv_`, `stop_`, `in_flight_`, a thread | `Post`, `WaitUntilIdle`, `Shutdown`, `ThreadMain`, the closure a worker runs | four kinds of thread on one mutex and one condition variable; atomics and notifications outside the mutex | nothing early, `WaitUntilIdle` and `Shutdown` return only when they may and whenever they can |
| `DelayedTaskRunner` | the scheduler | forwards; `SubmitDelayed` | a future must become ready whatever happens to its task | value, exception or `broken_promise`, once |
| `ThreadPoolExecutor` | none | `Execute` | every closure handed over must run, or be seen not to have run | what the pool promises |
| `BS::thread_pool` (`mt_thread_pool.h`) | task queue, `tasks_running`, `waiting`, workers | `detach_task`, `detach_bulk`, `wait*`, `reset`, `purge`, destructor, `worker` | two condition variables, one shared `waiting` flag, restart and destruction while others call | no task lost, no worker forgotten, waiters woken |
| Parallel loops (`detach_blocks`, `detach_loop`, `detach_sequence`, `submit_*`), `multi_future` | jobs, promises | the calls; `get`, `wait`, `wait_for`, `wait_until`, `ready_count` | functions that throw, promises dropped by `purge`, futures looked at one by one while jobs run | every index once; a value means it is over; answers not wrong by a race |
| `BS::blocks`, `common_index_type` | range and block count | `start`, `end`, `get_num_blocks` | remainders, empty ranges, narrow index types, mixed signs | the blocks partition the range |
| `SequenceToken` (`sequence_token.cpp`) | atomic counter, map of names | `Create`, `Named` | one counter with and without the mutex; an allocation that fails | unique ids, one id per name |
| `pool()`, `delayed()` (`MtPool.cpp`) | function-local statics | first use, exit | order of construction and destruction | the pool outlives the scheduler |
| The demo (`demo/delayed_task_demo.cpp`) | | eight functions | the whole library under a client, with its expectations of time | every `Expect` holds |

A client calls the runner, which calls the scheduler under `mutex_`. The
scheduler thread pops due tasks, sets their stage, takes their tokens, and
gives one closure per task to the executor. A worker of the pool runs the
closure, which runs the callback, marks the task finished, takes `mutex_` to
release the token and to decrement `in_flight_`, and notifies `cv_`. `cv_` is
shared by the scheduler thread, by callers of `WaitUntilIdle` and `Shutdown`,
and, through a `weak_ptr`, by handles.

## 2. Structure

```
 PendingTaskQueue <- DelayedScheduler <- MtPool <- MtPoolDemo      (EXTENDS)
                          |implements       |uses
                     DelayedTasks        Executor <- implemented by - ThreadPool
                                            ^uses
 SequenceTokens       Blocks <-------- ParallelLoops
```

`DelayedTasks` and `Executor` are the abstract promises: of the scheduler to
those who post, and of the pool to the scheduler and to the parallel loops. The
detailed modules are shown to implement them (`DelayedTasksSpec`,
`ExecutorSpec`), and the compositions use the promise in place of the pool.
`...Claims` modules hold what the texts say and the code does not do,
`...Proofs` modules the theorems, `MC...` modules the values for TLC.

The modules with proofs build on each other as the modules do:
`DelayedSchedulerProofs` <- `DelayedSchedulerCountsProofs` <-
`DelayedSchedulerOrderProofs` <- `MtPoolProofs`; `BlocksProofs` <-
`ParallelLoopsProofs`; `ThreadPoolProofs` and `SequenceTokensProofs` stand alone.

## 3. The modules

`PendingTaskQueue` holds the passive data. A task is a model value; its fields
are functions (`stage`, `runAt`, `seq`) and `tasks_` is the set `queue`, ordered
by `Before`. `PopDueRunnable` runs under `mutex_` but a handle can cancel a task
at any point of it, so it is a sequence of steps: `PopStart`, then for the first
entry of `todo` one of `PopCancelled`, `PopNotDue` (the `break`), `PopBlocked`,
or `PopRunnable` followed by `PopClaim` or `PopLostRace`: the check of the
candidate and the compare-exchange of its stage are two steps. It ends when
`todo` is empty.

`DelayedScheduler` adds the threads. An actor is a client or a task's closure,
`pc[a]` is where it is. A step is one critical section, one atomic access or one
notification:

| Code | Actions |
|---|---|
| `Post` | `PostStamp` (read the clock), `PostInsert` or `PostReject` (critical section), `PostNotify` |
| `Cancel` | `Cancel` (the compare-exchange), `CancelNotify` |
| `WaitUntilIdle` | `WaitUntilIdle`, `IdleCheck` until the predicate holds |
| `Shutdown` | `CallShutdown` (CAS of `stop_`), `ShutdownNotify`, `ShutdownJoin`, `ShutdownTakeAll`, `ShutdownCancel` per task, `ShutdownDiscard`, `WaitForInFlight`; a second caller only `ShutdownJoin`, `WaitForInFlight` |
| `ThreadMain` | `LoopTop`, the pop, `Relock`, `Sleep`, `WaitTimeout` |
| `DispatchDueTasks` | `PopBegin`, `PopCandidate`, `PopEnd`, `PopNotify`, `Execute` per task |
| the closure | `Start`, any calls the callback makes, `CallbackReturn` (with `MarkFinished`), `Release`, `CompletionNotify`, `DestroyClosure` |

`mutex_` is not a variable: only the scheduler thread keeps it from one step to
the next, so it is free when `spc` is not one of its three states in between.
`waiters` is the set of threads blocked on `cv_`; `SpuriousWake` is always
possible, and is also all that `NotifySequenceReleased`, which nobody calls,
could do. `FailIfInDelayedTask` is the guard that keeps closures out of
`WaitUntilIdle` and `Shutdown`; the exception it throws ends the callback like
any other. Two simultaneous `join`s on one `std::thread` are undefined; the
second caller may return or throw. What follows a step in the same thread and no
other thread can tell apart is merged into it: the TryCancel and the notification
of `PostReject` and `ShutdownCancel`, the thread-local flag and the `try`. A
closure's captures matter only when destroyed: `DtorCalls` names the tasks whose
captures call the scheduler then. `dueAt` and `ahead` are history variables.

`DelayedTasks` is the abstract promise: each task is scheduled for a time not in
the past, published or refused, and then cancelled or dispatched once, not
before its time and not while a task of its token is dispatched.
`DelayedTasksSpec` instantiates it with `stage` for `state`.

`ThreadPool` is `BS::thread_pool` in the configuration the library builds
(C++17, hence no `std::jthread`) and with its options: `PauseEnabled`,
`PriorityEnabled`, `WaitDeadlockChecks`. `Hardware` is what
`hardware_concurrency` says, which may be 0. `wpc[w]` is where a worker is: `lock` (started, or done with a
task, and on its way to `tasks_mutex`; `tasks_running` counts it), `run`,
`asleep`, `exited`. `pc[a]` is where a client or a running task is in its call.
No thread keeps `tasks_mutex` from one step to the next:

| Code | Actions |
|---|---|
| `worker` | `Arrive` (decrement, test for waiters, first evaluation of the wait's predicate), `Wake` (later evaluations), both ending in `Block`, `Break` or `Take`; `Finish` |
| `detach_task`, `detach_bulk` (and `submit_*`, which call them) | `DetachTask`, `NotifyOne`; `DetachBulk`, `NotifyAll` if the queue was empty |
| `wait`, `wait_for`, `wait_until` | `Wait`, `WaitFor` (a call that finds the predicate true returns at once), `Resume`, `Timeout` |
| `purge`, `pause`, `unpause` | `Purge`, `Pause`, `Unpause` and `NotifyAll` |
| `reset` | `Reset`, `ResetWait`, `StopWorkers`, `NotifyStop`, `JoinWorkers`, `CreateThreads`, `ResumePool` |
| destructor | `Destructor`, `Resume`, `StopWorkers`, `NotifyStop`, `JoinWorkers` |

A waiter on `task_available_cv` is in `sleepers`, one on `tasks_done_cv` in
`doneWaiters`. The model demands of callers what C++ demands: no two `reset`
overlap, nobody but a running task calls a pool under destruction. A task is
handed over at most once. A task that calls `wait` would wait for itself;
without `WaitDeadlockChecks` the documentation forbids it, with it the call
throws (`SelfWait`) and the runs let a task try. The init function runs between
a worker's start and its first `Arrive`, the cleanup function after `Break`;
both are user code without the lock and are not steps of their own.

`Executor` is the abstract pool: jobs waiting, executing, ended, purged; no
worker, lock or condition variable. A restart of the workers is invisible in it.

`Blocks` holds `BS::blocks` and `common_index_type` as operators: a division is a
record with the bounds of the index type, and `Conv` is the conversion to it,
modulo its size, made wherever the code casts. `ParallelLoops` is one call of a
`detach_` or `submit_` function: `Pieces` are the jobs that `enqueue_*` makes,
`FunctionReturns` and `FunctionThrows` are one call of the user's function,
`Settle` is what `task_and_future` does with its promise (in one step with the end
of the job, so `GetMeansDone` speaks of the function's calls), and the `Call*` and
`...One` actions walk through the `multi_future`, one future a step, while jobs
go on, the pool may be purged and the clock moves.

`SequenceTokens` has one step for the `fetch_add` of `Create`, and three for
`Named`: lock and find, `fetch_add`, emplace and unlock.

`MtPool` composes: it takes the scheduler's actions one by one and says what
else changes. `HandOver` is `Execute` with `pool().detach_task`; `BeginClosure`
and `EndClosure` are a worker's two halves around a closure, on an `Executor`
with `Workers` slots; `PurgePool` is `pool().purge()`. The promise a task
captures (`future[t]`) is broken by whatever destroys the closure: a refused
post, the sweep that drops a cancelled task, the discard of Shutdown, the end of
the closure, a purge. Tasks in `Submitted` are those of `SubmitDelayed`, which
returns a future and no handle: nobody can cancel them, though
`README.md:235` and the comment at `delayed_task_runner.h:49` speak of it.
`statics` is the list of singletons constructed; after `ReturnFromMain` they are
destroyed from the end: `~DelayedTaskRunner` and `~DelayedScheduler` call
Shutdown, the pool waits until it is idle. `MtSpec` is the library under every
program whose clients and callbacks make these calls, at any time and in any
order; the `May...` sets say who makes which (`CallRunner`, `PurgePool`; only
clients poll, and only they may wait, as `FailIfInDelayedTask` stops a callback).
`ClaimedIsHeld` says that a closure between scheduler and pool is neither lost nor
doubled, `PromisesTellTruth` what a future says of its task.

`MtPoolDemo` runs the demo on it. A function of the demo is a program: for main,
the second thread and each callback the list of its statements (`ip[a]` points
at the next), interpreted by the `Do...` actions, which call the actions of
`MtPool`. Each starts from a library just constructed. Times are in units of 20 ms.
The fifth function, which compares ids of `Named`, has no scenario: it is
`NamesStable`. Every statement is a call of an action of `MtPool` that leaves the
rest alone, so what `MtSpec` promises holds in a scenario by construction; what is
checked is the demo's own part, its expectations (`DemoInTime`).

`DelayedSchedulerClaims` and `ThreadPoolClaims` state what documentation and
comments say and the code does not do; the `MC...` modules give the constants
their values.

## 4. The runs

| Run | Instance | Shows |
|---|---|---|
| `core` | 2 tasks of one token, 2 clients; both and a callback post, callbacks cancel; delays -1..1, clock to 2; two Shutdowns | `TokenExclusion`, `TokensHeldExactly`, `CancelWins`, `CountersExact`, `TokenFIFO`, `NeverEarly`, `IdleMeansIdle`, `ShutdownDrains`, `NothingRunsAfterShutdown`, refinement of `DelayedTasks` |
| `live` | 2 tasks of one token, 1 client that posts, cancels, waits and shuts down | `DispatchedEnds`, `SweptWhileAwake`, `IdleIsNoticed`, `ShutdownEnds` |
| `pool` | 3 tasks, up to 3 workers, no pausing; a client and a task that submit, a client that waits, waits with a timeout, resets and destroys | `TypeOK`, `TaskInOnePlace`, `WorkConserving`, `CallsReturn` |
| `pool_pause` | 2 tasks of different priority, up to 2 workers, pausing; bulk submission, `purge`, `pause` and `unpause` against a waiter, a timed waiter, a task that waits, a reset and the destructor | `RunningExact`, `SomebodyComes`, `NothingLeftBehind`, `WaitMeansIdle`, refinement of `Executor`, `QueuedRuns` |
| `tokens` | 3 threads, 2 names, 5 ids | `UniqueIds`, `NamesStable` |
| `loops` | every kind of call over 4 ranges (one empty, one with fewer indices than blocks, one with negative indices), 2 threads; and `Blocks` for all ranges and 1 to 9 blocks in three index types of 3 bits, and all pairs of integer types | `IndexOnce`, `GetMeansDone`, `FuturesTellTruth`, `RangesPartitioned`, `IndexTypesHold`, `AnswersHonest`, `GetComesBack` |
| `library` | 2 tasks without a token, one of `SubmitDelayed` and one with a handle; 1 worker; 2 clients that post, cancel, wait, poll, purge, shut down and leave main, callbacks that post, cancel and purge, captures of the second task that call the scheduler when they are destroyed; clock to 1 | `ClaimedIsHeld`, `PromisesTellTruth`, `PoolOutlivesRunner`, `ShutdownSettles`, `PollingIsSafe`, `PurgeIsRemembered` |
| `demo` | the seven scenarios of the demo with 4 workers | `DemoInTime` |

Each of the others checks one claim and finds it violated:

| Run | What the counterexample does |
|---|---|
| `shutdown_lost_wakeup` | `stop_` is set and notified after ThreadMain tested it and before it waits: `join` never returns |
| `due_overlooked` | a task is posted due, or becomes due, after the pop; `NextWakeTime` skips it and the thread sleeps |
| `pool_two_waiters` | a `wait_for` that times out clears `waiting`; the last task ends and the other caller of `wait` is not notified |
| `demo_cancel_late` | in the sixth function of the demo, Cancel comes after the sweep has looked at the task and before the scheduler thread waits: the notification is lost and `fut.get()` waits on, here for the five seconds |

`DueIsDispatched` asks only for tasks whose time has come on the model's own
clock. It fails for two independent reasons. TLC reports the one above (line
146). With that one repaired in the model (ThreadMain does not sleep while a
runnable task is due) it still fails as long as somebody may wait: Post's
`notify_one` (line 65) goes to a caller of `WaitUntilIdle` (`MayWait = {c2}` in
the run) and the scheduler thread sleeps on. With `notify_all` alone it fails for
the first reason; with both repaired it holds.

Other consequences of the same code, visible in the model but not kept as runs:

- The sweep stops at the first task that is not due: a cancelled one behind it
  stays, with its promise, although Cancel's notification arrived
  (`README.md:235` says it is dropped at once).
- A spurious or other wake-up of the scheduler thread has the same effect on the eighth
  function of the demo as the lost notification on the sixth.
- A second Shutdown returns before the first has cancelled the pending tasks
  (but not before the last callback has ended: `NothingRunsAfterShutdown`), or
  throws from `join`.
- A closure drops `in_flight_` (`Release`) and then uses `cv_`
  (`CompletionNotify`): another wake-up lets Shutdown return in between and the
  scheduler be destroyed.
- The sweep destroys the captures of cancelled tasks under `mutex_`: a capture
  that posts when it is destroyed locks it again (`relockSelf`), and the
  scheduler thread stays there.
- The next task of a sequence can run before the captures of the one before are
  destroyed (`Release` comes before `EndClosure`), although `README.md:41`
  counts the destruction in ("含析构可见性").
- `purge` empties the queue between a worker's notification and its wake-up:
  nobody tests for waiters again, and a caller of `wait` stays blocked; `pause`
  before a waiter's last notification strands it alike, until the pool is
  unpaused. A `pause` or `unpause` made while `reset` waits is undone.
- `purge` of the pool under the scheduler leaves WaitUntilIdle, Shutdown and the
  end of the process waiting for ever (`PurgeIsRemembered`: they never pretend).
- `tasks_running` counts workers that have not reached their first wait, so
  `get_tasks_running` of a pool just built is not 0.
- With `detach_bulk` on a queue that is not empty `WorkConserving` fails and one
  worker may do all the work.
- `get` of a `multi_future` that throws comes back while other jobs still run.
- `wait_for(0)` is true with nothing ready if the clock does not move during
  the call (`AnswersHonest` has the exact condition).

Bounds. Two tasks of one token are enough for two tasks to meet anywhere in
their lives, two
clients for two calls to race, and a closure makes calls of its own. With
`MaxTime` 1 or 2 a task can be overdue, due, or not due yet when it is looked
at. `Tick` stops at `MaxTime`, so `SweptWhileAwake` speaks of tasks due by then.
Each task is posted at most once, which bounds every queue and counter; so
`CallsReturn` says nothing of a pool that is never given a rest.
`TimeMax` is out of reach in all runs: delays do not overflow. In the pool,
two workers race for a task, a third can stay asleep beside them, and two tasks
are enough for one to be queued while the other runs or submits; each is
submitted once. For the loops, four
jobs let two run while two wait, and ranges of up to four indices give uneven
blocks; the ranges on which `Blocks` is checked cover every bit pattern of a
3-bit type, and the proof covers the rest. Three threads are needed for two to
be in `Named` while a third is in `Create`. In `library`, two tasks with one
worker let a closure wait in the pool while the other one runs and purges it, and
1 tick makes a task due or not; tokens are left to `core`, and more tasks, with
and without a token, to the theorems. The type invariants of `DelayedScheduler`
and `SequenceTokens` are theorems (section 5) and no run repeats them. Deadlock is not
checked: an idle scheduler thread or worker waits for ever, and once all have exited
nothing need happen.

Fairness. `FairSpec` assumes that time passes, that the scheduler thread runs,
that a call once made is carried on and that a callback returns (the pool runs
what it is handed). Nobody is obliged to make a call. Calls and closures have
strong fairness: one that asks for `mutex_` again and again gets it in the end,
even if spurious wake-ups let the scheduler thread take it for ever; the C++
standard does not promise that, and mutexes in use provide it. `SpuriousWake` has no
fairness: a notification that is lost is not made up for. What fair scheduling
does not give (`ShutdownReturns`, `DueIsDispatched`) is shown by the violated
runs; `SweptWhileAwake` is the part that does hold. The pool's `FairSpec` is
alike: workers and callers go on, a task may call the pool again and again but
returns in the end (strong fairness of `Finish`), durations pass.

`MtPoolDemo` has no fairness; its properties are about safety and time. In a
scenario the clock moves only when nobody can do anything else (`Quiet`) and
there are no spurious wake-ups: the demo's own thresholds suppose that a
millisecond is long (its comment at line 162: after 50 ms the other thread is
waiting). So `DemoInTime` says that no thread waits for a time it should not
wait for; it is not a claim about a loaded machine. A scenario ends with main's
last statement: what the end of the process may do is `shutdown_lost_wakeup`.
`ParallelLoops` assumes that the pool runs what it is handed, that calls of the
user's function return or throw, and that a caller goes on.

Faulty variants. A definition marked "Faulty" stands in front of the definition
it is a variant of. No run uses it; it is what a property must be able to tell
from the code: put in the other's place it breaks that property.

## 5. The proofs

`DelayedSchedulerProofs` proves, for every finite set of tasks and clients, any
tokens and any delays (`QueueAssumption`, `SchedulerAssumption`):

| Theorem | Statement |
|---|---|
| `TypeCorrect` | `Spec => []TypeOK` |
| `SequencesExclude` | `Spec => []TokenExclusion` |
| `TrackerExact` | `Spec => []TokensHeldExactly` |
| `CancelIsFinal` | `Spec => []CancelWins` |

None of the four is inductive. `TypeOK` needs `PostArgs`: an actor inside
`Post` has a task whose time is set. Exclusion needs to know that the token
found free is still free at the claim, which holds because the scheduler thread
keeps `mutex_` (`Scan`), and that `release` is reached only by dispatched tasks,
once (`LifeCycle`, which ties each closure's place to its task's stage).
`IInv` is their conjunction with the two token properties and `ClosuresEnd` (a
closure that is gone has finished its task); `Invariance` proves
it inductive, one step per action. Only `PopClaim` and `Release` change the
tracker or the set of claimed tasks; every other action is covered by
`TokenFrame`. `LifeCycle` itself allows a closure to be gone with its task
dispatched, which the scheduler alone never does and a purge of the pool does:
so its step lemmas serve `MtPoolProofs` too.

`DelayedSchedulerCountsProofs` proves, from the same assumptions:

| Theorem | Statement |
|---|---|
| `CountersAreExact` | `Spec => []CountersExact` |
| `IdleIsIdle` | `Spec => IdleMeansIdle` |
| `ShutdownIsDrained` | `Spec => ShutdownDrains` |
| `ShutdownIsFinal` | `Spec => NothingRunsAfterShutdown` |

`Counts` adds `DueHome` (the vector of the last pop is empty before the next
one) to the two counters: without it a second pop would count tasks again. A
counter that is zero, read with `mutex_` free, means that the set it counts is
empty (`ZeroMeansEmpty`), which is the first action property. The second needs
`Drain`: the order of the steps of the Shutdown that won the compare-exchange
of `stop_` (thread joined, then everything taken, then everything cancelled),
that any other Shutdown waits for `in_flight_` only with the thread joined
(`reWait`), and that nothing is inserted after `stop_` is set.

`DelayedSchedulerOrderProofs` proves, under `NoWrap`:

| Theorem | Statement |
|---|---|
| `NeverTooEarly` | `NoWrap => (Spec => []NeverEarly)` |
| `SequencesAreFIFO` | `NoWrap => (Spec => []TokenFIFO)` |
| `ImplementsDelayedTasks` | `NoWrap => (Spec => DelayedTasksSpec)` |

`NoWrap` says that the sum of a reading of the clock and a delay is a time point
(`MaxTime` and `TimeMax` are any numbers with that property). In the code a time
point is a 64-bit count of nanoseconds, so it holds for delays that leave the sum
below 292 years. A longer one wraps (`RunAt`), is due at once, and the three
statements are false of it: the hypothesis is needed. `NeverEarly` follows from
`scanNow <= now` and `runAt = dueAt` (`OnTime`). `TokenFIFO` needs to know that
the keys in the queue agree with the order of the posts (`Published`) and what
the scan has passed: what it left in the queue has a token in use, which stays so
until the scan ends because `Release` needs `mutex_` (`Scanning`). Then a task
claimed has nobody of its token before it that is queued or runs (`FifoClaim`);
and one that waits for Shutdown to cancel it cannot be overtaken, as the thread
has exited (`Drain`). The refinement then takes one
step of the scheduler to one step, or a stutter, of `DelayedTasks`:
`PopClaim` is the dispatch, and its guard there is `NeverEarly` and
`TokenExclusion` of the next state.

`ThreadPoolProofs` proves, for any number of workers, any finite sets of tasks
and clients and any batches (`PoolAssumption`), with and without pausing:

| Theorem | Statement |
|---|---|
| `PoolTypeCorrect` | `Spec => []TypeOK` |
| `CountIsExact` | `Spec => []RunningExact` |
| `NoTaskLost` | `Spec => []TaskInOnePlace` |
| `NoLostWakeup` | `Spec => []SomebodyComes` |
| `WaitIsABarrier` | `Spec => WaitMeansIdle` |
| `DestructorLeavesNothing` | `Spec => []NothingLeftBehind` |
| `NoWorkerOversleeps` | `Batches = {} => (Spec => []WorkConserving)` |
| `ImplementsExecutor` | `Spec => ExecutorSpec` |

The type of `tasks_running` depends on its meaning (`CountStep`, from which
`TypeStep` takes it), so the two are proved together. `TaskInOnePlace` across a
restart needs to know that no worker is left when new ones are created
(`NoneLeft`), which needs that restarts do not overlap and that there is no
worker beyond `thread_count`. `SomebodyComes` needs that every worker is there
while the pool is not stopping (`Manned`) and that whoever is in `sleepers` is
asleep: then a notification that finds nobody asleep finds somebody awake.
`WaitMeansIdle` is not an invariant but follows from it at each step: a wait ends
only with its predicate true, the predicate reads `tasks_running = 0`, and the
count is exact. `NothingLeftBehind` needs that whoever destroys the pool is alone
with it, and that once its wait is over no task is left that could submit one
(`Closing`). `WorkConserving` is kept by each notification because it moves one
from the callers' side of the bound to the workers' side, and is true again after
a pause, a restart or an `unpause` because these notify all. Its hypothesis is the code's: `detach_bulk` notifies only if
the queue was empty, and with batches `WorkConserving` fails (section 4), so
`SomebodyComes` is what is proved for them. The refinement of `Executor` maps
`Take` to `Begin`, `Finish` to `End` and everything else that leaves the queue
alone to a stutter; that no more tasks execute than there are `Slots` follows
from `TaskInOnePlace`, by which each has a worker of its own.

`SequenceTokensProofs` proves, for any threads, names and bound on the ids
(`TokenAssumption`):

| Theorem | Statement |
|---|---|
| `TokenTypeCorrect` | `Spec => []TypeOK` |
| `IdsUnique` | `Spec => []UniqueIds` |
| `NamesKeepTheirIds` | `Spec => []NamesStable` |

`UniqueIds` is not inductive: the id a thread inside `Named` has taken and not
stored must be nobody else's, and only the owner of the mutex has one
(`IdsAccounted`).

`BlocksProofs` proves `BlockSizePositive` (the constructor's last correction is
never made) and `BlocksPartition`: `Legal(d)` implies `Partition(d)`, for index
types of any width and sign, any range and any number of blocks. Division is
nonlinear, so `DivMod` and a chain of lemmas about `Plain`, the start of a block
before it is converted, come first; then every conversion is shown to be of a
value that fits, by which it is the identity. What `Legal` demands is what the
code needs not to overflow: the size of a range of a signed type as wide as int
or wider must fit in that type.

`ParallelLoopsProofs` proves, for any ranges that `BS::blocks` can divide, any
number of workers and blocks, any clock and any index type (`LoopsAssumption`):

| Theorem | Statement |
|---|---|
| `LoopInvariance` | `Spec => []LoopInv` |
| `NoIndexTwice` | `Spec => []IndexOnce` |
| `GetIsComplete` | `Spec => []GetMeansDone` |
| `FuturesAreTrue` | `Spec => []FuturesTellTruth` |
| `AnswersAreHonest` | `Spec => AnswersHonest` |
| `EveryRangeIsPartitioned` | `Spec => []RangesPartitioned` |
| `CommonTypeIsWide` | `Spec => []IndexTypesHold` |

`LoopInv` says where each job is (`JobInOnePlace`), which of its indices it has
handed to the function (`Worked`), what its future holds in each place
(`Settled`), and what the caller has learnt of the futures it has passed
(`Seen`). `Worked` is where `BlocksPartition` is used: an index belongs to one
job only (`PieceFacts`), so a call counted for one job is not counted for
another. `Seen` is stable because a future that is ready stays as it is.
`LoopsAssumption` asks of a range what `Legal` asks (see above), and that
`MaxJobs`, the bound of the model, is no smaller than the number of pieces of any
call; it bounds nothing the code has. `IndexTypesHold` says that an index from 0 on
keeps its value in the common type of the two index types, whichever they are, and
one below 0 unless the other type is `uint64_t`: a negative index beside a
`uint64_t` is lost, as the comment in the source warns.

`MtPoolProofs` proves, for any sets of tasks, tokens and clients, any number of
workers, and any clients and callbacks making the calls (`MtPoolAssumption`):

| Theorem | Statement |
|---|---|
| `LibraryInvariance` | `MtSpec => [](Core /\ Closures)` |
| `LibraryNeverTooEarly` | `NoWrap => (MtSpec => []NeverEarly)` |
| `LibrarySequencesAreFIFO` | `NoWrap => (MtSpec => []TokenFIFO)` |
| `LibraryImplementsDelayedTasks` | `NoWrap => (MtSpec => DelayedTasksSpec)` |
| `LibraryIdleIsIdle` | `MtSpec => IdleMeansIdle` |
| `LibraryIsDrained` | `MtSpec => ShutdownDrains` |
| `LibraryShutdownIsFinal` | `MtSpec => NothingRunsAfterShutdown` |
| `ClaimedAreHeld` | `MtSpec => []ClaimedIsHeld` |
| `PromisesAreTrue` | `MtSpec => []PromisesTellTruth` |
| `PurgesAreRemembered` | `MtSpec => PurgeIsRemembered` |
| `PollingIsReliable` | `MtSpec => PollingIsSafe` |
| `ShutdownSettlesFutures` | `MtSpec => ShutdownSettles` |
| `PoolIsDestroyedLast` | `MtSpec => []PoolOutlivesRunner` |

A step of the library is a step of the scheduler, or leaves it alone, or is a
purge (`LibraryStep`). So the step lemmas of the scheduler's proofs are used as
they are, and only the purge is new: it ends closures before they begin and
changes no stage, no token and no counter (`PurgeStep`). `Core` is what survives
it: types, life cycle, tokens, counters and the order of a Shutdown, but not
`ClosuresEnd` (`Closures` says what the purge leaves instead: each closure is
where its pool says it is, and nowhere else, from which `ClaimedIsHeld` follows).
A purged task
therefore stays claimed, `inFlight` never returns to 0, and whoever
waits for that never returns: `PurgeIsRemembered`; whoever does return found the
count at 0 with `mutex_` free, like in the scheduler alone (`WaitsEndByTest`), so
`IdleMeansIdle`, `ShutdownDrains` and `NothingRunsAfterShutdown` carry over. The lemmas about order carry over
too: a purge leaves the queue, the scan, the stages and the tokens alone
(`PurgeKeepsOrder`) and is a stutter of `DelayedTasks`, in which the task stays
dispatched for ever. `Polled` keeps what a client
that read `PendingCount() = 0` knows until it reads `InFlightCount()`: what was
posted before is not queued, and not in a pop whose count is still to come. `Promises` ties each future to its task: a
pending one has a task that is queued, in the hands of the scheduler, or in a
closure not yet ended. `Truth` is about what a future says once it is not
pending. Besides the property it holds what makes it inductive: a task Shutdown
has taken was never dispatched (`TakenNeverRun`), so the promise the discard breaks
is of a task that did not run; and what the pool has begun or purged it remembers
(`PoolRemembers`). That a broken promise belongs to no task that was begun then
follows from `Core` and `Closures`. `Lives` and `Ending` say in which order the singletons
were constructed and how far their destruction has come; `PoolOutlivesRunner`
rests on the pool being always constructed before the runner that uses it, and on
`~DelayedTaskRunner` not coming back before the thread is joined.

Model-checked and not proved:

- Liveness (`DispatchedEnds`, `SweptWhileAwake`, `IdleIsNoticed`,
  `ShutdownEnds`, `CallsReturn`, `QueuedRuns`, `GetComesBack`): it rests on
  fairness, hence on ENABLED, which the prover does not handle.
- `DemoInTime`: it speaks of scenarios in which the clock waits for everybody
  else, and `Quiet` is an ENABLED. It is a statement about seven fixed programs,
  which TLC covers completely.
- The four claims that do not hold: TLC shows a counterexample of each.

## 6. Not modelled

- `synced_stream`: one mutex around stream insertions. Nothing but the mutex
  itself could be stated.
- The native extensions and `this_thread`: operating system calls for
  affinity, priorities and names, compiled out by default; thread-local getters,
  of which only the one behind `wait_deadlock_checks` changes what the pool does.
- `set_cleanup_func` and the init function: user code that workers run outside
  their critical sections; the former is stored without a lock.
- Getters (`get_tasks_*`, `get_thread_*`, `is_paused`, `IsPending`,
  `ActiveCount`, `Equals`, `valid`): they read under the lock, if there is one,
  and change nothing.
- `std::jthread` and the C++20 build of the pool: the library builds C++17.
- Allocation that fails inside the scheduler thread: `std::terminate` follows.
- The early return of `Post` for an empty task: it changes nothing.
- Vocabulary headers, build and packaging files.
