----------------------------- MODULE MtPoolDemo -----------------------------
(***************************************************************************)
(* The demo program as a client of MtPool: each of its functions is a      *)
(* scenario, in which the main thread, a second thread and the callbacks   *)
(* run the statements of the source.  The thresholds of the demo suppose a *)
(* machine to which a millisecond is long (a comment at line 162 says so), *)
(* so in a scenario the clock moves only when every thread waits for it.   *)
(***************************************************************************)
EXTENDS MtPool

CONSTANTS
  Scenarios,   (* the scenarios of a run                                     *)
  Helper,      (* the second thread                                          *)
  A, B,        (* tasks without a token                                      *)
  P, Q,        (* tasks of one token                                         *)
  Long         (* the delay of 5 s; other times are in units of 20 ms        *)

ASSUME DemoAssumption ==
  /\ {Main, Helper} = Clients /\ Main # Helper
  /\ {A, B, P, Q} = Tasks
  /\ TokenOf[A] = NoToken /\ TokenOf[B] = NoToken
  /\ TokenOf[P] = TokenOf[Q] /\ TokenOf[P] # NoToken
  /\ Long > MaxTime /\ Long <= TimeMax

VARIABLES
  scenario,
  ip,         (* the next statement of each actor                            *)
  since,      (* when it reached that statement                              *)
  began,      (* when a callback began: start_a, start_b, -1 for never       *)
  caught,     (* the calls that threw logic_error, by actor                  *)
  failures    (* g_failures                                                  *)

demoVars == <<scenario, ip, since, began, caught, failures>>

-----------------------------------------------------------------------------
(* Statements.                                                               *)
ResetPool      == [op |-> "pool"]
PostDelayedTask(t, d) == [op |-> "post", task |-> t, time |-> d]
CancelTask(t)  == [op |-> "cancel", task |-> t]
SleepFor(d)    == [op |-> "sleep", time |-> d]
UntilIdle      == [op |-> "wait"]
ShutDown       == [op |-> "shutdown"]
SetValue(t)    == [op |-> "set", task |-> t]
Get(t)         == [op |-> "get", task |-> t]
JoinHelper     == [op |-> "join"]
Expect(name)   == [op |-> "expect", cond |-> name]

(* What the functions of the demo do.  A program maps an actor to its        *)
(* statements; the functions differ in which actors have any.                *)
Program(main, helper, a, b, p, q) ==
  Main :> main @@ Helper :> helper @@ A :> a @@ B :> b @@ P :> p @@ Q :> q

DemoParallelDelayed == Program(
  <<ResetPool, PostDelayedTask(A, 6), PostDelayedTask(B, 6), UntilIdle,
    Expect("neither early"), Expect("B did not wait for A")>>, <<>>,
  <<SleepFor(4)>>, <<>>, <<>>, <<>>)

DemoSequenceTokenSerial == Program(
  <<PostDelayedTask(P, 2), PostDelayedTask(Q, 2), UntilIdle,
    Expect("Q late enough")>>, <<>>,
  <<>>, <<>>, <<SleepFor(3)>>, <<Expect("P is over")>>)

DemoCancel == Program(
  <<PostDelayedTask(A, 4), CancelTask(A), SleepFor(6), Expect("A has not run")>>,
  <<>>, <<>>, <<>>, <<>>, <<>>)

DemoSubmitFuture == Program(
  <<PostDelayedTask(A, 2), Get(A), Expect("A has a value")>>, <<>>,
  <<SetValue(A)>>, <<>>, <<>>, <<>>)

DemoCancelBreaksPromise == Program(
  <<PostDelayedTask(A, Long), CancelTask(A), Get(A), Expect("A is broken")>>, <<>>,
  <<SetValue(A)>>, <<>>, <<>>, <<>>)

DemoSelfWaitDetected == Program(
  <<PostDelayedTask(A, 1), UntilIdle, Expect("A was told")>>, <<>>,
  <<UntilIdle, ShutDown>>, <<>>, <<>>, <<>>)

(* The second thread is created after the post, joined before the end.       *)
DemoCancelWakesWaitUntilIdle == Program(
  <<PostDelayedTask(A, Long), SleepFor(3), CancelTask(A), JoinHelper>>,
  <<UntilIdle>>, <<>>, <<>>, <<>>, <<>>)

ProgramOf ==
  [parallel |-> DemoParallelDelayed, serial |-> DemoSequenceTokenSerial,
   cancel |-> DemoCancel, submit |-> DemoSubmitFuture,
   broken |-> DemoCancelBreaksPromise, selfWait |-> DemoSelfWaitDetected,
   wake |-> DemoCancelWakesWaitUntilIdle]

Statements(a) == ProgramOf[scenario][a]

(* The time by which the demo expects main to be past its last statement.    *)
Expected ==
  [parallel |-> 10, serial |-> 5, cancel |-> 6, submit |-> 2, broken |-> 0,
   selfWait |-> 1, wake |-> 3]

Holds(name) ==
  CASE name = "neither early" -> began[A] >= 6 /\ began[B] >= 6
    [] name = "B did not wait for A" -> began[B] < 9
    [] name = "P is over" -> ip[P] > Len(Statements(P))
    [] name = "Q late enough" -> began[Q] >= 5
    [] name = "A has not run" -> began[A] = -1
    [] name = "A has a value" -> future[A] = "value"
    [] name = "A is broken" -> future[A] = "broken"
    [] name = "A was told" -> {<<A, "wait">>, <<A, "shutdown">>} \subseteq caught

DemoInit ==
  /\ MtInit
  /\ scenario \in Scenarios
  /\ ip = [a \in Actor |-> 1] /\ since = [a \in Actor |-> 0]
  /\ began = [t \in Tasks |-> -1]
  /\ caught = {} /\ failures = 0

-----------------------------------------------------------------------------
Over(a) == ip[a] > Len(Statements(a)) /\ pc[a] # "none"

(* The second thread exists once main has its handle.                        *)
Exists(a) == a = Helper => handles # {}

At(a, op) ==
  /\ pc[a] = "ready" /\ Exists(a) /\ ip[a] <= Len(Statements(a))
  /\ Statements(a)[ip[a]].op = op

Statement(a) == Statements(a)[ip[a]]

Advance(a) ==
  /\ ip' = [ip EXCEPT ![a] = @ + 1]
  /\ since' = [since EXCEPT ![a] = now]
  /\ UNCHANGED <<scenario, began>>

(* pool().reset(4): the workers of a pool without tasks are replaced.        *)
DoReset(a) ==
  /\ At(a, "pool") /\ UsePool
  /\ Advance(a)
  /\ UNCHANGED <<vars, poolVars, future, seen, exiting, caught, failures>>

DoPost(a) ==
  /\ At(a, "post") /\ Alive("runner")
  /\ Post(a, Statement(a).task, Statement(a).time)
  /\ Advance(a) /\ UNCHANGED <<caught, failures>>

Count(ok) == failures' = IF ok THEN failures ELSE failures + 1

(* Expect(handle.Cancel(), ...).                                             *)
DoCancel(a) ==
  LET t == Statement(a).task
  IN  /\ At(a, "cancel") /\ t \in handles
      /\ \/ Cancel(a, t) /\ Count(TRUE)
         \/ stage[t] # "kPending" /\ Count(FALSE) /\ UNCHANGED vars
      /\ Advance(a) /\ UNCHANGED <<libVars, caught>>

(* WaitUntilIdle and Shutdown; a callback catches the logic_error.           *)
DoWait(a) ==
  /\ \/ At(a, "wait") /\ FailIfInDelayedTask(a) /\ WaitUntilIdle(a)
     \/ At(a, "shutdown") /\ FailIfInDelayedTask(a) /\ CallShutdown(a)
  /\ Advance(a) /\ UNCHANGED <<libVars, caught, failures>>

DoCatch(a) ==
  /\ At(a, "wait") \/ At(a, "shutdown")
  /\ ~FailIfInDelayedTask(a)
  /\ caught' = caught \cup {<<a, Statement(a).op>>}
  /\ Advance(a) /\ UNCHANGED <<vars, libVars, failures>>

DoSet(a) ==
  /\ At(a, "set")
  /\ future' = [future EXCEPT ![Statement(a).task] = "value"]
  /\ Advance(a)
  /\ UNCHANGED <<vars, poolVars, seen, lifeVars, caught, failures>>

(* sleep_for, fut.get(), waiter.join().                                      *)
DoBlock(a) ==
  /\ \/ At(a, "sleep") /\ now >= since[a] + Statement(a).time
     \/ At(a, "get") /\ future[Statement(a).task] \notin {"none", "pending"}
     \/ At(a, "join") /\ Over(Helper) /\ pc[Helper] = "ready"
  /\ Advance(a) /\ UNCHANGED <<vars, libVars, caught, failures>>

DoExpect(a) ==
  /\ At(a, "expect") /\ Count(Holds(Statement(a).cond))
  /\ Advance(a) /\ UNCHANGED <<vars, libVars, caught>>

BeginCallback(i) ==
  /\ BeginClosure(i)
  /\ began' = [began EXCEPT ![waitingJobs[i]] = now]
  /\ since' = [since EXCEPT ![waitingJobs[i]] = now]
  /\ UNCHANGED <<scenario, ip, caught, failures>>

EndOfCallback(t) == Over(t) /\ CallbackReturn(t) /\ UNCHANGED libVars

Runs ==
  \/ \E a \in Actor :
       \/ DoReset(a) \/ DoPost(a) \/ DoCancel(a) \/ DoWait(a)
       \/ DoCatch(a) \/ DoSet(a) \/ DoBlock(a) \/ DoExpect(a)
  \/ \E i \in DOMAIN waitingJobs : BeginCallback(i)
  \/ /\ \/ CallDelayed(Main) \/ SchedulerRuns
        \/ \E a \in Actor : RunnerContinues(a)
        \/ \E t \in Tasks : ClosureRuns(t) \/ EndOfCallback(t)
     /\ UNCHANGED demoVars

(* Everybody waits for the clock, or nobody will ever do anything again.     *)
Quiet == ~ENABLED Runs

DemoNext ==
  \/ Runs
  \/ Quiet /\ ~Over(Main) /\ Tick /\ UNCHANGED <<libVars, demoVars>>

DemoSpec == DemoInit /\ [][DemoNext]_<<vars, libVars, demoVars>>

-----------------------------------------------------------------------------
(* main() of the demo: every Expect holds.                                   *)
DemoPasses == failures = 0

(* And main is past its last statement at the time the demo expects: nothing *)
(* is early, waits for another's callback, for a cancelled task's old time,  *)
(* or for itself.                                                            *)
InTime == now > Expected[scenario] => Over(Main)

(* All scenarios but the sixth, whose task is cancelled at once.             *)
DemoInTime == DemoPasses /\ (scenario # "broken" => InTime)

(* The sixth: "fut.get()" of a cancelled task does not wait for its time.    *)
CancelBreaksAtOnce == scenario = "broken" => InTime

=============================================================================
