---------------------------- MODULE MtPoolProofs ----------------------------
(***************************************************************************)
(* Theorems about MtPool for every set of tasks, tokens and clients and      *)
(* any number of workers, with their proofs.  A step of the library is a     *)
(* step of DelayedScheduler, or leaves the scheduler alone, or is a purge    *)
(* of the pool; so what was proved of a step of the scheduler is used        *)
(* here, and only the purge is new to it.                                    *)
(***************************************************************************)
EXTENDS MtPool, DelayedSchedulerOrderProofs, SequenceTheorems

-----------------------------------------------------------------------------
(* A callback is at its own statements, or in one of the calls it may make.  *)
CallbackPCs == {"ready", "post", "postNotify", "cancelNotify"}

(* What the pool holds of each closure is what the closure's pc says: one    *)
(* that waits, one on a worker, one that is over or was purged.              *)
Closures ==
  /\ waitingJobs \in Seq(Tasks) /\ IsInjective(waitingJobs)
  /\ Range(waitingJobs) = {t \in Tasks : pc[t] = "handed"}
  /\ executing = {t \in Tasks : pc[t] \in CallbackPCs \cup {"release", "notify", "destroy"}}
  /\ ended \cup purged = {t \in Tasks : pc[t] = "gone"}
  /\ \A t \in ended : stage[t] = "kFinished"
  /\ \A t \in purged : stage[t] = "kDispatched"
  /\ \A t \in Tasks : pc[t] \in CallbackPCs \cup ClosurePCs

(* What DelayedScheduler guarantees with any executor, a purged one as well. *)
Core == LifeInv /\ TokenExclusion /\ TokensHeldExactly /\ Counts /\ Drain

(* The jobs that wait are tasks.                                             *)
LEMMA WaitingAreTasks ==
  ASSUME Closures
  PROVE  /\ \A i \in DOMAIN waitingJobs : waitingJobs[i] \in Tasks
         /\ Range(waitingJobs) \subseteq Tasks
  BY DEF Closures, Range

(* Every step of the library is one of the scheduler, none, or a purge.      *)
LEMMA LibraryStep ==
  ASSUME Closures, MtNext
  PROVE  [Next]_vars \/ \E a \in Actor : PurgePool(a)
<1>1. ASSUME NEW a \in Actor, CallRunner(a) PROVE Next
  <2>1. CallStarts(a)
    BY <1>1 DEF CallRunner, CallStarts, Post
  <2> QED BY <2>1 DEF Next
<1>2. ASSUME NEW a \in Actor,
             CallPool(a) \/ CallDelayed(a) \/ PendingCount(a) \/ InFlightCount(a)
      PROVE  UNCHANGED vars
  BY <1>2 DEF CallPool, CallDelayed, PendingCount, InFlightCount
<1>3. ASSUME NEW a \in Actor, RunnerContinues(a) PROVE Next
  <2>1. CallContinues(a)
    BY <1>3 DEF RunnerContinues, CallContinues, RejectPost, Discard
  <2> QED BY <2>1 DEF Next
<1>4. ASSUME SchedulerRuns PROVE Next
  <2>1. SchedStep
    BY <1>4 DEF SchedulerRuns, SchedStep, DropCandidate, HandOver
  <2> QED BY <2>1 DEF Next
<1>5. ASSUME NEW i \in DOMAIN waitingJobs, BeginClosure(i) PROVE Next
  <2>1. waitingJobs[i] \in Tasks /\ Start(waitingJobs[i])
    BY <1>5, WaitingAreTasks DEF BeginClosure
  <2> QED BY <2>1 DEF Next, WorkerStep
<1>6. ASSUME NEW t \in Tasks, EndCallback(t) \/ ClosureRuns(t) PROVE Next
  <2>1. WorkerStep(t)
    BY <1>6 DEF EndCallback, ClosureRuns, EndClosure, WorkerStep
  <2> QED BY <2>1 DEF Next
<1>7. ASSUME NEW t \in Tasks, Fulfil(t) PROVE UNCHANGED vars
  BY <1>7 DEF Fulfil
<1>8. ASSUME ReturnFromMain \/ DestroySingleton PROVE UNCHANGED vars
  BY <1>8 DEF ReturnFromMain, DestroySingleton, Destroyed
<1>9. ASSUME DestroyRunner PROVE Next
  <2>1. Main \in Actor /\ CallShutdown(Main)
    BY <1>9, MtPoolAssumption DEF DestroyRunner, DestructorShutdown, Actor
  <2> QED BY <2>1 DEF Next, CallStarts
<1>10. ASSUME Tick \/ \E w \in waiters : SpuriousWake(w) PROVE Next
  BY <1>10 DEF Next
<1> QED
  BY <1>1, <1>2, <1>3, <1>4, <1>5, <1>6, <1>7, <1>8, <1>9, <1>10 DEF MtNext

(* To the scheduler a purge is a closure that ends before it begins: no task *)
(* changes its stage, no token is released, nothing is counted.              *)
LEMMA PurgeStep ==
  ASSUME Core, Closures, NEW a \in Actor, PurgePool(a)
  PROVE  Core'
<1> USE SchedulerAssumption
        DEF taskVars, queueVars, scanVars, timeVars, schedVars, stopVars, dataVars,
            Core, LifeInv, TypeInv, TypeOK, Actor
<1> DEFINE purge == Range(waitingJobs)
<1>1. /\ pc' = [x \in Actor |-> IF x \in purge THEN "gone" ELSE pc[x]]
      /\ UNCHANGED <<timeVars, arg, handles, schedVars, stopVars, dataVars, scanVars,
                     inFlight, waiters>>
  BY DEF PurgePool
<1>2. \A t \in purge : t \in Tasks /\ pc[t] = "handed"
  BY WaitingAreTasks DEF Closures
<1> HIDE DEF purge
<1>3. \A b \in Actor : pc'[b] = pc[b] \/ (pc[b] = "handed" /\ pc'[b] = "gone" /\ b \in Tasks)
  BY <1>1, <1>2
<1>4. pc' \in [Actor -> CallPCs \cup ClosurePCs]
  BY <1>1 DEF ClosurePCs
<1>5. TypeInv'
  BY <1>1, <1>3, <1>4 DEF PostArgs, Posting
<1>6. LifeCycle'
  BY <1>1, <1>3 DEF LifeCycle, Executing, Executed, CallPCs
<1>7. Scan'
  BY <1>1 DEF Scan, IsRunnable
<1>8. Claimed' = Claimed
  BY <1>1, <1>3 DEF Claimed
<1>9. TokenExclusion' /\ TokensHeldExactly'
  BY <1>1, <1>8 DEF TokenExclusion, TokensHeldExactly
<1>10. Counts'
  BY <1>1, <1>8 DEF Counts, DueHome, InFlightExact, ActiveExact, Uncounted
<1>11. Drain'
  BY <1>1, <1>3 DEF Drain, Stopping
<1> QED BY <1>5, <1>6, <1>7, <1>9, <1>10, <1>11

(* So the scheduler keeps its invariants whatever the pool is told.          *)
LEMMA CoreStep ==
  ASSUME Core, Closures, MtNext
  PROVE  Core'
<1>1. ASSUME [Next]_vars PROVE Core'
  BY <1>1, TypeStep, LifeStep, TokenStep, CountsStep, DrainStep DEF Core, LifeInv
<1> QED BY <1>1, LibraryStep, PurgeStep

-----------------------------------------------------------------------------
(* The closures.                                                             *)

(* What is in a sequence that grew by one, or lost its first element.        *)
LEMMA OneMore ==
  ASSUME NEW S, NEW s \in Seq(S), IsInjective(s), NEW x \in S, x \notin Range(s)
  PROVE  /\ s \o <<x>> \in Seq(S) /\ IsInjective(s \o <<x>>)
         /\ Range(s \o <<x>>) = Range(s) \cup {x}
<1>1. /\ s \o <<x>> \in Seq(S) /\ Len(s \o <<x>>) = Len(s) + 1
      /\ \A i \in 1..Len(s) : (s \o <<x>>)[i] = s[i]
      /\ (s \o <<x>>)[Len(s) + 1] = x
  OBVIOUS
<1>2. \A i \in 1..Len(s) : s[i] \in Range(s)
  BY DEF Range
<1>3. DOMAIN s = 1..Len(s) /\ DOMAIN (s \o <<x>>) = 1..Len(s) + 1 /\ Len(s) \in Nat
  BY <1>1
<1> HIDE DEF Range
<1>4. \A i \in 1..Len(s) + 1 : i \in 1..Len(s) \/ i = Len(s) + 1
  BY <1>3
<1>5. IsInjective(s \o <<x>>)
  BY <1>1, <1>2, <1>3, <1>4 DEF IsInjective
<1>6. Range(s \o <<x>>) = Range(s) \cup {x}
  BY <1>1, <1>2, <1>3, <1>4 DEF Range
<1> QED BY <1>1, <1>5, <1>6

(* What the pool takes first is no longer there.                             *)
LEMMA OneLess ==
  ASSUME NEW S, NEW s \in Seq(S), IsInjective(s), NEW i \in DOMAIN s
  PROVE  /\ Pool!Without(s, i) \in Seq(S) /\ IsInjective(Pool!Without(s, i))
         /\ Range(Pool!Without(s, i)) = Range(s) \ {s[i]}
<1> DEFINE w == Pool!Without(s, i)
           old(k) == IF k < i THEN k ELSE k + 1
<1>1. /\ Len(s) \in Nat /\ DOMAIN s = 1..Len(s) /\ i \in 1..Len(s)
      /\ Len(s) - 1 \in Nat
  OBVIOUS
<1>2. w = [k \in 1..Len(s) - 1 |-> s[old(k)]]
  BY <1>1 DEF Pool!Without
<1>3. \A k \in 1..Len(s) - 1 : old(k) \in 1..Len(s) /\ old(k) # i
  BY <1>1
<1>4. /\ \A k, l \in 1..Len(s) - 1 : old(k) = old(l) => k = l
      /\ \A k \in 1..Len(s) : k # i => \E l \in 1..Len(s) - 1 : old(l) = k
  <2>1. ASSUME NEW k \in 1..Len(s), k # i PROVE \E l \in 1..Len(s) - 1 : old(l) = k
    <3>1. CASE k < i
      BY <1>1, <3>1
    <3>2. CASE k > i
      <4>1. k - 1 \in 1..Len(s) - 1 /\ old(k - 1) = k
        BY <1>1, <3>2
      <4> QED BY <4>1
    <3> QED BY <1>1, <2>1, <3>1, <3>2
  <2> QED BY <1>1, <2>1
<1> HIDE DEF old
<1>5. \A k \in 1..Len(s) - 1 : w[k] = s[old(k)] /\ w[k] \in S
  BY <1>2, <1>3
<1>6. w \in Seq(S) /\ DOMAIN w = 1..Len(s) - 1
  BY <1>1, <1>2, <1>3
<1> HIDE DEF w
<1>7. IsInjective(w)
  BY <1>1, <1>3, <1>4, <1>5, <1>6 DEF IsInjective
<1>8. Range(w) = Range(s) \ {s[i]}
  <2>1. Range(w) \subseteq Range(s) \ {s[i]}
    BY <1>1, <1>3, <1>5, <1>6 DEF IsInjective, Range
  <2>2. ASSUME NEW k \in 1..Len(s), s[k] # s[i] PROVE s[k] \in Range(w)
    <3>1. PICK l \in 1..Len(s) - 1 : old(l) = k
      BY <1>4, <2>2
    <3>2. w[l] = s[k]
      BY <1>5, <3>1
    <3> QED BY <1>6, <3>2 DEF Range
  <2>3. Range(s) \ {s[i]} \subseteq Range(w)
    BY <1>1, <2>2 DEF Range
  <2> QED BY <2>1, <2>3
<1> QED BY <1>6, <1>7, <1>8 DEF w

(* The other steps leave every closure with the pool as it is: a callback    *)
(* may be in a call, and no dispatched or finished task changes its stage.   *)
Still ==
  /\ UNCHANGED poolVars
  /\ \A t \in Tasks : pc'[t] = pc[t] \/ {pc[t], pc'[t]} \subseteq CallbackPCs
  /\ \A t \in Tasks : stage[t] \in {"kDispatched", "kFinished"} => stage'[t] = stage[t]

(* The steps of a closure, from the hand-over to its destruction.            *)
ClosureMoves ==
  \/ \E t \in Tasks : \/ HandOver(t) \/ EndCallback(t) \/ EndClosure(t)
                      \/ (Release(t) \/ CompletionNotify(t)) /\ UNCHANGED libVars
  \/ \E i \in DOMAIN waitingJobs : BeginClosure(i)
  \/ \E a \in Actor : PurgePool(a)

(* A callback that waited would wait for itself: only clients wait.          *)
LEMMA OnlyClientsWait ==
  ASSUME Closures, NEW a \in Actor,
         \/ IdleCheck(a) \/ WaitForInFlight(a) \/ ShutdownNotify(a) \/ ShutdownJoin(a)
         \/ ShutdownTakeAll(a) \/ ShutdownDiscard(a)
         \/ \E t \in Tasks : ShutdownCancel(a, t)
  PROVE  a \in Clients /\ a \notin Tasks
<1>1. pc[a] \in {"idleWait", "sdNotify", "sdJoin", "sdJoining", "sdTake", "sdCancel",
                 "sdWait", "reJoin", "reJoining", "reWait"}
  BY DEF IdleCheck, WaitForInFlight, WaitOn, ShutdownNotify, ShutdownJoin, Joinable, Join,
         JoinThrows, InJoin, ShutdownTakeAll, ShutdownCancel, ShutdownDiscard, Goto
<1>2. a \notin Tasks
  BY <1>1 DEF Closures, ClosurePCs, CallbackPCs
<1> QED BY <1>2 DEF Actor

(* The library has no others.                                                *)
LEMMA StillOrMoves ==
  ASSUME Core, Closures, MtNext
  PROVE  Still \/ ClosureMoves
<1> USE SchedulerAssumption
        DEF taskVars, queueVars, scanVars, timeVars, schedVars, callVars, stopVars,
            dataVars, libVars, poolVars, Goto, Actor, Core, LifeInv, TypeInv, TypeOK,
            CallbackPCs
<1>1. ASSUME NEW a \in Actor, NEW t \in Tasks, NEW d \in Delays, Post(a, t, d) PROVE Still
  BY <1>1 DEF Post, PostStamp, Still
<1>2. ASSUME NEW a \in Actor, NEW t \in Tasks, Cancel(a, t), UNCHANGED libVars PROVE Still
  BY <1>2 DEF Cancel, TryCancel, Still
<1>3. ASSUME NEW a \in Actor, WaitUntilIdle(a) \/ CallShutdown(a), UNCHANGED libVars
      PROVE  Still
  BY <1>3 DEF WaitUntilIdle, CallShutdown, FailIfInDelayedTask, Still
<1>4. ASSUME NEW a \in Actor, PostInsert(a), UNCHANGED libVars PROVE Still
  <2>1. stage[arg[a]] = "none" /\ UNCHANGED poolVars
    BY <1>4 DEF PostInsert, LifeCycle
  <2> QED BY <1>4, <2>1 DEF PostInsert, Still
<1>5. ASSUME NEW a \in Actor, RejectPost(a) PROVE Still
  <2>1. stage[arg[a]] = "none" /\ UNCHANGED poolVars
    BY <1>5 DEF RejectPost, PostReject, LifeCycle
  <2> QED BY <1>5, <2>1 DEF RejectPost, PostReject, Still
<1>6. ASSUME NEW a \in Actor, PostNotify(a) \/ CancelNotify(a), UNCHANGED libVars
      PROVE  Still
  BY <1>6 DEF PostNotify, CancelNotify, Still
<1>7. ASSUME NEW a \in Actor,
             \/ IdleCheck(a) \/ WaitForInFlight(a)
             \/ ShutdownNotify(a) \/ ShutdownTakeAll(a) \/ ShutdownJoin(a)
             \/ ShutdownDiscard(a) \/ \E t \in Tasks : ShutdownCancel(a, t),
             UNCHANGED poolVars
      PROVE  Still
  <2>1. a \notin Tasks
    BY <1>7, OnlyClientsWait
  <2>2. CASE IdleCheck(a) \/ WaitForInFlight(a)
    BY <1>7, <2>1, <2>2 DEF IdleCheck, WaitForInFlight, WaitOn, Still
  <2>3. CASE ShutdownNotify(a) \/ ShutdownTakeAll(a) \/ ShutdownDiscard(a)
    BY <1>7, <2>1, <2>3 DEF ShutdownNotify, ShutdownTakeAll, ShutdownDiscard, Still
  <2>4. CASE ShutdownJoin(a)
    BY <1>7, <2>1, <2>4 DEF ShutdownJoin, Joinable, Join, JoinThrows, Still
  <2>5. CASE \E t \in Tasks : ShutdownCancel(a, t)
    BY <1>7, <2>5 DEF ShutdownCancel, TryCancel, Still
  <2> QED BY <1>7, <2>2, <2>3, <2>4, <2>5
<1>8. ASSUME \/ LoopTop \/ WaitTimeout \/ PopBegin \/ PopEnd \/ PopNotify
             \/ Relock \/ Sleep \/ Tick \/ \E w \in waiters : SpuriousWake(w),
             UNCHANGED libVars
      PROVE  Still
  BY <1>8 DEF LoopTop, WaitTimeout, PopBegin, PopStart, PopEnd, PopNotify, Relock, Sleep,
          Tick, SpuriousWake, Still
<1>9. ASSUME NEW t \in Tasks, DropCandidate(t) PROVE Still
  BY <1>9 DEF DropCandidate, PopCandidate, PopCancelled, PopNotDue, PopBlocked, PopRunnable,
         PopClaim, PopLostRace, TryDispatch, Still
<1>10. ASSUME NEW a \in Actor,
              CallPool(a) \/ CallDelayed(a) \/ PendingCount(a) \/ InFlightCount(a)
       PROVE  Still
  BY <1>10 DEF CallPool, CallDelayed, PendingCount, InFlightCount, vars, Still
<1>11. ASSUME NEW t \in Tasks, Fulfil(t) PROVE Still
  BY <1>11 DEF Fulfil, vars, Still
<1>12. ASSUME ReturnFromMain \/ DestroySingleton PROVE Still
  BY <1>12 DEF ReturnFromMain, DestroySingleton, Destroyed, vars, Still
<1>13. ASSUME DestroyRunner PROVE Still
  <2>1. CallShutdown(Main) /\ UNCHANGED poolVars /\ Main \notin Tasks
    BY <1>13, MtPoolAssumption DEF DestroyRunner, DestructorShutdown
  <2> QED BY <2>1 DEF CallShutdown, Still
<1>14. ASSUME NEW a \in Actor, CallRunner(a) PROVE Still
  BY <1>1, <1>2, <1>3, <1>14 DEF CallRunner
<1>15. ASSUME NEW a \in Actor, RunnerContinues(a) PROVE Still
  <2> HIDE DEF Goto, Core, Actor, LifeInv, TypeInv, TypeOK
  <2> QED BY <1>4, <1>5, <1>6, <1>7, <1>15 DEF RunnerContinues, Discard
<1> HIDE DEF libVars, poolVars, Goto, Actor, Core, LifeInv, TypeInv, TypeOK
<1>16. ASSUME SchedulerRuns PROVE Still \/ ClosureMoves
  BY <1>8, <1>9, <1>16 DEF SchedulerRuns, ClosureMoves
<1>17. ASSUME NEW t \in Tasks, EndCallback(t) \/ ClosureRuns(t) PROVE ClosureMoves
  BY <1>17 DEF ClosureRuns, ClosureMoves
<1>18. ASSUME \/ \E i \in DOMAIN waitingJobs : BeginClosure(i)
              \/ \E a \in Actor : PurgePool(a)
       PROVE  ClosureMoves
  BY <1>18 DEF ClosureMoves
<1> QED
  BY <1>8, <1>10, <1>11, <1>12, <1>13, <1>14, <1>15, <1>16, <1>17, <1>18 DEF MtNext

(* The pool holds no closure at first.                                       *)
LEMMA ClosuresInit == MtInit => Closures
<1> SUFFICES ASSUME MtInit PROVE Closures
  OBVIOUS
<1>1. waitingJobs = <<>> /\ executing = {} /\ purged = {} /\ ended = {}
  BY DEF MtInit, Pool!Init
<1>2. waitingJobs \in Seq(Tasks) /\ IsInjective(waitingJobs) /\ Range(waitingJobs) = {}
  BY <1>1 DEF IsInjective, Range
<1>3. \A t \in Tasks : pc[t] = "none"
  BY SchedulerAssumption DEF MtInit, Init, Actor
<1> QED BY <1>1, <1>2, <1>3 DEF Closures, ClosurePCs, CallbackPCs

(* Each step of a closure keeps the pool and the scheduler in agreement.     *)
LEMMA ClosuresKept ==
  ASSUME Core, Closures, MtNext
  PROVE  Closures'
<1> USE SchedulerAssumption
        DEF taskVars, queueVars, scanVars, timeVars, schedVars, callVars, stopVars,
            dataVars, libVars, poolVars, Goto, Actor, Core, LifeInv, TypeInv, TypeOK,
            Closures, ClosurePCs, CallbackPCs
<1>1. ASSUME Still PROVE Closures'
  <2>1. Range(waitingJobs)' = Range(waitingJobs) /\ UNCHANGED poolVars
    BY <1>1 DEF Still
  <2>2. \A t \in Tasks : pc'[t] = pc[t] \/ {pc[t], pc'[t]} \subseteq CallbackPCs
    BY <1>1 DEF Still
  <2>3. /\ Range(waitingJobs)' = {t \in Tasks : pc'[t] = "handed"}
        /\ (ended \cup purged)' = {t \in Tasks : pc'[t] = "gone"}
        /\ executing' = {t \in Tasks :
                           pc'[t] \in CallbackPCs \cup {"release", "notify", "destroy"}}
    <3> HIDE DEF CallbackPCs
    <3>1. \A t \in Tasks : pc'[t] = "handed" <=> pc[t] = "handed"
      BY <2>2 DEF CallbackPCs
    <3>2. \A t \in Tasks : pc'[t] = "gone" <=> pc[t] = "gone"
      BY <2>2 DEF CallbackPCs
    <3>3. \A t \in Tasks : pc'[t] \in CallbackPCs \cup {"release", "notify", "destroy"}
                         <=> pc[t] \in CallbackPCs \cup {"release", "notify", "destroy"}
      BY <2>2 DEF CallbackPCs
    <3>4. Range(waitingJobs)' = {t \in Tasks : pc'[t] = "handed"}
      BY <2>1, <3>1
    <3>5. (ended \cup purged)' = {t \in Tasks : pc'[t] = "gone"}
      BY <2>1, <3>2
    <3>6. executing' = {t \in Tasks :
                         pc'[t] \in CallbackPCs \cup {"release", "notify", "destroy"}}
      BY <2>1, <3>3
    <3> QED BY <3>4, <3>5, <3>6
  <2>4. \A t \in Tasks : pc'[t] \in CallbackPCs \cup ClosurePCs
    BY <2>2
  <2>5. ended \subseteq Tasks /\ purged \subseteq Tasks
    OBVIOUS
  <2>6. (\A t \in ended : stage[t] = "kFinished")' /\ (\A t \in purged : stage[t] = "kDispatched")'
    BY <1>1, <2>1, <2>5 DEF Still
  <2> QED BY <2>1, <2>3, <2>4, <2>6
<1>2. ASSUME NEW t \in Tasks, HandOver(t) PROVE Closures'
  <2>1. pc[t] = "none" /\ pc' = [pc EXCEPT ![t] = "handed"] /\ UNCHANGED stage
    BY <1>2 DEF HandOver, Execute
  <2>2. waitingJobs' = waitingJobs \o <<t>> /\ UNCHANGED <<executing, purged, ended>>
    BY <1>2 DEF HandOver, Pool!Submit
  <2>3. t \notin Range(waitingJobs)
    BY <2>1
  <2>4. /\ waitingJobs' \in Seq(Tasks) /\ IsInjective(waitingJobs)'
        /\ Range(waitingJobs)' = Range(waitingJobs) \cup {t}
    BY <2>2, <2>3, OneMore
  <2>5. \A u \in Tasks : pc'[u] = IF u = t THEN "handed" ELSE pc[u]
    BY <2>1
  <2>6. Range(waitingJobs)' = {u \in Tasks : pc'[u] = "handed"}
    BY <2>4, <2>5
  <2>7. executing' = {u \in Tasks :
                        pc'[u] \in CallbackPCs \cup {"release", "notify", "destroy"}}
    BY <2>1, <2>2, <2>5
  <2>8. (ended \cup purged)' = {u \in Tasks : pc'[u] = "gone"}
    BY <2>1, <2>2, <2>5
  <2> QED BY <2>1, <2>2, <2>4, <2>5, <2>6, <2>7, <2>8
<1>3. ASSUME NEW i \in DOMAIN waitingJobs, BeginClosure(i) PROVE Closures'
  <2> DEFINE t == waitingJobs[i]
  <2>1. t \in Tasks
    BY WaitingAreTasks
  <2>2. pc[t] = "handed" /\ pc' = [pc EXCEPT ![t] = "ready"] /\ UNCHANGED stage
    BY <1>3 DEF BeginClosure, Start
  <2>3. /\ waitingJobs' = Pool!Without(waitingJobs, i)
        /\ executing' = executing \cup {t} /\ UNCHANGED <<purged, ended>>
    BY <1>3 DEF BeginClosure, Pool!Begin
  <2> HIDE DEF t
  <2>4. /\ waitingJobs' \in Seq(Tasks) /\ IsInjective(waitingJobs)'
        /\ Range(waitingJobs)' = Range(waitingJobs) \ {t}
    BY <2>3, OneLess DEF t
  <2>5. \A u \in Tasks : pc'[u] = IF u = t THEN "ready" ELSE pc[u]
    BY <2>1, <2>2
  <2>6. Range(waitingJobs)' = {u \in Tasks : pc'[u] = "handed"}
    BY <2>4, <2>5
  <2>7. executing' = {u \in Tasks :
                        pc'[u] \in CallbackPCs \cup {"release", "notify", "destroy"}}
    BY <2>1, <2>3, <2>5
  <2>8. (ended \cup purged)' = {u \in Tasks : pc'[u] = "gone"}
    BY <2>2, <2>3, <2>5
  <2> QED BY <2>2, <2>3, <2>4, <2>5, <2>6, <2>7, <2>8
<1>4. ASSUME NEW t \in Tasks, pc[t] \in {"ready", "release", "notify"},
             \E to \in {"release", "notify", "destroy"} : pc' = [pc EXCEPT ![t] = to],
             \A u \in Tasks \ {t} : stage'[u] = stage[u],
             UNCHANGED poolVars
      PROVE  Closures'
  <2>1. Range(waitingJobs)' = Range(waitingJobs)
    BY <1>4
  <2>2. t \notin Range(waitingJobs) \cup ended \cup purged /\ t \in executing
    BY <1>4
  <2> QED BY <1>4, <2>1, <2>2
<1>5. ASSUME NEW t \in Tasks, EndCallback(t) PROVE Closures'
  BY <1>4, <1>5 DEF EndCallback, CallbackReturn, MarkFinished
<1>6. ASSUME NEW t \in Tasks, Release(t) \/ CompletionNotify(t), UNCHANGED libVars
      PROVE  Closures'
  BY <1>4, <1>6 DEF Release, CompletionNotify
<1>7. ASSUME NEW t \in Tasks, EndClosure(t) PROVE Closures'
  <2>1. pc[t] = "destroy" /\ pc' = [pc EXCEPT ![t] = "gone"] /\ UNCHANGED stage
    BY <1>7 DEF EndClosure, DestroyClosure
  <2>2. /\ ended' = ended \cup {t} /\ executing' = executing \ {t}
        /\ UNCHANGED <<waitingJobs, purged>>
    BY <1>7 DEF EndClosure, Pool!End
  <2>3. Range(waitingJobs)' = Range(waitingJobs)
    BY <2>2
  <2>4. stage[t] = "kFinished"
    BY <2>1 DEF LifeCycle, Executed
  <2> QED BY <2>1, <2>2, <2>3, <2>4
<1>8. ASSUME NEW a \in Actor, PurgePool(a) PROVE Closures'
  <2> DEFINE purge == Range(waitingJobs)
  <2>1. purge = {t \in Tasks : pc[t] = "handed"}
    OBVIOUS
  <2>2. /\ pc' = [x \in Actor |-> IF x \in purge THEN "gone" ELSE pc[x]]
        /\ UNCHANGED <<stage, executing, ended>>
    BY <1>8 DEF PurgePool, Pool!Purge
  <2>3. waitingJobs' = <<>> /\ purged' = purged \cup purge
    BY <1>8 DEF PurgePool, Pool!Purge, Pool!Range, Range
  <2>4. /\ waitingJobs' \in Seq(Tasks) /\ IsInjective(waitingJobs)'
        /\ Range(waitingJobs)' = {}
    BY <2>3 DEF IsInjective, Range
  <2>5. \A t \in purge : stage[t] = "kDispatched"
    BY <2>1 DEF LifeCycle, Executing
  <2> HIDE DEF purge
  <2> QED BY <2>1, <2>2, <2>3, <2>4, <2>5
<1> HIDE DEF libVars, poolVars, Goto, Actor, Core, LifeInv, TypeInv, TypeOK, Closures
<1> QED
  BY <1>1, <1>2, <1>3, <1>5, <1>6, <1>7, <1>8, StillOrMoves DEF ClosureMoves

(* The scheduler starts as it does by itself.                                *)
LEMMA CoreInit == MtInit => Core
  BY TypeInit, LifeInit, TokenInit, CountsInit, DrainInit DEF MtInit, Core, LifeInv

(* The scheduler keeps its invariants inside the library, whatever the pool  *)
(* is told: types, tokens, counters and the order of a Shutdown.             *)
THEOREM LibraryInvariance == MtSpec => [](Core /\ Closures)
<1>1. MtInit => Core /\ Closures
  BY CoreInit, ClosuresInit
<1>2. Core /\ Closures /\ [MtNext]_<<vars, libVars>> => Core' /\ Closures'
  <2> SUFFICES ASSUME Core, Closures, [MtNext]_<<vars, libVars>>
               PROVE  Core' /\ Closures'
    OBVIOUS
  <2>1. CASE MtNext
    BY <2>1, CoreStep, ClosuresKept
  <2>2. CASE UNCHANGED <<vars, libVars>>
    <3>1. [Next]_vars
      BY <2>2
    <3>2. Core'
      BY <3>1, TypeStep, LifeStep, TokenStep, CountsStep, DrainStep DEF Core, LifeInv
    <3>3. Range(waitingJobs)' = Range(waitingJobs)
      BY <2>2 DEF libVars, poolVars
    <3>4. Closures'
      BY <2>2, <3>3 DEF Closures, vars, libVars, poolVars, callVars, dataVars
    <3> QED BY <3>2, <3>4
  <2> QED BY <2>1, <2>2
<1> QED BY <1>1, <1>2, PTL DEF MtSpec

-----------------------------------------------------------------------------
(* What the scheduler promises is kept with any pool behind the executor.    *)

(* A purge moves no task in the order of its token and in no scan.           *)
LEMMA PurgeKeepsOrder ==
  ASSUME Closures, OrderInv, NEW b \in Actor, PurgePool(b)
  PROVE  OrderInv' /\ UNCHANGED <<now, dueAt, stage>>
<1> USE DEF timeVars, dataVars, taskVars, queueVars, scanVars, OrderInv
<1>1. /\ UNCHANGED <<timeVars, arg, handles, dataVars, scanVars>>
      /\ \A a \in Actor : pc'[a] = "postNotify" => pc[a] = "postNotify"
  BY DEF PurgePool
<1>2. OnTime'
  BY <1>1 DEF OnTime, Times, NeverEarly
<1>3. Published'
  BY <1>1 DEF Published
<1>4. Scanning'
  BY <1>1 DEF Scanning, First, Before
<1>5. TokenFIFO'
  BY <1>1 DEF TokenFIFO
<1> QED BY <1>1, <1>2, <1>3, <1>4, <1>5

(* So times, orders and scans are what they are in the scheduler by itself.  *)
LEMMA LibraryOrder ==
  ASSUME NoWrap
  PROVE  MtSpec => [](Core /\ Closures /\ OrderInv)
<1>1. MtInit => OrderInv
  <2>1. Init => TokenFIFO
    BY DEF Init, QueueInit, TokenFIFO
  <2> QED
    BY <2>1, OnTimeInit, PublishedInit, ScanningInit DEF MtInit, OrderInv
<1>2. Core /\ Closures /\ OrderInv /\ [MtNext]_<<vars, libVars>> => OrderInv'
  <2> SUFFICES ASSUME Core, Closures, OrderInv, [MtNext]_<<vars, libVars>>
               PROVE  OrderInv'
    OBVIOUS
  <2>1. ASSUME [Next]_vars PROVE OrderInv'
    BY <2>1, OnTimeStep, PublishedStep, ScanningStep, FifoStep
    DEF Core, OrderInv, OnTime
  <2> QED BY <2>1, LibraryStep, PurgeKeepsOrder
<1> QED BY <1>1, <1>2, LibraryInvariance, PTL DEF MtSpec

(* No task is dispatched before its delay has passed, whichever calls its    *)
(* client, the callbacks and the pool interleave with it.                    *)
THEOREM LibraryNeverTooEarly == NoWrap => (MtSpec => []NeverEarly)
<1> SUFFICES ASSUME NoWrap PROVE MtSpec => []NeverEarly
  OBVIOUS
<1>1. OrderInv => NeverEarly
  BY DEF OrderInv, OnTime
<1> QED BY <1>1, LibraryOrder, PTL

(* Tasks of one token are dispatched in the order of their posting, although *)
(* the pool runs the closures of all tokens at once.                         *)
THEOREM LibrarySequencesAreFIFO == NoWrap => (MtSpec => []TokenFIFO)
<1> SUFFICES ASSUME NoWrap PROVE MtSpec => []TokenFIFO
  OBVIOUS
<1>1. OrderInv => TokenFIFO
  BY DEF OrderInv
<1> QED BY <1>1, LibraryOrder, PTL

(* The library implements the promise of the delayed-task API; a purge is a  *)
(* stutter to it: the task it drops stays dispatched.                        *)
THEOREM LibraryImplementsDelayedTasks == NoWrap => (MtSpec => DelayedTasksSpec)
<1> SUFFICES ASSUME NoWrap PROVE MtSpec => DelayedTasksSpec
  OBVIOUS
<1>1. MtInit => Abs!Init
  BY DEF MtInit, Init, QueueInit, Abs!Init
<1>2. Core /\ Closures /\ OrderInv /\ [MtNext]_<<vars, libVars>>
        => [Abs!Next]_(Abs!vars)
  <2> SUFFICES ASSUME Core, Closures, OrderInv, [MtNext]_<<vars, libVars>>
               PROVE  Promised
    BY DEF Promised
  <2>1. ASSUME [Next]_vars PROVE Promised
    BY <2>1, StepKeepsPromise DEF Core, OrderInv
  <2>2. ASSUME NEW b \in Actor, PurgePool(b) PROVE Promised
    BY <2>2, PurgeKeepsOrder DEF Promised, Abs!vars
  <2> QED BY <2>1, <2>2, LibraryStep
<1> QED BY <1>1, <1>2, LibraryOrder, PTL DEF MtSpec, DelayedTasksSpec, Abs!Spec

(* A thread that stops waiting does so by a step of the scheduler, not of    *)
(* the pool.                                                                 *)
LEMMA WaitsEndByTest ==
  ASSUME Core, Closures, [MtNext]_<<vars, libVars>>, NEW a \in Actor,
         pc[a] \in {"idleWait", "sdWait", "reWait"}, pc'[a] = "ready"
  PROVE  IdleCheck(a) \/ WaitForInFlight(a)
<1>1. ASSUME [Next]_vars PROVE IdleCheck(a) \/ WaitForInFlight(a)
  BY <1>1, WaitEnds DEF Core, LifeInv
<1>2. ASSUME NEW b \in Actor, PurgePool(b) PROVE FALSE
  BY <1>2 DEF PurgePool
<1> QED BY <1>1, <1>2, LibraryStep

(* WaitUntilIdle of the runner is not fooled by what the pool still holds:   *)
(* it returns only when no dispatched task is unfinished.                    *)
THEOREM LibraryIdleIsIdle == MtSpec => IdleMeansIdle
<1> DEFINE Empty == \A a \in Actor : pc[a] = "idleWait" /\ pc'[a] = "ready"
                      => queue = {} /\ Claimed = {}
<1>1. ASSUME Core, Closures, [MtNext]_<<vars, libVars>>, NEW a \in Actor,
             pc[a] = "idleWait", pc'[a] = "ready"
      PROVE  queue = {} /\ Claimed = {}
  <2>1. IdleCheck(a) \/ WaitForInFlight(a)
    BY <1>1, WaitsEndByTest
  <2>2. MutexFree /\ Idle
    BY <1>1, <2>1 DEF IdleCheck, WaitForInFlight, WaitOn
  <2> QED BY <1>1, <2>2, ZeroMeansEmpty DEF Core, Idle
<1>2. Core /\ Closures /\ [MtNext]_<<vars, libVars>> => [Empty]_vars
  BY <1>1
<1> QED BY <1>2, LibraryInvariance, PTL DEF MtSpec, IdleMeansIdle

(* When the Shutdown that stopped the scheduler returns, no closure is left  *)
(* in the pool and every task it took is cancelled or has finished.          *)
THEOREM LibraryIsDrained == MtSpec => ShutdownDrains
<1> DEFINE Drained ==
      /\ spc = "exited" /\ queue = {} /\ due = {}
      /\ \A t \in Tasks : stage[t] \in {"none", "kCancelled", "kFinished"}
<1>1. ASSUME Core, Closures, [MtNext]_<<vars, libVars>>, NEW a \in Actor,
             pc[a] = "sdWait", pc'[a] = "ready"
      PROVE  Drained
  <2> USE DEF Core, LifeInv
  <2>1. IdleCheck(a) \/ WaitForInFlight(a)
    BY <1>1, WaitsEndByTest
  <2>2. MutexFree /\ inFlight = 0
    BY <1>1, <2>1 DEF IdleCheck, WaitForInFlight, WaitOn
  <2>3. spc = "exited" /\ queue = {} /\ discarded = {}
    BY <1>1 DEF Drain, Stopping
  <2>4. due = {} /\ Claimed = {}
    BY <1>1, <2>2, <2>3, ZeroMeansEmpty DEF Counts, DueHome
  <2>5. \A t \in Tasks : stage[t] \notin {"kPending", "kDispatched"}
    BY <1>1, <2>3, <2>4 DEF Drain, Claimed
  <2> QED BY <1>1, <2>3, <2>4, <2>5 DEF TypeInv, TypeOK, Stages
<1>2. Core /\ Closures /\ [MtNext]_<<vars, libVars>>
        => [\A a \in Actor : pc[a] = "sdWait" /\ pc'[a] = "ready" => Drained]_vars
  BY <1>1
<1> QED BY <1>2, LibraryInvariance, PTL DEF MtSpec, ShutdownDrains

(* No Shutdown of the runner comes to its end while a callback runs, waits   *)
(* in the pool or can still be handed to it.                                 *)
THEOREM LibraryShutdownIsFinal == MtSpec => NothingRunsAfterShutdown
<1> DEFINE Silent == spc = "exited" /\ due = {} /\ Claimed = {}
<1>1. ASSUME Core, Closures, [MtNext]_<<vars, libVars>>, NEW a \in Actor,
             pc[a] \in {"sdWait", "reWait"}, pc'[a] = "ready"
      PROVE  Silent
  <2>1. IdleCheck(a) \/ WaitForInFlight(a)
    BY <1>1, WaitsEndByTest
  <2>2. MutexFree /\ inFlight = 0
    BY <1>1, <2>1 DEF IdleCheck, WaitForInFlight, WaitOn
  <2>3. spc = "exited"
    BY <1>1 DEF Core, Drain
  <2> QED BY <1>1, <2>2, <2>3, ZeroMeansEmpty DEF Core, LifeInv, Counts, DueHome
<1>2. Core /\ Closures /\ [MtNext]_<<vars, libVars>>
        => [\A a \in Actor : pc[a] \in {"sdWait", "reWait"} /\ pc'[a] = "ready"
              => Silent]_vars
  BY <1>1
<1> QED BY <1>2, LibraryInvariance, PTL DEF MtSpec, NothingRunsAfterShutdown

(* No closure is lost or doubled on its way from the scheduler to the pool   *)
(* and through it.                                                           *)
THEOREM ClaimedAreHeld == MtSpec => []ClaimedIsHeld
<1>1. ASSUME Core, Closures PROVE ClaimedIsHeld
  <2> USE DEF CallbackPCs, CallPCs, ClosurePCs, Executing, Executed
  <2> DEFINE begun == {t \in executing : pc[t] \notin {"notify", "destroy"}}
  <2>1. \A t \in Tasks :
          /\ t \in due \/ pc[t] \in Executing => stage[t] = "kDispatched"
          /\ stage[t] = "kDispatched" => t \in due \/ pc[t] \in Executing \cup {"gone"}
          /\ t \in due => pc[t] = "none"
    BY <1>1 DEF Core, LifeInv, LifeCycle
  <2>2. due \subseteq Tasks
    BY <1>1 DEF Core, LifeInv, TypeInv, TypeOK
  <2>3. ended \cap purged = {} /\ ended \cup purged \cup executing \subseteq Tasks
    BY <1>1 DEF Closures
  <2>4. \A t \in Tasks : t \in Claimed <=>
          t \in UNION {due, Range(waitingJobs), purged, begun}
    <3> SUFFICES ASSUME NEW t \in Tasks
                 PROVE  t \in Claimed <=> \/ t \in due \/ t \in Range(waitingJobs)
                                          \/ t \in purged \/ t \in begun
      OBVIOUS
    <3>1. t \in Claimed <=> stage[t] = "kDispatched" \/ pc[t] = "release"
      BY DEF Claimed
    <3>2. /\ t \in Range(waitingJobs) <=> pc[t] = "handed"
          /\ t \in executing <=> pc[t] \in CallbackPCs \cup {"release", "notify", "destroy"}
          /\ t \in ended \/ t \in purged <=> pc[t] = "gone"
          /\ t \in ended => stage[t] = "kFinished"
          /\ t \in purged => stage[t] = "kDispatched"
          /\ pc[t] \in CallbackPCs \cup ClosurePCs
      BY <1>1 DEF Closures
    <3> QED BY <2>1, <3>1, <3>2
  <2>5. Claimed = UNION {due, Range(waitingJobs), purged, begun}
    BY <1>1, <2>2, <2>3, <2>4, WaitingAreTasks DEF Claimed
  <2>6. \A t \in due : t \notin Range(waitingJobs) \cup executing \cup ended \cup purged
    BY <1>1, <2>1, <2>2 DEF Closures
  <2> QED BY <2>5, <2>6 DEF ClaimedIsHeld, Pool!Known, Pool!Range, Range
<1> QED BY <1>1, LibraryInvariance, PTL

-----------------------------------------------------------------------------
(* The purge is remembered.                                                  *)

(* Whoever stops waiting on cv_ has found mutex_ free and in_flight_ at 0.   *)
LEMMA WaitEndsAtZero ==
  ASSUME Core, Closures, MtNext, NEW a \in Clients,
         pc[a] \in {"idleWait", "sdWait", "reWait"}, pc'[a] = "ready"
  PROVE  MutexFree /\ inFlight = 0 /\ Claimed = {}
<1> USE DEF Core, LifeInv
<1>1. a \in Actor
  BY DEF Actor
<1>2. ASSUME [Next]_vars PROVE MutexFree /\ inFlight = 0
  <2>1. IdleCheck(a) \/ WaitForInFlight(a)
    BY <1>1, <1>2, WaitEnds
  <2> QED BY <2>1 DEF IdleCheck, WaitForInFlight, WaitOn, Idle
<1>3. ASSUME NEW b \in Actor, PurgePool(b) PROVE pc'[a] \in {pc[a], "gone"}
  BY <1>1, <1>3 DEF PurgePool
<1>4. MutexFree /\ inFlight = 0
  BY <1>2, <1>3, LibraryStep
<1> QED BY <1>4, ZeroMeansEmpty

(* No WaitUntilIdle and no Shutdown returns once the pool has dropped a      *)
(* closure of the scheduler: its task stays claimed for ever.                *)
THEOREM PurgesAreRemembered == MtSpec => PurgeIsRemembered
<1> DEFINE Remembered ==
      \A a \in Clients :
        pc[a] \in {"idleWait", "sdWait", "reWait"} /\ pc'[a] = "ready" => purged = {}
<1>1. ASSUME Core, Closures PROVE purged \subseteq Claimed
  BY <1>1 DEF Closures, Claimed
<1>2. Core /\ Closures /\ [MtNext]_<<vars, libVars>> => [Remembered]_<<vars, libVars>>
  BY <1>1, WaitEndsAtZero
<1> QED BY <1>2, LibraryInvariance, PTL DEF MtSpec, PurgeIsRemembered

-----------------------------------------------------------------------------
(* Polling.                                                                  *)

(* The tasks the next reading of in_flight_ need not cover: queued, or in    *)
(* the vector of a pop that is not over.                                     *)
Uncovered == queue \cup Uncounted

(* A handle is returned for a task that has been published.                  *)
Handled ==
  /\ \A t \in handles : stage[t] # "none"
  /\ \A a \in Actor : pc[a] = "postNotify" => stage[arg[a]] # "none"

(* What a PendingCount of 0 spoke of is not in the queue again, and no pop   *)
(* that is going on has claimed it.                                          *)
Polled == seen # None => seen \subseteq handles /\ seen \cap Uncovered = {}

(* Handles are never withdrawn, and only an insertion adds to the queue.     *)
LEMMA HandledStep ==
  ASSUME LifeInv, DueHome, Handled, [Next]_vars
  PROVE  /\ Handled' /\ handles \subseteq handles'
         /\ \A t \in Uncovered' : t \in Uncovered \/ stage[t] = "none"
<1> USE QueueAssumption, SchedulerAssumption
        DEF taskVars, queueVars, scanVars, timeVars, schedVars, callVars, stopVars,
            dataVars, LifeInv, TypeInv, TypeOK, PostArgs, Posting, Goto, Actor,
            LifeCycle, Handled, Uncovered, Uncounted
<1> DEFINE Good == /\ Handled' /\ handles \subseteq handles'
                   /\ \A t \in Uncovered' : t \in Uncovered \/ stage[t] = "none"
<1>1. ASSUME Tick PROVE Good
  BY <1>1 DEF Tick
<1>2. ASSUME NEW a \in Actor, NEW t \in Tasks, NEW d \in Delays, PostStamp(a, t, d) PROVE Good
  BY <1>2 DEF PostStamp
<1>3. ASSUME NEW a \in Actor, PostInsert(a) PROVE Good
  BY <1>3 DEF PostInsert, Insert, MutexFree
<1>4. ASSUME NEW a \in Actor, PostReject(a) PROVE Good
  BY <1>4 DEF PostReject
<1>5. ASSUME NEW a \in Actor, PostNotify(a) PROVE Good
  BY <1>5 DEF PostNotify
<1>6. ASSUME NEW a \in Actor, NEW t \in Tasks, Cancel(a, t) PROVE Good
  BY <1>6 DEF Cancel, TryCancel
<1>7. ASSUME NEW a \in Actor, CancelNotify(a) PROVE Good
  BY <1>7 DEF CancelNotify
<1>8. ASSUME NEW a \in Actor, WaitUntilIdle(a) PROVE Good
  BY <1>8 DEF WaitUntilIdle
<1>9. ASSUME NEW a \in Actor, IdleCheck(a) \/ WaitForInFlight(a) PROVE Good
  BY <1>9 DEF IdleCheck, WaitForInFlight, WaitOn
<1>10. ASSUME NEW a \in Actor, CallShutdown(a) PROVE Good
  BY <1>10 DEF CallShutdown
<1>11. ASSUME NEW a \in Actor, ShutdownNotify(a) PROVE Good
  BY <1>11 DEF ShutdownNotify
<1>12. ASSUME NEW a \in Actor, ShutdownJoin(a) PROVE Good
  <2>1. /\ UNCHANGED <<stage, arg, handles, queue, due, spc>>
        /\ \E to \in CallPCs \ {"postNotify"} : pc' = [pc EXCEPT ![a] = to]
    BY <1>12 DEF ShutdownJoin, Joinable, Join, JoinThrows, CallPCs
  <2> QED BY <2>1
<1>13. ASSUME NEW a \in Actor, ShutdownTakeAll(a) PROVE Good
  BY <1>13 DEF ShutdownTakeAll, TakeAll
<1>14. ASSUME NEW a \in Actor, NEW t \in Tasks, ShutdownCancel(a, t) PROVE Good
  BY <1>14 DEF ShutdownCancel, TryCancel
<1>15. ASSUME NEW a \in Actor, ShutdownDiscard(a) PROVE Good
  BY <1>15 DEF ShutdownDiscard
<1>16. ASSUME LoopTop PROVE Good
  BY <1>16 DEF LoopTop, DueHome
<1>17. ASSUME WaitTimeout PROVE Good
  BY <1>17 DEF WaitTimeout
<1>18. ASSUME PopBegin PROVE Good
  BY <1>18 DEF PopBegin, PopStart, DueHome
<1>19. ASSUME NEW t \in Tasks, PopCandidate(t) PROVE Good
  <2>1. /\ UNCHANGED <<pc, arg, handles>> /\ spc = "scan"
        /\ queue' \subseteq queue /\ due' \subseteq due \cup queue
        /\ \A u \in Tasks : stage'[u] = "none" => stage[u] = "none"
    BY <1>19 DEF PopCandidate, PopCancelled, PopNotDue, PopBlocked, PopRunnable,
         PopClaim, PopLostRace, TryDispatch, Erase, Candidate, First, Scan
  <2> QED BY <2>1
<1>20. ASSUME PopEnd PROVE Good
  BY <1>20 DEF PopEnd, DueHome
<1>21. ASSUME PopNotify PROVE Good
  BY <1>21 DEF PopNotify
<1>22. ASSUME NEW t \in Tasks, Execute(t) PROVE Good
  BY <1>22 DEF Execute
<1>23. ASSUME Relock PROVE Good
  BY <1>23 DEF Relock, DueHome
<1>24. ASSUME Sleep PROVE Good
  BY <1>24 DEF Sleep, DueHome
<1>25. ASSUME NEW t \in Tasks, Start(t) PROVE Good
  BY <1>25 DEF Start, CallPCs
<1>26. ASSUME NEW t \in Tasks, CallbackReturn(t) PROVE Good
  BY <1>26 DEF CallbackReturn, MarkFinished, CallPCs, ClosurePCs, Executing
<1>27. ASSUME NEW t \in Tasks, Release(t) PROVE Good
  BY <1>27 DEF Release
<1>28. ASSUME NEW t \in Tasks, CompletionNotify(t) PROVE Good
  BY <1>28 DEF CompletionNotify
<1>29. ASSUME NEW t \in Tasks, DestroyClosure(t) PROVE Good
  BY <1>29 DEF DestroyClosure
<1>30. ASSUME NEW w \in waiters, SpuriousWake(w) PROVE Good
  BY <1>30 DEF SpuriousWake
<1>31. ASSUME UNCHANGED vars PROVE Good
  BY <1>31 DEF vars
<1> HIDE DEF LifeInv, TypeInv, TypeOK, PostArgs, Posting, Goto, Actor, LifeCycle, Good
<1>32. ASSUME Next PROVE Good
  BY <1>1, <1>2, <1>3, <1>4, <1>5, <1>6, <1>7, <1>8, <1>9, <1>10, <1>11,
     <1>12, <1>13, <1>14, <1>15, <1>16, <1>17, <1>18, <1>19, <1>20,
     <1>21, <1>22, <1>23, <1>24, <1>25, <1>26, <1>27, <1>28, <1>29,
     <1>30, <1>31, <1>32
  DEF Next, CallStarts, CallContinues, SchedStep, WorkerStep
<1>33. Good
  BY <1>31, <1>32
<1> QED BY <1>33 DEF Good

(* Only the two polls change what a program has seen.                        *)
LEMMA SeenStep ==
  ASSUME MtNext
  PROVE  seen' = seen \/ \E a \in Actor : PendingCount(a) \/ InFlightCount(a)
<1> USE DEF libVars
<1>1. ASSUME NEW a \in Actor,
             CallPool(a) \/ CallDelayed(a) \/ CallRunner(a) \/ PurgePool(a)
      PROVE  seen' = seen
  BY <1>1 DEF CallPool, CallDelayed, CallRunner, Post, PurgePool
<1>2. ASSUME NEW a \in Actor, RunnerContinues(a) PROVE seen' = seen
  BY <1>2 DEF RunnerContinues, RejectPost, Discard
<1>3. ASSUME SchedulerRuns PROVE seen' = seen
  BY <1>3 DEF SchedulerRuns, DropCandidate, HandOver
<1>4. ASSUME NEW i \in DOMAIN waitingJobs, BeginClosure(i) PROVE seen' = seen
  BY <1>4 DEF BeginClosure
<1>5. ASSUME NEW t \in Tasks, Fulfil(t) \/ EndCallback(t) \/ ClosureRuns(t)
      PROVE  seen' = seen
  BY <1>5 DEF Fulfil, EndCallback, ClosureRuns, EndClosure
<1>6. ASSUME ReturnFromMain \/ DestroyRunner \/ DestroySingleton PROVE seen' = seen
  BY <1>6 DEF ReturnFromMain, DestroyRunner, DestructorShutdown, DestroySingleton, Destroyed
<1> QED BY <1>1, <1>2, <1>3, <1>4, <1>5, <1>6 DEF MtNext

(* Handled and Polled hold on.                                               *)
LEMMA PolledStep ==
  ASSUME Core, Closures, Handled, Polled, MtNext
  PROVE  Handled' /\ Polled'
<1> USE DEF Core, Counts
<1>1. ASSUME [Next]_vars
      PROVE  /\ Handled' /\ handles \subseteq handles'
             /\ \A t \in Uncovered' : t \in Uncovered \/ stage[t] = "none"
  BY <1>1, HandledStep
<1>2. ASSUME NEW a \in Actor, PurgePool(a)
      PROVE  Handled' /\ handles' = handles /\ Uncovered' = Uncovered
  <2>1. /\ pc' = [x \in Actor |-> IF x \in Range(waitingJobs) THEN "gone" ELSE pc[x]]
        /\ UNCHANGED <<stage, arg, handles, queue, due, spc>>
    BY <1>2 DEF PurgePool, dataVars, queueVars, scanVars, schedVars
  <2> QED BY <2>1 DEF Handled, Uncovered, Uncounted
<1>3. /\ Handled' /\ handles \subseteq handles'
      /\ \A t \in Uncovered' : t \in Uncovered \/ stage[t] = "none"
  BY <1>1, <1>2, LibraryStep
<1>4. CASE seen' = seen
  BY <1>3, <1>4 DEF Polled, Handled
<1>5. ASSUME NEW a \in Actor, PendingCount(a) PROVE Polled'
  <2>1. /\ seen' = handles /\ handles' = handles
        /\ Uncovered' = Uncovered /\ MutexFree /\ queue = {}
    BY <1>5 DEF PendingCount, vars, callVars, dataVars, queueVars, scanVars, schedVars,
            Uncovered, Uncounted
  <2>2. Uncovered = {}
    BY <2>1 DEF Uncovered, Uncounted, MutexFree
  <2> QED BY <2>1, <2>2 DEF Polled
<1>6. ASSUME NEW a \in Actor, InFlightCount(a) PROVE Polled'
  BY <1>6 DEF InFlightCount, Polled
<1> QED BY <1>3, <1>4, <1>5, <1>6, SeenStep

(* The invariants of polling, in every state.                                *)
LEMMA PolledInvariant == MtSpec => [](Core /\ Closures /\ Handled /\ Polled)
<1>1. MtInit => Handled /\ Polled
  <2> SUFFICES ASSUME MtInit PROVE Handled /\ Polled
    OBVIOUS
  <2>1. handles = {} /\ seen = None
    BY DEF MtInit, Init
  <2>2. \A a \in Actor : pc[a] # "postNotify"
    BY DEF MtInit, Init
  <2> QED BY <2>1, <2>2 DEF Handled, Polled
<1>2. Core /\ Closures /\ Handled /\ Polled /\ [MtNext]_<<vars, libVars>>
        => Handled' /\ Polled'
  <2>1. ASSUME Handled, Polled, UNCHANGED <<vars, libVars>> PROVE Handled' /\ Polled'
    BY <2>1 DEF Handled, Polled, Uncovered, Uncounted, vars, libVars, callVars, dataVars,
            queueVars, scanVars, schedVars
  <2> QED BY <2>1, PolledStep
<1> QED BY <1>1, <1>2, LibraryInvariance, PTL DEF MtSpec

(* PendingCount() = 0 and, later, InFlightCount() = 0: what had been posted  *)
(* when the first was read is neither queued nor dispatched and unfinished.  *)
THEOREM PollingIsReliable == MtSpec => PollingIsSafe
<1> DEFINE Safe == seen # None /\ seen' = None /\ inFlight = 0
                     => seen \cap (queue \cup Claimed) = {}
<1>1. ASSUME Core, Polled, seen # None, inFlight = 0
      PROVE  seen \cap (queue \cup Claimed) = {}
  <2>1. IsFiniteSet(Claimed \ Uncounted) /\ Cardinality(Claimed \ Uncounted) = 0
    BY <1>1, CountedFinite DEF Core, LifeInv, Counts, InFlightExact
  <2>2. Claimed \subseteq Uncounted
    BY <2>1, FS_EmptySet
  <2> QED BY <1>1, <2>2 DEF Polled, Uncovered
<1>2. Core /\ Polled => [Safe]_<<vars, libVars>>
  BY <1>1
<1> QED BY <1>2, PolledInvariant, PTL DEF PollingIsSafe

-----------------------------------------------------------------------------
(* The futures of SubmitDelayed.                                             *)

(* Somebody still holds the captures of each task whose future is pending:   *)
(* the queue, a vector, the closure until its callback ends, or a Post.      *)
HeldBySomeone(t) ==
  \/ t \in queue \cup due \cup discarded
  \/ pc[t] \in CallPCs \cup {"handed"}
  \/ \E a \in Actor : pc[a] = "post" /\ arg[a] = t

Promises == \A t \in Submitted : future[t] = "pending" => HeldBySomeone(t)

(* A step that breaks no promise and lets go of nothing.                     *)
KeepsHold ==
  /\ future' = future
  /\ \A t \in Tasks : HeldBySomeone(t) => HeldBySomeone(t)'

(* Whoever lets go of captures breaks the promise that is still pending.     *)
LEMMA PromisesStep ==
  ASSUME Core, Closures, Promises, MtNext
  PROVE  Promises'
<1> USE SchedulerAssumption, MtPoolAssumption
        DEF taskVars, queueVars, scanVars, timeVars, schedVars, callVars, stopVars,
            dataVars, libVars, poolVars, Goto, Actor, Core, LifeInv, TypeInv, TypeOK
<1>1. ASSUME KeepsHold PROVE Promises'
  BY <1>1 DEF Promises, KeepsHold
<1>2. ASSUME NEW a \in Actor, NEW t \in Tasks, NEW d \in Delays, Post(a, t, d)
      PROVE  Promises'
  <2>1. /\ pc[a] = "ready" /\ pc' = [pc EXCEPT ![a] = "post"] /\ arg' = [arg EXCEPT ![a] = t]
        /\ future' = [future EXCEPT ![t] = "pending"]
        /\ UNCHANGED <<queue, due, discarded>>
    BY <1>2 DEF Post, PostStamp
  <2>2. ASSUME NEW u \in Submitted, u # t, future'[u] = "pending" PROVE HeldBySomeone(u)'
    <3>1. future[u] = "pending"
      BY <2>1, <2>2
    <3>2. HeldBySomeone(u)
      BY <3>1 DEF Promises
    <3>3. pc[u] \in CallPCs \cup {"handed"} => pc'[u] \in CallPCs \cup {"handed"}
      BY <2>1 DEF CallPCs
    <3> QED BY <2>1, <3>2, <3>3 DEF HeldBySomeone
  <2>3. HeldBySomeone(t)'
    BY <2>1 DEF HeldBySomeone
  <2> QED BY <2>2, <2>3 DEF Promises
<1>3. ASSUME NEW a \in Actor, NEW t \in Tasks, Cancel(a, t), UNCHANGED libVars
      PROVE  KeepsHold
  BY <1>3 DEF Cancel, KeepsHold, HeldBySomeone, CallPCs
<1>4. ASSUME NEW a \in Actor, WaitUntilIdle(a) \/ CallShutdown(a), UNCHANGED libVars
      PROVE  KeepsHold
  BY <1>4 DEF WaitUntilIdle, CallShutdown, KeepsHold, HeldBySomeone, CallPCs
<1>5. ASSUME NEW a \in Actor, PostInsert(a), UNCHANGED libVars PROVE KeepsHold
  BY <1>5 DEF PostInsert, Insert, KeepsHold, HeldBySomeone, CallPCs
<1>6. ASSUME NEW S, BreakPromises(S),
             \A t \in Tasks \ S : HeldBySomeone(t) => HeldBySomeone(t)'
      PROVE  Promises'
  BY <1>6 DEF BreakPromises, Promises
<1>7. ASSUME NEW a \in Actor, RejectPost(a) PROVE Promises'
  <2>1. \A t \in Tasks \ {arg[a]} : HeldBySomeone(t) => HeldBySomeone(t)'
    BY <1>7 DEF RejectPost, PostReject, HeldBySomeone, CallPCs
  <2> QED BY <1>6, <1>7, <2>1 DEF RejectPost
<1>8. ASSUME NEW a \in Actor,
             PostNotify(a) \/ CancelNotify(a) \/ IdleCheck(a) \/ WaitForInFlight(a),
             UNCHANGED libVars
      PROVE  KeepsHold
  BY <1>8 DEF PostNotify, CancelNotify, IdleCheck, WaitForInFlight, WaitOn, KeepsHold,
          HeldBySomeone, CallPCs
<1>9. ASSUME NEW a \in Actor, ShutdownNotify(a), UNCHANGED libVars PROVE KeepsHold
  BY <1>9 DEF ShutdownNotify, KeepsHold, HeldBySomeone, CallPCs
<1>10. ASSUME NEW a \in Actor, ShutdownJoin(a), UNCHANGED libVars PROVE KeepsHold
  <2>1. /\ UNCHANGED <<future, queue, due, discarded, arg>>
        /\ \E to \in CallPCs : pc' = [pc EXCEPT ![a] = to]
        /\ pc[a] # "post"
    BY <1>10 DEF ShutdownJoin, Joinable, Join, JoinThrows, InJoin, CallPCs
  <2> QED BY <2>1 DEF KeepsHold, HeldBySomeone
<1>11. ASSUME NEW a \in Actor, ShutdownTakeAll(a), UNCHANGED libVars PROVE KeepsHold
  <2>1. /\ pc[a] = "sdTake" /\ pc' = [pc EXCEPT ![a] = "sdCancel"]
        /\ discarded' = queue /\ UNCHANGED <<future, due, arg>>
    BY <1>11 DEF ShutdownTakeAll
  <2>2. discarded = {}
    BY <2>1 DEF Drain, Stopping
  <2> QED BY <2>1, <2>2 DEF KeepsHold, HeldBySomeone, CallPCs
<1>12. ASSUME NEW a \in Actor, NEW t \in Tasks, ShutdownCancel(a, t), UNCHANGED libVars
       PROVE  KeepsHold
  BY <1>12 DEF ShutdownCancel, KeepsHold, HeldBySomeone
<1>13. ASSUME NEW a \in Actor, Discard(a) PROVE Promises'
  <2>1. \A t \in Tasks \ discarded : HeldBySomeone(t) => HeldBySomeone(t)'
    BY <1>13 DEF Discard, ShutdownDiscard, HeldBySomeone, CallPCs
  <2> QED BY <1>6, <1>13, <2>1 DEF Discard
<1>14. ASSUME \/ LoopTop \/ WaitTimeout \/ PopBegin \/ PopEnd \/ PopNotify
              \/ Relock \/ Sleep \/ Tick \/ \E w \in waiters : SpuriousWake(w),
              UNCHANGED libVars
       PROVE  KeepsHold
  <2>1. \/ UNCHANGED <<queue, due, discarded, pc, arg>>
        \/ PopBegin
    BY <1>14 DEF LoopTop, WaitTimeout, PopEnd, PopNotify, Relock, Sleep, Tick,
            SpuriousWake
  <2>2. ASSUME PopBegin PROVE UNCHANGED <<queue, discarded, pc, arg>> /\ due = {}
    BY <2>2 DEF PopBegin, PopStart, Counts, DueHome
  <2> QED BY <1>14, <2>1, <2>2 DEF KeepsHold, HeldBySomeone
<1>15. ASSUME NEW t \in Tasks, DropCandidate(t) PROVE Promises'
  <2> DEFINE S == queue \ (queue' \cup due')
  <2>1. UNCHANGED <<discarded, pc, arg>> /\ due \subseteq due'
    BY <1>15 DEF DropCandidate, PopCandidate, PopCancelled, PopNotDue, PopBlocked,
            PopRunnable, PopClaim, PopLostRace
  <2>2. \A u \in Tasks \ S : HeldBySomeone(u) => HeldBySomeone(u)'
    BY <2>1 DEF HeldBySomeone
  <2> QED BY <1>6, <1>15, <2>2 DEF DropCandidate
<1>16. ASSUME NEW t \in Tasks, HandOver(t) PROVE KeepsHold
  BY <1>16 DEF HandOver, Execute, KeepsHold, HeldBySomeone, CallPCs
<1>17. ASSUME NEW i \in DOMAIN waitingJobs, BeginClosure(i) PROVE KeepsHold
  BY <1>17, WaitingAreTasks DEF BeginClosure, Start, KeepsHold, HeldBySomeone, CallPCs
<1>18. ASSUME NEW t \in Tasks, Fulfil(t) PROVE Promises'
  <2>1. /\ \E outcome \in {"value", "exception"} : future' = [future EXCEPT ![t] = outcome]
        /\ UNCHANGED <<queue, due, discarded, pc, arg>>
    BY <1>18 DEF Fulfil, vars
  <2>2. ASSUME NEW u \in Submitted, future'[u] = "pending" PROVE HeldBySomeone(u)'
    <3>1. future[u] = "pending"
      BY <2>1, <2>2
    <3> QED BY <2>1, <3>1 DEF Promises, HeldBySomeone
  <2> QED BY <2>2 DEF Promises
<1>19. ASSUME NEW t \in Tasks, EndCallback(t) PROVE Promises'
  <2>1. /\ t \in Submitted => future[t] # "pending"
        /\ UNCHANGED <<future, queue, due, discarded, arg>>
        /\ pc[t] = "ready" /\ pc' = [pc EXCEPT ![t] = "release"]
    BY <1>19 DEF EndCallback, CallbackReturn
  <2>2. \A u \in Tasks \ {t} : HeldBySomeone(u) => HeldBySomeone(u)'
    BY <2>1 DEF HeldBySomeone
  <2> QED BY <2>1, <2>2 DEF Promises
<1>20. ASSUME NEW t \in Tasks, Release(t) \/ CompletionNotify(t), UNCHANGED libVars
       PROVE  KeepsHold
  BY <1>20 DEF Release, CompletionNotify, KeepsHold, HeldBySomeone, CallPCs
<1>21. ASSUME NEW t \in Tasks, EndClosure(t) PROVE Promises'
  <2>1. \A u \in Tasks \ {t} : HeldBySomeone(u) => HeldBySomeone(u)'
    BY <1>21 DEF EndClosure, DestroyClosure, HeldBySomeone
  <2> QED BY <1>6, <1>21, <2>1 DEF EndClosure
<1>22. ASSUME NEW a \in Actor, PurgePool(a) PROVE Promises'
  <2>1. /\ pc' = [x \in Actor |-> IF x \in Range(waitingJobs) THEN "gone" ELSE pc[x]]
        /\ UNCHANGED <<queue, due, discarded, arg>>
    BY <1>22 DEF PurgePool
  <2>2. \A b \in Actor : pc[b] = "post" => b \notin Range(waitingJobs)
    BY DEF Closures
  <2>3. \A u \in Tasks \ Range(waitingJobs) : HeldBySomeone(u) => HeldBySomeone(u)'
    BY <2>1, <2>2 DEF HeldBySomeone
  <2> QED BY <1>6, <1>22, <2>3 DEF PurgePool
<1>23. ASSUME NEW a \in Actor,
              CallPool(a) \/ CallDelayed(a) \/ PendingCount(a) \/ InFlightCount(a)
       PROVE  KeepsHold
  BY <1>23 DEF CallPool, CallDelayed, PendingCount, InFlightCount, vars, KeepsHold,
          HeldBySomeone
<1>24. ASSUME ReturnFromMain \/ DestroySingleton PROVE KeepsHold
  BY <1>24 DEF ReturnFromMain, DestroySingleton, Destroyed, vars, KeepsHold, HeldBySomeone
<1>25. ASSUME DestroyRunner PROVE KeepsHold
  BY <1>25 DEF DestroyRunner, DestructorShutdown, CallShutdown, KeepsHold, HeldBySomeone,
          CallPCs
<1> HIDE DEF libVars, poolVars, Goto, Actor, Core, LifeInv, TypeInv, TypeOK
<1>26. ASSUME NEW a \in Actor, CallRunner(a) PROVE Promises'
  BY <1>1, <1>2, <1>3, <1>4, <1>26 DEF CallRunner
<1>27. ASSUME NEW a \in Actor, RunnerContinues(a) PROVE Promises'
  BY <1>1, <1>5, <1>7, <1>8, <1>9, <1>10, <1>11, <1>12, <1>13, <1>27 DEF RunnerContinues
<1>28. ASSUME SchedulerRuns PROVE Promises'
  BY <1>1, <1>14, <1>15, <1>16, <1>28 DEF SchedulerRuns
<1>29. ASSUME NEW t \in Tasks, ClosureRuns(t) PROVE Promises'
  BY <1>1, <1>20, <1>21, <1>29 DEF ClosureRuns
<1> QED
  BY <1>1, <1>14, <1>17, <1>18, <1>19, <1>22, <1>23, <1>24, <1>25, <1>26, <1>27, <1>28,
     <1>29
  DEF MtNext

(* The promises are held in every state.                                     *)
LEMMA PromisesInvariant == MtSpec => []Promises
<1>1. MtInit => Promises
  <2>1. MtInit => \A t \in Submitted : future[t] = "none"
    BY MtPoolAssumption DEF MtInit
  <2> QED BY <2>1 DEF Promises
<1>2. Core /\ Closures /\ Promises /\ [MtNext]_<<vars, libVars>> => Promises'
  <2>1. ASSUME Promises, UNCHANGED <<vars, libVars>> PROVE Promises'
    BY <2>1 DEF Promises, HeldBySomeone, vars, libVars, queueVars, scanVars, stopVars,
            callVars, dataVars
  <2> QED BY <2>1, PromisesStep
<1> QED BY <1>1, <1>2, LibraryInvariance, PTL DEF MtSpec

(* Nobody waits for ever on a future once the Shutdown that stopped the      *)
(* scheduler has returned: the promise of every task that ran is fulfilled,  *)
(* that of every other one is broken.                                        *)
THEOREM ShutdownSettlesFutures == MtSpec => ShutdownSettles
<1> DEFINE Settled == \A a \in Clients : pc[a] = "sdWait" /\ pc'[a] = "ready"
                        => \A t \in handles \cap Submitted : future[t] # "pending"
<1>1. ASSUME Core, Closures, Handled, Promises, MtNext,
             NEW a \in Clients, pc[a] = "sdWait", pc'[a] = "ready",
             NEW t \in handles \cap Submitted
      PROVE  future[t] # "pending"
  <2> USE DEF Core, LifeInv
  <2>1. t \in Tasks /\ a \in Actor
    BY <1>1, MtPoolAssumption DEF Actor
  <2>2. Claimed = {}
    BY <1>1, WaitEndsAtZero
  <2>3. spc = "exited" /\ queue = {} /\ discarded = {}
    BY <1>1, <2>1 DEF Drain, Stopping
  <2>4. due = {}
    BY <1>1, <2>3 DEF Counts, DueHome
  <2>5. pc[t] \notin CallPCs \cup {"handed"}
    BY <1>1, <2>1, <2>2 DEF LifeCycle, Executing, Claimed
  <2>6. ~ \E b \in Actor : pc[b] = "post" /\ arg[b] = t
    BY <1>1 DEF LifeCycle, Handled
  <2>7. ~ HeldBySomeone(t)
    BY <2>3, <2>4, <2>5, <2>6 DEF HeldBySomeone
  <2> QED BY <1>1, <2>7 DEF Promises
<1>2. Core /\ Closures /\ Handled /\ Promises /\ [MtNext]_<<vars, libVars>>
        => [Settled]_<<vars, libVars>>
  BY <1>1
<1> QED BY <1>2, PolledInvariant, PromisesInvariant, PTL DEF MtSpec, ShutdownSettles

(* What a future says of its task, also while the task can still be posted,  *)
(* run or dropped.  What Shutdown has taken was pending: none of it runs.    *)
Futures == {"none", "pending", "broken", "value", "exception"}

TellsTruth(t) ==
  /\ future[t] = "none" <=> runAt[t] = None
  /\ future[t] = "broken" => stage[t] = "kCancelled" \/ t \in purged
  /\ future[t] \in {"value", "exception"} => t \in executing \cup ended
  /\ stage[t] = "kFinished" => future[t] \in {"value", "exception"}

TakenNeverRun == \A t \in discarded : stage[t] \in {"kPending", "kCancelled"}

Truth ==
  /\ future \in [Tasks -> Futures]
  /\ TakenNeverRun
  /\ \A t \in Submitted : TellsTruth(t)

(* What the pool has begun or dropped it does not forget.                    *)
LEMMA PoolRemembers ==
  ASSUME Core, Closures, MtNext
  PROVE  executing \cup ended \subseteq (executing \cup ended)' /\ purged \subseteq purged'
<1> DEFINE Grows == /\ executing \cup ended \subseteq (executing \cup ended)'
                    /\ purged \subseteq purged'
<1>1. ASSUME UNCHANGED poolVars PROVE Grows
  BY <1>1 DEF poolVars
<1>2. ASSUME Still PROVE Grows
  BY <1>1, <1>2 DEF Still
<1>3. ASSUME NEW t \in Tasks, HandOver(t) PROVE Grows
  BY <1>3 DEF HandOver, Pool!Submit
<1>4. ASSUME NEW t \in Tasks, EndClosure(t) PROVE Grows
  BY <1>4 DEF EndClosure, Pool!End
<1>5. ASSUME NEW i \in DOMAIN waitingJobs, BeginClosure(i) PROVE Grows
  BY <1>5 DEF BeginClosure, Pool!Begin
<1>6. ASSUME NEW a \in Actor, PurgePool(a) PROVE Grows
  BY <1>6 DEF PurgePool, Pool!Purge
<1>7. ASSUME NEW t \in Tasks, \/ EndCallback(t)
                              \/ (Release(t) \/ CompletionNotify(t)) /\ UNCHANGED libVars
      PROVE  Grows
  BY <1>1, <1>7 DEF EndCallback, libVars
<1> HIDE DEF Grows
<1>8. Grows
  BY <1>2, <1>3, <1>4, <1>5, <1>6, <1>7, StillOrMoves DEF ClosureMoves
<1> QED BY <1>8 DEF Grows

(* No task but a pending one is dispatched, none finishes, and what has been *)
(* cancelled stays so.                                                       *)
NoneFinishes ==
  /\ runAt' = runAt
  /\ discarded' \subseteq discarded \cup queue
  /\ \A t \in Tasks : \/ stage'[t] = stage[t]
                      \/ /\ stage[t] \in {"none", "kPending"}
                         /\ stage'[t] \in {"kPending", "kCancelled"}
                      \/ /\ stage[t] = "kPending" /\ stage'[t] = "kDispatched"
                         /\ discarded' = {}

(* Whoever breaks a promise has cancelled its task or purged it.             *)
BreaksRightly(S) ==
  /\ BreakPromises(S)
  /\ \A t \in S \cap Submitted :
       future[t] = "pending" => stage'[t] = "kCancelled" \/ t \in purged'

(* The futures go on telling the truth as long as promises break like this.  *)
LEMMA TruthKept ==
  ASSUME Core, Closures, Truth, MtNext, NoneFinishes,
         future' = future \/ \E S \in SUBSET Tasks : BreaksRightly(S)
  PROVE  Truth'
<1> USE MtPoolAssumption DEF Core, LifeInv, TypeInv, TypeOK
<1>1. TakenNeverRun'
  <2> SUFFICES ASSUME NEW t \in discarded'
               PROVE  stage'[t] \in {"kPending", "kCancelled"}
    BY DEF TakenNeverRun
  <2>1. t \in Tasks /\ (t \in discarded \/ t \in queue)
    BY DEF NoneFinishes
  <2>2. stage[t] \in {"kPending", "kCancelled"}
    BY <2>1 DEF Truth, TakenNeverRun, LifeCycle
  <2> QED BY <2>1, <2>2 DEF NoneFinishes
<1>2. ASSUME NEW t \in Submitted PROVE TellsTruth(t)'
  <2> USE DEF TellsTruth
  <2>1. TellsTruth(t) /\ t \in Tasks
    BY <1>2 DEF Truth
  <2>2. /\ runAt'[t] = runAt[t]
        /\ stage[t] = "kCancelled" => stage'[t] = "kCancelled"
        /\ stage'[t] = "kFinished" => stage[t] = "kFinished"
    BY <2>1 DEF NoneFinishes
  <2>3. /\ t \in executing \cup ended => t \in (executing \cup ended)'
        /\ t \in purged => t \in purged'
    BY PoolRemembers
  <2>4. \/ future'[t] = future[t]
        \/ /\ future[t] = "pending" /\ future'[t] = "broken"
           /\ stage'[t] = "kCancelled" \/ t \in purged'
    BY <1>2, <2>1 DEF BreaksRightly, BreakPromises
  <2> QED BY <2>1, <2>2, <2>3, <2>4
<1>3. future' \in [Tasks -> Futures]
  BY DEF Truth, Futures, BreaksRightly, BreakPromises
<1> QED BY <1>1, <1>2, <1>3 DEF Truth

(* A future is given by Post, broken where the captures are destroyed, and   *)
(* set while the callback runs.                                              *)
LEMMA TruthStep ==
  ASSUME Core, Closures, Truth, MtNext
  PROVE  Truth'
<1> USE QueueAssumption, SchedulerAssumption, MtPoolAssumption
        DEF taskVars, queueVars, scanVars, timeVars, schedVars, callVars, stopVars,
            dataVars, libVars, poolVars, Goto, Actor, Core, LifeInv, TypeInv, TypeOK
<1> DEFINE Plain == NoneFinishes /\ future' = future
<1>1. ASSUME Plain PROVE Truth'
  BY <1>1, TruthKept
<1>2. ASSUME NoneFinishes, NEW S \in SUBSET Tasks, BreaksRightly(S) PROVE Truth'
  BY <1>2, TruthKept
<1>3. ASSUME NEW a \in Actor, NEW t \in Tasks, NEW d \in Delays, Post(a, t, d) PROVE Truth'
  <2>1. /\ runAt[t] = None /\ runAt' = [runAt EXCEPT ![t] = RunAt(d)] /\ d \in Int
        /\ future' = [future EXCEPT ![t] = "pending"]
        /\ UNCHANGED <<stage, discarded, executing, ended, purged>>
    BY <1>3 DEF Post, PostStamp
  <2>2. RunAt(d) \in Int
    BY <2>1 DEF RunAt, Wrap
  <2>3. stage[t] = "none"
    BY <2>1 DEF LifeCycle
  <2>4. ASSUME NEW u \in Submitted PROVE TellsTruth(u)'
    <3>1. TellsTruth(u) /\ u \in Tasks
      BY <2>4 DEF Truth
    <3>2. CASE u = t
      <4>1. future[t] = "none"
        BY <2>1, <3>1, <3>2 DEF TellsTruth
      <4>2. future'[u] = "pending"
        BY <2>1, <3>2 DEF Truth
      <4> QED BY <2>1, <2>2, <2>3, <3>1, <3>2, <4>2 DEF TellsTruth
    <3>3. CASE u # t
      BY <2>1, <3>1, <3>3 DEF TellsTruth
    <3> QED BY <3>2, <3>3
  <2> QED BY <2>1, <2>4 DEF Truth, TakenNeverRun, Futures
<1>4. ASSUME NEW a \in Actor, NEW t \in Tasks, Cancel(a, t), UNCHANGED libVars PROVE Plain
  BY <1>4 DEF Cancel, TryCancel, NoneFinishes
<1>5. ASSUME NEW a \in Actor, WaitUntilIdle(a) \/ CallShutdown(a), UNCHANGED libVars
      PROVE  Plain
  BY <1>5 DEF WaitUntilIdle, CallShutdown, NoneFinishes
<1>6. ASSUME NEW a \in Actor, PostInsert(a), UNCHANGED libVars PROVE Plain
  <2>1. stage[arg[a]] = "none"
    BY <1>6 DEF PostInsert, LifeCycle
  <2> QED BY <1>6, <2>1 DEF PostInsert, NoneFinishes
<1>7. ASSUME NEW a \in Actor, RejectPost(a) PROVE Truth'
  <2>1. arg[a] \in Tasks /\ stage[arg[a]] = "none"
    BY <1>7 DEF RejectPost, PostReject, LifeCycle, PostArgs, Posting
  <2>2. NoneFinishes /\ stage'[arg[a]] = "kCancelled"
    BY <1>7, <2>1 DEF RejectPost, PostReject, NoneFinishes
  <2>3. BreaksRightly({arg[a]})
    BY <1>7, <2>2 DEF RejectPost, BreaksRightly
  <2> QED BY <1>2, <2>1, <2>2, <2>3
<1>8. ASSUME NEW a \in Actor,
             \/ PostNotify(a) \/ CancelNotify(a) \/ IdleCheck(a) \/ WaitForInFlight(a)
             \/ ShutdownNotify(a) \/ ShutdownJoin(a) \/ ShutdownTakeAll(a),
             UNCHANGED libVars
      PROVE  Plain
  BY <1>8 DEF PostNotify, CancelNotify, IdleCheck, WaitForInFlight, WaitOn, ShutdownNotify,
          ShutdownJoin, Joinable, Join, JoinThrows, ShutdownTakeAll, NoneFinishes
<1>9. ASSUME NEW a \in Actor, NEW t \in Tasks, ShutdownCancel(a, t), UNCHANGED libVars
      PROVE  Plain
  BY <1>9 DEF ShutdownCancel, TryCancel, NoneFinishes
<1>10. ASSUME NEW a \in Actor, Discard(a) PROVE Truth'
  <2>1. NoneFinishes
    BY <1>10 DEF Discard, ShutdownDiscard, NoneFinishes
  <2>2. \A t \in discarded : stage'[t] = "kCancelled"
    BY <1>10 DEF Discard, ShutdownDiscard, Truth, TakenNeverRun
  <2>3. BreaksRightly(discarded)
    BY <1>10, <2>2 DEF Discard, BreaksRightly
  <2> QED BY <1>2, <2>1, <2>3
<1>11. ASSUME \/ LoopTop \/ WaitTimeout \/ PopBegin \/ PopEnd \/ PopNotify
              \/ Relock \/ Sleep \/ Tick \/ \E w \in waiters : SpuriousWake(w),
              UNCHANGED libVars
       PROVE  Plain
  BY <1>11 DEF LoopTop, WaitTimeout, PopBegin, PopStart, PopEnd, PopNotify, Relock, Sleep,
          Tick, SpuriousWake, NoneFinishes
<1>12. ASSUME NEW t \in Tasks, DropCandidate(t) PROVE Truth'
  <2> DEFINE S == queue \ (queue' \cup due')
  <2>1. spc = "scan" /\ discarded' = discarded /\ runAt' = runAt
    BY <1>12 DEF DropCandidate, PopCandidate, PopCancelled, PopNotDue, PopBlocked,
            PopRunnable, PopClaim, PopLostRace
  <2>2. discarded' = {}
    BY <2>1 DEF Drain
  <2>3. \/ UNCHANGED stage
        \/ stage[t] = "kPending" /\ stage' = [stage EXCEPT ![t] = "kDispatched"]
    BY <1>12 DEF DropCandidate, PopCandidate, PopCancelled, PopNotDue, PopBlocked,
            PopRunnable, PopClaim, PopLostRace, TryDispatch
  <2>4. NoneFinishes
    BY <2>1, <2>2, <2>3 DEF NoneFinishes
  <2>5. ASSUME NEW u \in S PROVE stage'[u] = "kCancelled"
    <3>1. CASE PopCancelled(t) \/ PopLostRace(t)
      <4>1. t \in queue /\ stage[t] # "kPending" /\ stage' = stage /\ u = t
        BY <3>1 DEF PopCancelled, PopLostRace, Candidate, First, Erase, IsCancelled, Scan
      <4> QED BY <4>1 DEF LifeCycle
    <3>2. CASE ~(PopCancelled(t) \/ PopLostRace(t))
      <4>1. queue' = queue \/ (due' = due \cup {t} /\ queue' = queue \ {t})
        BY <1>12, <3>2 DEF DropCandidate, PopCandidate, PopNotDue, PopBlocked, PopRunnable,
                PopClaim, Erase
      <4> QED BY <4>1
    <3> QED BY <3>1, <3>2
  <2>6. BreaksRightly(S)
    BY <1>12, <2>5 DEF DropCandidate, BreaksRightly
  <2> QED BY <1>2, <2>4, <2>6
<1>13. ASSUME NEW t \in Tasks, HandOver(t) PROVE Plain
  BY <1>13 DEF HandOver, Execute, NoneFinishes
<1>14. ASSUME NEW i \in DOMAIN waitingJobs, BeginClosure(i) PROVE Plain
  BY <1>14 DEF BeginClosure, Start, NoneFinishes
<1>15. ASSUME NEW t \in Tasks, Fulfil(t) PROVE Truth'
  <2>1. /\ \E outcome \in {"value", "exception"} : future' = [future EXCEPT ![t] = outcome]
        /\ future[t] = "pending" /\ pc[t] = "ready"
        /\ UNCHANGED <<runAt, stage, discarded, executing, ended, purged>>
    BY <1>15 DEF Fulfil, vars
  <2>2. t \in executing
    BY <2>1 DEF Closures, CallbackPCs
  <2>3. ASSUME NEW u \in Submitted PROVE TellsTruth(u)'
    <3>1. TellsTruth(u) /\ u \in Tasks
      BY <2>3 DEF Truth
    <3>2. CASE u # t
      BY <2>1, <3>1, <3>2 DEF TellsTruth
    <3>3. CASE u = t
      <4>1. future'[u] \in {future[u], "value", "exception"}
        BY <2>1, <3>3 DEF Truth
      <4> QED BY <2>1, <2>2, <3>1, <3>3, <4>1 DEF TellsTruth
    <3> QED BY <3>2, <3>3
  <2> QED BY <2>1, <2>3 DEF Truth, TakenNeverRun, Futures
<1>16. ASSUME NEW t \in Tasks, EndCallback(t) PROVE Truth'
  <2>1. /\ t \in Submitted => future[t] # "pending"
        /\ pc[t] = "ready" /\ stage' = [stage EXCEPT ![t] = "kFinished"]
        /\ UNCHANGED <<runAt, future, discarded, executing, ended, purged>>
    BY <1>16 DEF EndCallback, CallbackReturn, MarkFinished
  <2>2. stage[t] = "kDispatched" /\ t \notin purged /\ runAt[t] # None
    BY <2>1 DEF LifeCycle, Executing, CallPCs, Closures
  <2>3. ASSUME NEW u \in Submitted PROVE TellsTruth(u)'
    <3>1. TellsTruth(u) /\ u \in Tasks
      BY <2>3 DEF Truth
    <3>2. CASE u # t
      BY <2>1, <3>1, <3>2 DEF TellsTruth
    <3>3. CASE u = t
      <4>1. future[t] \in {"value", "exception"}
        BY <2>1, <2>2, <2>3, <3>1, <3>3 DEF TellsTruth, Truth, Futures
      <4> QED BY <2>1, <2>2, <3>1, <3>3, <4>1 DEF TellsTruth
    <3> QED BY <3>2, <3>3
  <2>4. t \notin discarded
    BY <2>2 DEF Truth, TakenNeverRun
  <2> QED BY <2>1, <2>3, <2>4 DEF Truth, TakenNeverRun
<1>17. ASSUME NEW t \in Tasks, Release(t) \/ CompletionNotify(t), UNCHANGED libVars
       PROVE  Plain
  BY <1>17 DEF Release, CompletionNotify, NoneFinishes
<1>18. ASSUME NEW t \in Tasks, EndClosure(t) PROVE Truth'
  <2>1. NoneFinishes /\ pc[t] = "destroy"
    BY <1>18 DEF EndClosure, DestroyClosure, NoneFinishes
  <2>2. stage[t] = "kFinished"
    BY <2>1 DEF LifeCycle, Executed
  <2>3. BreaksRightly({t})
    BY <1>18, <2>2 DEF EndClosure, BreaksRightly, Truth, TellsTruth
  <2> QED BY <1>2, <2>1, <2>3
<1>19. ASSUME NEW a \in Actor, PurgePool(a) PROVE Truth'
  <2>1. NoneFinishes
    BY <1>19 DEF PurgePool, NoneFinishes
  <2>2. purged' = purged \cup Range(waitingJobs)
    BY <1>19 DEF PurgePool, Pool!Purge, Pool!Range, Range
  <2>3. BreaksRightly(Range(waitingJobs)) /\ Range(waitingJobs) \subseteq Tasks
    BY <1>19, <2>2, WaitingAreTasks DEF PurgePool, BreaksRightly
  <2> QED BY <1>2, <2>1, <2>3
<1>20. ASSUME NEW a \in Actor,
              CallPool(a) \/ CallDelayed(a) \/ PendingCount(a) \/ InFlightCount(a)
       PROVE  Plain
  BY <1>20 DEF CallPool, CallDelayed, PendingCount, InFlightCount, vars, NoneFinishes
<1>21. ASSUME ReturnFromMain \/ DestroySingleton PROVE Plain
  BY <1>21 DEF ReturnFromMain, DestroySingleton, Destroyed, vars, NoneFinishes
<1>22. ASSUME DestroyRunner PROVE Plain
  BY <1>22 DEF DestroyRunner, DestructorShutdown, CallShutdown, NoneFinishes
<1> HIDE DEF libVars, poolVars, Goto, Actor, Core, LifeInv, TypeInv, TypeOK, Plain
<1>23. ASSUME NEW a \in Actor, CallRunner(a) PROVE Truth'
  BY <1>1, <1>3, <1>4, <1>5, <1>23 DEF CallRunner
<1>24. ASSUME NEW a \in Actor, RunnerContinues(a) PROVE Truth'
  BY <1>1, <1>6, <1>7, <1>8, <1>9, <1>10, <1>24 DEF RunnerContinues
<1>25. ASSUME SchedulerRuns PROVE Truth'
  BY <1>1, <1>11, <1>12, <1>13, <1>25 DEF SchedulerRuns
<1>26. ASSUME NEW t \in Tasks, ClosureRuns(t) PROVE Truth'
  BY <1>1, <1>17, <1>18, <1>26 DEF ClosureRuns
<1> QED
  BY <1>1, <1>11, <1>14, <1>15, <1>16, <1>19, <1>20, <1>21, <1>22, <1>23, <1>24, <1>25,
     <1>26
  DEF MtNext

(* A future of SubmitDelayed never lies: broken means that the task was      *)
(* cancelled or purged and has not run, ready that it was begun, and no task *)
(* finishes with its future still pending.                                   *)
THEOREM PromisesAreTrue == MtSpec => []PromisesTellTruth
<1>1. MtInit => Truth
  <2> SUFFICES ASSUME MtInit PROVE Truth
    OBVIOUS
  <2>1. \A t \in Submitted : /\ future[t] = "none" /\ runAt[t] = None
                             /\ stage[t] = "none"
    BY MtPoolAssumption DEF MtInit, Init, QueueInit
  <2>2. discarded = {}
    BY DEF MtInit, Init
  <2>3. future \in [Tasks -> Futures]
    BY DEF MtInit, Futures
  <2> QED BY <2>1, <2>2, <2>3 DEF Truth, TakenNeverRun, TellsTruth
<1>2. Core /\ Closures /\ Truth /\ [MtNext]_<<vars, libVars>> => Truth'
  <2>1. ASSUME Truth, UNCHANGED <<vars, libVars>> PROVE Truth'
    BY <2>1 DEF Truth, TakenNeverRun, TellsTruth, vars, libVars, poolVars, stopVars,
            dataVars, taskVars
  <2> QED BY <2>1, TruthStep
<1>3. Core /\ Closures /\ Truth => PromisesTellTruth
  <2> SUFFICES ASSUME Core, Closures, Truth, NEW t \in Submitted
               PROVE  /\ future[t] = "broken" =>
                           /\ stage[t] = "kCancelled" \/ t \in purged
                           /\ t \notin executing \cup ended
                      /\ future[t] \in {"value", "exception"} => t \in executing \cup ended
                      /\ stage[t] = "kFinished" => future[t] \in {"value", "exception"}
    BY DEF PromisesTellTruth
  <2>1. TellsTruth(t) /\ t \in Tasks
    BY MtPoolAssumption DEF Truth
  <2>2. stage[t] = "kCancelled" => t \notin executing \cup ended
    BY <2>1 DEF Core, LifeInv, LifeCycle, Executing, Executed, CallPCs, CallbackPCs, Closures
  <2>3. t \in purged => t \notin executing \cup ended
    BY <2>1 DEF Closures, CallbackPCs
  <2> QED BY <2>1, <2>2, <2>3 DEF TellsTruth
<1> QED BY <1>1, <1>2, <1>3, LibraryInvariance, PTL DEF MtSpec

-----------------------------------------------------------------------------
(* The singletons.                                                           *)

(* The singletons in the orders of their construction.                       *)
Orders == {<<>>, <<"pool">>, <<"pool", "runner">>}

(* Constructed in one order, and the scheduler thread has not run before the *)
(* runner was constructed, or has exited before it was destroyed.            *)
Lives ==
  /\ statics \in Orders
  /\ ~Alive("runner") =>
       spc = "exited" \/ (spc = "top" /\ \A t \in Tasks : pc[t] = "none")

(* After main only main's thread calls the library, and the destructors it   *)
(* runs do not come back before the scheduler thread is joined.              *)
Ending ==
  /\ exiting \in {"no", "yes", "~DelayedTaskRunner", "~DelayedScheduler"}
  /\ exiting # "no" => \A a \in Clients \ {Main} : pc[a] = "ready"
  /\ exiting = "yes" => pc[Main] = "ready"
  /\ exiting = "~DelayedTaskRunner" =>
       \/ pc[Main] \in {"sdNotify", "sdJoin", "reJoin"}
       \/ InJoin(Main) /\ ~joined
       \/ pc[Main] \in {"ready", "sdTake", "sdCancel", "sdWait", "reWait"} /\ joined
  /\ exiting = "~DelayedScheduler" => joined

(* The sequences of one and of two elements.                                 *)
LEMMA ShortSequences ==
  ASSUME NEW S, NEW x \in S, NEW y \in S
  PROVE  /\ Append(<<>>, x) = <<x>> /\ Append(<<x>>, y) = <<x, y>>
         /\ Front(<<x>>) = <<>> /\ Front(<<x, y>>) = <<x>>
         /\ Last(<<x>>) = x /\ Last(<<x, y>>) = y
<1> DEFINE one == <<x>>
           two == <<x, y>>
<1>1. /\ one \in Seq(S) /\ Len(one) = 1 /\ one[1] = x
      /\ two \in Seq(S) /\ Len(two) = 2 /\ two[1] = x /\ two[2] = y
  OBVIOUS
<1>2. <<>> \in Seq(S) /\ Len(<<>>) = 0
  BY EmptySeq
<1> HIDE DEF one, two
<1>3. Append(<<>>, x) = one
  <2>1. /\ Append(<<>>, x) \in Seq(S) /\ Len(Append(<<>>, x)) = 1
        /\ Append(<<>>, x)[1] = x
    BY <1>2, AppendProperties
  <2> QED BY <1>1, <2>1, SeqEqual
<1>4. Append(one, y) = two
  <2>1. /\ Append(one, y) \in Seq(S) /\ Len(Append(one, y)) = 2
        /\ Append(one, y)[1] = x /\ Append(one, y)[2] = y
    <3>1. one \in Seq(S)
      BY <1>1
    <3>2. /\ Append(one, y) \in Seq(S) /\ Len(Append(one, y)) = Len(one) + 1
          /\ \A i \in 1..Len(one) : Append(one, y)[i] = one[i]
          /\ Append(one, y)[Len(one) + 1] = y
      BY <3>1
    <3> QED BY <1>1, <3>2
  <2> QED BY <1>1, <2>1, SeqEqual
<1>5. Front(one) = <<>>
  <2>1. Front(one) = SubSeq(one, 1, 0)
    BY <1>1 DEF Front
  <2> QED BY <1>1, <2>1, SubSeqEmpty
<1>6. Front(two) = one
  <2>1. Front(two) = SubSeq(two, 1, 1)
    BY <1>1 DEF Front
  <2>2. Front(two) \in Seq(S) /\ Len(Front(two)) = 1 /\ Front(two)[1] = x
    BY <1>1, <2>1
  <2> QED BY <1>1, <2>2, SeqEqual
<1>7. Last(one) = x /\ Last(two) = y
  BY <1>1 DEF Last
<1> QED BY <1>3, <1>4, <1>5, <1>6, <1>7 DEF one, two

(* What the operators of sequences say of these orders.                      *)
LEMMA OrderFacts ==
  ASSUME NEW s \in Orders
  PROVE  /\ "pool" \in Range(s) <=> s # <<>>
         /\ "runner" \in Range(s) <=> s = <<"pool", "runner">>
         /\ Construct("pool", s) = IF s = <<>> THEN <<"pool">> ELSE s
         /\ RunnerAfterPool(s) = <<"pool", "runner">>
         /\ s # <<>> /\ Last(s) = "runner" => Front(s) = <<"pool">>
         /\ s # <<>> /\ Last(s) = "pool" => s = <<"pool">> /\ Front(s) = <<>>
<1>1. Range(<<>>) = {}
  BY DEF Range
<1>2. Range(<<"pool">>) = {"pool"}
  BY DEF Range
<1>3. Range(<<"pool", "runner">>) = {"pool", "runner"}
  <2>1. DOMAIN <<"pool", "runner">> = {1, 2}
    OBVIOUS
  <2>2. <<"pool", "runner">>[1] = "pool" /\ <<"pool", "runner">>[2] = "runner"
    OBVIOUS
  <2> QED BY <2>1, <2>2 DEF Range
<1>4. /\ Append(<<>>, "pool") = <<"pool">>
      /\ Append(<<"pool">>, "runner") = <<"pool", "runner">>
      /\ Front(<<"pool">>) = <<>> /\ Front(<<"pool", "runner">>) = <<"pool">>
      /\ Last(<<"pool">>) = "pool" /\ Last(<<"pool", "runner">>) = "runner"
  <2>1. "pool" \in {"pool", "runner"} /\ "runner" \in {"pool", "runner"}
    OBVIOUS
  <2> QED BY <2>1, ShortSequences
<1>5. <<>> # <<"pool">> /\ <<>> # <<"pool", "runner">> /\ <<"pool">> # <<"pool", "runner">>
  OBVIOUS
<1> USE DEF Orders, Construct, RunnerAfterPool
<1>6. CASE s = <<>>
  BY <1>1, <1>2, <1>4, <1>5, <1>6
<1>7. CASE s = <<"pool">>
  BY <1>2, <1>4, <1>5, <1>7
<1>8. CASE s = <<"pool", "runner">>
  BY <1>3, <1>4, <1>5, <1>8
<1> QED BY <1>6, <1>7, <1>8

(* The steps that leave the scheduler thread and the singletons alone.       *)
Apart == spc' = spc /\ UNCHANGED lifeVars

(* The others are these.                                                     *)
LEMMA ApartOrNot ==
  ASSUME MtNext
  PROVE  \/ Apart \/ SchedulerRuns
         \/ \E a \in Actor : CallPool(a) \/ CallDelayed(a)
         \/ ReturnFromMain \/ DestroyRunner \/ DestroySingleton
<1> USE DEF schedVars, libVars
<1>1. ASSUME NEW a \in Actor, CallRunner(a) PROVE Apart
  BY <1>1 DEF CallRunner, Post, PostStamp, Cancel, WaitUntilIdle, CallShutdown, Apart
<1>2. ASSUME NEW a \in Actor, PendingCount(a) \/ InFlightCount(a) PROVE Apart
  BY <1>2 DEF PendingCount, InFlightCount, vars, Apart
<1>3. ASSUME NEW a \in Actor, PurgePool(a) PROVE Apart
  BY <1>3 DEF PurgePool, Apart
<1>4. ASSUME NEW a \in Actor, RunnerContinues(a) PROVE Apart
  <2>1. CallContinues(a) /\ UNCHANGED lifeVars
    BY <1>4 DEF RunnerContinues, CallContinues, RejectPost, Discard
  <2>2. spc' = spc
    BY <2>1 DEF CallContinues, PostInsert, PostReject, PostNotify, CancelNotify, IdleCheck,
            WaitForInFlight, WaitOn, ShutdownNotify, ShutdownJoin, Joinable, Join,
            JoinThrows, ShutdownTakeAll, ShutdownDiscard, ShutdownCancel
  <2> QED BY <2>1, <2>2 DEF Apart
<1>5. ASSUME NEW i \in DOMAIN waitingJobs, BeginClosure(i) PROVE Apart
  BY <1>5 DEF BeginClosure, Start, Apart
<1>6. ASSUME NEW t \in Tasks, Fulfil(t) PROVE Apart
  BY <1>6 DEF Fulfil, vars, Apart
<1>7. ASSUME NEW t \in Tasks, EndCallback(t) PROVE Apart
  BY <1>7 DEF EndCallback, CallbackReturn, Apart
<1>8. ASSUME NEW t \in Tasks, ClosureRuns(t) PROVE Apart
  BY <1>8 DEF ClosureRuns, Release, CompletionNotify, EndClosure, DestroyClosure, Apart
<1>9. ASSUME Tick \/ \E w \in waiters : SpuriousWake(w), UNCHANGED libVars PROVE Apart
  BY <1>9 DEF Tick, SpuriousWake, Apart
<1> QED BY <1>1, <1>2, <1>3, <1>4, <1>5, <1>6, <1>7, <1>8, <1>9 DEF MtNext

(* No closure moves while none has been handed over and the scheduler thread *)
(* has not run.                                                              *)
LEMMA NoneMoves ==
  ASSUME Core, Closures, MtNext, spc = "top", \A t \in Tasks : pc[t] = "none"
  PROVE  \A t \in Tasks : pc'[t] = "none"
<1>1. CASE Still
  BY <1>1 DEF Still, CallbackPCs
<1>2. ASSUME NEW t \in Tasks, \/ HandOver(t) \/ EndCallback(t) \/ EndClosure(t)
                              \/ Release(t) \/ CompletionNotify(t)
      PROVE  FALSE
  BY <1>2 DEF HandOver, Execute, EndCallback, CallbackReturn, EndClosure, DestroyClosure,
          Release, CompletionNotify, Goto
<1>3. Range(waitingJobs) = {}
  BY WaitingAreTasks DEF Closures
<1>4. ASSUME NEW i \in DOMAIN waitingJobs PROVE FALSE
  BY <1>3 DEF Range
<1>5. ASSUME NEW a \in Actor, PurgePool(a) PROVE pc' = [x \in Actor |-> pc[x]]
  BY <1>3, <1>5 DEF PurgePool
<1>6. CASE \E a \in Actor : PurgePool(a)
  BY <1>5, <1>6 DEF Actor
<1> QED BY <1>1, <1>2, <1>4, <1>6, StillOrMoves DEF ClosureMoves

(* The runner is made after the pool and destroyed before it.                *)
LEMMA LivesStep ==
  ASSUME Core, Closures, Lives, Ending, MtNext
  PROVE  Lives'
<1> USE SchedulerAssumption, MtPoolAssumption DEF Lives, Alive, lifeVars
<1>1. CASE Apart
  BY <1>1, NoneMoves DEF Apart
<1>2. CASE SchedulerRuns
  <2>1. statics = <<"pool", "runner">>
    BY <1>2, OrderFacts DEF SchedulerRuns
  <2>2. statics' = statics
    BY <1>2, <2>1, OrderFacts DEF SchedulerRuns, DropCandidate, HandOver, UsePool, libVars
  <2> QED BY <2>1, <2>2, OrderFacts
<1>3. ASSUME NEW a \in Actor, CallPool(a) PROVE Lives'
  <2>1. /\ statics' = Construct("pool", statics)
        /\ UNCHANGED <<spc, pc>>
    BY <1>3 DEF CallPool, UsePool, vars, schedVars, callVars
  <2>2. statics' = IF statics = <<>> THEN <<"pool">> ELSE statics
    BY <2>1, OrderFacts
  <2>3. statics' \in Orders
    BY <2>2 DEF Orders
  <2>4. "runner" \in Range(statics) => "runner" \in Range(statics')
    BY <2>2, OrderFacts
  <2> QED BY <2>1, <2>3, <2>4
<1>4. ASSUME NEW a \in Actor, CallDelayed(a) PROVE Lives'
  <2>1. statics' = <<"pool", "runner">>
    BY <1>4, OrderFacts DEF CallDelayed
  <2>2. statics' \in Orders
    BY <2>1 DEF Orders
  <2> QED BY <2>1, <2>2, OrderFacts
<1>5. CASE ReturnFromMain
  BY <1>5 DEF ReturnFromMain, vars, schedVars, callVars
<1>6. CASE DestroyRunner
  <2>1. UNCHANGED <<statics, spc>> /\ CallShutdown(Main)
    BY <1>6 DEF DestroyRunner, DestructorShutdown, CallShutdown, schedVars
  <2>2. \A t \in Tasks : pc'[t] = pc[t]
    BY <2>1 DEF CallShutdown, Goto, Core, LifeInv, TypeInv, TypeOK, Actor
  <2> QED BY <2>1, <2>2
<1>7. CASE DestroySingleton
  <2>1. statics' = Front(statics) /\ UNCHANGED <<spc, pc>> /\ statics # <<>>
    BY <1>7 DEF DestroySingleton, Destroyed, Youngest, vars, schedVars, callVars
  <2>2. CASE Destroyed("runner", "~DelayedScheduler")
    <3>1. spc = "exited"
      BY <2>2 DEF Destroyed, Ending, Core, Drain
    <3>2. statics' = <<"pool">>
      BY <2>1, <2>2, OrderFacts DEF Destroyed, Youngest
    <3> QED BY <2>1, <3>1, <3>2 DEF Orders
  <2>3. CASE Destroyed("pool", "yes")
    <3>1. statics = <<"pool">> /\ statics' = <<>>
      BY <2>1, <2>3, OrderFacts DEF Destroyed, Youngest
    <3>2. "runner" \notin Range(statics)
      BY <3>1, OrderFacts
    <3> QED BY <2>1, <3>1, <3>2 DEF Orders
  <2> QED BY <1>7, <2>2, <2>3 DEF DestroySingleton
<1> QED BY <1>1, <1>2, <1>3, <1>4, <1>5, <1>6, <1>7, ApartOrNot

(* Main's steps in the Shutdown of a destructor, once everybody else is done.*)
LEMMA EndingCall ==
  ASSUME Core, Closures, Ending, exiting # "no", RunnerContinues(Main)
  PROVE  Ending'
<1> USE SchedulerAssumption, MtPoolAssumption
        DEF libVars, lifeVars, stopVars, callVars, Goto, Actor, Core, LifeInv, TypeInv,
            TypeOK
<1>1. Main \in Clients /\ exiting' = exiting /\ pc[Main] # "ready"
  BY DEF RunnerContinues, RejectPost, Discard, PostInsert, PostReject, PostNotify,
         CancelNotify, IdleCheck, WaitForInFlight, WaitOn, ShutdownNotify, ShutdownJoin,
         Joinable, Join, JoinThrows, InJoin, ShutdownTakeAll, ShutdownCancel,
         ShutdownDiscard
<1>2. \A b \in Actor \ {Main} : ~InJoin(b)
  BY DEF Ending, InJoin, Closures, ClosurePCs, CallbackPCs
<1>3. \A b \in Clients \ {Main} : pc'[b] = pc[b]
  BY DEF RunnerContinues, RejectPost, Discard, PostInsert, PostReject, PostNotify,
         CancelNotify, IdleCheck, WaitForInFlight, WaitOn, ShutdownNotify, ShutdownJoin,
         Joinable, Join, JoinThrows, ShutdownTakeAll, ShutdownCancel, ShutdownDiscard
<1>4. joined => joined'
  BY DEF RunnerContinues, RejectPost, Discard, PostInsert, PostReject, PostNotify,
         CancelNotify, IdleCheck, WaitForInFlight, WaitOn, ShutdownNotify, ShutdownJoin,
         Joinable, Join, JoinThrows, ShutdownTakeAll, ShutdownCancel, ShutdownDiscard
<1>5. CASE exiting = "~DelayedScheduler"
  BY <1>1, <1>3, <1>4, <1>5 DEF Ending
<1>6. CASE exiting = "~DelayedTaskRunner"
  <2> DEFINE Begun  == pc[Main] \in {"sdNotify", "sdJoin", "reJoin"}
             Inside == InJoin(Main) /\ ~joined
             After  == pc[Main] \in {"ready", "sdTake", "sdCancel", "sdWait", "reWait"}
                         /\ joined
  <2>1. Begun \/ Inside \/ After
    BY <1>6 DEF Ending
  <2>2. ASSUME ShutdownJoin(Main) PROVE (Inside \/ After)'
    <3>1. ~JoinThrows(Main)
      BY <1>2, <2>1 DEF JoinThrows, InJoin
    <3> QED BY <2>1, <2>2, <3>1 DEF ShutdownJoin, Joinable, Join, InJoin
  <2>3. ASSUME \/ ShutdownNotify(Main) \/ WaitForInFlight(Main) \/ ShutdownTakeAll(Main)
               \/ \E t \in Tasks : ShutdownCancel(Main, t)
               \/ ShutdownDiscard(Main)
        PROVE  (Begun \/ After)'
    BY <2>1, <2>3 DEF InJoin, ShutdownNotify, WaitForInFlight, WaitOn, ShutdownTakeAll,
            ShutdownCancel, ShutdownDiscard
  <2>4. ~ (\/ PostInsert(Main) \/ PostReject(Main) \/ PostNotify(Main) \/ CancelNotify(Main)
           \/ IdleCheck(Main))
    BY <2>1 DEF InJoin, PostInsert, PostReject, PostNotify, CancelNotify, IdleCheck, WaitOn
  <2>5. (Begun \/ Inside \/ After)'
    BY <2>2, <2>3, <2>4 DEF RunnerContinues, RejectPost, Discard
  <2> QED BY <1>1, <1>3, <1>6, <2>5 DEF Ending
<1> QED BY <1>1, <1>5, <1>6 DEF Ending

(* After main the library only comes to its end.                             *)
LEMMA EndingStep ==
  ASSUME Core, Closures, Ending, MtNext
  PROVE  Ending'
<1> USE SchedulerAssumption, MtPoolAssumption
        DEF libVars, lifeVars, schedVars, stopVars, callVars, Goto, Actor, Core, LifeInv,
            TypeInv, TypeOK
<1>1. ASSUME exiting = "no", exiting' = "no" PROVE Ending'
  BY <1>1 DEF Ending
<1>2. ASSUME UNCHANGED <<exiting, joined>>, \A a \in Clients : pc'[a] = pc[a] PROVE Ending'
  BY <1>2 DEF Ending, InJoin
<1>3. ASSUME NEW a \in Actor, CallRunner(a) PROVE Ending'
  <2>1. /\ UNCHANGED <<exiting, joined>>
        /\ a \in Clients => exiting = "no"
        /\ \A b \in Actor \ {a} : pc'[b] = pc[b]
    BY <1>3 DEF CallRunner, MayCall, Post, PostStamp, Cancel, WaitUntilIdle, CallShutdown
  <2>2. a \notin Clients => \A b \in Clients : pc'[b] = pc[b]
    BY <2>1
  <2> QED BY <1>1, <1>2, <2>1, <2>2
<1>4. ASSUME NEW a \in Actor,
             \/ CallPool(a) \/ CallDelayed(a) \/ PendingCount(a) \/ InFlightCount(a)
             \/ PurgePool(a)
      PROVE  Ending'
  <2>1. UNCHANGED <<exiting, joined>>
    BY <1>4 DEF CallPool, CallDelayed, PendingCount, InFlightCount, PurgePool, vars
  <2>2. \A b \in Clients : pc'[b] = pc[b]
    BY <1>4, WaitingAreTasks DEF CallPool, CallDelayed, PendingCount, InFlightCount,
         PurgePool, vars
  <2> QED BY <1>2, <2>1, <2>2
<1>5. ASSUME NEW a \in Actor, RunnerContinues(a) PROVE Ending'
  <2>1. exiting' = exiting /\ pc[a] # "ready"
    BY <1>5 DEF RunnerContinues, RejectPost, Discard, PostInsert, PostReject, PostNotify,
            CancelNotify, IdleCheck, WaitForInFlight, WaitOn, ShutdownNotify,
            ShutdownJoin, Joinable, Join, JoinThrows, InJoin, ShutdownTakeAll,
            ShutdownCancel, ShutdownDiscard
  <2>2. CASE a \in Clients
    <3>1. exiting # "no" => a = Main
      BY <2>1, <2>2 DEF Ending
    <3> QED BY <1>1, <1>5, <2>1, <3>1, EndingCall
  <2>3. CASE a \in Tasks
    <3>1. PostInsert(a) \/ RejectPost(a) \/ PostNotify(a) \/ CancelNotify(a)
      BY <1>5, <2>3, OnlyClientsWait DEF RunnerContinues, Discard
    <3>2. joined' = joined /\ \A b \in Clients : pc'[b] = pc[b]
      BY <2>3, <3>1 DEF PostInsert, RejectPost, PostReject, PostNotify, CancelNotify
    <3> QED BY <1>2, <2>1, <3>2
  <2> QED BY <2>2, <2>3
<1>6. ASSUME SchedulerRuns PROVE Ending'
  <2>1. SchedStep /\ exiting' = exiting
    BY <1>6 DEF SchedulerRuns, SchedStep, DropCandidate, HandOver
  <2>2. joined' = joined /\ \A a \in Clients : pc'[a] = pc[a]
    BY <2>1 DEF SchedStep, LoopTop, WaitTimeout, PopBegin, PopCandidate, PopEnd, PopNotify,
            Execute, Relock, Sleep
  <2> QED BY <1>2, <2>1, <2>2
<1>7. ASSUME NEW i \in DOMAIN waitingJobs, BeginClosure(i) PROVE Ending'
  BY <1>2, <1>7, WaitingAreTasks DEF BeginClosure, Start
<1>8. ASSUME NEW t \in Tasks, Fulfil(t) PROVE Ending'
  BY <1>2, <1>8 DEF Fulfil, vars
<1>9. ASSUME NEW t \in Tasks, EndCallback(t) \/ ClosureRuns(t) PROVE Ending'
  BY <1>2, <1>9 DEF EndCallback, CallbackReturn, ClosureRuns, Release, CompletionNotify,
          EndClosure, DestroyClosure
<1>10. CASE ReturnFromMain
  BY <1>10 DEF ReturnFromMain, vars, Ending
<1>11. CASE DestroyRunner
  <2>1. CallShutdown(Main) /\ joined' = joined /\ pc[Main] = "ready"
    BY <1>11 DEF DestroyRunner, DestructorShutdown, CallShutdown
  <2>2. pc'[Main] \in {"sdNotify", "reJoin"} /\ \A b \in Clients \ {Main} : pc'[b] = pc[b]
    BY <2>1 DEF CallShutdown
  <2>3. \/ exiting = "yes" /\ exiting' = "~DelayedTaskRunner"
        \/ exiting = "~DelayedTaskRunner" /\ exiting' = "~DelayedScheduler"
    BY <1>11 DEF DestroyRunner, DestructorShutdown
  <2> QED BY <2>1, <2>2, <2>3 DEF Ending, InJoin
<1>12. CASE DestroySingleton
  BY <1>12 DEF DestroySingleton, Destroyed, vars, Ending
<1>13. CASE (Tick \/ \E w \in waiters : SpuriousWake(w)) /\ UNCHANGED libVars
  BY <1>2, <1>13 DEF Tick, SpuriousWake
<1> HIDE DEF libVars, lifeVars, schedVars, stopVars, callVars, Goto, Actor, Core, LifeInv,
             TypeInv, TypeOK
<1> QED
  BY <1>3, <1>4, <1>5, <1>6, <1>7, <1>8, <1>9, <1>10, <1>11, <1>12, <1>13 DEF MtNext

(* The singletons live and end in this order in every behaviour.             *)
LEMMA LivesInvariant == MtSpec => [](Core /\ Closures /\ Lives /\ Ending)
<1>1. MtInit => Lives /\ Ending
  <2> SUFFICES ASSUME MtInit PROVE Lives /\ Ending
    OBVIOUS
  <2>1. statics = <<>> /\ exiting = "no" /\ spc = "top"
    BY DEF MtInit, Init
  <2>2. \A t \in Tasks : pc[t] = "none"
    BY SchedulerAssumption DEF MtInit, Init, Actor
  <2> QED BY <2>1, <2>2 DEF Lives, Ending, Orders
<1>2. Core /\ Closures /\ Lives /\ Ending /\ [MtNext]_<<vars, libVars>>
        => Lives' /\ Ending'
  <2>1. ASSUME Lives, Ending, UNCHANGED <<vars, libVars>> PROVE Lives' /\ Ending'
    BY <2>1 DEF Lives, Ending, Alive, InJoin, vars, libVars, lifeVars, schedVars, callVars,
            stopVars
  <2> QED BY <2>1, LivesStep, EndingStep
<1> QED BY <1>1, <1>2, LibraryInvariance, PTL DEF MtSpec

(* The pool is destroyed only after the scheduler thread has exited with     *)
(* nothing left to hand over, whichever singleton was asked for first.       *)
THEOREM PoolIsDestroyedLast == MtSpec => []PoolOutlivesRunner
<1>1. ASSUME Core, Closures, Lives PROVE PoolOutlivesRunner
  <2> SUFFICES ASSUME ended # {}, ~Alive("pool")
               PROVE  spc = "exited" /\ due = {} /\ ~Alive("runner")
    BY DEF PoolOutlivesRunner
  <2>1. ~Alive("runner")
    BY <1>1, OrderFacts DEF Lives, Alive
  <2>2. \E t \in Tasks : pc[t] # "none"
    BY <1>1 DEF Closures
  <2>3. spc = "exited"
    BY <1>1, <2>1, <2>2 DEF Lives
  <2>4. due = {}
    BY <1>1, <2>3 DEF Core, Counts, DueHome
  <2> QED BY <2>1, <2>3, <2>4
<1> QED BY <1>1, LivesInvariant, PTL

=============================================================================
