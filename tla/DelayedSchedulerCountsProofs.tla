-------------------- MODULE DelayedSchedulerCountsProofs --------------------
(***************************************************************************)
(* The two counters of DelayedScheduler, activeCount and inFlight, and       *)
(* what WaitUntilIdle and Shutdown conclude from them.  Builds on the life   *)
(* cycle of a task proved in DelayedSchedulerProofs.                         *)
(***************************************************************************)
EXTENDS DelayedSchedulerProofs, FiniteSetTheorems

(* PopDueRunnable starts with an empty vector: the thread has handed the     *)
(* last one over before it sleeps, exits or pops again.                      *)
DueHome == spc \in {"top", "pop", "sleep", "exited"} => due = {}

Counts == DueHome /\ InFlightExact /\ ActiveExact

(* Nothing is queued or claimed at first, and both counters are zero.        *)
LEMMA CountsInit == Init => Counts
<1> SUFFICES ASSUME Init PROVE Counts
  OBVIOUS
<1> USE QueueAssumption, SchedulerAssumption DEF Init, QueueInit
<1>1. Claimed \ Uncounted = {} /\ queue = {} /\ due = {}
  BY DEF Claimed, Uncounted, Actor
<1> QED
  BY <1>1, FS_EmptySet DEF Counts, DueHome, InFlightExact, ActiveExact

(* The sets that are counted are finite.                                     *)
LEMMA CountedFinite ==
  ASSUME TypeInv
  PROVE  /\ IsFiniteSet(queue) /\ IsFiniteSet(due) /\ IsFiniteSet(Claimed)
         /\ IsFiniteSet(Claimed \ Uncounted)
<1>1. queue \in SUBSET Tasks /\ due \in SUBSET Tasks /\ Claimed \in SUBSET Tasks
  BY DEF TypeInv, TypeOK, Claimed
<1>2. IsFiniteSet(queue) /\ IsFiniteSet(due) /\ IsFiniteSet(Claimed)
  BY <1>1, FS_Subset, QueueAssumption
<1> QED BY <1>2, FS_Difference

(* One entry more, or one less, in a set and in its counter.                 *)
LEMMA CountOneMore ==
  ASSUME NEW S, IsFiniteSet(S), NEW x, x \notin S
  PROVE  Cardinality(S \cup {x}) = Cardinality(S) + 1
  BY FS_AddElement

(* and one element less.                                                     *)
LEMMA CountOneLess ==
  ASSUME NEW S, IsFiniteSet(S), NEW x \in S
  PROVE  Cardinality(S \ {x}) = Cardinality(S) - 1
  BY FS_RemoveElement

(* The tasks of the vector are among the claimed ones.                       *)
LEMMA DueClaimed ==
  ASSUME LifeInv
  PROVE  due \subseteq Claimed
  BY DEF LifeInv, LifeCycle, TypeInv, TypeOK, Claimed

-----------------------------------------------------------------------------
(* What the counters count is changed by the insertion, the pop, its end,    *)
(* the release of a token and the drain of Shutdown, each with its counter.  *)
LEMMA CountInsert ==
  ASSUME LifeInv, Counts, NEW a \in Actor, PostInsert(a)
  PROVE  Counts'
<1> USE QueueAssumption, SchedulerAssumption
        DEF LifeInv, TypeInv, TypeOK, PostArgs, Posting, LifeCycle
<1>1. /\ pc[a] = "post" /\ arg[a] \in Tasks /\ stage[arg[a]] = "none"
      /\ pc' = [pc EXCEPT ![a] = "postNotify"]
      /\ stage' = [stage EXCEPT ![arg[a]] = "kPending"]
  BY DEF PostInsert, Goto
<1>2. UNCHANGED <<due, spc, inFlight>>
  BY DEF PostInsert, scanVars, schedVars
<1>3. Claimed' = Claimed
  BY <1>1 DEF Claimed, Actor
<1>4. arg[a] \notin queue /\ queue' = queue \cup {arg[a]} /\ activeCount' = activeCount + 1
  BY <1>1 DEF PostInsert, Insert
<1>5. ActiveExact'
  BY <1>4, CountedFinite, CountOneMore DEF Counts, ActiveExact
<1> QED
  BY <1>2, <1>3, <1>5 DEF Counts, DueHome, InFlightExact, Uncounted

(* Shutdown takes the whole queue and resets its counter.                    *)
LEMMA CountDrain ==
  ASSUME LifeInv, Counts, NEW a \in Actor, ShutdownTakeAll(a)
  PROVE  Counts'
<1>1. /\ queue' = {} /\ activeCount' = 0
      /\ UNCHANGED <<due, spc, stage, inFlight>>
  BY DEF ShutdownTakeAll, TakeAll, scanVars, schedVars
<1>2. pc[a] = "sdTake" /\ pc' = [pc EXCEPT ![a] = "sdCancel"]
  BY DEF ShutdownTakeAll, Goto
<1>3. Claimed' = Claimed
  BY <1>1, <1>2, SchedulerAssumption
  DEF Claimed, Actor, LifeInv, TypeInv, TypeOK
<1> QED
  BY <1>1, <1>3, FS_EmptySet
  DEF Counts, DueHome, InFlightExact, ActiveExact, Uncounted

(* A candidate that leaves the queue is counted out of it; the one that is   *)
(* claimed enters the vector, which is not counted before the loop is over.  *)
LEMMA CountCandidate ==
  ASSUME LifeInv, Counts, NEW t \in Tasks, PopCandidate(t)
  PROVE  Counts'
<1> USE QueueAssumption DEF LifeInv, TypeInv, TypeOK, Scan
<1>1. spc = "scan" /\ spc' \in {"scan", "relockSelf"} /\ UNCHANGED <<pc, inFlight>>
  BY DEF PopCandidate, Destroy, callVars
<1>2. \/ UNCHANGED queueVars
      \/ t \in queue /\ Erase(t)
  BY DEF PopCandidate, PopCancelled, PopNotDue, PopBlocked, PopRunnable, PopClaim,
         PopLostRace, Candidate, First, queueVars
<1>3. \/ UNCHANGED <<stage, due>>
      \/ /\ due' = due \cup {t} /\ stage[t] = "kPending"
         /\ stage' = [stage EXCEPT ![t] = "kDispatched"]
  BY DEF PopCandidate, PopCancelled, PopNotDue, PopBlocked, PopRunnable, PopClaim,
         PopLostRace, TryDispatch
<1>4. (Claimed \ Uncounted)' = Claimed \ Uncounted
  <2>1. CASE UNCHANGED <<stage, due>>
    BY <1>1, <2>1 DEF Claimed, Uncounted
  <2>2. CASE /\ due' = due \cup {t} /\ stage[t] = "kPending"
             /\ stage' = [stage EXCEPT ![t] = "kDispatched"]
    <3>1. pc[t] # "release"
      BY <2>2 DEF LifeCycle, Executed
    <3>2. t \notin Claimed /\ Claimed' = Claimed \cup {t}
      BY <1>1, <2>2, <3>1 DEF Claimed
    <3>3. Uncounted = due /\ Uncounted' = due \cup {t}
      BY <1>1, <2>2 DEF Uncounted
    <3> QED BY <3>2, <3>3
  <2> QED BY <1>3, <2>1, <2>2
<1>5. InFlightExact'
  BY <1>1, <1>4 DEF Counts, InFlightExact
<1>6. ActiveExact'
  BY <1>2, CountedFinite, CountOneLess DEF Counts, ActiveExact, queueVars, Erase
<1> QED BY <1>1, <1>5, <1>6 DEF Counts, DueHome

(* The end of the loop counts the whole vector at once.                      *)
LEMMA CountEnd ==
  ASSUME LifeInv, Counts, PopEnd
  PROVE  Counts'
<1>1. /\ spc = "scan" /\ spc' = "popNotify"
      /\ inFlight' = inFlight + Cardinality(due)
      /\ UNCHANGED <<stage, pc, queue, activeCount>>
  BY DEF PopEnd, callVars, dataVars, queueVars
<1>2. Claimed' = Claimed /\ Uncounted = due /\ Uncounted' = {}
  BY <1>1 DEF Claimed, Uncounted
<1>3. Cardinality(Claimed \ due) = Cardinality(Claimed) - Cardinality(due)
  <2>1. Claimed \cap due = due
    BY DueClaimed
  <2> QED BY <2>1, CountedFinite, FS_Difference DEF LifeInv
<1>4. Cardinality(Claimed) \in Nat /\ Cardinality(due) \in Nat
  BY CountedFinite, FS_CardinalityType DEF LifeInv
<1>5. inFlight' = Cardinality(Claimed)
  BY <1>1, <1>2, <1>3, <1>4 DEF Counts, InFlightExact
<1> QED
  BY <1>1, <1>2, <1>5 DEF Counts, DueHome, InFlightExact, ActiveExact

(* The release of a token is counted in the same critical section.           *)
LEMMA CountRelease ==
  ASSUME LifeInv, Counts, NEW t \in Tasks, Release(t)
  PROVE  Counts'
<1> USE QueueAssumption DEF LifeInv, TypeInv, TypeOK
<1>1. /\ MutexFree /\ pc[t] = "release" /\ pc' = [pc EXCEPT ![t] = "notify"]
      /\ inFlight' = inFlight - 1
      /\ UNCHANGED <<stage, queue, activeCount, due, spc>>
  BY DEF Release, Goto, queueVars, scanVars, schedVars
<1>2. stage[t] = "kFinished" /\ Uncounted = {} /\ Uncounted' = {}
  BY <1>1 DEF LifeCycle, Executed, Uncounted, MutexFree
<1>3. t \in Claimed /\ Claimed' = Claimed \ {t}
  BY <1>1, <1>2 DEF Claimed, Actor
<1>4. inFlight' = Cardinality(Claimed \ {t})
  BY <1>1, <1>2, <1>3, CountedFinite, CountOneLess DEF Counts, InFlightExact
<1> QED
  BY <1>1, <1>2, <1>3, <1>4 DEF Counts, DueHome, InFlightExact, ActiveExact

(* Every other step leaves the counted sets as they are: it does not touch   *)
(* the vector while this is being filled, or the vector is empty.            *)
LEMMA CountsStep ==
  ASSUME LifeInv, Counts, [Next]_vars
  PROVE  Counts'
<1> USE QueueAssumption, SchedulerAssumption
        DEF taskVars, queueVars, scanVars, timeVars, schedVars, callVars, stopVars,
            dataVars, LifeInv, TypeInv, TypeOK, PostArgs, Posting, Goto, Claimed, Actor
<1> DEFINE Quiet == /\ UNCHANGED <<queueVars, inFlight, due>> /\ Claimed' = Claimed
                    /\ \/ due = {} \/ UNCHANGED spc
                       \/ spc = "popNotify" /\ spc' = "exec"
<1>1. ASSUME Tick PROVE Quiet
  BY <1>1 DEF Tick
<1>2. ASSUME NEW a \in Actor, NEW t \in Tasks, NEW d \in Delays, PostStamp(a, t, d) PROVE Quiet
  BY <1>2 DEF PostStamp
<1>3. ASSUME NEW a \in Actor, PostInsert(a) PROVE Counts'
  BY <1>3, CountInsert
<1>4. ASSUME NEW a \in Actor, PostReject(a) PROVE Quiet
  BY <1>4 DEF PostReject, LifeCycle, Executing, CallPCs
<1>5. ASSUME NEW a \in Actor, PostNotify(a) PROVE Quiet
  BY <1>5 DEF PostNotify
<1>6. ASSUME NEW a \in Actor, NEW t \in Tasks, Cancel(a, t) PROVE Quiet
  BY <1>6 DEF Cancel, TryCancel
<1>7. ASSUME NEW a \in Actor, CancelNotify(a) PROVE Quiet
  BY <1>7 DEF CancelNotify
<1>8. ASSUME NEW a \in Actor, WaitUntilIdle(a) PROVE Quiet
  BY <1>8 DEF WaitUntilIdle
<1>9. ASSUME NEW a \in Actor, IdleCheck(a) \/ WaitForInFlight(a) PROVE Quiet
  BY <1>9 DEF IdleCheck, WaitForInFlight, WaitOn
<1>10. ASSUME NEW a \in Actor, CallShutdown(a) PROVE Quiet
  BY <1>10 DEF CallShutdown
<1>11. ASSUME NEW a \in Actor, ShutdownNotify(a) PROVE Quiet
  BY <1>11 DEF ShutdownNotify
<1>12. ASSUME NEW a \in Actor, ShutdownJoin(a) PROVE Quiet
  <2>1. /\ pc[a] # "release" /\ UNCHANGED <<stage, due, spc, queueVars, inFlight>>
        /\ \E to \in CallPCs : pc' = [pc EXCEPT ![a] = to]
    BY <1>12 DEF ShutdownJoin, Joinable, Join, JoinThrows, InJoin, CallPCs
  <2> QED BY <2>1 DEF CallPCs
<1>13. ASSUME NEW a \in Actor, ShutdownTakeAll(a) PROVE Counts'
  BY <1>13, CountDrain
<1>14. ASSUME NEW a \in Actor, NEW t \in Tasks, ShutdownCancel(a, t) PROVE Quiet
  BY <1>14 DEF ShutdownCancel, TryCancel
<1>15. ASSUME NEW a \in Actor, ShutdownDiscard(a) PROVE Quiet
  BY <1>15 DEF ShutdownDiscard
<1>16. ASSUME LoopTop PROVE Quiet
  BY <1>16 DEF LoopTop, Counts, DueHome
<1>17. ASSUME WaitTimeout PROVE Quiet
  BY <1>17 DEF WaitTimeout
<1>18. ASSUME PopBegin PROVE Quiet
  BY <1>18 DEF PopBegin, PopStart, Counts, DueHome
<1>19. ASSUME NEW t \in Tasks, PopCandidate(t) PROVE Counts'
  BY <1>19, CountCandidate
<1>20. ASSUME PopEnd PROVE Counts'
  BY <1>20, CountEnd
<1>21. ASSUME PopNotify PROVE Quiet
  BY <1>21 DEF PopNotify
<1>22. ASSUME NEW t \in Tasks, Execute(t) PROVE Counts'
  <2>1. due' \subseteq due /\ spc = "exec" /\ UNCHANGED <<spc, queueVars, inFlight>>
    BY <1>22 DEF Execute
  <2>2. Claimed' = Claimed
    BY <1>22 DEF Execute, LifeCycle, Executing, CallPCs
  <2> QED
    BY <2>1, <2>2 DEF Counts, DueHome, InFlightExact, ActiveExact, Uncounted
<1>23. ASSUME Relock PROVE Quiet
  BY <1>23 DEF Relock
<1>24. ASSUME Sleep PROVE Quiet
  BY <1>24 DEF Sleep, Counts, DueHome
<1>25. ASSUME NEW t \in Tasks, Start(t) PROVE Quiet
  BY <1>25 DEF Start, LifeCycle, Executing, CallPCs
<1>26. ASSUME NEW t \in Tasks, CallbackReturn(t) PROVE Quiet
  BY <1>26 DEF CallbackReturn, MarkFinished, LifeCycle, Executing, CallPCs
<1>27. ASSUME NEW t \in Tasks, Release(t) PROVE Counts'
  BY <1>27, CountRelease
<1>28. ASSUME NEW t \in Tasks, CompletionNotify(t) PROVE Quiet
  BY <1>28 DEF CompletionNotify
<1>29. ASSUME NEW t \in Tasks, DestroyClosure(t) PROVE Quiet
  BY <1>29 DEF DestroyClosure
<1>30. ASSUME NEW w \in waiters, SpuriousWake(w) PROVE Quiet
  BY <1>30 DEF SpuriousWake
<1>31. ASSUME UNCHANGED vars PROVE Quiet
  BY <1>31 DEF vars
<1> HIDE DEF LifeInv, TypeInv, TypeOK, PostArgs, Posting, Goto, Claimed, Actor
<1>32. Quiet => Counts'
  BY DEF Counts, DueHome, InFlightExact, ActiveExact, Uncounted
<1> HIDE DEF Quiet
<1>33. ASSUME Next PROVE Quiet \/ Counts'
  BY <1>1, <1>2, <1>3, <1>4, <1>5, <1>6, <1>7, <1>8, <1>9, <1>10, <1>11,
     <1>12, <1>13, <1>14, <1>15, <1>16, <1>17, <1>18, <1>19, <1>20,
     <1>21, <1>22, <1>23, <1>24, <1>25, <1>26, <1>27, <1>28, <1>29,
     <1>30, <1>33
  DEF Next, CallStarts, CallContinues, SchedStep, WorkerStep
<1> QED BY <1>31, <1>32, <1>33

(* The counters are exact in every reachable state.                          *)
LEMMA CountsInvariant == Spec => [](IInv /\ Counts)
<1>1. Init => Counts
  BY CountsInit
<1>2. IInv /\ Counts /\ [Next]_vars => Counts'
  BY CountsStep DEF IInv
<1> QED BY <1>1, <1>2, Invariance, PTL DEF Spec

(* in_flight_ counts the tasks that have been dispatched and have not given  *)
(* their token back, except those the current pop has yet to return, and     *)
(* active_count_ is the size of the queue.                                   *)
THEOREM CountersAreExact == Spec => []CountersExact
<1>1. Counts => CountersExact
  BY DEF Counts, CountersExact
<1> QED BY <1>1, CountsInvariant, PTL

(* Where nobody holds mutex_ across steps, the two counters at zero mean     *)
(* that nothing is queued and nothing dispatched is unfinished.              *)
LEMMA ZeroMeansEmpty ==
  ASSUME LifeInv, Counts, MutexFree
  PROVE  /\ inFlight = 0 => Claimed = {}
         /\ activeCount = 0 => queue = {}
<1>1. Uncounted = {}
  BY DEF Uncounted, MutexFree
<1> QED
  BY <1>1, CountedFinite, FS_EmptySet
  DEF LifeInv, Counts, InFlightExact, ActiveExact

(* A thread leaves the wait it is in only by testing its predicate.          *)
LEMMA WaitEnds ==
  ASSUME TypeInv, [Next]_vars, NEW a \in Actor,
         pc[a] \in {"idleWait", "sdWait", "reWait"}, pc'[a] # pc[a]
  PROVE  IdleCheck(a) \/ WaitForInFlight(a)
<1> USE SchedulerAssumption
        DEF TypeInv, TypeOK, Goto, callVars, Actor
<1> DEFINE Moves(b) == pc[b] \notin {"idleWait", "sdWait", "reWait"} /\ \A c \in Actor \ {b} : pc'[c] = pc[c]
<1>1. ASSUME NEW b \in Actor, CallStarts(b) PROVE Moves(b)
  BY <1>1 DEF CallStarts, PostStamp, Cancel, WaitUntilIdle, CallShutdown
<1>2. ASSUME NEW b \in Actor, \/ PostInsert(b) \/ PostReject(b) \/ PostNotify(b)
                              \/ CancelNotify(b) \/ ShutdownNotify(b)
                              \/ ShutdownTakeAll(b) \/ ShutdownDiscard(b)
      PROVE  Moves(b)
  BY <1>2 DEF PostInsert, PostReject, PostNotify, CancelNotify, ShutdownNotify,
              ShutdownTakeAll, ShutdownDiscard
<1>3. ASSUME NEW b \in Actor, ShutdownJoin(b) PROVE Moves(b)
  BY <1>3 DEF ShutdownJoin, Joinable, Join, JoinThrows, InJoin
<1>4. ASSUME NEW b \in Actor, NEW t \in Tasks, ShutdownCancel(b, t) PROVE pc' = pc
  BY <1>4 DEF ShutdownCancel
<1>5. ASSUME NEW b \in Actor, IdleCheck(b) \/ WaitForInFlight(b)
      PROVE  \A c \in Actor \ {b} : pc'[c] = pc[c]
  BY <1>5 DEF IdleCheck, WaitForInFlight, WaitOn
<1>6. ASSUME NEW t \in Tasks, Execute(t) \/ WorkerStep(t) PROVE Moves(t)
  BY <1>6 DEF Execute, WorkerStep, Start, CallbackReturn, Release, CompletionNotify,
              DestroyClosure
<1>7. ASSUME \/ Tick \/ LoopTop \/ WaitTimeout \/ PopBegin \/ PopEnd \/ PopNotify
             \/ Relock \/ Sleep \/ \E t \in Tasks : PopCandidate(t)
             \/ \E w \in waiters : SpuriousWake(w)
      PROVE  pc' = pc
  BY <1>7 DEF Tick, LoopTop, WaitTimeout, PopBegin, PopEnd, PopNotify, Relock, Sleep,
              PopCandidate, SpuriousWake
<1>8. Next
  BY DEF vars
<1>9. ASSUME NEW b \in Actor, Moves(b) PROVE FALSE
  BY <1>9
<1>10. \A t \in Tasks : t \in Actor
  OBVIOUS
<1> HIDE DEF Moves, TypeInv, TypeOK, Goto, callVars, Actor
<1>11. ASSUME NEW b \in Actor, CallContinues(b) PROVE IdleCheck(a) \/ WaitForInFlight(a)
  <2>1. CASE IdleCheck(b) \/ WaitForInFlight(b)
    BY <2>1, <1>5
  <2>2. CASE \E t \in Tasks : ShutdownCancel(b, t)
    BY <2>2, <1>4
  <2> QED BY <1>2, <1>3, <1>9, <1>11, <2>1, <2>2 DEF CallContinues
<1> QED
  BY <1>1, <1>6, <1>7, <1>8, <1>9, <1>10, <1>11 DEF Next, SchedStep

(* WaitUntilIdle returns only when the queue is empty and nothing that was   *)
(* dispatched is unfinished, also while a pop is going on.                   *)
THEOREM IdleIsIdle == Spec => IdleMeansIdle
<1>1. ASSUME IInv, Counts, [Next]_vars, NEW a \in Actor,
             pc[a] = "idleWait", pc'[a] = "ready"
      PROVE  queue = {} /\ Claimed = {}
  <2>1. IdleCheck(a) \/ WaitForInFlight(a)
    BY <1>1, WaitEnds DEF IInv, LifeInv
  <2>2. MutexFree /\ Idle
    BY <1>1, <2>1 DEF IdleCheck, WaitForInFlight, WaitOn
  <2> QED BY <1>1, <2>2, ZeroMeansEmpty DEF IInv, Idle
<1>2. IInv /\ Counts /\ [Next]_vars
        => [\A a \in Actor : pc[a] = "idleWait" /\ pc'[a] = "ready"
              => queue = {} /\ Claimed = {}]_vars
  BY <1>1
<1> QED BY <1>2, CountsInvariant, PTL DEF Spec, IdleMeansIdle

-----------------------------------------------------------------------------
(* Shutdown.  The pcs of the caller whose CAS of stop_ succeeded:            *)
Stopping == {"sdNotify", "sdJoin", "sdJoining", "sdTake", "sdCancel", "sdWait"}

(* There is one such caller at most.  It takes the queue only after the      *)
(* scheduler thread is gone, keeps what it took until none of it can be      *)
(* dispatched, and nothing is inserted afterwards.                           *)
Drain ==
  /\ \A a, b \in Actor : pc[a] \in Stopping /\ pc[b] \in Stopping => a = b
  /\ \A a \in Actor : pc[a] \in Stopping => stop
  /\ joined => spc = "exited"
  /\ \A a \in Actor :
       pc[a] \in {"sdTake", "sdCancel", "sdWait", "reWait"} => spc = "exited"
  /\ \A a \in Actor : pc[a] \in {"sdCancel", "sdWait"} => queue = {}
  /\ \A a \in Actor : pc[a] \in Stopping \ {"sdCancel"} => discarded = {}
  /\ discarded # {} => stop /\ spc = "exited"
  /\ \A t \in Tasks : stage[t] = "kPending" => t \in queue \cup discarded

(* At first nobody has called Shutdown.                                      *)
LEMMA DrainInit == Init => Drain
<1> SUFFICES ASSUME Init PROVE Drain
  OBVIOUS
<1> USE QueueAssumption, SchedulerAssumption DEF Init, QueueInit
<1>1. \A a \in Actor : pc[a] \notin Stopping
  BY DEF Stopping, Actor
<1> QED BY <1>1 DEF Drain, Stopping

(* Each step of each thread keeps this order.                                *)
LEMMA DrainStep ==
  ASSUME LifeInv, Drain, [Next]_vars
  PROVE  Drain'
<1> USE QueueAssumption, SchedulerAssumption
        DEF taskVars, queueVars, scanVars, timeVars, schedVars, callVars, stopVars,
            dataVars, LifeInv, TypeInv, TypeOK, PostArgs, Posting, Goto, Actor,
            Drain, Stopping
<1>1. ASSUME Tick PROVE Drain'
  BY <1>1 DEF Tick
<1>2. ASSUME NEW a \in Actor, NEW t \in Tasks, NEW d \in Delays, PostStamp(a, t, d) PROVE Drain'
  BY <1>2 DEF PostStamp
<1>3. ASSUME NEW a \in Actor, PostInsert(a) PROVE Drain'
  BY <1>3 DEF PostInsert, Insert
<1>4. ASSUME NEW a \in Actor, PostReject(a) PROVE Drain'
  BY <1>4 DEF PostReject
<1>5. ASSUME NEW a \in Actor, PostNotify(a) PROVE Drain'
  BY <1>5 DEF PostNotify
<1>6. ASSUME NEW a \in Actor, NEW t \in Tasks, Cancel(a, t) PROVE Drain'
  BY <1>6 DEF Cancel, TryCancel
<1>7. ASSUME NEW a \in Actor, CancelNotify(a) PROVE Drain'
  BY <1>7 DEF CancelNotify
<1>8. ASSUME NEW a \in Actor, WaitUntilIdle(a) PROVE Drain'
  BY <1>8 DEF WaitUntilIdle
<1>9. ASSUME NEW a \in Actor, IdleCheck(a) \/ WaitForInFlight(a) PROVE Drain'
  BY <1>9 DEF IdleCheck, WaitForInFlight, WaitOn
<1>10. ASSUME NEW a \in Actor, CallShutdown(a) PROVE Drain'
  BY <1>10 DEF CallShutdown
<1>11. ASSUME NEW a \in Actor, ShutdownNotify(a) PROVE Drain'
  BY <1>11 DEF ShutdownNotify
<1>12. ASSUME NEW a \in Actor, ShutdownJoin(a) PROVE Drain'
  BY <1>12 DEF ShutdownJoin, Joinable, Join, JoinThrows, InJoin
<1>13. ASSUME NEW a \in Actor, ShutdownTakeAll(a) PROVE Drain'
  BY <1>13 DEF ShutdownTakeAll, TakeAll
<1>14. ASSUME NEW a \in Actor, NEW t \in Tasks, ShutdownCancel(a, t) PROVE Drain'
  BY <1>14 DEF ShutdownCancel, TryCancel
<1>15. ASSUME NEW a \in Actor, ShutdownDiscard(a) PROVE Drain'
  BY <1>15 DEF ShutdownDiscard
<1>16. ASSUME LoopTop PROVE Drain'
  BY <1>16 DEF LoopTop
<1>17. ASSUME WaitTimeout PROVE Drain'
  BY <1>17 DEF WaitTimeout
<1>18. ASSUME PopBegin PROVE Drain'
  BY <1>18 DEF PopBegin, PopStart
<1>19. ASSUME NEW t \in Tasks, PopCandidate(t) PROVE Drain'
  <2>1. UNCHANGED <<pc, stop, joined, discarded>> /\ spc = "scan"
    BY <1>19 DEF PopCandidate
  <2>2. /\ queue' \subseteq queue
        /\ \A u \in Tasks : stage'[u] = "kPending" => stage[u] = "kPending" /\ (u \in queue => u \in queue')
    BY <1>19 DEF PopCandidate, PopCancelled, PopNotDue, PopBlocked, PopRunnable, PopClaim,
         PopLostRace, TryDispatch, Erase, IsCancelled
  <2> QED BY <2>1, <2>2
<1>20. ASSUME PopEnd PROVE Drain'
  BY <1>20 DEF PopEnd
<1>21. ASSUME PopNotify PROVE Drain'
  BY <1>21 DEF PopNotify
<1>22. ASSUME NEW t \in Tasks, Execute(t) PROVE Drain'
  BY <1>22 DEF Execute
<1>23. ASSUME Relock PROVE Drain'
  BY <1>23 DEF Relock
<1>24. ASSUME Sleep PROVE Drain'
  BY <1>24 DEF Sleep
<1>25. ASSUME NEW t \in Tasks, Start(t) PROVE Drain'
  BY <1>25 DEF Start
<1>26. ASSUME NEW t \in Tasks, CallbackReturn(t) PROVE Drain'
  BY <1>26 DEF CallbackReturn, MarkFinished
<1>27. ASSUME NEW t \in Tasks, Release(t) PROVE Drain'
  BY <1>27 DEF Release
<1>28. ASSUME NEW t \in Tasks, CompletionNotify(t) PROVE Drain'
  BY <1>28 DEF CompletionNotify
<1>29. ASSUME NEW t \in Tasks, DestroyClosure(t) PROVE Drain'
  BY <1>29 DEF DestroyClosure
<1>30. ASSUME NEW w \in waiters, SpuriousWake(w) PROVE Drain'
  BY <1>30 DEF SpuriousWake
<1>31. ASSUME UNCHANGED vars PROVE Drain'
  BY <1>31 DEF vars
<1> HIDE DEF LifeInv, TypeInv, TypeOK, PostArgs, Posting, Goto, Actor, Drain, Stopping
<1>32. ASSUME Next PROVE Drain'
  BY <1>1, <1>2, <1>3, <1>4, <1>5, <1>6, <1>7, <1>8, <1>9, <1>10, <1>11,
     <1>12, <1>13, <1>14, <1>15, <1>16, <1>17, <1>18, <1>19, <1>20,
     <1>21, <1>22, <1>23, <1>24, <1>25, <1>26, <1>27, <1>28, <1>29,
     <1>30, <1>32
  DEF Next, CallStarts, CallContinues, SchedStep, WorkerStep
<1> QED BY <1>31, <1>32

(* The drain invariant, with those it is used with, in every state.          *)
LEMMA DrainInvariant == Spec => [](IInv /\ Counts /\ Drain)
<1>1. Init => Drain
  BY DrainInit
<1>2. IInv /\ Drain /\ [Next]_vars => Drain'
  BY DrainStep DEF IInv
<1> QED BY <1>1, <1>2, Invariance, CountsInvariant, PTL DEF Spec

(* When the Shutdown that stopped the scheduler returns, the thread is gone, *)
(* nothing queued or popped is left, and each task that was ever published   *)
(* is cancelled or has finished.                                             *)
THEOREM ShutdownIsDrained == Spec => ShutdownDrains
<1> DEFINE Drained ==
      /\ spc = "exited" /\ queue = {} /\ due = {}
      /\ \A t \in Tasks : stage[t] \in {"none", "kCancelled", "kFinished"}
<1>1. ASSUME IInv, Counts, Drain, [Next]_vars, NEW a \in Actor,
             pc[a] = "sdWait", pc'[a] = "ready"
      PROVE  Drained
  <2>1. IdleCheck(a) \/ WaitForInFlight(a)
    BY <1>1, WaitEnds DEF IInv, LifeInv
  <2>2. MutexFree /\ inFlight = 0
    BY <1>1, <2>1 DEF IdleCheck, WaitForInFlight, WaitOn
  <2>3. spc = "exited" /\ queue = {} /\ discarded = {}
    BY <1>1 DEF Drain, Stopping
  <2>4. due = {} /\ Claimed = {}
    BY <1>1, <2>2, <2>3, ZeroMeansEmpty DEF IInv, Counts, DueHome
  <2>5. \A t \in Tasks : stage[t] \notin {"kPending", "kDispatched"}
    BY <1>1, <2>3, <2>4 DEF Drain, Claimed
  <2> QED
    BY <1>1, <2>3, <2>4, <2>5 DEF IInv, LifeInv, TypeInv, TypeOK, Stages
<1>2. IInv /\ Counts /\ Drain /\ [Next]_vars
        => [\A a \in Actor : pc[a] = "sdWait" /\ pc'[a] = "ready" => Drained]_vars
  BY <1>1
<1> QED BY <1>2, DrainInvariant, PTL DEF Spec, ShutdownDrains

(* No Shutdown, the first or a later one, comes to its end while a callback  *)
(* runs or can still be started.                                             *)
THEOREM ShutdownIsFinal == Spec => NothingRunsAfterShutdown
<1> DEFINE Silent == spc = "exited" /\ due = {} /\ Claimed = {}
<1>1. ASSUME IInv, Counts, Drain, [Next]_vars, NEW a \in Actor,
             pc[a] \in {"sdWait", "reWait"}, pc'[a] = "ready"
      PROVE  Silent
  <2>1. IdleCheck(a) \/ WaitForInFlight(a)
    BY <1>1, WaitEnds DEF IInv, LifeInv
  <2>2. MutexFree /\ inFlight = 0
    BY <1>1, <2>1 DEF IdleCheck, WaitForInFlight, WaitOn
  <2>3. spc = "exited"
    BY <1>1 DEF Drain
  <2> QED BY <1>1, <2>2, <2>3, ZeroMeansEmpty DEF IInv, Counts, DueHome
<1>2. IInv /\ Counts /\ Drain /\ [Next]_vars
        => [\A a \in Actor : pc[a] \in {"sdWait", "reWait"} /\ pc'[a] = "ready"
              => Silent]_vars
  BY <1>1
<1> QED BY <1>2, DrainInvariant, PTL DEF Spec, NothingRunsAfterShutdown

=============================================================================
