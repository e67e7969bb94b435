----------------------- MODULE DelayedSchedulerProofs -----------------------
(***************************************************************************)
(* Theorems about DelayedScheduler for every set of tasks, tokens, clients   *)
(* and delays, with their proofs.                                            *)
(***************************************************************************)
EXTENDS DelayedScheduler, WellFoundedInduction, TLAPS

USE DEF taskVars, queueVars, scanVars, timeVars, schedVars, callVars,
        stopVars, dataVars

Less == {ss \in Nat \X Nat : ss[1] < ss[2]}

(* A set of natural numbers that is not empty has a least element.           *)
LEMMA LeastNatural ==
  ASSUME NEW S, S \subseteq Nat, S # {}
  PROVE  \E m \in S : \A k \in S : m <= k
<1>1. IsWellFoundedOn(Less, Nat)
  BY NatLessThanWellFounded DEF OpToRel, Less
<1>2. PICK m \in S : \A k \in S : ~ (<<k, m>> \in Less)
  BY <1>1, WFMin
<1>3. \A i, j \in Nat : i < j => <<i, j>> \in Less
  <2> SUFFICES ASSUME NEW i \in Nat, NEW j \in Nat, i < j
               PROVE  <<i, j>> \in Less
    OBVIOUS
  <2>1. <<i, j>> \in Nat \X Nat /\ <<i, j>>[1] < <<i, j>>[2]
    OBVIOUS
  <2> QED BY <2>1 DEF Less
<1>4. ASSUME NEW k \in S PROVE m <= k
  <2>1. m \in Nat /\ k \in Nat /\ ~(k < m)
    BY <1>2, <1>3
  <2> QED BY <2>1
<1> QED BY <1>4

(* An actor that is posting has a task, whose run_at is set; and so have all *)
(* tasks of the queue.                                                       *)
Posting(a) == pc[a] \in {"post", "postNotify"}

PostArgs ==
  /\ \A a \in Actor : Posting(a) => arg[a] \in Tasks /\ runAt[arg[a]] \in Int
  /\ \A t \in queue : runAt[t] \in Int

TypeInv == TypeOK /\ PostArgs

(* NextWakeTime gives the run_at of a task, or nothing.                      *)
LEMMA NextWakeTimeType ==
  ASSUME TypeInv
  PROVE  NextWakeTime(now) \in Int \cup {None}
<1> DEFINE later == {t \in queue : ~IsCancelled(t) /\ runAt[t] > now}
           times == {runAt[t] : t \in later}
           Earliest(t) == \A u \in later : runAt[t] <= runAt[u]
<1>1. ASSUME later # {} PROVE \E t \in later : Earliest(t)
  <2>1. times \subseteq Nat /\ times # {}
    BY <1>1 DEF TypeInv, TypeOK, PostArgs
  <2>2. PICK m \in times : \A k \in times : m <= k
    BY <2>1, LeastNatural
  <2> QED BY <2>2
<1>2. ASSUME later # {} PROVE (CHOOSE t \in later : Earliest(t)) \in later
  BY <1>1, <1>2
<1>3. \A t \in later : runAt[t] \in Int
  BY DEF TypeInv, PostArgs
<1> HIDE DEF later
<1> QED BY <1>2, <1>3 DEF NextWakeTime, later

(* The program starts with every variable of its type.                       *)
LEMMA TypeInit == Init => TypeInv
<1> SUFFICES ASSUME Init PROVE TypeInv
  OBVIOUS
<1> USE QueueAssumption, SchedulerAssumption DEF Init, QueueInit
<1>1. pc \in [Actor -> CallPCs \cup ClosurePCs] /\ arg \in [Actor -> Tasks \cup {None}]
  BY DEF CallPCs, ClosurePCs
<1>2. /\ stage \in [Tasks -> Stages]
      /\ runAt \in [Tasks -> Int \cup {None}] /\ seq \in [Tasks -> Nat]
      /\ dueAt \in [Tasks -> Int \cup {None}] /\ ahead \in [Tasks -> SUBSET Tasks]
  BY DEF Stages
<1>3. TypeOK
  BY <1>1, <1>2 DEF TypeOK, SchedPCs
<1>4. PostArgs
  BY DEF PostArgs, Posting
<1> QED BY <1>3, <1>4 DEF TypeInv

(* and no step of any thread changes that.                                   *)
LEMMA TypeStep == TypeInv /\ [Next]_vars => TypeInv'
<1> SUFFICES ASSUME TypeInv, [Next]_vars PROVE TypeInv'
  OBVIOUS
<1> USE QueueAssumption, SchedulerAssumption
        DEF TypeInv, TypeOK, PostArgs, Posting, Goto
<1>1. ASSUME Tick PROVE TypeInv'
  BY <1>1 DEF Tick
<1>2. ASSUME NEW a \in Actor, NEW t \in Tasks, NEW d \in Delays, PostStamp(a, t, d) PROVE TypeInv'
  BY <1>2 DEF PostStamp, RunAt, Positive, Wrap, CallPCs
<1>3. ASSUME NEW a \in Actor, PostInsert(a) PROVE TypeInv'
  BY <1>3 DEF PostInsert, Insert, CallPCs, Stages
<1>4. ASSUME NEW a \in Actor, PostReject(a) PROVE TypeInv'
  BY <1>4 DEF PostReject, NotifyAll, CallPCs, Stages
<1>5. ASSUME NEW a \in Actor, PostNotify(a) PROVE TypeInv'
  BY <1>5 DEF PostNotify, NotifyOne, CallPCs
<1>6. ASSUME NEW a \in Actor, NEW t \in Tasks, Cancel(a, t) PROVE TypeInv'
  BY <1>6 DEF Cancel, TryCancel, CallPCs, Stages
<1>7. ASSUME NEW a \in Actor, CancelNotify(a) PROVE TypeInv'
  BY <1>7 DEF CancelNotify, NotifyAll, CallPCs
<1>8. ASSUME NEW a \in Actor, WaitUntilIdle(a) PROVE TypeInv'
  BY <1>8 DEF WaitUntilIdle, CallPCs
<1>9. ASSUME NEW a \in Actor, IdleCheck(a) \/ WaitForInFlight(a) PROVE TypeInv'
  BY <1>9 DEF IdleCheck, WaitForInFlight, WaitOn, Block, CallPCs
<1>10. ASSUME NEW a \in Actor, CallShutdown(a) PROVE TypeInv'
  BY <1>10 DEF CallShutdown, CallPCs
<1>11. ASSUME NEW a \in Actor, ShutdownNotify(a) PROVE TypeInv'
  BY <1>11 DEF ShutdownNotify, NotifyAll, CallPCs
<1>12. ASSUME NEW a \in Actor, ShutdownJoin(a) PROVE TypeInv'
  <2>1. PICK to \in {"ready", "sdJoining", "sdTake", "reJoining", "reWait"} :
          pc' = [pc EXCEPT ![a] = to]
    BY <1>12 DEF ShutdownJoin, Joinable, Join, JoinThrows, CallPCs
  <2>2. /\ joined' \in BOOLEAN
        /\ UNCHANGED <<timeVars, arg, handles, schedVars, stop, discarded,
                       dataVars, scanVars, inFlight, waiters>>
    BY <1>12 DEF ShutdownJoin, Joinable, Join, JoinThrows
  <2> QED BY <2>1, <2>2 DEF CallPCs
<1>13. ASSUME NEW a \in Actor, ShutdownTakeAll(a) PROVE TypeInv'
  BY <1>13 DEF ShutdownTakeAll, TakeAll, CallPCs
<1>14. ASSUME NEW a \in Actor, NEW t \in Tasks, ShutdownCancel(a, t) PROVE TypeInv'
  BY <1>14 DEF ShutdownCancel, TryCancel, NotifyAll, Stages
<1>15. ASSUME NEW a \in Actor, ShutdownDiscard(a) PROVE TypeInv'
  BY <1>15 DEF ShutdownDiscard, NotifyAll, CallPCs
<1>16. ASSUME LoopTop PROVE TypeInv'
  BY <1>16 DEF LoopTop, SchedPCs
<1>17. ASSUME WaitTimeout PROVE TypeInv'
  BY <1>17 DEF WaitTimeout
<1>18. ASSUME PopBegin PROVE TypeInv'
  BY <1>18 DEF PopBegin, PopStart, SchedPCs
<1>19. ASSUME NEW t \in Tasks, PopCandidate(t) PROVE TypeInv'
  BY <1>19 DEF PopCandidate, PopCancelled, PopNotDue, PopBlocked, PopRunnable,
         PopClaim, PopLostRace, Candidate, TryDispatch, Acquire, Erase, Destroy,
         Stages, SchedPCs
<1>20. ASSUME PopEnd PROVE TypeInv'
  BY <1>20 DEF PopEnd, SchedPCs
<1>21. ASSUME PopNotify PROVE TypeInv'
  BY <1>21 DEF PopNotify, NotifyAll, SchedPCs
<1>22. ASSUME NEW t \in Tasks, Execute(t) PROVE TypeInv'
  BY <1>22 DEF Execute, ClosurePCs, Actor
<1>23. ASSUME Relock PROVE TypeInv'
  BY <1>23, NextWakeTimeType DEF Relock, SchedPCs
<1>24. ASSUME Sleep PROVE TypeInv'
  BY <1>24 DEF Sleep, Block, SchedPCs
<1>25. ASSUME NEW t \in Tasks, Start(t) PROVE TypeInv'
  BY <1>25 DEF Start, CallPCs, Actor
<1>26. ASSUME NEW t \in Tasks, CallbackReturn(t) PROVE TypeInv'
  BY <1>26 DEF CallbackReturn, MarkFinished, Stages, ClosurePCs, Actor
<1>27. ASSUME NEW t \in Tasks, Release(t) PROVE TypeInv'
  BY <1>27 DEF Release, ReleaseToken, ClosurePCs, Actor
<1>28. ASSUME NEW t \in Tasks, CompletionNotify(t) PROVE TypeInv'
  BY <1>28 DEF CompletionNotify, NotifyAll, ClosurePCs, Actor
<1>29. ASSUME NEW t \in Tasks, DestroyClosure(t) PROVE TypeInv'
  BY <1>29 DEF DestroyClosure, ClosurePCs, Actor
<1>30. ASSUME NEW w \in waiters, SpuriousWake(w) PROVE TypeInv'
  BY <1>30 DEF SpuriousWake
<1>31. CASE UNCHANGED vars
  BY <1>31 DEF vars
<1> QED
  BY <1>1, <1>2, <1>3, <1>4, <1>5, <1>6, <1>7, <1>8, <1>9, <1>10, <1>11, <1>12, <1>13, <1>14, <1>15, <1>16, <1>17, <1>18, <1>19, <1>20, <1>21, <1>22, <1>23, <1>24, <1>25, <1>26, <1>27, <1>28, <1>29, <1>30, <1>31
  DEF Next, CallStarts, CallContinues, SchedStep, WorkerStep

-----------------------------------------------------------------------------
(* The life of a task.                                                       *)

Executing == CallPCs \cup {"handed"}
Executed  == {"release", "notify", "destroy", "gone"}

(* Where a closure is and the stage of its task tell the same story, and a   *)
(* task is posted by one actor, once.  A closure may be gone with its task   *)
(* still dispatched: never here (ClosuresEnd), but where somebody else can   *)
(* destroy what was handed over, and the lemmas about a step hold there too. *)
LifeCycle ==
  /\ \A a \in Clients : pc[a] \in CallPCs
  /\ \A t \in Tasks :
       /\ t \in due \/ pc[t] \in Executing => stage[t] = "kDispatched"
       /\ stage[t] = "kDispatched" => t \in due \/ pc[t] \in Executing \cup {"gone"}
       /\ stage[t] = "kFinished" => pc[t] \in Executed
       /\ pc[t] \in Executed =>
            stage[t] = "kFinished" \/ (pc[t] = "gone" /\ stage[t] = "kDispatched")
       /\ t \in due => pc[t] = "none"
       /\ t \in queue => stage[t] \in {"kPending", "kCancelled"}
       /\ runAt[t] = None => stage[t] = "none"
  /\ \A a \in Actor : pc[a] = "post" => stage[arg[a]] = "none"
  /\ \A a, b \in Actor :
       pc[a] = "post" /\ pc[b] = "post" /\ arg[a] = arg[b] => a = b

(* The loop of PopDueRunnable: what it has still to look at is queued, and   *)
(* the token it found free stays free while it holds mutex_.                 *)
Scan ==
  /\ todo \subseteq queue
  /\ spc \notin {"scan", "relockSelf"} => todo = {}
  /\ claiming # None =>
       spc = "scan" /\ claiming \in todo /\ IsRunnable(TokenOf[claiming])

LifeInv == TypeInv /\ LifeCycle /\ Scan

(* At first no task has been posted and nothing is scanned.                  *)
LEMMA LifeInit == Init => LifeCycle /\ Scan
<1> SUFFICES ASSUME Init PROVE LifeCycle /\ Scan
  OBVIOUS
<1> USE QueueAssumption, SchedulerAssumption DEF Init, QueueInit
<1>1. /\ \A a \in Clients : pc[a] = "ready"
      /\ \A t \in Tasks : pc[t] = "none"
      /\ \A a \in Actor : pc[a] # "post"
  BY DEF Actor
<1>2. LifeCycle
  BY <1>1 DEF LifeCycle, CallPCs, Executing, Executed
<1>3. Scan
  BY DEF Scan
<1> QED BY <1>2, <1>3

(* Each step of each thread moves a task along its life, or none.            *)
LEMMA LifeStep == LifeInv /\ [Next]_vars => LifeCycle' /\ Scan'
<1> SUFFICES ASSUME LifeInv, [Next]_vars PROVE LifeCycle' /\ Scan'
  OBVIOUS
<1> USE QueueAssumption, SchedulerAssumption
        DEF LifeInv, TypeInv, TypeOK, PostArgs, Posting, Goto, LifeCycle, Scan,
            Actor, CallPCs, Executing, Executed, IsRunnable, MutexFree
<1>1. ASSUME Tick PROVE LifeCycle' /\ Scan'
  BY <1>1 DEF Tick
<1>2. ASSUME NEW a \in Actor, NEW t \in Tasks, NEW d \in Delays, PostStamp(a, t, d) PROVE LifeCycle' /\ Scan'
  BY <1>2 DEF PostStamp, RunAt, Positive, Wrap
<1>3. ASSUME NEW a \in Actor, PostInsert(a) PROVE LifeCycle' /\ Scan'
  BY <1>3 DEF PostInsert, Insert
<1>4. ASSUME NEW a \in Actor, PostReject(a) PROVE LifeCycle' /\ Scan'
  BY <1>4 DEF PostReject, NotifyAll
<1>5. ASSUME NEW a \in Actor, PostNotify(a) PROVE LifeCycle' /\ Scan'
  BY <1>5 DEF PostNotify, NotifyOne
<1>6. ASSUME NEW a \in Actor, NEW t \in Tasks, Cancel(a, t) PROVE LifeCycle' /\ Scan'
  BY <1>6 DEF Cancel, TryCancel
<1>7. ASSUME NEW a \in Actor, CancelNotify(a) PROVE LifeCycle' /\ Scan'
  BY <1>7 DEF CancelNotify, NotifyAll
<1>8. ASSUME NEW a \in Actor, WaitUntilIdle(a) PROVE LifeCycle' /\ Scan'
  BY <1>8 DEF WaitUntilIdle
<1>9. ASSUME NEW a \in Actor, IdleCheck(a) \/ WaitForInFlight(a) PROVE LifeCycle' /\ Scan'
  BY <1>9 DEF IdleCheck, WaitForInFlight, WaitOn, Block
<1>10. ASSUME NEW a \in Actor, CallShutdown(a) PROVE LifeCycle' /\ Scan'
  BY <1>10 DEF CallShutdown
<1>11. ASSUME NEW a \in Actor, ShutdownNotify(a) PROVE LifeCycle' /\ Scan'
  BY <1>11 DEF ShutdownNotify, NotifyAll
<1>12. ASSUME NEW a \in Actor, ShutdownJoin(a) PROVE LifeCycle' /\ Scan'
  <2>1. /\ pc[a] \in CallPCs \ {"post"}
        /\ \E to \in CallPCs \ {"post"} : pc' = [pc EXCEPT ![a] = to]
    BY <1>12 DEF ShutdownJoin, Joinable, Join, JoinThrows, InJoin
  <2>2. UNCHANGED <<timeVars, arg, handles, schedVars, stop, discarded,
                    dataVars, scanVars, inFlight, waiters>>
    BY <1>12 DEF ShutdownJoin, Joinable, Join, JoinThrows
  <2> QED BY <2>1, <2>2
<1>13. ASSUME NEW a \in Actor, ShutdownTakeAll(a) PROVE LifeCycle' /\ Scan'
  BY <1>13 DEF ShutdownTakeAll, TakeAll
<1>14. ASSUME NEW a \in Actor, NEW t \in Tasks, ShutdownCancel(a, t) PROVE LifeCycle' /\ Scan'
  BY <1>14 DEF ShutdownCancel, TryCancel, NotifyAll, First
<1>15. ASSUME NEW a \in Actor, ShutdownDiscard(a) PROVE LifeCycle' /\ Scan'
  BY <1>15 DEF ShutdownDiscard, NotifyAll
<1>16. ASSUME LoopTop PROVE LifeCycle' /\ Scan'
  BY <1>16 DEF LoopTop
<1>17. ASSUME WaitTimeout PROVE LifeCycle' /\ Scan'
  BY <1>17 DEF WaitTimeout
<1>18. ASSUME PopBegin PROVE LifeCycle' /\ Scan'
  BY <1>18 DEF PopBegin, PopStart
<1>19. ASSUME NEW t \in Tasks, PopCandidate(t) PROVE LifeCycle' /\ Scan'
  <2> USE <1>19 DEF PopCandidate, Candidate, First
  <2>1. CASE PopCancelled(t) /\ Destroy(t)
    BY <2>1 DEF PopCancelled, Erase, Destroy
  <2>2. CASE PopNotDue(t) /\ UNCHANGED spc
    BY <2>2 DEF PopNotDue
  <2>3. CASE PopBlocked(t) /\ UNCHANGED spc
    BY <2>3 DEF PopBlocked
  <2>4. CASE PopRunnable(t) /\ UNCHANGED spc
    BY <2>4 DEF PopRunnable
  <2>5. CASE PopClaim(t) /\ UNCHANGED spc
    <3>1. stage[t] = "kPending" /\ pc[t] = "none"
      BY <2>5 DEF PopClaim, TryDispatch, ClosurePCs
    <3>2. /\ queue' = queue \ {t} /\ todo' = todo \ {t} /\ claiming' = None
          /\ due' = due \cup {t} /\ stage' = [stage EXCEPT ![t] = "kDispatched"]
          /\ UNCHANGED <<spc, runAt, pc, arg>>
      BY <2>5 DEF PopClaim, TryDispatch, Erase
    <3> QED BY <3>1, <3>2
  <2>6. CASE PopLostRace(t) /\ Destroy(t)
    <3>1. /\ queue' = queue \ {t} /\ todo' = todo \ {t} /\ claiming' = None
          /\ spc' \in {"scan", "relockSelf"}
          /\ UNCHANGED <<stage, runAt, due, pc, arg>>
      BY <2>6 DEF PopLostRace, Erase, Destroy
    <3> QED BY <3>1
  <2> QED BY <2>1, <2>2, <2>3, <2>4, <2>5, <2>6
<1>20. ASSUME PopEnd PROVE LifeCycle' /\ Scan'
  BY <1>20 DEF PopEnd
<1>21. ASSUME PopNotify PROVE LifeCycle' /\ Scan'
  BY <1>21 DEF PopNotify, NotifyAll
<1>22. ASSUME NEW t \in Tasks, Execute(t) PROVE LifeCycle' /\ Scan'
  BY <1>22 DEF Execute, First
<1>23. ASSUME Relock PROVE LifeCycle' /\ Scan'
  BY <1>23 DEF Relock
<1>24. ASSUME Sleep PROVE LifeCycle' /\ Scan'
  BY <1>24 DEF Sleep, Block
<1>25. ASSUME NEW t \in Tasks, Start(t) PROVE LifeCycle' /\ Scan'
  BY <1>25 DEF Start
<1>26. ASSUME NEW t \in Tasks, CallbackReturn(t) PROVE LifeCycle' /\ Scan'
  BY <1>26 DEF CallbackReturn, MarkFinished
<1>27. ASSUME NEW t \in Tasks, Release(t) PROVE LifeCycle' /\ Scan'
  BY <1>27 DEF Release, ReleaseToken
<1>28. ASSUME NEW t \in Tasks, CompletionNotify(t) PROVE LifeCycle' /\ Scan'
  BY <1>28 DEF CompletionNotify, NotifyAll
<1>29. ASSUME NEW t \in Tasks, DestroyClosure(t) PROVE LifeCycle' /\ Scan'
  BY <1>29 DEF DestroyClosure
<1>30. ASSUME NEW w \in waiters, SpuriousWake(w) PROVE LifeCycle' /\ Scan'
  BY <1>30 DEF SpuriousWake
<1>31. CASE UNCHANGED vars
  BY <1>31 DEF vars
<1> QED
  BY <1>1, <1>2, <1>3, <1>4, <1>5, <1>6, <1>7, <1>8, <1>9, <1>10, <1>11, <1>12, <1>13, <1>14, <1>15, <1>16, <1>17, <1>18, <1>19, <1>20, <1>21, <1>22, <1>23, <1>24, <1>25, <1>26, <1>27, <1>28, <1>29, <1>30, <1>31
  DEF Next, CallStarts, CallContinues, SchedStep, WorkerStep

-----------------------------------------------------------------------------
(* The tokens.                                                               *)

(* At first no token is taken.                                               *)
LEMMA TokenInit == Init => TokenExclusion /\ TokensHeldExactly
<1> SUFFICES ASSUME Init PROVE TokenExclusion /\ TokensHeldExactly
  OBVIOUS
<1>1. Claimed = {} /\ running = {}
  BY QueueAssumption, SchedulerAssumption DEF Init, QueueInit, Claimed, Actor
<1> QED BY <1>1 DEF TokenExclusion, TokensHeldExactly

(* Only PopClaim and Release touch the tracker and the set of claimed tasks, *)
(* and both under mutex_.                                                    *)
LEMMA TokenFrame ==
  ASSUME TokenExclusion, TokensHeldExactly, Claimed' = Claimed, running' = running
  PROVE  TokenExclusion' /\ TokensHeldExactly'
  BY DEF TokenExclusion, TokensHeldExactly

(* A task that is claimed takes a token nobody had: the scan has found it    *)
(* free under the same mutex_.                                               *)
LEMMA TokenClaim ==
  ASSUME LifeInv, TokenExclusion, TokensHeldExactly,
         NEW t \in Tasks, spc = "scan", PopClaim(t), UNCHANGED pc
  PROVE  TokenExclusion' /\ TokensHeldExactly'
<1> USE QueueAssumption DEF LifeInv, TypeInv, TypeOK
<1>1. stage[t] = "kPending" /\ stage' = [stage EXCEPT ![t] = "kDispatched"]
  BY DEF PopClaim, TryDispatch
<1>2. Claimed' = Claimed \cup {t}
  BY <1>1 DEF Claimed
<1>3. running' = running \cup ({TokenOf[t]} \ {NoToken})
  BY DEF PopClaim, Acquire
<1>4. TokenOf[t] = NoToken \/ TokenOf[t] \notin {TokenOf[u] : u \in Claimed}
  BY DEF PopClaim, Scan, IsRunnable, TokensHeldExactly
<1>5. TokenExclusion'
  BY <1>2, <1>4 DEF TokenExclusion
<1>6. TokensHeldExactly'
  BY <1>2, <1>3 DEF TokensHeldExactly
<1> QED BY <1>5, <1>6

(* A token that is released had one holder, the task that releases it.       *)
LEMMA TokenRelease ==
  ASSUME LifeInv, TokenExclusion, TokensHeldExactly, NEW t \in Tasks, Release(t)
  PROVE  TokenExclusion' /\ TokensHeldExactly'
<1> USE QueueAssumption DEF LifeInv, TypeInv, TypeOK
<1>1. pc[t] = "release" /\ pc' = [pc EXCEPT ![t] = "notify"] /\ UNCHANGED stage
  BY DEF Release, Goto
<1>2. stage[t] = "kFinished"
  BY <1>1 DEF LifeCycle, Executed
<1>3. t \in Claimed /\ Claimed' = Claimed \ {t}
  BY <1>1, <1>2 DEF Claimed, Actor
<1>4. running' = running \ {TokenOf[t]}
  BY DEF Release, ReleaseToken
<1>5. \A u \in Claimed \ {t} : TokenOf[u] # TokenOf[t] \/ TokenOf[u] = NoToken
  BY <1>3 DEF TokenExclusion
<1>6. TokenExclusion'
  BY <1>3 DEF TokenExclusion
<1>7. TokensHeldExactly'
  BY <1>3, <1>4, <1>5 DEF TokensHeldExactly
<1> QED BY <1>6, <1>7

(* No other step touches the tokens or who holds them.                       *)
LEMMA TokenStep ==
  ASSUME LifeInv, TokenExclusion, TokensHeldExactly, [Next]_vars
  PROVE  TokenExclusion' /\ TokensHeldExactly'
<1> USE QueueAssumption, SchedulerAssumption
        DEF LifeInv, TypeInv, TypeOK, PostArgs, Posting, Goto, Claimed, Actor
<1> DEFINE Held == Claimed' = Claimed /\ running' = running
<1>1. ASSUME Tick PROVE Held
  BY <1>1 DEF Tick
<1>2. ASSUME NEW a \in Actor, NEW t \in Tasks, NEW d \in Delays, PostStamp(a, t, d) PROVE Held
  BY <1>2 DEF PostStamp
<1>3. ASSUME NEW a \in Actor, PostInsert(a) PROVE Held
  BY <1>3 DEF PostInsert, LifeCycle, Executing, CallPCs
<1>4. ASSUME NEW a \in Actor, PostReject(a) PROVE Held
  BY <1>4 DEF PostReject, LifeCycle, Executing, CallPCs
<1>5. ASSUME NEW a \in Actor, PostNotify(a) PROVE Held
  BY <1>5 DEF PostNotify
<1>6. ASSUME NEW a \in Actor, NEW t \in Tasks, Cancel(a, t) PROVE Held
  BY <1>6 DEF Cancel, TryCancel
<1>7. ASSUME NEW a \in Actor, CancelNotify(a) PROVE Held
  BY <1>7 DEF CancelNotify
<1>8. ASSUME NEW a \in Actor, WaitUntilIdle(a) PROVE Held
  BY <1>8 DEF WaitUntilIdle
<1>9. ASSUME NEW a \in Actor, IdleCheck(a) \/ WaitForInFlight(a) PROVE Held
  BY <1>9 DEF IdleCheck, WaitForInFlight, WaitOn
<1>10. ASSUME NEW a \in Actor, CallShutdown(a) PROVE Held
  BY <1>10 DEF CallShutdown
<1>11. ASSUME NEW a \in Actor, ShutdownNotify(a) PROVE Held
  BY <1>11 DEF ShutdownNotify
<1>12. ASSUME NEW a \in Actor, ShutdownJoin(a) PROVE Held
  <2>1. /\ pc[a] # "release" /\ UNCHANGED <<stage, running>>
        /\ \E to \in CallPCs : pc' = [pc EXCEPT ![a] = to]
    BY <1>12 DEF ShutdownJoin, Joinable, Join, JoinThrows, InJoin, CallPCs
  <2> QED BY <2>1 DEF CallPCs
<1>13. ASSUME NEW a \in Actor, ShutdownTakeAll(a) PROVE Held
  BY <1>13 DEF ShutdownTakeAll
<1>14. ASSUME NEW a \in Actor, NEW t \in Tasks, ShutdownCancel(a, t) PROVE Held
  BY <1>14 DEF ShutdownCancel, TryCancel
<1>15. ASSUME NEW a \in Actor, ShutdownDiscard(a) PROVE Held
  BY <1>15 DEF ShutdownDiscard
<1>16. ASSUME LoopTop PROVE Held
  BY <1>16 DEF LoopTop
<1>17. ASSUME WaitTimeout PROVE Held
  BY <1>17 DEF WaitTimeout
<1>18. ASSUME PopBegin PROVE Held
  BY <1>18 DEF PopBegin, PopStart
<1>19. ASSUME NEW t \in Tasks, PopCandidate(t)
      PROVE  Held \/ (PopClaim(t) /\ spc = "scan" /\ UNCHANGED pc)
  BY <1>19 DEF PopCandidate, PopCancelled, PopNotDue, PopBlocked, PopRunnable,
               PopLostRace
<1>20. ASSUME PopEnd PROVE Held
  BY <1>20 DEF PopEnd
<1>21. ASSUME PopNotify PROVE Held
  BY <1>21 DEF PopNotify
<1>22. ASSUME NEW t \in Tasks, Execute(t) PROVE Held
  BY <1>22 DEF Execute, LifeCycle, Executing, CallPCs
<1>23. ASSUME Relock PROVE Held
  BY <1>23 DEF Relock
<1>24. ASSUME Sleep PROVE Held
  BY <1>24 DEF Sleep
<1>25. ASSUME NEW t \in Tasks, Start(t) PROVE Held
  BY <1>25 DEF Start, LifeCycle, Executing, CallPCs
<1>26. ASSUME NEW t \in Tasks, CallbackReturn(t) PROVE Held
  BY <1>26 DEF CallbackReturn, MarkFinished, LifeCycle, Executing, CallPCs
<1>27. ASSUME NEW t \in Tasks, Release(t) PROVE TokenExclusion' /\ TokensHeldExactly'
  BY <1>27, TokenRelease
<1>28. ASSUME NEW t \in Tasks, CompletionNotify(t) PROVE Held
  BY <1>28 DEF CompletionNotify
<1>29. ASSUME NEW t \in Tasks, DestroyClosure(t) PROVE Held
  BY <1>29 DEF DestroyClosure
<1>30. ASSUME NEW w \in waiters, SpuriousWake(w) PROVE Held
  BY <1>30 DEF SpuriousWake
<1>31. ASSUME UNCHANGED vars PROVE Held
  BY <1>31 DEF vars
<1>32. Held => TokenExclusion' /\ TokensHeldExactly'
  BY TokenFrame
<1> HIDE DEF Held, LifeInv, TypeInv, TypeOK, PostArgs, Posting, Goto, Claimed,
            Actor
<1>33. ASSUME NEW t \in Tasks, PopCandidate(t)
       PROVE  TokenExclusion' /\ TokensHeldExactly'
  <2>1. CASE Held
    BY <2>1, <1>32
  <2>2. CASE PopClaim(t) /\ spc = "scan" /\ UNCHANGED pc
    BY <2>2, TokenClaim
  <2> QED BY <1>19, <1>33, <2>1, <2>2
<1>34. ASSUME Next PROVE Held \/ (TokenExclusion' /\ TokensHeldExactly')
  BY <1>1, <1>2, <1>3, <1>4, <1>5, <1>6, <1>7, <1>8, <1>9, <1>10, <1>11, <1>12,
     <1>13, <1>14, <1>15, <1>16, <1>17, <1>18, <1>33, <1>20, <1>21, <1>22,
     <1>23, <1>24, <1>25, <1>26, <1>27, <1>28, <1>29, <1>30, <1>34
  DEF Next, CallStarts, CallContinues, SchedStep, WorkerStep
<1> QED BY <1>31, <1>32, <1>34

-----------------------------------------------------------------------------
(* The executor runs what it is handed: a closure is destroyed only after    *)
(* its callback has returned and its token is released.                      *)
ClosuresEnd == \A t \in Tasks : pc[t] = "gone" => stage[t] = "kFinished"

(* Only DestroyClosure makes a closure go, and a finished task stays so.     *)
LEMMA ClosuresStep ==
  ASSUME LifeInv, ClosuresEnd, [Next]_vars
  PROVE  ClosuresEnd'
<1> USE QueueAssumption, SchedulerAssumption
        DEF LifeInv, TypeInv, TypeOK, PostArgs, Posting, Goto, Actor, LifeCycle,
            CallPCs, Executing, Executed, ClosuresEnd
<1>1. ASSUME Tick PROVE ClosuresEnd'
  BY <1>1 DEF Tick
<1>2. ASSUME NEW a \in Actor, NEW t \in Tasks, NEW d \in Delays, PostStamp(a, t, d) PROVE ClosuresEnd'
  BY <1>2 DEF PostStamp
<1>3. ASSUME NEW a \in Actor, PostInsert(a) PROVE ClosuresEnd'
  BY <1>3 DEF PostInsert
<1>4. ASSUME NEW a \in Actor, PostReject(a) PROVE ClosuresEnd'
  BY <1>4 DEF PostReject
<1>5. ASSUME NEW a \in Actor, PostNotify(a) PROVE ClosuresEnd'
  BY <1>5 DEF PostNotify
<1>6. ASSUME NEW a \in Actor, NEW t \in Tasks, Cancel(a, t) PROVE ClosuresEnd'
  BY <1>6 DEF Cancel, TryCancel
<1>7. ASSUME NEW a \in Actor, CancelNotify(a) PROVE ClosuresEnd'
  BY <1>7 DEF CancelNotify
<1>8. ASSUME NEW a \in Actor, WaitUntilIdle(a) PROVE ClosuresEnd'
  BY <1>8 DEF WaitUntilIdle
<1>9. ASSUME NEW a \in Actor, IdleCheck(a) \/ WaitForInFlight(a) PROVE ClosuresEnd'
  BY <1>9 DEF IdleCheck, WaitForInFlight, WaitOn
<1>10. ASSUME NEW a \in Actor, CallShutdown(a) PROVE ClosuresEnd'
  BY <1>10 DEF CallShutdown
<1>11. ASSUME NEW a \in Actor, ShutdownNotify(a) PROVE ClosuresEnd'
  BY <1>11 DEF ShutdownNotify
<1>12. ASSUME NEW a \in Actor, ShutdownJoin(a) PROVE ClosuresEnd'
  <2>1. /\ UNCHANGED stage
        /\ \E to \in CallPCs : pc' = [pc EXCEPT ![a] = to]
    BY <1>12 DEF ShutdownJoin, Joinable, Join, JoinThrows
  <2> QED BY <2>1
<1>13. ASSUME NEW a \in Actor, ShutdownTakeAll(a) PROVE ClosuresEnd'
  BY <1>13 DEF ShutdownTakeAll
<1>14. ASSUME NEW a \in Actor, NEW t \in Tasks, ShutdownCancel(a, t) PROVE ClosuresEnd'
  BY <1>14 DEF ShutdownCancel, TryCancel
<1>15. ASSUME NEW a \in Actor, ShutdownDiscard(a) PROVE ClosuresEnd'
  BY <1>15 DEF ShutdownDiscard
<1>16. ASSUME LoopTop PROVE ClosuresEnd'
  BY <1>16 DEF LoopTop
<1>17. ASSUME WaitTimeout PROVE ClosuresEnd'
  BY <1>17 DEF WaitTimeout
<1>18. ASSUME PopBegin PROVE ClosuresEnd'
  BY <1>18 DEF PopBegin, PopStart
<1>19. ASSUME NEW t \in Tasks, PopCandidate(t) PROVE ClosuresEnd'
  <2>1. /\ UNCHANGED pc
        /\ \A u \in Tasks : stage[u] = "kFinished" => stage'[u] = "kFinished"
    BY <1>19 DEF PopCandidate, PopCancelled, PopNotDue, PopBlocked, PopRunnable,
         PopClaim, PopLostRace, TryDispatch
  <2> QED BY <2>1
<1>20. ASSUME PopEnd PROVE ClosuresEnd'
  BY <1>20 DEF PopEnd
<1>21. ASSUME PopNotify PROVE ClosuresEnd'
  BY <1>21 DEF PopNotify
<1>22. ASSUME NEW t \in Tasks, Execute(t) PROVE ClosuresEnd'
  BY <1>22 DEF Execute
<1>23. ASSUME Relock PROVE ClosuresEnd'
  BY <1>23 DEF Relock
<1>24. ASSUME Sleep PROVE ClosuresEnd'
  BY <1>24 DEF Sleep
<1>25. ASSUME NEW t \in Tasks, Start(t) PROVE ClosuresEnd'
  BY <1>25 DEF Start
<1>26. ASSUME NEW t \in Tasks, CallbackReturn(t) PROVE ClosuresEnd'
  BY <1>26 DEF CallbackReturn, MarkFinished
<1>27. ASSUME NEW t \in Tasks, Release(t) PROVE ClosuresEnd'
  BY <1>27 DEF Release
<1>28. ASSUME NEW t \in Tasks, CompletionNotify(t) PROVE ClosuresEnd'
  BY <1>28 DEF CompletionNotify
<1>29. ASSUME NEW t \in Tasks, DestroyClosure(t) PROVE ClosuresEnd'
  BY <1>29 DEF DestroyClosure
<1>30. ASSUME NEW w \in waiters, SpuriousWake(w) PROVE ClosuresEnd'
  BY <1>30 DEF SpuriousWake
<1>31. ASSUME UNCHANGED vars PROVE ClosuresEnd'
  BY <1>31 DEF vars
<1> HIDE DEF LifeInv, ClosuresEnd, Goto
<1>32. ASSUME Next PROVE ClosuresEnd'
  BY <1>1, <1>2, <1>3, <1>4, <1>5, <1>6, <1>7, <1>8, <1>9, <1>10, <1>11,
     <1>12, <1>13, <1>14, <1>15, <1>16, <1>17, <1>18, <1>19, <1>20,
     <1>21, <1>22, <1>23, <1>24, <1>25, <1>26, <1>27, <1>28, <1>29,
     <1>30, <1>31, <1>32
  DEF Next, CallStarts, CallContinues, SchedStep, WorkerStep
<1> QED BY <1>31, <1>32

-----------------------------------------------------------------------------
IInv == LifeInv /\ TokenExclusion /\ TokensHeldExactly /\ ClosuresEnd

(* The inductive invariant holds in every behaviour.                         *)
THEOREM Invariance == Spec => []IInv
<1>1. Init => IInv
  <2>1. Init => ClosuresEnd
    BY SchedulerAssumption DEF Init, ClosuresEnd, Actor
  <2> QED BY <2>1, TypeInit, LifeInit, TokenInit DEF IInv, LifeInv
<1>2. IInv /\ [Next]_vars => IInv'
  BY TypeStep, LifeStep, TokenStep, ClosuresStep DEF IInv, LifeInv
<1> QED BY <1>1, <1>2, PTL DEF Spec

(* Every variable keeps its type.                                            *)
THEOREM TypeCorrect == Spec => []TypeOK
<1>1. IInv => TypeOK
  BY DEF IInv, LifeInv, TypeInv
<1> QED BY <1>1, Invariance, PTL

(* Tasks of one valid token never run at the same time, for any number of    *)
(* tasks, tokens, clients and workers.                                       *)
THEOREM SequencesExclude == Spec => []TokenExclusion
<1>1. IInv => TokenExclusion
  BY DEF IInv
<1> QED BY <1>1, Invariance, PTL

(* The tracker never leaks a token and never gives one back early.           *)
THEOREM TrackerExact == Spec => []TokensHeldExactly
<1>1. IInv => TokensHeldExactly
  BY DEF IInv
<1> QED BY <1>1, Invariance, PTL

(* A cancelled task is never popped and never reaches the executor.          *)
THEOREM CancelIsFinal == Spec => []CancelWins
<1>1. IInv => CancelWins
  BY DEF IInv, LifeInv, LifeCycle, CancelWins, IsCancelled, Executing, Executed,
         TypeInv, TypeOK, Actor, ClosurePCs
<1> QED BY <1>1, Invariance, PTL

=============================================================================
