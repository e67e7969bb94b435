-------------------- MODULE DelayedSchedulerOrderProofs ---------------------
(***************************************************************************)
(* When tasks are dispatched and in which order: not before their time,      *)
(* and first in, first out within a token.  Both are theorems about a        *)
(* scheduler whose clock never passes the largest time point; with them      *)
(* DelayedScheduler implements the promise of the API, DelayedTasks.         *)
(***************************************************************************)
EXTENDS DelayedSchedulerCountsProofs

(* now + delay is always a time point the clock can represent.               *)
NoWrap == \A d \in Delays : MaxTime + d <= TimeMax

-----------------------------------------------------------------------------
(* Not too early.                                                            *)

(* run_at is the time the task is due, the pop compares it with a reading of *)
(* the clock that is never ahead of it, and what it claims has come due.     *)
Times ==
  /\ now <= MaxTime
  /\ scanNow <= now
  /\ runAt = dueAt
  /\ claiming # None => runAt[claiming] <= scanNow

OnTime == Times /\ NeverEarly

(* Nothing is stamped or dispatched at first.                                *)
LEMMA OnTimeInit == Init => OnTime
<1> SUFFICES ASSUME Init PROVE OnTime
  OBVIOUS
<1> USE QueueAssumption, SchedulerAssumption DEF Init, QueueInit
<1>1. Times
  BY DEF Times
<1>2. NeverEarly
  BY DEF NeverEarly
<1> QED BY <1>1, <1>2 DEF OnTime

(* The time of a task is fixed before it is published.                       *)
LEMMA OnTimeStep ==
  ASSUME NoWrap, LifeInv, OnTime, [Next]_vars
  PROVE  OnTime'
<1> USE QueueAssumption, SchedulerAssumption
        DEF taskVars, queueVars, scanVars, timeVars, schedVars, callVars, stopVars,
            dataVars, LifeInv, TypeInv, TypeOK, PostArgs, Posting, Goto, Actor,
            LifeCycle, Scan, OnTime, Times, NeverEarly
<1>1. ASSUME Tick PROVE OnTime'
  BY <1>1 DEF Tick
<1>2. ASSUME NEW a \in Actor, NEW t \in Tasks, NEW d \in Delays, PostStamp(a, t, d) PROVE OnTime'
  <2>1. stage[t] = "none" /\ runAt[t] = None /\ t \notin queue
    BY <1>2 DEF PostStamp
  <2>2. RunAt(d) = now + Positive(d) /\ now + Positive(d) \in Int
    BY DEF RunAt, Positive, Wrap, NoWrap
  <2>3. runAt' = dueAt' /\ \A u \in Tasks \ {t} : runAt'[u] = runAt[u]
    BY <1>2, <2>2 DEF PostStamp
  <2>4. UNCHANGED <<now, stage, scanNow, claiming>>
    BY <1>2 DEF PostStamp
  <2> QED BY <2>1, <2>3, <2>4
<1>3. ASSUME NEW a \in Actor, PostInsert(a) PROVE OnTime'
  <2>1. arg[a] \in Tasks /\ runAt[arg[a]] \in Int /\ stage' = [stage EXCEPT ![arg[a]] = "kPending"]
    BY <1>3 DEF PostInsert
  <2>2. UNCHANGED <<now, dueAt, runAt, scanNow, claiming>>
    BY <1>3 DEF PostInsert
  <2> QED BY <2>1, <2>2
<1>4. ASSUME NEW a \in Actor, PostReject(a) PROVE OnTime'
  BY <1>4 DEF PostReject
<1>5. ASSUME NEW a \in Actor, PostNotify(a) PROVE OnTime'
  BY <1>5 DEF PostNotify
<1>6. ASSUME NEW a \in Actor, NEW t \in Tasks, Cancel(a, t) PROVE OnTime'
  BY <1>6 DEF Cancel, TryCancel
<1>7. ASSUME NEW a \in Actor, CancelNotify(a) PROVE OnTime'
  BY <1>7 DEF CancelNotify
<1>8. ASSUME NEW a \in Actor, WaitUntilIdle(a) PROVE OnTime'
  BY <1>8 DEF WaitUntilIdle
<1>9. ASSUME NEW a \in Actor, IdleCheck(a) \/ WaitForInFlight(a) PROVE OnTime'
  BY <1>9 DEF IdleCheck, WaitForInFlight, WaitOn
<1>10. ASSUME NEW a \in Actor, CallShutdown(a) PROVE OnTime'
  BY <1>10 DEF CallShutdown
<1>11. ASSUME NEW a \in Actor, ShutdownNotify(a) PROVE OnTime'
  BY <1>11 DEF ShutdownNotify
<1>12. ASSUME NEW a \in Actor, ShutdownJoin(a) PROVE OnTime'
  BY <1>12 DEF ShutdownJoin, Joinable, Join, JoinThrows, InJoin
<1>13. ASSUME NEW a \in Actor, ShutdownTakeAll(a) PROVE OnTime'
  BY <1>13 DEF ShutdownTakeAll
<1>14. ASSUME NEW a \in Actor, NEW t \in Tasks, ShutdownCancel(a, t) PROVE OnTime'
  BY <1>14 DEF ShutdownCancel, TryCancel
<1>15. ASSUME NEW a \in Actor, ShutdownDiscard(a) PROVE OnTime'
  BY <1>15 DEF ShutdownDiscard
<1>16. ASSUME LoopTop PROVE OnTime'
  BY <1>16 DEF LoopTop
<1>17. ASSUME WaitTimeout PROVE OnTime'
  BY <1>17 DEF WaitTimeout
<1>18. ASSUME PopBegin PROVE OnTime'
  BY <1>18 DEF PopBegin, PopStart
<1>19. ASSUME NEW t \in Tasks, PopCandidate(t) PROVE OnTime'
  <2> USE <1>19 DEF PopCandidate
  <2>1. CASE PopClaim(t)
    <3>1. claiming = t /\ runAt[t] <= scanNow /\ dueAt[t] <= now
      BY <2>1 DEF PopClaim
    <3>2. claiming' = None /\ stage' = [stage EXCEPT ![t] = "kDispatched"]
      BY <2>1 DEF PopClaim, TryDispatch
    <3>3. UNCHANGED <<now, dueAt, runAt, scanNow>>
      BY <2>1 DEF PopClaim
    <3> QED BY <3>1, <3>2, <3>3
  <2>2. CASE PopRunnable(t)
    BY <2>2 DEF PopRunnable
  <2>3. CASE PopCancelled(t) \/ PopNotDue(t) \/ PopBlocked(t) \/ PopLostRace(t)
    BY <2>3 DEF PopCancelled, PopNotDue, PopBlocked, PopLostRace, Candidate
  <2> QED BY <2>1, <2>2, <2>3
<1>20. ASSUME PopEnd PROVE OnTime'
  BY <1>20 DEF PopEnd
<1>21. ASSUME PopNotify PROVE OnTime'
  BY <1>21 DEF PopNotify
<1>22. ASSUME NEW t \in Tasks, Execute(t) PROVE OnTime'
  BY <1>22 DEF Execute
<1>23. ASSUME Relock PROVE OnTime'
  BY <1>23 DEF Relock
<1>24. ASSUME Sleep PROVE OnTime'
  BY <1>24 DEF Sleep
<1>25. ASSUME NEW t \in Tasks, Start(t) PROVE OnTime'
  BY <1>25 DEF Start
<1>26. ASSUME NEW t \in Tasks, CallbackReturn(t) PROVE OnTime'
  <2>1. stage[t] = "kDispatched"
    BY <1>26 DEF CallbackReturn, Executing, CallPCs
  <2> QED BY <1>26, <2>1 DEF CallbackReturn, MarkFinished
<1>27. ASSUME NEW t \in Tasks, Release(t) PROVE OnTime'
  BY <1>27 DEF Release
<1>28. ASSUME NEW t \in Tasks, CompletionNotify(t) PROVE OnTime'
  BY <1>28 DEF CompletionNotify
<1>29. ASSUME NEW t \in Tasks, DestroyClosure(t) PROVE OnTime'
  BY <1>29 DEF DestroyClosure
<1>30. ASSUME NEW w \in waiters, SpuriousWake(w) PROVE OnTime'
  BY <1>30 DEF SpuriousWake
<1>31. ASSUME UNCHANGED vars PROVE OnTime'
  BY <1>31 DEF vars
<1> HIDE DEF LifeInv, TypeInv, TypeOK, PostArgs, Posting, Goto, Actor, LifeCycle, Scan,
             OnTime, Times, NeverEarly
<1>32. ASSUME Next PROVE OnTime'
  BY <1>1, <1>2, <1>3, <1>4, <1>5, <1>6, <1>7, <1>8, <1>9, <1>10, <1>11,
     <1>12, <1>13, <1>14, <1>15, <1>16, <1>17, <1>18, <1>19, <1>20,
     <1>21, <1>22, <1>23, <1>24, <1>25, <1>26, <1>27, <1>28, <1>29,
     <1>30, <1>32
  DEF Next, CallStarts, CallContinues, SchedStep, WorkerStep
<1> QED BY <1>31, <1>32

-----------------------------------------------------------------------------
(* First in, first out.                                                      *)

(* Whoever returned from Post before u was stamped, for a time no later, has *)
(* a smaller key than u in the queue.                                        *)
Published ==
  /\ \A a \in Actor : pc[a] = "postNotify" =>
       stage[arg[a]] # "none" /\ seq[arg[a]] < nextSeq
  /\ \A t \in handles : stage[t] # "none" /\ seq[t] < nextSeq
  /\ \A u \in Tasks : \A t \in ahead[u] :
       /\ t \in handles
       /\ TokenOf[t] = TokenOf[u] /\ TokenOf[u] # NoToken
       /\ runAt[t] <= runAt[u]
       /\ u \in queue => seq[t] < seq[u]

(* Nothing is published at first.                                            *)
LEMMA PublishedInit == Init => Published
<1> SUFFICES ASSUME Init PROVE Published
  OBVIOUS
<1>1. \A a \in Actor : pc[a] # "postNotify"
  BY SchedulerAssumption DEF Init, Actor
<1> QED BY <1>1 DEF Init, QueueInit, Published

(* A key is given once, and later ones are larger.                           *)
LEMMA PublishedStep ==
  ASSUME NoWrap, LifeInv, Times, Published, [Next]_vars
  PROVE  Published'
<1> USE QueueAssumption, SchedulerAssumption
        DEF taskVars, queueVars, scanVars, timeVars, schedVars, callVars, stopVars,
            dataVars, LifeInv, TypeInv, TypeOK, PostArgs, Posting, Goto, Actor,
            LifeCycle, Times, Published
<1>1. ASSUME Tick PROVE Published'
  BY <1>1 DEF Tick
<1>2. ASSUME NEW a \in Actor, NEW t \in Tasks, NEW d \in Delays, PostStamp(a, t, d) PROVE Published'
  <2>1. /\ stage[t] = "none" /\ runAt[t] = None /\ t \notin queue /\ t \notin handles
        /\ \A b \in Actor : pc[b] = "postNotify" => arg[b] # t
    BY <1>2 DEF PostStamp
  <2>2. RunAt(d) = now + Positive(d) /\ now + Positive(d) \in Int
    BY DEF RunAt, Positive, Wrap, NoWrap
  <2>3. /\ runAt' = [runAt EXCEPT ![t] = now + Positive(d)]
        /\ pc' = [pc EXCEPT ![a] = "post"] /\ arg' = [arg EXCEPT ![a] = t]
        /\ UNCHANGED <<stage, seq, nextSeq, queue, handles>>
    BY <1>2, <2>2 DEF PostStamp
  <2>4. /\ \A u \in Tasks \ {t} : ahead'[u] = ahead[u]
        /\ \A u \in ahead'[t] : /\ u \in handles
                                /\ TokenOf[u] = TokenOf[t] /\ TokenOf[t] # NoToken
                                /\ runAt[u] <= now + Positive(d)
    BY <1>2 DEF PostStamp
  <2> QED BY <2>1, <2>2, <2>3, <2>4
<1>3. ASSUME NEW a \in Actor, PostInsert(a) PROVE Published'
  <2>1. /\ arg[a] \in Tasks /\ stage[arg[a]] = "none" /\ arg[a] \notin handles
        /\ \A b \in Actor : pc[b] = "postNotify" => arg[b] # arg[a]
    BY <1>3 DEF PostInsert
  <2>2. /\ stage' = [stage EXCEPT ![arg[a]] = "kPending"]
        /\ seq' = [seq EXCEPT ![arg[a]] = nextSeq] /\ nextSeq' = nextSeq + 1
        /\ pc' = [pc EXCEPT ![a] = "postNotify"] /\ queue' = queue \cup {arg[a]}
        /\ UNCHANGED <<ahead, runAt, handles, arg>>
    BY <1>3 DEF PostInsert, Insert
  <2> QED BY <2>1, <2>2
<1>4. ASSUME NEW a \in Actor, PostReject(a) PROVE Published'
  <2>1. /\ arg[a] \in Tasks /\ stage[arg[a]] = "none" /\ arg[a] \notin handles
    BY <1>4 DEF PostReject
  <2> QED BY <1>4, <2>1 DEF PostReject
<1>5. ASSUME NEW a \in Actor, PostNotify(a) PROVE Published'
  BY <1>5 DEF PostNotify
<1>6. ASSUME NEW a \in Actor, NEW t \in Tasks, Cancel(a, t) PROVE Published'
  BY <1>6 DEF Cancel, TryCancel
<1>7. ASSUME NEW a \in Actor, CancelNotify(a) PROVE Published'
  BY <1>7 DEF CancelNotify
<1>8. ASSUME NEW a \in Actor, WaitUntilIdle(a) PROVE Published'
  BY <1>8 DEF WaitUntilIdle
<1>9. ASSUME NEW a \in Actor, IdleCheck(a) \/ WaitForInFlight(a) PROVE Published'
  BY <1>9 DEF IdleCheck, WaitForInFlight, WaitOn
<1>10. ASSUME NEW a \in Actor, CallShutdown(a) PROVE Published'
  BY <1>10 DEF CallShutdown
<1>11. ASSUME NEW a \in Actor, ShutdownNotify(a) PROVE Published'
  BY <1>11 DEF ShutdownNotify
<1>12. ASSUME NEW a \in Actor, ShutdownJoin(a) PROVE Published'
  BY <1>12 DEF ShutdownJoin, Joinable, Join, JoinThrows, InJoin
<1>13. ASSUME NEW a \in Actor, ShutdownTakeAll(a) PROVE Published'
  BY <1>13 DEF ShutdownTakeAll, TakeAll
<1>14. ASSUME NEW a \in Actor, NEW t \in Tasks, ShutdownCancel(a, t) PROVE Published'
  BY <1>14 DEF ShutdownCancel, TryCancel
<1>15. ASSUME NEW a \in Actor, ShutdownDiscard(a) PROVE Published'
  BY <1>15 DEF ShutdownDiscard
<1>16. ASSUME LoopTop PROVE Published'
  BY <1>16 DEF LoopTop
<1>17. ASSUME WaitTimeout PROVE Published'
  BY <1>17 DEF WaitTimeout
<1>18. ASSUME PopBegin PROVE Published'
  BY <1>18 DEF PopBegin, PopStart
<1>19. ASSUME NEW t \in Tasks, PopCandidate(t) PROVE Published'
  <2>1. UNCHANGED <<pc, arg, handles, ahead, seq, nextSeq, runAt>> /\ queue' \subseteq queue
    BY <1>19 DEF PopCandidate, PopCancelled, PopNotDue, PopBlocked, PopRunnable, PopClaim,
         PopLostRace, Erase
  <2>2. \A u \in Tasks : stage'[u] = stage[u] \/ stage'[u] = "kDispatched"
    BY <1>19 DEF PopCandidate, PopCancelled, PopNotDue, PopBlocked, PopRunnable, PopClaim,
         PopLostRace, TryDispatch
  <2> QED BY <2>1, <2>2
<1>20. ASSUME PopEnd PROVE Published'
  BY <1>20 DEF PopEnd
<1>21. ASSUME PopNotify PROVE Published'
  BY <1>21 DEF PopNotify
<1>22. ASSUME NEW t \in Tasks, Execute(t) PROVE Published'
  BY <1>22 DEF Execute
<1>23. ASSUME Relock PROVE Published'
  BY <1>23 DEF Relock
<1>24. ASSUME Sleep PROVE Published'
  BY <1>24 DEF Sleep
<1>25. ASSUME NEW t \in Tasks, Start(t) PROVE Published'
  BY <1>25 DEF Start
<1>26. ASSUME NEW t \in Tasks, CallbackReturn(t) PROVE Published'
  BY <1>26 DEF CallbackReturn, MarkFinished
<1>27. ASSUME NEW t \in Tasks, Release(t) PROVE Published'
  BY <1>27 DEF Release
<1>28. ASSUME NEW t \in Tasks, CompletionNotify(t) PROVE Published'
  BY <1>28 DEF CompletionNotify
<1>29. ASSUME NEW t \in Tasks, DestroyClosure(t) PROVE Published'
  BY <1>29 DEF DestroyClosure
<1>30. ASSUME NEW w \in waiters, SpuriousWake(w) PROVE Published'
  BY <1>30 DEF SpuriousWake
<1>31. ASSUME UNCHANGED vars PROVE Published'
  BY <1>31 DEF vars
<1> HIDE DEF LifeInv, TypeInv, TypeOK, PostArgs, Posting, Goto, Actor, LifeCycle,
             Times, Published
<1>32. ASSUME Next PROVE Published'
  BY <1>1, <1>2, <1>3, <1>4, <1>5, <1>6, <1>7, <1>8, <1>9, <1>10, <1>11,
     <1>12, <1>13, <1>14, <1>15, <1>16, <1>17, <1>18, <1>19, <1>20,
     <1>21, <1>22, <1>23, <1>24, <1>25, <1>26, <1>27, <1>28, <1>29,
     <1>30, <1>32
  DEF Next, CallStarts, CallContinues, SchedStep, WorkerStep
<1> QED BY <1>31, <1>32


(* What the loop has passed over and left in the queue was blocked by its    *)
(* token, and the candidate between check and CAS is the first of the rest.  *)
Scanning ==
  /\ todo # {} => \A t \in queue \ todo : TokenOf[t] \in running
  /\ claiming # None => First(claiming, todo)

(* No loop is under way at first.                                            *)
LEMMA ScanningInit == Init => Scanning
  BY DEF Init, QueueInit, Scanning

(* No token is given back, and nothing inserted, while the loop runs.        *)
LEMMA ScanningStep ==
  ASSUME LifeInv, Scanning, [Next]_vars
  PROVE  Scanning'
<1> USE QueueAssumption, SchedulerAssumption
        DEF taskVars, queueVars, scanVars, timeVars, schedVars, callVars, stopVars,
            dataVars, LifeInv, TypeInv, TypeOK, PostArgs, Posting, Goto, Actor,
            Scanning, LifeCycle, Scan, First, Before, MutexFree
<1>1. ASSUME Tick PROVE Scanning'
  BY <1>1 DEF Tick
<1>2. ASSUME NEW a \in Actor, NEW t \in Tasks, NEW d \in Delays, PostStamp(a, t, d) PROVE Scanning'
  <2>1. t \notin queue /\ UNCHANGED <<seq, queue, todo, claiming, running>>
    BY <1>2 DEF PostStamp
  <2>2. \A u \in todo : u # t /\ runAt'[u] = runAt[u]
    BY <1>2, <2>1 DEF PostStamp, Scan
  <2> QED BY <2>1, <2>2
<1>3. ASSUME NEW a \in Actor, PostInsert(a) PROVE Scanning'
  <2>1. todo = {} /\ claiming = None /\ UNCHANGED <<todo, claiming>>
    BY <1>3 DEF PostInsert, MutexFree, Scan
  <2> QED BY <2>1
<1>4. ASSUME NEW a \in Actor, PostReject(a) PROVE Scanning'
  BY <1>4 DEF PostReject
<1>5. ASSUME NEW a \in Actor, PostNotify(a) PROVE Scanning'
  BY <1>5 DEF PostNotify
<1>6. ASSUME NEW a \in Actor, NEW t \in Tasks, Cancel(a, t) PROVE Scanning'
  BY <1>6 DEF Cancel, TryCancel
<1>7. ASSUME NEW a \in Actor, CancelNotify(a) PROVE Scanning'
  BY <1>7 DEF CancelNotify
<1>8. ASSUME NEW a \in Actor, WaitUntilIdle(a) PROVE Scanning'
  BY <1>8 DEF WaitUntilIdle
<1>9. ASSUME NEW a \in Actor, IdleCheck(a) \/ WaitForInFlight(a) PROVE Scanning'
  BY <1>9 DEF IdleCheck, WaitForInFlight, WaitOn
<1>10. ASSUME NEW a \in Actor, CallShutdown(a) PROVE Scanning'
  BY <1>10 DEF CallShutdown
<1>11. ASSUME NEW a \in Actor, ShutdownNotify(a) PROVE Scanning'
  BY <1>11 DEF ShutdownNotify
<1>12. ASSUME NEW a \in Actor, ShutdownJoin(a) PROVE Scanning'
  BY <1>12 DEF ShutdownJoin, Joinable, Join, JoinThrows, InJoin
<1>13. ASSUME NEW a \in Actor, ShutdownTakeAll(a) PROVE Scanning'
  <2>1. todo = {} /\ claiming = None /\ UNCHANGED <<todo, claiming>>
    BY <1>13 DEF ShutdownTakeAll, MutexFree, Scan
  <2> QED BY <2>1
<1>14. ASSUME NEW a \in Actor, NEW t \in Tasks, ShutdownCancel(a, t) PROVE Scanning'
  BY <1>14 DEF ShutdownCancel, TryCancel
<1>15. ASSUME NEW a \in Actor, ShutdownDiscard(a) PROVE Scanning'
  BY <1>15 DEF ShutdownDiscard
<1>16. ASSUME LoopTop PROVE Scanning'
  BY <1>16 DEF LoopTop
<1>17. ASSUME WaitTimeout PROVE Scanning'
  BY <1>17 DEF WaitTimeout
<1>18. ASSUME PopBegin PROVE Scanning'
  <2>1. todo' = queue' /\ claiming = None /\ UNCHANGED claiming
    BY <1>18 DEF PopBegin, PopStart, Scan
  <2> QED BY <2>1
<1>19. ASSUME NEW t \in Tasks, PopCandidate(t) PROVE Scanning'
  <2> USE <1>19 DEF PopCandidate
  <2>1. CASE PopBlocked(t)
    BY <2>1 DEF PopBlocked, IsRunnable, Candidate
  <2>2. CASE PopRunnable(t)
    BY <2>2 DEF PopRunnable, Candidate
  <2>3. CASE PopNotDue(t)
    BY <2>3 DEF PopNotDue, Candidate
  <2>4. CASE PopCancelled(t)
    BY <2>4 DEF PopCancelled, Candidate, Erase
  <2>5. CASE PopLostRace(t) \/ PopClaim(t)
    BY <2>5 DEF PopLostRace, PopClaim, Erase, Acquire
  <2> QED BY <2>1, <2>2, <2>3, <2>4, <2>5
<1>20. ASSUME PopEnd PROVE Scanning'
  BY <1>20 DEF PopEnd
<1>21. ASSUME PopNotify PROVE Scanning'
  BY <1>21 DEF PopNotify
<1>22. ASSUME NEW t \in Tasks, Execute(t) PROVE Scanning'
  BY <1>22 DEF Execute
<1>23. ASSUME Relock PROVE Scanning'
  BY <1>23 DEF Relock
<1>24. ASSUME Sleep PROVE Scanning'
  BY <1>24 DEF Sleep
<1>25. ASSUME NEW t \in Tasks, Start(t) PROVE Scanning'
  BY <1>25 DEF Start
<1>26. ASSUME NEW t \in Tasks, CallbackReturn(t) PROVE Scanning'
  BY <1>26 DEF CallbackReturn, MarkFinished
<1>27. ASSUME NEW t \in Tasks, Release(t) PROVE Scanning'
  <2>1. todo = {} /\ claiming = None /\ UNCHANGED <<todo, claiming>>
    BY <1>27 DEF Release, MutexFree, Scan
  <2> QED BY <2>1
<1>28. ASSUME NEW t \in Tasks, CompletionNotify(t) PROVE Scanning'
  BY <1>28 DEF CompletionNotify
<1>29. ASSUME NEW t \in Tasks, DestroyClosure(t) PROVE Scanning'
  BY <1>29 DEF DestroyClosure
<1>30. ASSUME NEW w \in waiters, SpuriousWake(w) PROVE Scanning'
  BY <1>30 DEF SpuriousWake
<1>31. ASSUME UNCHANGED vars PROVE Scanning'
  BY <1>31 DEF vars
<1> HIDE DEF LifeInv, TypeInv, TypeOK, PostArgs, Posting, Goto, Actor, Scanning, LifeCycle,
             Scan, First, Before, MutexFree
<1>32. ASSUME Next PROVE Scanning'
  BY <1>1, <1>2, <1>3, <1>4, <1>5, <1>6, <1>7, <1>8, <1>9, <1>10, <1>11,
     <1>12, <1>13, <1>14, <1>15, <1>16, <1>17, <1>18, <1>19, <1>20,
     <1>21, <1>22, <1>23, <1>24, <1>25, <1>26, <1>27, <1>28, <1>29,
     <1>30, <1>32
  DEF Next, CallStarts, CallContinues, SchedStep, WorkerStep
<1> QED BY <1>31, <1>32

(* The heart of it: by the time u is claimed, nobody ahead of it can still   *)
(* be queued, for the loop would have met that task first and found their    *)
(* common token free or taken for both; nor can it be running, for it would  *)
(* hold the token.                                                           *)
LEMMA FifoClaim ==
  ASSUME LifeInv, TokensHeldExactly, Drain, Published, Scanning,
         NEW u \in Tasks, PopCandidate(u), PopClaim(u), NEW t \in ahead[u]
  PROVE  stage[t] \in {"kFinished", "kCancelled"}
<1> USE QueueAssumption DEF LifeInv, TypeInv, TypeOK
<1>1. /\ spc = "scan" /\ claiming = u /\ u \in todo /\ First(u, todo)
      /\ TokenOf[u] = NoToken \/ TokenOf[u] \notin running
  BY DEF PopCandidate, PopClaim, Scan, Scanning, IsRunnable
<1>2. /\ t \in Tasks /\ stage[t] # "none"
      /\ TokenOf[t] = TokenOf[u] /\ TokenOf[u] # NoToken
      /\ runAt[t] <= runAt[u] /\ seq[t] < seq[u]
  BY <1>1 DEF Published, Scan
<1>3. stage[t] # "kDispatched"
  BY <1>1, <1>2 DEF TokensHeldExactly, Claimed
<1>4. ASSUME stage[t] = "kPending" PROVE FALSE
  <2>1. t \in queue
    BY <1>1, <1>2, <1>4 DEF Drain
  <2>2. t \notin queue \ todo
    BY <1>1, <1>2 DEF Scanning
  <2>3. t \in todo /\ t # u
    BY <1>2, <2>1, <2>2
  <2>4. Before(u, t)
    BY <1>1, <2>3 DEF First
  <2>5. runAt[t] \in Int /\ runAt[u] \in Int /\ seq[t] \in Nat /\ seq[u] \in Nat
    BY <1>1, <2>1, <1>2 DEF PostArgs, Scan
  <2> QED BY <1>2, <2>4, <2>5 DEF Before
<1> QED BY <1>2, <1>3, <1>4 DEF Stages

(* Every other step leaves the order alone: a task's stage only advances,    *)
(* and what is ahead of it is fixed before it is published.                  *)
LEMMA FifoStep ==
  ASSUME LifeInv, TokensHeldExactly, Drain, Published, Scanning, TokenFIFO, [Next]_vars
  PROVE  TokenFIFO'
<1> USE QueueAssumption, SchedulerAssumption
        DEF taskVars, queueVars, scanVars, timeVars, schedVars, callVars, stopVars,
            dataVars, LifeInv, TypeInv, TypeOK, PostArgs, Posting, Goto, Actor,
            TokenFIFO
<1>1. ASSUME Tick PROVE TokenFIFO'
  BY <1>1 DEF Tick
<1>2. ASSUME NEW a \in Actor, NEW t \in Tasks, NEW d \in Delays, PostStamp(a, t, d) PROVE TokenFIFO'
  <2>1. stage[t] = "none" /\ UNCHANGED stage /\ \A u \in Tasks \ {t} : ahead'[u] = ahead[u]
    BY <1>2 DEF PostStamp, LifeCycle
  <2> QED BY <2>1
<1>3. ASSUME NEW a \in Actor, PostInsert(a) PROVE TokenFIFO'
  <2>1. arg[a] \in Tasks /\ stage[arg[a]] = "none" /\ UNCHANGED ahead
        /\ stage' = [stage EXCEPT ![arg[a]] = "kPending"]
    BY <1>3 DEF PostInsert, LifeCycle
  <2> QED BY <2>1
<1>4. ASSUME NEW a \in Actor, PostReject(a) PROVE TokenFIFO'
  <2>1. arg[a] \in Tasks /\ stage[arg[a]] = "none" /\ UNCHANGED ahead
        /\ stage' = [stage EXCEPT ![arg[a]] = "kCancelled"]
    BY <1>4 DEF PostReject, LifeCycle
  <2> QED BY <2>1
<1>5. ASSUME NEW a \in Actor, PostNotify(a) PROVE TokenFIFO'
  BY <1>5 DEF PostNotify
<1>6. ASSUME NEW a \in Actor, NEW t \in Tasks, Cancel(a, t) PROVE TokenFIFO'
  BY <1>6 DEF Cancel, TryCancel
<1>7. ASSUME NEW a \in Actor, CancelNotify(a) PROVE TokenFIFO'
  BY <1>7 DEF CancelNotify
<1>8. ASSUME NEW a \in Actor, WaitUntilIdle(a) PROVE TokenFIFO'
  BY <1>8 DEF WaitUntilIdle
<1>9. ASSUME NEW a \in Actor, IdleCheck(a) \/ WaitForInFlight(a) PROVE TokenFIFO'
  BY <1>9 DEF IdleCheck, WaitForInFlight, WaitOn
<1>10. ASSUME NEW a \in Actor, CallShutdown(a) PROVE TokenFIFO'
  BY <1>10 DEF CallShutdown
<1>11. ASSUME NEW a \in Actor, ShutdownNotify(a) PROVE TokenFIFO'
  BY <1>11 DEF ShutdownNotify
<1>12. ASSUME NEW a \in Actor, ShutdownJoin(a) PROVE TokenFIFO'
  BY <1>12 DEF ShutdownJoin, Joinable, Join, JoinThrows, InJoin
<1>13. ASSUME NEW a \in Actor, ShutdownTakeAll(a) PROVE TokenFIFO'
  BY <1>13 DEF ShutdownTakeAll
<1>14. ASSUME NEW a \in Actor, NEW t \in Tasks, ShutdownCancel(a, t) PROVE TokenFIFO'
  BY <1>14 DEF ShutdownCancel, TryCancel
<1>15. ASSUME NEW a \in Actor, ShutdownDiscard(a) PROVE TokenFIFO'
  BY <1>15 DEF ShutdownDiscard
<1>16. ASSUME LoopTop PROVE TokenFIFO'
  BY <1>16 DEF LoopTop
<1>17. ASSUME WaitTimeout PROVE TokenFIFO'
  BY <1>17 DEF WaitTimeout
<1>18. ASSUME PopBegin PROVE TokenFIFO'
  BY <1>18 DEF PopBegin, PopStart
<1>19. ASSUME NEW t \in Tasks, PopCandidate(t) PROVE TokenFIFO'
  <2>1. UNCHANGED <<stage, ahead>> \/ (PopClaim(t) /\ UNCHANGED ahead)
    BY <1>19 DEF PopCandidate, PopCancelled, PopNotDue, PopBlocked, PopRunnable, PopLostRace
  <2>2. CASE PopClaim(t) /\ UNCHANGED ahead
    <3>1. \A u \in ahead[t] : stage[u] \in {"kFinished", "kCancelled"}
      BY <1>19, <2>2, FifoClaim
    <3>2. stage[t] = "kPending" /\ stage' = [stage EXCEPT ![t] = "kDispatched"]
      BY <2>2 DEF PopClaim, TryDispatch
    <3> QED BY <2>2, <3>1, <3>2
  <2> QED BY <2>1, <2>2
<1>20. ASSUME PopEnd PROVE TokenFIFO'
  BY <1>20 DEF PopEnd
<1>21. ASSUME PopNotify PROVE TokenFIFO'
  BY <1>21 DEF PopNotify
<1>22. ASSUME NEW t \in Tasks, Execute(t) PROVE TokenFIFO'
  BY <1>22 DEF Execute
<1>23. ASSUME Relock PROVE TokenFIFO'
  BY <1>23 DEF Relock
<1>24. ASSUME Sleep PROVE TokenFIFO'
  BY <1>24 DEF Sleep
<1>25. ASSUME NEW t \in Tasks, Start(t) PROVE TokenFIFO'
  BY <1>25 DEF Start
<1>26. ASSUME NEW t \in Tasks, CallbackReturn(t) PROVE TokenFIFO'
  <2>1. stage[t] = "kDispatched"
    BY <1>26 DEF CallbackReturn, LifeCycle, Executing, CallPCs
  <2> QED BY <1>26, <2>1 DEF CallbackReturn, MarkFinished
<1>27. ASSUME NEW t \in Tasks, Release(t) PROVE TokenFIFO'
  BY <1>27 DEF Release
<1>28. ASSUME NEW t \in Tasks, CompletionNotify(t) PROVE TokenFIFO'
  BY <1>28 DEF CompletionNotify
<1>29. ASSUME NEW t \in Tasks, DestroyClosure(t) PROVE TokenFIFO'
  BY <1>29 DEF DestroyClosure
<1>30. ASSUME NEW w \in waiters, SpuriousWake(w) PROVE TokenFIFO'
  BY <1>30 DEF SpuriousWake
<1>31. ASSUME UNCHANGED vars PROVE TokenFIFO'
  BY <1>31 DEF vars
<1> HIDE DEF LifeInv, TypeInv, TypeOK, PostArgs, Posting, Goto, Actor, TokenFIFO
<1>32. ASSUME Next PROVE TokenFIFO'
  BY <1>1, <1>2, <1>3, <1>4, <1>5, <1>6, <1>7, <1>8, <1>9, <1>10, <1>11,
     <1>12, <1>13, <1>14, <1>15, <1>16, <1>17, <1>18, <1>19, <1>20,
     <1>21, <1>22, <1>23, <1>24, <1>25, <1>26, <1>27, <1>28, <1>29,
     <1>30, <1>32
  DEF Next, CallStarts, CallContinues, SchedStep, WorkerStep
<1> QED BY <1>31, <1>32


OrderInv == OnTime /\ Published /\ Scanning /\ TokenFIFO

(* All of it holds in every state of a scheduler whose clock does not wrap.  *)
LEMMA OrderInvariant ==
  ASSUME NoWrap
  PROVE  Spec => [](IInv /\ Drain /\ OrderInv)
<1>1. Init => OrderInv
  <2>1. Init => TokenFIFO
    BY DEF Init, QueueInit, TokenFIFO
  <2> QED BY <2>1, OnTimeInit, PublishedInit, ScanningInit DEF OrderInv
<1>2. IInv /\ Drain /\ OrderInv /\ [Next]_vars => OrderInv'
  BY OnTimeStep, PublishedStep, ScanningStep, FifoStep DEF IInv, OrderInv, OnTime
<1> QED BY <1>1, <1>2, DrainInvariant, PTL DEF Spec

(* No task is dispatched before the delay it was posted with has passed.     *)
THEOREM NeverTooEarly == NoWrap => (Spec => []NeverEarly)
<1>1. OrderInv => NeverEarly
  BY DEF OrderInv, OnTime
<1> SUFFICES ASSUME NoWrap PROVE Spec => []NeverEarly
  OBVIOUS
<1> QED BY <1>1, OrderInvariant, PTL

(* Tasks of one token are dispatched in the order of their due times and,    *)
(* where these are equal, of their posts; one begins when the previous one   *)
(* has finished or been cancelled.                                           *)
THEOREM SequencesAreFIFO == NoWrap => (Spec => []TokenFIFO)
<1>1. OrderInv => TokenFIFO
  BY DEF OrderInv
<1> SUFFICES ASSUME NoWrap PROVE Spec => []TokenFIFO
  OBVIOUS
<1> QED BY <1>1, OrderInvariant, PTL

-----------------------------------------------------------------------------
(* The refinement: which step keeps which clause of the promise.             *)
Promised == [Abs!Next]_(Abs!vars)

(* Each step of the implementation is a step of DelayedTasks or leaves all   *)
(* stages as they are.                                                       *)
LEMMA StepKeepsPromise ==
  ASSUME LifeInv, TokensHeldExactly, OnTime, [Next]_vars
  PROVE  Promised
<1> USE QueueAssumption, SchedulerAssumption
        DEF taskVars, queueVars, scanVars, timeVars, schedVars, callVars, stopVars,
            dataVars, LifeInv, TypeInv, TypeOK, PostArgs, Posting, Goto, Actor,
            Promised
<1>1. ASSUME Tick PROVE Promised
  BY <1>1 DEF Tick, Abs!Next, Abs!Tick
<1>2. ASSUME NEW a \in Actor, NEW t \in Tasks, NEW d \in Delays, PostStamp(a, t, d) PROVE Promised
  <2>1. stage[t] = "none" /\ dueAt[t] = None /\ UNCHANGED <<now, stage>>
    BY <1>2 DEF PostStamp, LifeCycle, OnTime, Times
  <2>2. dueAt' = [dueAt EXCEPT ![t] = now + Positive(d)] /\ d \in Int
    BY <1>2 DEF PostStamp
  <2>3. dueAt'[t] \in Int /\ dueAt'[t] >= now
    BY <2>2 DEF Positive
  <2>4. dueAt' = [dueAt EXCEPT ![t] = dueAt'[t]]
    BY <2>2
  <2>5. Abs!Schedule(t)
    BY <2>1, <2>3, <2>4 DEF Abs!Schedule
  <2> QED BY <2>5 DEF Abs!Next
<1>3. ASSUME NEW a \in Actor, PostInsert(a) PROVE Promised
  <2>1. /\ arg[a] \in Tasks /\ stage[arg[a]] = "none" /\ dueAt[arg[a]] # None
        /\ stage' = [stage EXCEPT ![arg[a]] = "kPending"] /\ UNCHANGED <<now, dueAt>>
    BY <1>3 DEF PostInsert, LifeCycle, OnTime, Times
  <2>2. Abs!Publish(arg[a])
    BY <2>1 DEF Abs!Publish, Abs!Move
  <2> QED BY <2>1, <2>2 DEF Abs!Next
<1>4. ASSUME NEW a \in Actor, PostReject(a) PROVE Promised
  <2>1. /\ arg[a] \in Tasks /\ stage[arg[a]] = "none" /\ dueAt[arg[a]] # None
        /\ stage' = [stage EXCEPT ![arg[a]] = "kCancelled"] /\ UNCHANGED <<now, dueAt>>
    BY <1>4 DEF PostReject, LifeCycle, OnTime, Times
  <2>2. Abs!Refuse(arg[a])
    BY <2>1 DEF Abs!Refuse, Abs!Move
  <2> QED BY <2>1, <2>2 DEF Abs!Next
<1>5. ASSUME NEW a \in Actor, PostNotify(a) PROVE Promised
  BY <1>5 DEF PostNotify, Abs!vars
<1>6. ASSUME NEW a \in Actor, NEW t \in Tasks, Cancel(a, t) PROVE Promised
  BY <1>6 DEF Cancel, TryCancel, Abs!Next, Abs!Cancel, Abs!Move
<1>7. ASSUME NEW a \in Actor, CancelNotify(a) PROVE Promised
  BY <1>7 DEF CancelNotify, Abs!vars
<1>8. ASSUME NEW a \in Actor, WaitUntilIdle(a) PROVE Promised
  BY <1>8 DEF WaitUntilIdle, Abs!vars
<1>9. ASSUME NEW a \in Actor, IdleCheck(a) \/ WaitForInFlight(a) PROVE Promised
  BY <1>9 DEF IdleCheck, WaitForInFlight, WaitOn, Abs!vars
<1>10. ASSUME NEW a \in Actor, CallShutdown(a) PROVE Promised
  BY <1>10 DEF CallShutdown, Abs!vars
<1>11. ASSUME NEW a \in Actor, ShutdownNotify(a) PROVE Promised
  BY <1>11 DEF ShutdownNotify, Abs!vars
<1>12. ASSUME NEW a \in Actor, ShutdownJoin(a) PROVE Promised
  BY <1>12 DEF ShutdownJoin, Joinable, Join, JoinThrows, InJoin, Abs!vars
<1>13. ASSUME NEW a \in Actor, ShutdownTakeAll(a) PROVE Promised
  BY <1>13 DEF ShutdownTakeAll, Abs!vars
<1>14. ASSUME NEW a \in Actor, NEW t \in Tasks, ShutdownCancel(a, t) PROVE Promised
  BY <1>14 DEF ShutdownCancel, TryCancel, Abs!Next, Abs!Cancel, Abs!Move
<1>15. ASSUME NEW a \in Actor, ShutdownDiscard(a) PROVE Promised
  BY <1>15 DEF ShutdownDiscard, Abs!vars
<1>16. ASSUME LoopTop PROVE Promised
  BY <1>16 DEF LoopTop, Abs!vars
<1>17. ASSUME WaitTimeout PROVE Promised
  BY <1>17 DEF WaitTimeout, Abs!vars
<1>18. ASSUME PopBegin PROVE Promised
  BY <1>18 DEF PopBegin, PopStart, Abs!vars
<1>19. ASSUME NEW t \in Tasks, PopCandidate(t) PROVE Promised
  <2>1. UNCHANGED <<now, dueAt, stage>> \/ (PopClaim(t) /\ UNCHANGED <<now, dueAt>>)
    BY <1>19 DEF PopCandidate, PopCancelled, PopNotDue, PopBlocked, PopRunnable, PopLostRace
  <2>2. CASE PopClaim(t) /\ UNCHANGED <<now, dueAt>>
    <3>1. Abs!Move(t, "kPending", "kDispatched")
      BY <2>2 DEF PopClaim, TryDispatch, Abs!Move
    <3>2. dueAt[t] <= now
      BY <2>2 DEF PopClaim, OnTime, Times, Scan, LifeCycle
    <3>3. ASSUME NEW u \in Tasks, Abs!Conflict(t, u) PROVE stage[u] # "kDispatched"
      <4>1. TokenOf[t] \notin running /\ TokenOf[t] # NoToken /\ TokenOf[u] = TokenOf[t]
        BY <2>2, <3>3 DEF PopClaim, Scan, IsRunnable, Abs!Conflict
      <4> QED BY <4>1 DEF TokensHeldExactly, Claimed
    <3>4. Abs!Dispatch(t)
      BY <2>2, <3>1, <3>2, <3>3 DEF Abs!Dispatch
    <3> QED BY <3>4 DEF Abs!Next
  <2> QED BY <2>1, <2>2 DEF Abs!vars
<1>20. ASSUME PopEnd PROVE Promised
  BY <1>20 DEF PopEnd, Abs!vars
<1>21. ASSUME PopNotify PROVE Promised
  BY <1>21 DEF PopNotify, Abs!vars
<1>22. ASSUME NEW t \in Tasks, Execute(t) PROVE Promised
  BY <1>22 DEF Execute, Abs!vars
<1>23. ASSUME Relock PROVE Promised
  BY <1>23 DEF Relock, Abs!vars
<1>24. ASSUME Sleep PROVE Promised
  BY <1>24 DEF Sleep, Abs!vars
<1>25. ASSUME NEW t \in Tasks, Start(t) PROVE Promised
  BY <1>25 DEF Start, Abs!vars
<1>26. ASSUME NEW t \in Tasks, CallbackReturn(t) PROVE Promised
  <2>1. stage[t] = "kDispatched"
    BY <1>26 DEF CallbackReturn, LifeCycle, Executing, CallPCs
  <2>2. Abs!Finish(t)
    BY <1>26, <2>1 DEF CallbackReturn, MarkFinished, Abs!Finish, Abs!Move
  <2> QED BY <2>2 DEF Abs!Next
<1>27. ASSUME NEW t \in Tasks, Release(t) PROVE Promised
  BY <1>27 DEF Release, Abs!vars
<1>28. ASSUME NEW t \in Tasks, CompletionNotify(t) PROVE Promised
  BY <1>28 DEF CompletionNotify, Abs!vars
<1>29. ASSUME NEW t \in Tasks, DestroyClosure(t) PROVE Promised
  BY <1>29 DEF DestroyClosure, Abs!vars
<1>30. ASSUME NEW w \in waiters, SpuriousWake(w) PROVE Promised
  BY <1>30 DEF SpuriousWake, Abs!vars
<1>31. ASSUME UNCHANGED vars PROVE Promised
  BY <1>31 DEF vars, Abs!vars
<1> HIDE DEF LifeInv, TypeInv, TypeOK, PostArgs, Posting, Goto, Actor, Promised
<1>32. ASSUME Next PROVE Promised
  BY <1>1, <1>2, <1>3, <1>4, <1>5, <1>6, <1>7, <1>8, <1>9, <1>10, <1>11,
     <1>12, <1>13, <1>14, <1>15, <1>16, <1>17, <1>18, <1>19, <1>20,
     <1>21, <1>22, <1>23, <1>24, <1>25, <1>26, <1>27, <1>28, <1>29,
     <1>30, <1>32
  DEF Next, CallStarts, CallContinues, SchedStep, WorkerStep
<1> QED BY <1>31, <1>32


(* The scheduler keeps the promise of the API, DelayedTasks.                 *)
THEOREM ImplementsDelayedTasks == NoWrap => (Spec => DelayedTasksSpec)
<1>1. Init => Abs!Init
  BY DEF Init, QueueInit, Abs!Init
<1>2. IInv /\ OrderInv /\ [Next]_vars => [Abs!Next]_(Abs!vars)
  BY StepKeepsPromise DEF IInv, OrderInv, Promised
<1> SUFFICES ASSUME NoWrap PROVE Spec => DelayedTasksSpec
  OBVIOUS
<1> QED BY <1>1, <1>2, OrderInvariant, PTL DEF Spec, DelayedTasksSpec, Abs!Spec

=============================================================================
