-------------------------- MODULE ThreadPoolProofs --------------------------
(***************************************************************************)
(* Proofs about ThreadPool, for any number of workers and any callers.       *)
(***************************************************************************)
EXTENDS ThreadPool, FiniteSetTheorems, TLAPS

(* What reset relies on: no two restarts overlap, there is no worker beyond  *)
(* thread_count, and no worker is left when the new ones are created.        *)
OneRestart == \A a, b \in Actor : Restarting(a) /\ Restarting(b) => a = b
NoneBeyondCount == \A w \in Worker : w > threadCount => wpc[w] = "none"
NoneLeft ==
  (\E a \in Actor : pc[a] = "resetCreate")
     => \A w \in Worker : wpc[w] \in {"none", "exited"}

Restart == OneRestart /\ NoneBeyondCount /\ NoneLeft

(* What a notification relies on: while the pool is not being stopped every  *)
(* worker is there to be woken, and a pool without pausing is never paused.  *)
Manned ==
  workersRunning => \A w \in Worker : w <= threadCount => wpc[w] \notin {"none", "exited"}
SleepersAsleep == \A w \in sleepers : wpc[w] = "asleep"
NoPauseFlag == ~PauseEnabled => ~paused /\ ~wasPaused

Manning == Manned /\ SleepersAsleep /\ NoPauseFlag

IInv ==
  TypeOK /\ RunningExact /\ Restart /\ TaskInOnePlace /\ Manning /\ SomebodyComes

-----------------------------------------------------------------------------
(* Sequences: what Append, \o and Without do to the set of elements.         *)

(* What one more element makes of a queue.                                   *)
LEMMA AppendFacts ==
  ASSUME NEW S, NEW q \in Seq(S), NEW x \in S
  PROVE  /\ Append(q, x) \in Seq(S)
         /\ Range(Append(q, x)) = Range(q) \cup {x}
         /\ IsInjective(q) /\ x \notin Range(q) => IsInjective(Append(q, x))
<1>1. /\ Append(q, x) \in Seq(S)
      /\ DOMAIN Append(q, x) = 1..(Len(q) + 1)
      /\ \A i \in 1..Len(q) : Append(q, x)[i] = q[i]
      /\ Append(q, x)[Len(q) + 1] = x
  OBVIOUS
<1>2. DOMAIN q = 1..Len(q) /\ Len(q) \in Nat
  OBVIOUS
<1>3. Range(Append(q, x)) = Range(q) \cup {x}
  BY <1>1, <1>2 DEF Range
<1>4. IsInjective(q) /\ x \notin Range(q) => IsInjective(Append(q, x))
  BY <1>1, <1>2 DEF Range, IsInjective
<1> QED BY <1>1, <1>3, <1>4

(* What a batch behind it makes of a queue.                                  *)
LEMMA ConcatFacts ==
  ASSUME NEW S, NEW q \in Seq(S), NEW r \in Seq(S)
  PROVE  /\ q \o r \in Seq(S)
         /\ Range(q \o r) = Range(q) \cup Range(r)
         /\ IsInjective(q) /\ IsInjective(r) /\ Range(q) \cap Range(r) = {}
              => IsInjective(q \o r)
<1> DEFINE m == Len(q)  n == Len(r)
<1>1. m \in Nat /\ n \in Nat /\ DOMAIN q = 1..m /\ DOMAIN r = 1..n
  OBVIOUS
<1>2. /\ q \o r \in Seq(S)
      /\ DOMAIN (q \o r) = 1..(m + n)
      /\ \A i \in 1..m : (q \o r)[i] = q[i]
      /\ \A i \in (m + 1)..(m + n) : (q \o r)[i] = r[i - m]
  OBVIOUS
<1>3. \A j \in 1..n : j + m \in (m + 1)..(m + n) /\ (q \o r)[j + m] = r[j]
  BY <1>1, <1>2
<1> HIDE DEF m, n
<1>4. Range(q \o r) \subseteq Range(q) \cup Range(r)
  <2> SUFFICES ASSUME NEW i \in 1..(m + n)
               PROVE  (q \o r)[i] \in Range(q) \cup Range(r)
    BY <1>2 DEF Range
  <2>1. CASE i \in 1..m
    BY <2>1, <1>1, <1>2 DEF Range
  <2>2. CASE i \in (m + 1)..(m + n)
    <3>1. i - m \in 1..n
      BY <2>2, <1>1
    <3> QED BY <3>1, <2>2, <1>1, <1>2 DEF Range
  <2> QED BY <2>1, <2>2, <1>1
<1>5. Range(q) \cup Range(r) \subseteq Range(q \o r)
  <2>1. \A i \in 1..m : i \in 1..(m + n)
    BY <1>1
  <2>2. Range(q) \subseteq Range(q \o r)
    BY <2>1, <1>1, <1>2 DEF Range
  <2>3. \A j \in 1..n : j + m \in 1..(m + n)
    BY <1>1
  <2>4. Range(r) \subseteq Range(q \o r)
    BY <2>3, <1>1, <1>2, <1>3 DEF Range
  <2> QED BY <2>2, <2>4
<1>6. ASSUME IsInjective(q), IsInjective(r), Range(q) \cap Range(r) = {}
      PROVE  IsInjective(q \o r)
  <2> SUFFICES ASSUME NEW i \in 1..(m + n), NEW j \in 1..(m + n),
                      (q \o r)[i] = (q \o r)[j]
               PROVE  i = j
    BY <1>2 DEF IsInjective
  <2>1. \A k \in 1..(m + n) : k \in 1..m \/ (k \in (m + 1)..(m + n) /\ k - m \in 1..n)
    BY <1>1
  <2>2. CASE i \in 1..m /\ j \in 1..m
    BY <2>2, <1>1, <1>2, <1>6 DEF IsInjective
  <2>3. CASE i \notin 1..m /\ j \notin 1..m
    <3>1. r[i - m] = r[j - m] /\ i - m \in 1..n /\ j - m \in 1..n
      BY <2>1, <2>3, <1>2
    <3>2. i - m = j - m
      BY <3>1, <1>1, <1>6 DEF IsInjective
    <3> QED BY <3>2, <1>1
  <2>4. CASE i \in 1..m /\ j \notin 1..m
    <3>1. q[i] = r[j - m] /\ j - m \in 1..n
      BY <2>1, <2>4, <1>2
    <3> QED BY <3>1, <2>4, <1>1, <1>6 DEF Range
  <2>5. CASE i \notin 1..m /\ j \in 1..m
    <3>1. q[j] = r[i - m] /\ i - m \in 1..n
      BY <2>1, <2>5, <1>2
    <3> QED BY <3>1, <2>5, <1>1, <1>6 DEF Range
  <2> QED BY <2>2, <2>3, <2>4, <2>5
<1> QED BY <1>2, <1>4, <1>5, <1>6

(* What is left of a queue when one element is taken from anywhere in it.    *)
LEMMA WithoutFacts ==
  ASSUME NEW S, NEW q \in Seq(S), NEW i \in DOMAIN q
  PROVE  /\ q[i] \in S /\ q[i] \in Range(q) /\ Without(q, i) \in Seq(S)
         /\ IsInjective(q) => /\ Range(Without(q, i)) = Range(q) \ {q[i]}
                              /\ IsInjective(Without(q, i))
<1> DEFINE n == Len(q)  r == Without(q, i)
           From(k) == IF k < i THEN k ELSE k + 1
<1>1. n \in Nat /\ DOMAIN q = 1..n /\ i \in 1..n /\ n >= 1
      /\ \A k \in 1..n : q[k] \in S
  OBVIOUS
<1>2. /\ r = [k \in 1..(n - 1) |-> q[From(k)]]
      /\ \A k \in 1..(n - 1) : From(k) \in 1..n /\ From(k) # i
      /\ \A j, k \in 1..(n - 1) : From(j) = From(k) => j = k
      /\ \A j \in 1..n : j # i => \E k \in 1..(n - 1) : From(k) = j
  <2>1. r = [k \in 1..(n - 1) |-> q[From(k)]]
    BY Zenon, <1>1 DEF Without
  <2>2. /\ \A k \in 1..(n - 1) : From(k) \in 1..n /\ From(k) # i
        /\ \A j, k \in 1..(n - 1) : From(j) = From(k) => j = k
    BY <1>1
  <2>3. ASSUME NEW j \in 1..n, j # i PROVE \E k \in 1..(n - 1) : From(k) = j
    <3>1. CASE j < i
      <4>1. j \in 1..(n - 1) /\ From(j) = j
        BY <1>1, <3>1
      <4> QED BY <4>1
    <3>2. CASE j > i
      <4>1. j - 1 \in 1..(n - 1) /\ From(j - 1) = j
        BY <1>1, <3>2
      <4> QED BY <4>1
    <3> QED BY <1>1, <2>3, <3>1, <3>2
  <2> QED BY <2>1, <2>2, <2>3
<1>3. r \in Seq(S) /\ DOMAIN r = 1..(n - 1)
  <2>1. n - 1 \in Nat
    BY <1>1
  <2> HIDE DEF From, n, r
  <2>2. r \in [1..(n - 1) -> S]
    BY <1>1, <1>2
  <2> QED BY <2>1, <2>2
<1> HIDE DEF From, n, r
<1>4. q[i] \in Range(q)
  BY <1>1 DEF Range
<1>5. ASSUME IsInjective(q)
      PROVE  Range(r) = Range(q) \ {q[i]} /\ IsInjective(r)
  <2>1. Range(r) \subseteq Range(q) \ {q[i]}
    BY <1>1, <1>2, <1>5 DEF Range, IsInjective
  <2>2. Range(q) \ {q[i]} \subseteq Range(r)
    <3> SUFFICES ASSUME NEW j \in 1..n, q[j] # q[i] PROVE q[j] \in Range(r)
      BY <1>1 DEF Range
    <3>1. PICK k \in 1..(n - 1) : From(k) = j
      BY <1>2
    <3> QED BY <3>1, <1>2, <1>3 DEF Range
  <2>3. IsInjective(r)
    BY <1>1, <1>2, <1>3, <1>5 DEF IsInjective
  <2> QED BY <2>1, <2>2, <2>3
<1> QED BY <1>1, <1>3, <1>4, <1>5 DEF r

-----------------------------------------------------------------------------
(* Counting the workers that tasks_running counts.                           *)

(* There are at most MaxThreads workers to count.                            *)
LEMMA WorkersFinite ==
  \A S \in SUBSET Worker :
    IsFiniteSet(S) /\ Cardinality(S) \in Nat /\ Cardinality(S) <= MaxThreads
<1>1. IsFiniteSet(Worker) /\ Cardinality(Worker) = MaxThreads
  BY PoolAssumption, FS_Interval DEF Worker
<1>2. \A S \in SUBSET Worker :
        IsFiniteSet(S) /\ Cardinality(S) <= Cardinality(Worker)
  BY <1>1, FS_Subset
<1> QED BY <1>1, <1>2, FS_CardinalityType

(* Counting workers when one of them starts or stops working.                *)
LEMMA OneMoreOrLess ==
  ASSUME NEW S \in SUBSET Worker, NEW w \in Worker
  PROVE  /\ w \in S => Cardinality(S \ {w}) = Cardinality(S) - 1
         /\ w \notin S => Cardinality(S \cup {w}) = Cardinality(S) + 1
BY WorkersFinite, FS_AddElement, FS_RemoveElement

(* Whatever is asked for and whatever the hardware says, there are workers.  *)
LEMMA SomeThreads ==
  ASSUME NEW n \in 0..MaxThreads
  PROVE  DetermineThreadCount(n) \in Worker
BY PoolAssumption DEF DetermineThreadCount, Worker

(* A pool of n threads has n workers that have not come to wait yet.         *)
LEMMA CountThreads ==
  ASSUME NEW n \in Worker
  PROVE  Cardinality({w \in Worker : Threads(n)[w] \in {"lock", "run"}}) = n
<1>1. n \in Int /\ 1 <= n /\ n <= MaxThreads
  BY PoolAssumption DEF Worker
<1>2. {w \in Worker : Threads(n)[w] \in {"lock", "run"}} = 1..n
  BY <1>1, PoolAssumption DEF Worker, Threads
<1>3. Cardinality(1..n) = n
  BY <1>1, FS_Interval
<1> QED BY <1>2, <1>3

(* The rest of the critical section counts the worker if it takes a task:    *)
(* `running` is the number without it.                                       *)
LEMMA AwaitCounts ==
  ASSUME TypeOK, NEW w \in Worker, NEW running,
         running = Cardinality(Busy \ {w}),
         Await(w, running)
  PROVE  RunningExact'
<1> USE DEF TypeOK, Busy, RunningExact
<1> Busy \ {w} \in SUBSET Worker
  OBVIOUS
<1>1. CASE Block(w, running) \/ Break(w, running)
  <2>1. Busy' = Busy \ {w}
    BY <1>1 DEF Block, Break
  <2>2. tasksRunning' = running
    BY <1>1 DEF Block, Break
  <2> QED BY <2>1, <2>2
<1>2. CASE Take(w, running)
  <2>1. Busy' = (Busy \ {w}) \cup {w} /\ tasksRunning' = running + 1
    BY <1>2 DEF Take
  <2>2. Cardinality((Busy \ {w}) \cup {w}) = Cardinality(Busy \ {w}) + 1
    BY OneMoreOrLess
  <2> QED BY <2>1, <2>2
<1> QED BY <1>1, <1>2 DEF Await

(* The constructor sets the counter to the number of its threads.            *)
LEMMA CountInit == Init => RunningExact
<1> SUFFICES ASSUME Init PROVE RunningExact
  OBVIOUS
<1>1. threadCount \in Worker /\ tasksRunning = threadCount
      /\ wpc = Threads(threadCount)
  BY SomeThreads DEF Init
<1> QED BY <1>1, CountThreads DEF RunningExact, Busy

(* A worker counts itself in and out where it becomes busy and stops.        *)
LEMMA CountStep ==
  ASSUME TypeOK, RunningExact, [Next]_vars
  PROVE  RunningExact'
<1>0. Busy \in SUBSET Worker
  BY DEF Busy
<1>1. ASSUME NEW w \in Worker, Arrive(w) PROVE RunningExact'
  <2>1. w \in Busy
    BY <1>1 DEF Arrive, Busy
  <2>2. tasksRunning - 1 = Cardinality(Busy \ {w})
    BY <2>1, <1>0, OneMoreOrLess DEF RunningExact
  <2> QED BY <2>2, <1>1, AwaitCounts DEF Arrive
<1>2. ASSUME NEW w \in Worker, Wake(w) PROVE RunningExact'
  <2>1. Busy \ {w} = Busy
    BY <1>2 DEF Wake, Busy
  <2>2. tasksRunning = Cardinality(Busy \ {w})
    BY <2>1 DEF RunningExact
  <2> QED BY <2>2, <1>2, AwaitCounts DEF Wake
<1>3. ASSUME NEW w \in Worker, Finish(w) PROVE RunningExact'
  <2>1. Busy' = Busy
    BY <1>3 DEF Finish, Busy, TypeOK
  <2> QED BY <2>1, <1>3 DEF Finish, RunningExact, queueVars
<1>4. ASSUME NEW a \in Actor, NEW n \in 0..MaxThreads, CreateThreads(a, n)
      PROVE  RunningExact'
  BY <1>4, SomeThreads, CountThreads DEF CreateThreads, RunningExact, Busy
<1>5. ASSUME UNCHANGED <<tasksRunning, wpc>> PROVE RunningExact'
  BY <1>5 DEF RunningExact, Busy
<1>6. ASSUME NEW a \in Actor, CallBegins(a) PROVE UNCHANGED <<tasksRunning, wpc>>
  BY <1>6 DEF CallBegins, DetachTask, DetachBulk, Purge, Pause, Unpause, Wait,
              WaitFor, Reset, Destructor, CallWait, queueVars, threadVars
<1>7. ASSUME NEW a \in Actor, CallContinues(a)
      PROVE  \/ UNCHANGED <<tasksRunning, wpc>>
             \/ \E n \in 0..MaxThreads : CreateThreads(a, n)
  BY <1>7 DEF CallContinues, NotifyOne, NotifyAll, Resume, ResetWait, CallWait,
              StopWorkers, NotifyStop, JoinWorkers, ResumePool, queueVars, threadVars
<1>8. ASSUME \/ \E a \in Actor : Timeout(a)
             \/ SpuriousWake \/ UNCHANGED vars
      PROVE  UNCHANGED <<tasksRunning, wpc>>
  BY <1>8 DEF Timeout, SpuriousWake, vars, queueVars, threadVars
<1> QED BY <1>1, <1>2, <1>3, <1>4, <1>5, <1>6, <1>7, <1>8 DEF Next

-----------------------------------------------------------------------------
(* The program starts with every variable of its type.                       *)
LEMMA TypeInit == Init => TypeOK
<1> SUFFICES ASSUME Init PROVE TypeOK
  OBVIOUS
<1>1. threadCount \in Worker /\ threadCount \in 0..MaxThreads
  BY PoolAssumption, SomeThreads DEF Init, Worker
<1>2. wpc \in [Worker -> {"none", "lock", "run", "asleep", "exited"}]
  BY DEF Init, Threads
<1>3. pc \in [Actor -> Places]
  BY DEF Init, Places
<1>4. tasks \in Seq(Tasks) /\ job \in [Worker -> Tasks \cup {None}]
  BY DEF Init
<1> QED BY <1>1, <1>2, <1>3, <1>4 DEF Init, TypeOK

(* Everything but the range of tasks_running, which the count gives.         *)
LEMMA TypeStep ==
  ASSUME TypeOK, RunningExact, [Next]_vars
  PROVE  TypeOK'
<1>0. tasksRunning' \in 0..MaxThreads
  <2>1. Busy' \in SUBSET Worker
    BY DEF Busy
  <2>2. tasksRunning' = Cardinality(Busy')
    BY CountStep DEF RunningExact
  <2> QED BY <2>1, <2>2, WorkersFinite, PoolAssumption
<1>1. ASSUME NEW w \in Worker, NEW running, Await(w, running)
      PROVE  /\ tasks' \in Seq(Tasks)
             /\ wpc' \in [Worker -> {"none", "lock", "run", "asleep", "exited"}]
             /\ job' \in [Worker -> Tasks \cup {None}]
             /\ sleepers' \subseteq Worker
             /\ pc' \in [Actor -> Places]
  <2>1. CASE Block(w, running) \/ Break(w, running)
    BY <2>1 DEF Block, Break, TypeOK
  <2>2. CASE Take(w, running)
    <3>1. PICK i \in DOMAIN tasks : PopTask(w, i)
      BY <2>2 DEF Take
    <3>2. tasks[i] \in Tasks /\ Without(tasks, i) \in Seq(Tasks)
      BY WithoutFacts DEF TypeOK
    <3>3. "ready" \in Places
      BY DEF Places
    <3> QED BY <2>2, <3>1, <3>2, <3>3 DEF Take, PopTask, TypeOK
  <2> QED BY <1>1, <2>1, <2>2 DEF Await
<1>2. ASSUME NEW w \in Worker, Arrive(w) \/ Wake(w) PROVE TypeOK'
  <2>1. \E running : Await(w, running)
    BY <1>2 DEF Arrive, Wake
  <2>2. doneWaiters' \subseteq Actor
    BY <1>2 DEF Arrive, Wake, TypeOK
  <2> QED BY <1>0, <1>1, <1>2, <2>1, <2>2 DEF Arrive, Wake, TypeOK, pauseVars
<1>3. ASSUME NEW w \in Worker, Finish(w) PROVE TypeOK'
  BY <1>3 DEF Finish, Goto, TypeOK, Places, queueVars, pauseVars
<1>4. ASSUME NEW a \in Actor, NEW t \in Tasks, DetachTask(a, t) PROVE TypeOK'
  <2>1. tasks' \in Seq(Tasks)
    BY <1>4, AppendFacts DEF DetachTask, TypeOK
  <2> QED BY <2>1, <1>0, <1>4 DEF DetachTask, TypeOK, Places, threadVars, pauseVars
<1>5. ASSUME NEW a \in Actor, NEW b \in Batches, DetachBulk(a, b) PROVE TypeOK'
  <2>1. tasks' \in Seq(Tasks)
    BY <1>5, ConcatFacts, PoolAssumption DEF DetachBulk, TypeOK
  <2>2. pc' \in [Actor -> Places]
    BY <1>5 DEF DetachBulk, TypeOK, Places
  <2> QED BY <2>1, <2>2, <1>0, <1>5 DEF DetachBulk, TypeOK, threadVars, pauseVars
<1>6. ASSUME NEW a \in Actor, NEW at, NEW blocked \in DOMAIN After,
             CallWait(a, at, blocked)
      PROVE  /\ tasks' \in Seq(Tasks) /\ waiting' \in BOOLEAN
             /\ doneWaiters' \subseteq Actor /\ pc' \in [Actor -> Places]
             /\ UNCHANGED <<threadVars, wasPaused>>
  <2>1. blocked \in Places /\ After[blocked] \in Places
    BY DEF After, Places
  <2> QED BY <1>6, <2>1 DEF CallWait, Goto, TypeOK
<1>7. ASSUME NEW a \in Actor, Purge(a) \/ Pause(a) \/ Unpause(a) \/ Reset(a)
      PROVE  TypeOK'
  <2>1. CASE Purge(a)
    BY <1>0, <2>1 DEF Purge, TypeOK, Places, threadVars, pauseVars
  <2>2. CASE Pause(a) \/ Unpause(a)
    BY <2>2 DEF Pause, Unpause, TypeOK, Places, queueVars, threadVars
  <2>3. CASE Reset(a)
    BY <2>3, PoolAssumption DEF Reset, TypeOK, Places, queueVars, threadVars
  <2> QED BY <1>7, <2>1, <2>2, <2>3
<1>8. ASSUME NEW a \in Actor,
             Wait(a) \/ WaitFor(a) \/ ResetWait(a) \/ Destructor(a)
      PROVE  TypeOK'
  <2>1. \E at : \E blocked \in DOMAIN After : CallWait(a, at, blocked)
    BY <1>8 DEF Wait, WaitFor, ResetWait, Destructor, After
  <2> QED BY <1>0, <1>6, <1>8, <2>1
          DEF Wait, WaitFor, ResetWait, Destructor, TypeOK, threadVars
<1>9. ASSUME NEW a \in Actor, Resume(a) PROVE TypeOK'
  <2>1. pc[a] \in DOMAIN After => After[pc[a]] \in Places
    BY DEF After, Places
  <2> QED BY <2>1, <1>9 DEF Resume, TypeOK, threadVars, pauseVars
<1>10. ASSUME NEW a \in Actor,
              \/ Timeout(a) \/ NotifyOne(a) \/ NotifyAll(a) \/ StopWorkers(a)
              \/ NotifyStop(a) \/ JoinWorkers(a) \/ ResumePool(a)
       PROVE  TypeOK'
  BY <1>10 DEF Timeout, NotifyOne, NotifyAll, StopWorkers, NotifyStop, JoinWorkers,
               ResumePool, Goto, TypeOK, Places, queueVars, threadVars, pauseVars
<1>11. ASSUME NEW a \in Actor, NEW n \in 0..MaxThreads, CreateThreads(a, n) PROVE TypeOK'
  BY <1>0, <1>11, SomeThreads
  DEF CreateThreads, Threads, Goto, TypeOK, Places, pauseVars
<1>12. CASE SpuriousWake \/ UNCHANGED vars
  BY <1>12 DEF SpuriousWake, TypeOK, vars, queueVars, threadVars, pauseVars
<1> QED BY <1>2, <1>3, <1>4, <1>5, <1>7, <1>8, <1>9, <1>10, <1>11, <1>12
        DEF Next, CallBegins, CallContinues

-----------------------------------------------------------------------------
(* Restarts.                                                                 *)

(* At first nobody replaces the threads.                                     *)
LEMMA RestartInit == Init => Restart
<1> SUFFICES ASSUME Init PROVE Restart
  OBVIOUS
<1>1. \A a \in Actor : pc[a] \in {"ready", "new"}
  BY DEF Init
<1>2. \A w \in Worker : w > threadCount => wpc[w] = "none"
  BY PoolAssumption, SomeThreads DEF Init, Threads, Worker
<1> QED BY <1>1, <1>2 DEF Restart, OneRestart, Restarting, NoneBeyondCount, NoneLeft

(* Only Reset begins a restart; only JoinWorkers leads to create_threads.    *)
LEMMA RestartPlaces ==
  ASSUME TypeOK, [Next]_vars
  PROVE  \A x \in Actor :
           /\ Restarting(x)' => Restarting(x) \/ Reset(x)
           /\ pc'[x] = "resetCreate" => pc[x] = "resetCreate" \/ JoinWorkers(x)
<1> USE DEF TypeOK, Restarting
<1>1. ASSUME NEW w \in Worker, NEW running, Await(w, running), NEW x \in Actor
      PROVE  pc'[x] = pc[x] \/ pc'[x] = "ready"
  BY <1>1 DEF Await, Block, Break, Take, PopTask
<1>2. ASSUME NEW w \in Worker, Arrive(w) \/ Wake(w) \/ Finish(w), NEW x \in Actor
      PROVE  pc'[x] = pc[x] \/ pc'[x] \in {"ready", "done"}
  BY <1>1, <1>2 DEF Arrive, Wake, Finish, Goto
<1>3. ASSUME NEW a \in Actor, CallBegins(a), NEW x \in Actor
      PROVE  \/ pc'[x] = pc[x] \/ (x = a /\ Reset(a) /\ pc'[x] = "resetCall")
             \/ pc'[x] \in {"notifyOne", "notifyAll", "queued", "purged", "ready",
                            "waiting", "timed", "dtorStop", "dtorWait"}
  BY <1>3 DEF CallBegins, DetachTask, DetachBulk, Purge, Pause, Unpause, Wait,
              WaitFor, Reset, Destructor, CallWait, Goto, After
<1>4. ASSUME NEW a \in Actor, CallContinues(a) \/ Timeout(a), NEW x \in Actor
      PROVE  \/ pc'[x] = pc[x] \/ (x = a /\ JoinWorkers(a))
             \/ pc'[x] \in {"ready", "notifyAll", "dtorStop", "dtorNotify",
                            "dtorJoin"}
             \/ Restarting(x) /\ pc'[x] # "resetCreate"
  <2>1. CASE NotifyOne(a) \/ NotifyAll(a) \/ Resume(a) \/ Timeout(a)
    BY <2>1 DEF NotifyOne, NotifyAll, Resume, Timeout, Goto, After
  <2>2. CASE ResetWait(a)
    BY <2>2 DEF ResetWait, CallWait, Goto, After
  <2>3. CASE StopWorkers(a) \/ NotifyStop(a) \/ JoinWorkers(a)
    BY <2>3 DEF StopWorkers, NotifyStop, JoinWorkers, Goto
  <2>4. CASE (\E n \in 0..MaxThreads : CreateThreads(a, n)) \/ ResumePool(a)
    BY <2>4 DEF CreateThreads, ResumePool, Goto
  <2> QED BY <1>4, <2>1, <2>2, <2>3, <2>4 DEF CallContinues
<1>5. ASSUME NEW a \in Actor, JoinWorkers(a), NEW x \in Actor
      PROVE  pc'[x] = pc[x] \/ pc'[x] = "destroyed" \/ (x = a /\ Restarting(a))
  BY <1>5 DEF JoinWorkers, Goto
<1>6. ASSUME SpuriousWake \/ UNCHANGED vars PROVE UNCHANGED pc
  BY <1>6 DEF SpuriousWake, vars
<1> SUFFICES ASSUME NEW x \in Actor
             PROVE  /\ Restarting(x)' => Restarting(x) \/ Reset(x)
                    /\ pc'[x] = "resetCreate"
                         => pc[x] = "resetCreate" \/ JoinWorkers(x)
  OBVIOUS
<1>7. CASE \E w \in Worker : Arrive(w) \/ Wake(w) \/ Finish(w)
  BY <1>2, <1>7
<1>8. CASE \E a \in Actor : CallBegins(a)
  BY <1>3, <1>8
<1>9. CASE \E a \in Actor : CallContinues(a) \/ Timeout(a)
  <2> PICK a \in Actor : CallContinues(a) \/ Timeout(a)
    BY <1>9
  <2>1. CASE x = a /\ JoinWorkers(a)
    BY <2>1, <1>5
  <2>2. CASE ~(x = a /\ JoinWorkers(a))
    BY <2>2, <1>4
  <2> QED BY <2>1, <2>2
<1> QED BY <1>6, <1>7, <1>8, <1>9 DEF Next

(* Workers come and go only in their own steps and in CreateThreads.         *)
LEMMA WorkerPlaces ==
  ASSUME TypeOK, [Next]_vars
  PROVE  \/ UNCHANGED <<wpc, threadCount>>
         \/ /\ UNCHANGED threadCount
            /\ \E w \in Worker :
                 /\ wpc[w] \notin {"none", "exited"}
                 /\ \A v \in Worker \ {w} : wpc'[v] = wpc[v]
         \/ \E a \in Actor, n \in 0..MaxThreads : CreateThreads(a, n)
<1> USE DEF TypeOK
<1>1. ASSUME NEW w \in Worker, Arrive(w) \/ Wake(w) \/ Finish(w)
      PROVE  /\ UNCHANGED threadCount
             /\ wpc[w] \notin {"none", "exited"}
             /\ \A v \in Worker \ {w} : wpc'[v] = wpc[v]
  BY <1>1 DEF Arrive, Wake, Finish, Await, Block, Break, Take
<1>2. ASSUME NEW a \in Actor, CallBegins(a) PROVE UNCHANGED <<wpc, threadCount>>
  BY <1>2 DEF CallBegins, DetachTask, DetachBulk, Purge, Pause, Unpause, Wait,
              WaitFor, Reset, Destructor, CallWait, threadVars
<1>3. ASSUME NEW a \in Actor, CallContinues(a) \/ Timeout(a)
      PROVE  \/ UNCHANGED <<wpc, threadCount>>
             \/ \E n \in 0..MaxThreads : CreateThreads(a, n)
  BY <1>3 DEF CallContinues, NotifyOne, NotifyAll, Resume, ResetWait, CallWait,
              StopWorkers, NotifyStop, JoinWorkers, ResumePool, Timeout, threadVars
<1>4. ASSUME SpuriousWake \/ UNCHANGED vars PROVE UNCHANGED <<wpc, threadCount>>
  BY <1>4 DEF SpuriousWake, vars, threadVars
<1> QED BY <1>1, <1>2, <1>3, <1>4 DEF Next

(* No step breaks what reset relies on.                                      *)
LEMMA RestartStep ==
  ASSUME TypeOK, Restart, [Next]_vars
  PROVE  Restart'
<1>1. OneRestart'
  <2> SUFFICES ASSUME NEW a \in Actor, NEW b \in Actor,
                      Restarting(a)', Restarting(b)'
               PROVE  a = b
    BY DEF OneRestart
  <2>1. \A x, y \in Actor : Reset(x) => ~Restarting(y)
    BY DEF Reset
  <2>2. \A x, y \in Actor : Reset(x) /\ Restarting(y)' => x = y
    BY DEF Reset, Restarting, TypeOK
  <2> QED BY <2>1, <2>2, RestartPlaces DEF Restart, OneRestart
<1>2. NoneBeyondCount'
  <2>1. ASSUME NEW a \in Actor, NEW n \in 0..MaxThreads, CreateThreads(a, n)
        PROVE  NoneBeyondCount'
    BY <2>1, SomeThreads, PoolAssumption
    DEF CreateThreads, NoneBeyondCount, Threads, Worker
  <2> QED BY <2>1, WorkerPlaces DEF Restart, NoneBeyondCount
<1>3. NoneLeft'
  <2> SUFFICES ASSUME NEW a \in Actor, pc'[a] = "resetCreate"
               PROVE  \A w \in Worker : wpc'[w] \in {"none", "exited"}
    BY DEF NoneLeft
  <2>1. CASE JoinWorkers(a)
    <3>1. \A w \in 1..threadCount : wpc[w] = "exited"
      BY <2>1 DEF JoinWorkers
    <3>2. \A w \in Worker : w \in 1..threadCount \/ w > threadCount
      BY PoolAssumption DEF Worker, TypeOK
    <3>3. UNCHANGED wpc
      BY <2>1 DEF JoinWorkers, threadVars
    <3> QED BY <3>1, <3>2, <3>3 DEF Restart, NoneBeyondCount
  <2>2. CASE pc[a] = "resetCreate"
    <3>1. \A w \in Worker : wpc[w] \in {"none", "exited"}
      BY <2>2 DEF Restart, NoneLeft
    <3>2. ASSUME NEW b \in Actor, NEW n \in 0..MaxThreads, CreateThreads(b, n)
          PROVE  FALSE
      <4>1. pc[b] = "resetCreate" /\ pc'[b] = "resetResume"
        BY <3>2 DEF CreateThreads, Goto, TypeOK
      <4>2. a = b
        BY <4>1, <2>2 DEF Restart, OneRestart, Restarting
      <4> QED BY <4>1, <4>2
    <3> QED BY <3>1, <3>2, WorkerPlaces
  <2> QED BY <2>1, <2>2, RestartPlaces
<1> QED BY <1>1, <1>2, <1>3 DEF Restart

-----------------------------------------------------------------------------
(* Where the tasks are.                                                      *)

Outside == {"new", "queued", "purged", "done"}

(* At first there is no task anywhere.                                       *)
LEMMA PlacedInit == Init => TaskInOnePlace
<1> SUFFICES ASSUME Init PROVE TaskInOnePlace
  OBVIOUS
<1>1. Queued = {} /\ Range(tasks) = {} /\ IsInjective(tasks)
  BY PoolAssumption DEF Init, Queued, Actor, Range, IsInjective
<1>2. \A w \in Worker : wpc[w] # "run" /\ job[w] \notin Tasks
  BY PoolAssumption DEF Init, Threads
<1> QED BY <1>1, <1>2 DEF TaskInOnePlace

(* A step that moves callers only inside the pool's calls moves no task.     *)
LEMMA PlacedFrame ==
  ASSUME TypeOK, TaskInOnePlace, UNCHANGED <<tasks, job>>,
         \A w \in Worker : (wpc'[w] = "run") <=> (wpc[w] = "run"),
         \A x \in Actor : \/ pc'[x] = pc[x]
                          \/ pc[x] \notin Outside /\ pc'[x] \notin Outside
  PROVE  TaskInOnePlace'
<1>1. Tasks \subseteq Actor
  BY DEF Actor
<1>2. Queued' = Queued
  BY <1>1 DEF Queued, Outside
<1>3. \A w \in Worker : job[w] \in Tasks => pc'[job[w]] \notin Outside
  BY <1>1 DEF TaskInOnePlace, Outside
<1> QED BY <1>2, <1>3 DEF TaskInOnePlace, Outside

(* A caller goes from one place of a call to the next.                       *)
LEMMA CallMoves ==
  ASSUME TypeOK, NEW a \in Actor, NEW to, to \notin Outside,
         pc[a] \notin Outside, pc' = [pc EXCEPT ![a] = to]
  PROVE  \A x \in Actor : \/ pc'[x] = pc[x]
                          \/ pc[x] \notin Outside /\ pc'[x] \notin Outside
BY DEF TypeOK

(* A worker that comes to wait, or is woken, takes at most one task, and     *)
(* takes it out of the queue.                                                *)
LEMMA PlacedAwait ==
  ASSUME TypeOK, TaskInOnePlace, NEW w \in Worker, wpc[w] # "run",
         NEW running, Await(w, running)
  PROVE  TaskInOnePlace'
<1>1. CASE Block(w, running) \/ Break(w, running)
  <2>1. \A v \in Worker : (wpc'[v] = "run") <=> (wpc[v] = "run")
    BY <1>1 DEF Block, Break, TypeOK
  <2> QED BY <2>1, <1>1, PlacedFrame DEF Block, Break
<1>2. CASE Take(w, running)
  <2>0. PICK i \in DOMAIN tasks : PopTask(w, i)
    BY <1>2 DEF Take
  <2> DEFINE h == tasks[i]
  <2>1. /\ tasks' = Without(tasks, i)
        /\ job' = [job EXCEPT ![w] = h]
        /\ pc' = [pc EXCEPT ![h] = "ready"]
        /\ wpc' = [wpc EXCEPT ![w] = "run"]
    BY <1>2, <2>0 DEF Take, PopTask
  <2>2. /\ h \in Tasks /\ h \in Queued
        /\ Range(tasks') = Queued \ {h} /\ IsInjective(tasks')
    BY <2>1, WithoutFacts DEF TypeOK, TaskInOnePlace
  <2> HIDE DEF h
  <2>3. Tasks \subseteq Actor
    BY DEF Actor
  <2>4. Queued' = Queued \ {h}
    BY <2>1, <2>2, <2>3 DEF Queued, TypeOK
  <2>5. \A v \in Worker : job[v] # h
    BY <2>2 DEF TaskInOnePlace, Queued
  <2>6. ASSUME NEW v \in Worker
        PROVE  /\ (wpc'[v] = "run") <=> (job'[v] \in Tasks)
               /\ job'[v] \in Tasks => /\ pc'[job'[v]] \notin Outside
                                       /\ \A u \in Worker \ {v} : job'[u] # job'[v]
    <3>1. CASE v = w
      BY <3>1, <2>1, <2>2, <2>3, <2>5 DEF TypeOK, Outside
    <3>2. CASE v # w
      BY <3>2, <2>1, <2>2, <2>3, <2>5 DEF TypeOK, TaskInOnePlace, Outside
    <3> QED BY <3>1, <3>2
  <2> QED BY <2>2, <2>4, <2>6 DEF TaskInOnePlace, Outside
<1> QED BY <1>1, <1>2 DEF Await

(* A worker that has run its task has none.                                  *)
LEMMA PlacedFinish ==
  ASSUME TypeOK, TaskInOnePlace, NEW w \in Worker, Finish(w)
  PROVE  TaskInOnePlace'
<1>1. /\ wpc[w] = "run" /\ pc[job[w]] = "ready"
      /\ pc' = [pc EXCEPT ![job[w]] = "done"]
      /\ wpc' = [wpc EXCEPT ![w] = "lock"]
      /\ job' = [job EXCEPT ![w] = None]
      /\ tasks' = tasks
  BY DEF Finish, Goto, queueVars
<1>2. job[w] \in Tasks /\ Tasks \subseteq Actor
  BY <1>1 DEF TaskInOnePlace, Actor
<1>3. Queued' = Queued
  BY <1>1, <1>2 DEF Queued, TypeOK
<1>4. ASSUME NEW v \in Worker
      PROVE  /\ (wpc'[v] = "run") <=> (job'[v] \in Tasks)
             /\ job'[v] \in Tasks => /\ pc'[job'[v]] \notin Outside
                                     /\ \A u \in Worker \ {v} : job'[u] # job'[v]
  <2>1. CASE v = w
    BY <2>1, <1>1, PoolAssumption DEF TypeOK
  <2>2. CASE v # w
    BY <2>2, <1>1, <1>2, PoolAssumption DEF TypeOK, TaskInOnePlace, Outside
  <2> QED BY <2>1, <2>2
<1> QED BY <1>1, <1>3, <1>4 DEF TaskInOnePlace, Outside

(* A batch of new tasks (one, for detach_task) goes to the end of the queue. *)
LEMMA PlacedDetach ==
  ASSUME TypeOK, TaskInOnePlace, NEW a \in Actor, pc[a] = "ready",
         NEW S \in SUBSET Tasks, \A t \in S : pc[t] = "new",
         Range(tasks') = Range(tasks) \cup S, IsInjective(tasks'),
         wpc' = wpc, job' = job,
         \A t \in S : pc'[t] = "queued",
         \A x \in Actor \ S : pc'[x] = pc[x] \/ (x = a /\ pc'[x] \notin Outside)
  PROVE  TaskInOnePlace'
<1>1. Tasks \subseteq Actor
  BY DEF Actor
<1>2. Queued' = Queued \cup S
  BY <1>1 DEF Queued, Outside
<1>3. \A w \in Worker : job[w] \in Tasks => job[w] \notin S
  BY DEF TaskInOnePlace
<1>4. \A w \in Worker : job[w] \in Tasks => pc'[job[w]] \notin Outside
  BY <1>1, <1>3 DEF TaskInOnePlace, Outside
<1> QED BY <1>2, <1>4 DEF TaskInOnePlace, Outside

(* A call that begins puts new tasks, and only new ones, into the queue.     *)
LEMMA PlacedCallBegins ==
  ASSUME TypeOK, TaskInOnePlace, NEW a \in Actor, CallBegins(a)
  PROVE  TaskInOnePlace'
<1>0. Tasks \subseteq Actor
  BY DEF Actor
<1>1. ASSUME NEW t \in Tasks, DetachTask(a, t) PROVE TaskInOnePlace'
  <2>1. t \notin Range(tasks) /\ a # t
    BY <1>1 DEF DetachTask, Calls, TaskInOnePlace, Queued
  <2>2. Range(tasks') = Range(tasks) \cup {t} /\ IsInjective(tasks')
    BY <2>1, <1>1, AppendFacts DEF DetachTask, TypeOK, TaskInOnePlace
  <2>3. pc[a] = "ready" /\ (\A u \in {t} : pc[u] = "new") /\ UNCHANGED <<wpc, job>>
    BY <1>1 DEF DetachTask, Calls, threadVars
  <2>4. /\ \A u \in {t} : pc'[u] = "queued"
        /\ \A x \in Actor \ {t} : pc'[x] = pc[x] \/ (x = a /\ pc'[x] \notin Outside)
    BY <1>0, <1>1, <2>1 DEF DetachTask, TypeOK, Outside
  <2>5. {t} \in SUBSET Tasks
    OBVIOUS
  <2> QED BY <2>2, <2>3, <2>4, <2>5, PlacedDetach
<1>2. ASSUME NEW b \in Batches, DetachBulk(a, b) PROVE TaskInOnePlace'
  <2>1. b \in Seq(Tasks) /\ IsInjective(b) /\ Range(b) \subseteq Tasks
    BY PoolAssumption DEF Range
  <2>2. \A t \in Range(b) : pc[t] = "new"
    BY <1>2 DEF DetachBulk
  <2>3. Range(tasks) \cap Range(b) = {}
    BY <2>2 DEF TaskInOnePlace, Queued
  <2>4. Range(tasks') = Range(tasks) \cup Range(b) /\ IsInjective(tasks')
    BY <2>1, <2>3, <1>2, ConcatFacts DEF DetachBulk, TypeOK, TaskInOnePlace
  <2>5. pc[a] = "ready" /\ UNCHANGED <<wpc, job>>
    BY <1>2 DEF DetachBulk, Calls, threadVars
  <2>6. /\ \A t \in Range(b) : pc'[t] = "queued"
        /\ \A x \in Actor \ Range(b) :
             pc'[x] = pc[x] \/ (x = a /\ pc'[x] \notin Outside)
    BY <1>0, <1>2, <2>1 DEF DetachBulk, Outside
  <2> QED BY <2>1, <2>2, <2>4, <2>5, <2>6, PlacedDetach
<1>3. CASE Purge(a)
  <2>1. tasks' = <<>> /\ UNCHANGED <<wpc, job>>
    BY <1>3 DEF Purge, threadVars
  <2>2. Queued' = {} /\ Range(tasks') = {} /\ IsInjective(tasks')
    BY <1>0, <1>3, <2>1 DEF Purge, Queued, Range, IsInjective
  <2>3. \A x \in Actor : x \notin Queued => pc'[x] = pc[x]
    BY <1>3 DEF Purge
  <2>4. \A w \in Worker : job[w] \in Tasks => job[w] \notin Queued
    BY DEF TaskInOnePlace, Queued
  <2> QED BY <1>0, <2>1, <2>2, <2>3, <2>4 DEF TaskInOnePlace
<1>4. CASE Pause(a) \/ Unpause(a) \/ Reset(a)
  <2>1. /\ UNCHANGED <<tasks, job, wpc>>
        /\ \A x \in Actor : \/ pc'[x] = pc[x]
                            \/ pc[x] \notin Outside /\ pc'[x] \notin Outside
    BY <1>4 DEF Pause, Unpause, Reset, Calls, Outside, TypeOK, queueVars, threadVars
  <2> QED BY <2>1, PlacedFrame
<1>5. CASE Wait(a) \/ WaitFor(a) \/ Destructor(a)
  <2>1. /\ UNCHANGED <<tasks, job, wpc>>
        /\ \A x \in Actor : \/ pc'[x] = pc[x]
                            \/ pc[x] \notin Outside /\ pc'[x] \notin Outside
    BY <1>5 DEF Wait, WaitFor, Destructor, CallWait, Goto, After, Outside, TypeOK,
                threadVars
  <2> QED BY <2>1, PlacedFrame
<1> QED BY <1>1, <1>2, <1>3, <1>4, <1>5 DEF CallBegins

(* A call that goes on moves no task to a second place.                      *)
LEMMA PlacedCallContinues ==
  ASSUME TypeOK, Restart, TaskInOnePlace, NEW a \in Actor,
         CallContinues(a) \/ Timeout(a)
  PROVE  TaskInOnePlace'
<1>1. ASSUME NEW n \in 0..MaxThreads, CreateThreads(a, n) PROVE TaskInOnePlace'
  <2>1. \A w \in Worker : wpc[w] # "run"
    BY <1>1 DEF CreateThreads, Goto, Restart, NoneLeft
  <2>2. \A w \in Worker : wpc'[w] # "run"
    BY <1>1 DEF CreateThreads, Threads
  <2>3. \A x \in Actor : \/ pc'[x] = pc[x]
                         \/ pc[x] \notin Outside /\ pc'[x] \notin Outside
    BY <1>1 DEF CreateThreads, Goto, Outside, TypeOK
  <2> QED BY <1>1, <2>1, <2>2, <2>3, PlacedFrame DEF CreateThreads
<1>2. CASE ~(\E n \in 0..MaxThreads : CreateThreads(a, n))
  <2>1. UNCHANGED <<tasks, job, wpc>>
    BY <1>2 DEF CallContinues, NotifyOne, NotifyAll, Resume, ResetWait, CallWait,
                StopWorkers, NotifyStop, JoinWorkers, ResumePool, Timeout,
                queueVars, threadVars
  <2>2. \A x \in Actor : \/ pc'[x] = pc[x]
                         \/ pc[x] \notin Outside /\ pc'[x] \notin Outside
    <3>1. CASE NotifyOne(a) \/ NotifyAll(a) \/ Resume(a) \/ Timeout(a)
      BY <3>1 DEF NotifyOne, NotifyAll, Resume, Timeout, Goto, After, Outside, TypeOK
    <3>2. CASE ResetWait(a)
      BY <3>2 DEF ResetWait, CallWait, Goto, After, Outside, TypeOK
    <3>3. CASE StopWorkers(a) \/ NotifyStop(a) \/ JoinWorkers(a) \/ ResumePool(a)
      BY <3>3 DEF StopWorkers, NotifyStop, JoinWorkers, ResumePool, Goto, Outside,
                  TypeOK
    <3> QED BY <1>2, <3>1, <3>2, <3>3 DEF CallContinues
  <2> QED BY <2>1, <2>2, PlacedFrame
<1> QED BY <1>1, <1>2

(* So no step leaves a task in two places or in none.                        *)
LEMMA PlacedStep ==
  ASSUME TypeOK, Restart, TaskInOnePlace, [Next]_vars
  PROVE  TaskInOnePlace'
<1>1. ASSUME NEW w \in Worker, Arrive(w) \/ Wake(w) PROVE TaskInOnePlace'
  <2>1. wpc[w] # "run" /\ \E running : Await(w, running)
    BY <1>1 DEF Arrive, Wake
  <2> QED BY <2>1, PlacedAwait
<1>2. CASE SpuriousWake \/ UNCHANGED vars
  <2>1. UNCHANGED <<tasks, job, wpc, pc>>
    BY <1>2 DEF SpuriousWake, vars, queueVars, threadVars
  <2> QED BY <2>1, PlacedFrame
<1> QED BY <1>1, <1>2, PlacedFinish, PlacedCallBegins, PlacedCallContinues DEF Next

-----------------------------------------------------------------------------
(* No notification is missed for good.                                       *)

(* At first every worker is there, and none sleeps.                          *)
LEMMA ManningInit == Init => Manning /\ SomebodyComes
<1> SUFFICES ASSUME Init PROVE Manning /\ SomebodyComes
  OBVIOUS
<1>1. \A w \in Worker : w <= threadCount => wpc[w] = "lock"
  BY DEF Init, Threads
<1>2. ~Available
  BY DEF Init, Available
<1> QED BY <1>1, <1>2
        DEF Init, Manning, Manned, SleepersAsleep, NoPauseFlag, SomebodyComes

(* No step breaks what a notification relies on.                             *)
LEMMA ManningStep ==
  ASSUME TypeOK, Restart, Manning, [Next]_vars
  PROVE  Manning'
<1> USE DEF TypeOK, Manning, Manned, SleepersAsleep, NoPauseFlag
<1>1. ASSUME NEW w \in Worker, Arrive(w) \/ Wake(w) \/ Finish(w) PROVE Manning'
  <2>1. UNCHANGED <<workersRunning, threadCount, paused, wasPaused>>
    BY <1>1 DEF Arrive, Wake, Finish, pauseVars
  <2>2. \/ /\ wpc' = [wpc EXCEPT ![w] = "asleep"] /\ sleepers' = sleepers \cup {w}
        \/ /\ wpc' = [wpc EXCEPT ![w] = "exited"] /\ ~workersRunning
           /\ sleepers' = sleepers
        \/ \E place \in {"run", "lock"} :
             wpc' = [wpc EXCEPT ![w] = place] /\ sleepers' = sleepers
    BY <1>1 DEF Arrive, Wake, Finish, Await, Block, Break, Take
  <2>3. w \notin sleepers
    BY <1>1 DEF Arrive, Wake, Finish
  <2> QED BY <2>1, <2>2, <2>3
<1>2. ASSUME NEW a \in Actor, NEW n \in 0..MaxThreads, CreateThreads(a, n) PROVE Manning'
  <2>1. sleepers = {}
    BY <1>2 DEF CreateThreads, Goto, Restart, NoneLeft
  <2> QED BY <2>1, <1>2 DEF CreateThreads, Threads, pauseVars
<1>3. ASSUME NEW a \in Actor, CallBegins(a) PROVE Manning'
  <2>1. UNCHANGED threadVars
    BY <1>3 DEF CallBegins, DetachTask, DetachBulk, Purge, Pause, Unpause, Wait,
                WaitFor, Reset, Destructor, CallWait
  <2>2. NoPauseFlag'
    BY <1>3 DEF CallBegins, DetachTask, DetachBulk, Purge, Pause, Unpause, Wait,
                WaitFor, Reset, Destructor, CallWait, pauseVars
  <2> QED BY <2>1, <2>2 DEF threadVars
<1>4. ASSUME NEW a \in Actor, CallContinues(a) \/ Timeout(a),
             ~(\E n \in 0..MaxThreads : CreateThreads(a, n))
      PROVE  Manning'
  <2>1. UNCHANGED <<threadCount, wpc>> /\ sleepers' \subseteq sleepers
        /\ (workersRunning' => workersRunning)
    BY <1>4 DEF CallContinues, NotifyOne, NotifyAll, Resume, ResetWait, CallWait,
                StopWorkers, NotifyStop, JoinWorkers, ResumePool, Timeout,
                threadVars
  <2>2. NoPauseFlag'
    BY <1>4 DEF CallContinues, NotifyOne, NotifyAll, Resume, ResetWait, CallWait,
                StopWorkers, NotifyStop, JoinWorkers, ResumePool, Timeout,
                pauseVars
  <2> QED BY <2>1, <2>2
<1>5. CASE SpuriousWake \/ UNCHANGED vars
  BY <1>5 DEF SpuriousWake, vars, threadVars, pauseVars
<1> QED BY <1>1, <1>2, <1>3, <1>4, <1>5 DEF Next

(* Who was coming still is if no worker blocks and no caller notifies.       *)
LEMMA ComesFrame ==
  ASSUME Busy \cup Awake # {} \/ Notifying("notifyAll") \cup Notifying("notifyOne") # {},
         wpc' = wpc, sleepers' \subseteq sleepers,
         \A x \in Actor : pc[x] \in {"notifyAll", "notifyOne"} => pc'[x] = pc[x]
  PROVE  \/ (Busy \cup Awake)' # {}
         \/ (Notifying("notifyAll") \cup Notifying("notifyOne"))' # {}
<1>1. Busy \subseteq Busy' /\ Awake \subseteq Awake'
  BY DEF Busy, Awake
<1>2. /\ Notifying("notifyAll") \subseteq Notifying("notifyAll")'
      /\ Notifying("notifyOne") \subseteq Notifying("notifyOne")'
  BY DEF Notifying
<1> QED BY <1>1, <1>2

(* When there is work and a worker might take it, some worker will look,     *)
(* or somebody has yet to notify.                                            *)
LEMMA ComesStep ==
  ASSUME TypeOK, TypeOK', Manning, Manning', SomebodyComes, Restart, TaskInOnePlace,
         [Next]_vars
  PROVE  SomebodyComes'
<1> SUFFICES ASSUME Available', workersRunning'
             PROVE  \/ (Busy \cup Awake)' # {}
                    \/ (Notifying("notifyAll") \cup Notifying("notifyOne"))' # {}
  BY DEF SomebodyComes
<1>1. ASSUME NEW w \in Worker, Arrive(w) \/ Wake(w)
      PROVE  (Busy \cup Awake)' # {}
  <2>1. workersRunning /\ paused' = paused
    BY <1>1 DEF Arrive, Wake, pauseVars
  <2>2. \E running : Await(w, running)
    BY <1>1 DEF Arrive, Wake
  <2>3. wpc'[w] = "run"
    BY <2>1, <2>2 DEF Await, Block, Break, Take, Available, TypeOK
  <2> QED BY <2>3 DEF Busy
<1>2. ASSUME NEW w \in Worker, Finish(w) PROVE (Busy \cup Awake)' # {}
  BY <1>2 DEF Finish, Busy, TypeOK
<1>3. ASSUME NEW a \in Actor, CallBegins(a)
      PROVE  \/ (Busy \cup Awake)' # {}
             \/ (Notifying("notifyAll") \cup Notifying("notifyOne"))' # {}
  <2>1. UNCHANGED threadVars
    BY <1>3 DEF CallBegins, DetachTask, DetachBulk, Purge, Pause, Unpause, Wait,
                WaitFor, Reset, Destructor, CallWait
  <2>2. CASE pc'[a] \in {"notifyAll", "notifyOne"}
    BY <2>2 DEF Notifying
  <2>3. CASE pc'[a] \notin {"notifyAll", "notifyOne"}
    <3>1. Available
      <4>1. CASE \E t \in Tasks : DetachTask(a, t)
        BY <4>1, <2>3 DEF DetachTask, TypeOK, Actor
      <4>2. CASE \E b \in Batches : DetachBulk(a, b)
        BY <4>2, <2>3 DEF DetachBulk, Calls, Available, pauseVars
      <4>3. CASE Purge(a) \/ Pause(a) \/ Unpause(a)
        BY <4>3, <2>3 DEF Purge, Pause, Unpause, Available, queueVars, pauseVars,
                          TypeOK
      <4>4. CASE Wait(a) \/ WaitFor(a) \/ Destructor(a)
        BY <4>4 DEF Wait, WaitFor, Destructor, CallWait, Available
      <4>5. CASE Reset(a)
        BY <4>5 DEF Reset, Available, queueVars
      <4> QED BY <1>3, <4>1, <4>2, <4>3, <4>4, <4>5 DEF CallBegins
    <3>2. \A x \in Actor : pc[x] \in {"notifyAll", "notifyOne"} => pc'[x] = pc[x]
      <4>1. pc[a] = "ready"
        BY <1>3 DEF CallBegins, DetachTask, DetachBulk, Purge, Pause, Unpause, Wait,
                    WaitFor, Reset, Destructor, CallWait, Calls, Goto
      <4> QED BY <1>3, <4>1 DEF CallBegins, DetachTask, DetachBulk, Purge, Pause,
                    Unpause, Wait, WaitFor, Reset, Destructor, CallWait, Goto,
                    Queued, TypeOK
    <3>3. workersRunning /\ wpc' = wpc /\ sleepers' \subseteq sleepers
      BY <2>1 DEF threadVars
    <3>4. \/ Busy \cup Awake # {}
          \/ Notifying("notifyAll") \cup Notifying("notifyOne") # {}
      BY <3>1, <3>3 DEF SomebodyComes
    <3> QED BY <3>2, <3>3, <3>4, ComesFrame
  <2> QED BY <2>2, <2>3
<1>4. ASSUME NEW a \in Actor, CallContinues(a) \/ Timeout(a)
      PROVE  \/ (Busy \cup Awake)' # {}
             \/ (Notifying("notifyAll") \cup Notifying("notifyOne"))' # {}
  <2>0. 1 \in Worker /\ \A n \in Worker : 1 <= n
    BY PoolAssumption DEF Worker
  <2>1. CASE NotifyOne(a) \/ NotifyAll(a) \/ NotifyStop(a)
    <3>1. \/ sleepers' = {}
          \/ \E w \in sleepers : wpc[w] = "asleep" /\ w \notin sleepers'
      BY <2>1 DEF NotifyOne, NotifyAll, NotifyStop, Manning, SleepersAsleep
    <3>2. UNCHANGED <<wpc, threadCount>>
      BY <2>1 DEF NotifyOne, NotifyAll, NotifyStop
    <3>3. CASE sleepers' = {}
      BY <3>3, <2>0 DEF Manning, Manned, Busy, Awake, TypeOK
    <3>4. CASE \E w \in sleepers : wpc[w] = "asleep" /\ w \notin sleepers'
      BY <3>2, <3>4 DEF Awake, TypeOK
    <3> QED BY <3>1, <3>3, <3>4
  <2>2. CASE \E n \in 0..MaxThreads : CreateThreads(a, n)
    BY <2>0, <2>2, SomeThreads DEF CreateThreads, Threads, Busy
  <2>3. CASE ResumePool(a) /\ pc'[a] = "notifyAll"
    BY <2>3 DEF Notifying
  <2>4. CASE \/ Resume(a) \/ ResetWait(a) \/ StopWorkers(a) \/ JoinWorkers(a)
             \/ Timeout(a) \/ (ResumePool(a) /\ pc'[a] # "notifyAll")
    <3>1. Available
      BY <2>4 DEF Resume, ResetWait, CallWait, StopWorkers, JoinWorkers, Timeout,
                  ResumePool, Available, Manning, NoPauseFlag, TypeOK, queueVars,
                  pauseVars
    <3>2. UNCHANGED <<wpc, sleepers>> /\ workersRunning
      BY <2>4 DEF Resume, ResetWait, CallWait, StopWorkers, JoinWorkers, Timeout,
                  ResumePool, threadVars
    <3>3. \A x \in Actor : pc[x] \in {"notifyAll", "notifyOne"} => pc'[x] = pc[x]
      BY <2>4 DEF Resume, ResetWait, CallWait, StopWorkers, JoinWorkers, Timeout,
                  ResumePool, Goto, After, TypeOK
    <3>4. \/ Busy \cup Awake # {}
          \/ Notifying("notifyAll") \cup Notifying("notifyOne") # {}
      BY <3>1, <3>2 DEF SomebodyComes
    <3>5. wpc' = wpc /\ sleepers' \subseteq sleepers
      BY <3>2
    <3> QED BY <3>3, <3>4, <3>5, ComesFrame
  <2> QED BY <1>4, <2>1, <2>2, <2>3, <2>4 DEF CallContinues
<1>5. CASE SpuriousWake \/ UNCHANGED vars
  <2>1. /\ wpc' = wpc /\ sleepers' \subseteq sleepers /\ pc' = pc
        /\ Available /\ workersRunning
    <3>1. CASE SpuriousWake
      BY <3>1 DEF SpuriousWake, queueVars, pauseVars, Available
    <3>2. CASE UNCHANGED vars
      BY <3>2 DEF vars, queueVars, threadVars, pauseVars, Available
    <3> QED BY <1>5, <3>1, <3>2
  <2>2. \/ Busy \cup Awake # {}
        \/ Notifying("notifyAll") \cup Notifying("notifyOne") # {}
    BY <2>1 DEF SomebodyComes
  <2> QED BY <2>1, <2>2, ComesFrame
<1> QED BY <1>1, <1>2, <1>3, <1>4, <1>5 DEF Next

-----------------------------------------------------------------------------
(* The invariant is inductive.                                               *)
THEOREM PoolInvariance == Spec => []IInv
<1>1. Init => IInv
  BY TypeInit, CountInit, RestartInit, PlacedInit, ManningInit DEF IInv
<1>2. IInv /\ [Next]_vars => IInv'
  <2> SUFFICES ASSUME IInv, [Next]_vars PROVE IInv'
    OBVIOUS
  <2>1. TypeOK' /\ RunningExact'
    BY TypeStep, CountStep DEF IInv
  <2>2. Restart' /\ TaskInOnePlace'
    BY RestartStep, PlacedStep DEF IInv
  <2>3. Manning'
    BY ManningStep DEF IInv
  <2>4. SomebodyComes'
    BY <2>1, <2>3, ComesStep DEF IInv
  <2> QED BY <2>1, <2>2, <2>3, <2>4 DEF IInv
<1> QED BY <1>1, <1>2, PTL DEF Spec

(* Every variable keeps its type, tasks_running never wraps below zero.      *)
THEOREM PoolTypeCorrect == Spec => []TypeOK
BY PoolInvariance, PTL DEF IInv

(* tasks_running counts the workers that run a task or have yet to look.     *)
THEOREM CountIsExact == Spec => []RunningExact
BY PoolInvariance, PTL DEF IInv

(* No task is lost, duplicated or run by two workers.                        *)
THEOREM NoTaskLost == Spec => []TaskInOnePlace
BY PoolInvariance, PTL DEF IInv

(* Work in the queue is never left with all workers asleep and nobody about  *)
(* to notify them.                                                           *)
THEOREM NoLostWakeup == Spec => []SomebodyComes
BY PoolInvariance, PTL DEF IInv

-----------------------------------------------------------------------------
(* A wait ends, unless it times out, by finding its predicate true.          *)
LEMMA WaitsEnd ==
  ASSUME IInv, [Next]_vars, NEW a \in Actor, Waits(a), pc'[a] \in Range(After)
  PROVE  Done(tasksRunning) \/ Timeout(a)
<1>0. /\ pc'[a] \in {"ready", "resetStop", "dtorStop"}
      /\ pc[a] \in {"waiting", "timed", "resetWait", "dtorWait", "resetCall"}
  BY DEF Waits, After, Range
<1> USE <1>0 DEF TypeOK, IInv
<1>1. ASSUME NEW w \in Worker, Arrive(w) \/ Wake(w) PROVE FALSE
  <2>1. \E running : Await(w, running)
    BY <1>1 DEF Arrive, Wake
  <2>2. pc'[a] = pc[a] \/ \E i \in DOMAIN tasks : a = tasks[i]
    BY <2>1 DEF Await, Block, Break, Take, PopTask
  <2>3. \A i \in DOMAIN tasks : pc[tasks[i]] = "queued"
    BY WithoutFacts DEF TaskInOnePlace, Queued
  <2> QED BY <2>2, <2>3
<1>2. ASSUME NEW w \in Worker, Finish(w) PROVE FALSE
  BY <1>2 DEF Finish, Goto
<1>3. ASSUME NEW x \in Actor, CallBegins(x) PROVE FALSE
  BY <1>3 DEF CallBegins, DetachTask, DetachBulk, Purge, Pause, Unpause, Wait,
              WaitFor, Reset, Destructor, CallWait, Calls, Goto, Queued
<1>4. ASSUME NEW x \in Actor, CallContinues(x) \/ Timeout(x)
      PROVE  Done(tasksRunning) \/ Timeout(a)
  <2>1. CASE x = a
    BY <1>4, <2>1 DEF CallContinues, NotifyOne, NotifyAll, Resume, ResetWait,
                      CallWait, StopWorkers, NotifyStop, JoinWorkers, CreateThreads,
                      ResumePool, Goto
  <2>2. CASE x # a
    BY <1>4, <2>2 DEF CallContinues, NotifyOne, NotifyAll, Resume, ResetWait,
                      CallWait, StopWorkers, NotifyStop, JoinWorkers, CreateThreads,
                      ResumePool, Timeout, Goto
  <2> QED BY <2>1, <2>2
<1>5. CASE SpuriousWake \/ UNCHANGED vars
  BY <1>5 DEF SpuriousWake, vars
<1> QED BY <1>1, <1>2, <1>3, <1>4, <1>5 DEF Next

(* With the counter exact, the predicate means what it is read for.          *)
LEMMA DoneMeansIdle ==
  ASSUME IInv, Done(tasksRunning)
  PROVE  Executing = {} /\ (paused \/ Queued = {})
<1>1. Busy = {}
  <2>1. Busy \in SUBSET Worker
    BY DEF Busy
  <2>2. IsFiniteSet(Busy) /\ Cardinality(Busy) = 0
    BY <2>1, WorkersFinite DEF IInv, RunningExact, Done
  <2> QED BY <2>2, FS_EmptySet
<1>2. Executing = {}
  BY <1>1 DEF Busy, Executing, IInv, TaskInOnePlace
<1>3. tasks = <<>> => Queued = {}
  BY DEF IInv, TaskInOnePlace, Range
<1> QED BY <1>2, <1>3 DEF Done

(* wait, reset and the destructor do not go on while a task is running or,   *)
(* in a pool that is not paused, queued.                                     *)
THEOREM WaitIsABarrier == Spec => WaitMeansIdle
<1>1. IInv /\ [Next]_vars =>
        [\A a \in Actor : Waits(a) /\ pc'[a] \in Range(After) /\ ~Timeout(a) =>
           Executing = {} /\ (paused \/ Queued = {})]_vars
  BY WaitsEnd, DoneMeansIdle
<1> QED BY <1>1, PoolInvariance, PTL DEF Spec, WaitMeansIdle

-----------------------------------------------------------------------------
(* The destructor.                                                           *)

(* Its places, and those it passes once its wait is over.                    *)
DtorPlaces == {"dtorWait", "dtorStop", "dtorNotify", "dtorJoin", "destroyed"}
OverPlaces == DtorPlaces \ {"dtorWait"}

(* A task that is in the middle of anything is with a worker.                *)
TasksExecute == \A t \in Tasks : pc[t] \notin Outside => t \in Executing

(* Once the destructor is called nobody outside the pool is in any other     *)
(* call, and reset and the destructor are not called by tasks.               *)
Alone ==
  /\ \A a \in Actor : pc[a] \in DtorPlaces => closed /\ a \in Clients
  /\ \A a \in Actor : Restarting(a) => a \in Clients
  /\ closed => \E d \in Clients : /\ pc[d] \in DtorPlaces
                                  /\ \A c \in Clients \ {d} : pc[c] = "ready"

(* From the end of its wait on no worker is busy and nothing can be taken.   *)
Over ==
  \A a \in Actor :
    /\ pc[a] \in OverPlaces => Busy = {} /\ (paused \/ tasks = <<>>)
    /\ pc[a] = "destroyed" => \A w \in Worker : wpc[w] \in {"none", "exited"}

Closing == TasksExecute /\ Alone /\ Over

(* At first every client is ready and no task is.                            *)
LEMMA ClosingInit == Init => Closing
<1> SUFFICES ASSUME Init PROVE Closing
  OBVIOUS
<1>1. /\ \A c \in Clients : pc[c] = "ready"
      /\ \A t \in Tasks : pc[t] = "new"
      /\ Actor = Clients \cup Tasks /\ ~closed
  BY PoolAssumption DEF Init, Actor
<1>2. \A a \in Actor : pc[a] \in {"ready", "new"}
  BY <1>1
<1> QED
  BY <1>1, <1>2
  DEF Closing, TasksExecute, Alone, Over, DtorPlaces, OverPlaces, Outside, Restarting

(* A call, in all its steps, begins and ends no task and sets none going.    *)
LEMMA CallersFrame ==
  ASSUME TypeOK, NEW a \in Actor, CallBegins(a) \/ CallContinues(a) \/ Timeout(a)
  PROVE  /\ job' = job
         /\ \A x \in Actor : pc'[x] \notin Outside => pc[x] \notin Outside
<1>1. ASSUME CallBegins(a)
      PROVE  /\ job' = job
             /\ \A x \in Actor : pc'[x] \notin Outside => pc[x] \notin Outside
  <2>1. pc[a] = "ready"
    BY <1>1 DEF CallBegins, DetachTask, DetachBulk, Purge, Pause, Unpause, Wait,
                WaitFor, Reset, Destructor, CallWait, Calls, Goto
  <2>2. job' = job
    BY <1>1 DEF CallBegins, DetachTask, DetachBulk, Purge, Pause, Unpause, Wait,
                WaitFor, Reset, Destructor, CallWait, threadVars
  <2>3. \A x \in Actor : x = a \/ pc'[x] = pc[x] \/ pc'[x] \in {"queued", "purged"}
    BY <1>1 DEF CallBegins, DetachTask, DetachBulk, Purge, Pause, Unpause, Wait,
                WaitFor, Reset, Destructor, CallWait, Goto, TypeOK
  <2> QED BY <2>1, <2>2, <2>3 DEF Outside
<1>2. ASSUME CallContinues(a) \/ Timeout(a)
      PROVE  /\ job' = job
             /\ \A x \in Actor : pc'[x] \notin Outside => pc[x] \notin Outside
  <2>1. job' = job
    BY <1>2 DEF CallContinues, NotifyOne, NotifyAll, Resume, ResetWait, CallWait,
                StopWorkers, NotifyStop, JoinWorkers, CreateThreads, ResumePool,
                Timeout, threadVars
  <2>2. pc[a] \notin Outside
    BY <1>2 DEF CallContinues, NotifyOne, NotifyAll, Resume, ResetWait, CallWait,
                StopWorkers, NotifyStop, JoinWorkers, CreateThreads, ResumePool,
                Timeout, Goto, After, Outside
  <2>3. \A x \in Actor : x = a \/ pc'[x] = pc[x]
    BY <1>2 DEF CallContinues, NotifyOne, NotifyAll, Resume, ResetWait, CallWait,
                StopWorkers, NotifyStop, JoinWorkers, CreateThreads, ResumePool,
                Timeout, Goto, TypeOK
  <2> QED BY <2>1, <2>2, <2>3
<1> QED BY <1>1, <1>2

(* A task goes on only with a worker, and leaves it only when it is over.    *)
LEMMA TasksExecuteStep ==
  ASSUME TypeOK, TaskInOnePlace, TasksExecute, [Next]_vars
  PROVE  TasksExecute'
<1>0. Tasks \subseteq Actor
  BY DEF Actor
<1>1. ASSUME NEW w \in Worker, Arrive(w) \/ Wake(w) PROVE TasksExecute'
  <2>1. PICK running : Await(w, running)
    BY <1>1 DEF Arrive, Wake
  <2>2. job[w] \notin Tasks
    BY <1>1 DEF Arrive, Wake, TaskInOnePlace
  <2>3. CASE UNCHANGED <<job, pc>>
    BY <2>3 DEF TasksExecute, Executing
  <2>4. CASE Take(w, running)
    <3>1. PICK i \in DOMAIN tasks : PopTask(w, i)
      BY <2>4 DEF Take
    <3>2. tasks[i] \in Tasks
      BY WithoutFacts DEF TypeOK
    <3> QED BY <1>0, <2>2, <3>1, <3>2 DEF PopTask, TasksExecute, Executing, TypeOK
  <2> QED BY <2>1, <2>3, <2>4 DEF Await, Block, Break
<1>2. ASSUME NEW w \in Worker, Finish(w) PROVE TasksExecute'
  BY <1>0, <1>2 DEF Finish, Goto, TasksExecute, Executing, TypeOK, TaskInOnePlace, Outside
<1>3. ASSUME NEW a \in Actor, CallBegins(a) \/ CallContinues(a) \/ Timeout(a)
      PROVE  TasksExecute'
  BY <1>0, <1>3, CallersFrame DEF TasksExecute, Executing
<1>4. CASE SpuriousWake \/ UNCHANGED vars
  BY <1>4 DEF SpuriousWake, vars, threadVars, TasksExecute, Executing
<1> QED BY <1>1, <1>2, <1>3, <1>4 DEF Next

(* A client moves only by its own steps.                                     *)
LEMMA ClientMoves ==
  ASSUME TypeOK, TaskInOnePlace, [Next]_vars, NEW c \in Clients, pc'[c] # pc[c]
  PROVE  CallBegins(c) \/ CallContinues(c) \/ Timeout(c)
<1>0. c \in Actor /\ c \notin Tasks /\ Tasks \subseteq Actor
  BY PoolAssumption DEF Actor
<1>1. ASSUME NEW w \in Worker, Arrive(w) \/ Wake(w) PROVE FALSE
  <2>1. PICK running : Await(w, running)
    BY <1>1 DEF Arrive, Wake
  <2>2. \A i \in DOMAIN tasks : tasks[i] \in Tasks
    BY DEF TypeOK
  <2> QED BY <1>0, <2>1, <2>2 DEF Await, Block, Break, Take, PopTask, TypeOK
<1>2. ASSUME NEW w \in Worker, Finish(w) PROVE FALSE
  BY <1>0, <1>2 DEF Finish, Goto, TypeOK, TaskInOnePlace
<1>3. ASSUME NEW a \in Actor, CallBegins(a), a # c PROVE FALSE
  <2>1. \A b \in Batches : c \notin Range(b)
    BY <1>0, PoolAssumption DEF Range
  <2> QED
    BY <1>0, <1>3, <2>1 DEF CallBegins, DetachTask, DetachBulk, Purge, Pause, Unpause, Wait,
                WaitFor, Reset, Destructor, CallWait, Goto, TypeOK, Queued
<1>4. ASSUME NEW a \in Actor, CallContinues(a) \/ Timeout(a), a # c PROVE FALSE
  BY <1>0, <1>4 DEF CallContinues, NotifyOne, NotifyAll, Resume, ResetWait, CallWait,
                StopWorkers, NotifyStop, JoinWorkers, CreateThreads, ResumePool,
                Timeout, Goto, TypeOK
<1>5. CASE SpuriousWake \/ UNCHANGED vars
  BY <1>5 DEF SpuriousWake, vars
<1> QED BY <1>1, <1>2, <1>3, <1>4, <1>5 DEF Next

(* The places of the destructor are entered by calling it, and a client that *)
(* is in them does nothing else.                                             *)
LEMMA DtorMoves ==
  ASSUME TypeOK, TaskInOnePlace, [Next]_vars, NEW x \in Actor
  PROVE  /\ pc'[x] \in DtorPlaces /\ pc[x] \notin DtorPlaces => Destructor(x)
         /\ pc[x] \in DtorPlaces /\ x \in Clients => pc'[x] \in DtorPlaces
<1> USE DEF DtorPlaces
<1>0. Tasks \subseteq Actor
  BY DEF Actor
<1>1. ASSUME x \in Clients, CallBegins(x) \/ CallContinues(x) \/ Timeout(x)
      PROVE  /\ pc'[x] \in DtorPlaces /\ pc[x] \notin DtorPlaces => Destructor(x)
             /\ pc[x] \in DtorPlaces => pc'[x] \in DtorPlaces
  <2>1. CASE CallBegins(x)
    BY <1>1, <2>1 DEF CallBegins, DetachTask, DetachBulk, Purge, Pause, Unpause, Wait,
                WaitFor, Reset, Destructor, CallWait, Calls, Goto, After, TypeOK, Queued
  <2>2. CASE CallContinues(x) \/ Timeout(x)
    BY <1>1, <2>2 DEF CallContinues, NotifyOne, NotifyAll, Resume, ResetWait, CallWait,
                StopWorkers, NotifyStop, JoinWorkers, CreateThreads, ResumePool,
                Timeout, Goto, After, TypeOK
  <2> QED BY <1>1, <2>1, <2>2
<1>2. CASE x \in Clients
  BY <1>1, <1>2, ClientMoves
<1>3. ASSUME x \in Tasks, pc'[x] \in DtorPlaces, pc[x] \notin DtorPlaces PROVE Destructor(x)
  <2>1. ASSUME NEW w \in Worker, Arrive(w) \/ Wake(w) \/ Finish(w) PROVE FALSE
    BY <1>0, <1>3, <2>1 DEF Arrive, Wake, Finish, Await, Block, Break, Take, PopTask, Goto, TypeOK
  <2>2. ASSUME NEW a \in Actor, CallBegins(a) PROVE Destructor(x)
    BY <1>3, <2>2 DEF CallBegins, DetachTask, DetachBulk, Purge, Pause, Unpause, Wait,
                WaitFor, Reset, Destructor, CallWait, Goto, After, TypeOK
  <2>3. ASSUME NEW a \in Actor, CallContinues(a) \/ Timeout(a) PROVE FALSE
    BY <1>3, <2>3 DEF CallContinues, NotifyOne, NotifyAll, Resume, ResetWait, CallWait,
                StopWorkers, NotifyStop, JoinWorkers, CreateThreads, ResumePool,
                Timeout, Goto, After, TypeOK
  <2>4. CASE SpuriousWake \/ UNCHANGED vars
    BY <1>3, <2>4 DEF SpuriousWake, vars
  <2> QED BY <2>1, <2>2, <2>3, <2>4 DEF Next
<1> QED BY <1>2, <1>3 DEF Actor

(* One client at most is in the destructor, and nobody else calls.           *)
LEMMA AloneStep ==
  ASSUME TypeOK, TaskInOnePlace, Alone, [Next]_vars
  PROVE  Alone'
<1>0. closed => closed'
  BY DEF Next, CallBegins, DetachTask, DetachBulk, Purge, Pause, Unpause, Wait,
         WaitFor, Reset, Destructor, CallWait, CallContinues, NotifyOne, NotifyAll,
         Resume, ResetWait, StopWorkers, NotifyStop, JoinWorkers, CreateThreads,
         ResumePool, Timeout, Arrive, Wake, Finish, SpuriousWake, vars
<1>1. ASSUME NEW a \in Actor, pc'[a] \in DtorPlaces PROVE closed' /\ a \in Clients
  <2>1. CASE pc[a] \in DtorPlaces
    BY <2>1, <1>0 DEF Alone
  <2>2. CASE Destructor(a)
    BY <2>2, PoolAssumption DEF Destructor
  <2> QED BY <1>1, <2>1, <2>2, DtorMoves
<1>2. ASSUME NEW a \in Actor, Restarting(a)' PROVE a \in Clients
  BY <1>2, RestartPlaces, PoolAssumption DEF Alone, Reset
<1>3. ASSUME closed'
      PROVE  \E d \in Clients : /\ pc'[d] \in DtorPlaces
                                /\ \A c \in Clients \ {d} : pc'[c] = "ready"
  <2>1. CASE closed
    <3>1. PICK d \in Clients : /\ pc[d] \in DtorPlaces
                               /\ \A c \in Clients \ {d} : pc[c] = "ready"
      BY <2>1 DEF Alone
    <3>2. pc'[d] \in DtorPlaces
      BY <3>1, DtorMoves DEF Actor
    <3>3. ASSUME NEW c \in Clients \ {d} PROVE pc'[c] = "ready"
      <4>1. pc[c] = "ready" /\ c \notin Tasks
        BY <3>1, PoolAssumption
      <4>2. ~CallBegins(c)
        BY <2>1, <4>1 DEF CallBegins, DetachTask, DetachBulk, Purge, Pause, Unpause, Wait,
                WaitFor, Reset, Destructor, Calls
      <4>3. ~CallContinues(c) /\ ~Timeout(c)
        BY <4>1 DEF CallContinues, NotifyOne, NotifyAll, Resume, ResetWait, CallWait,
                StopWorkers, NotifyStop, JoinWorkers, CreateThreads, ResumePool,
                Timeout, Goto, After
      <4> QED BY <4>1, <4>2, <4>3, ClientMoves
    <3> QED BY <3>2, <3>3
  <2>2. CASE \E a \in Actor : Destructor(a)
    <3>1. PICK d \in Actor : Destructor(d)
      BY <2>2
    <3>2. d \in Clients /\ \A c \in Clients : pc[c] = "ready"
      BY <3>1, PoolAssumption DEF Destructor
    <3>3. \E to \in DtorPlaces : pc' = [pc EXCEPT ![d] = to]
      BY <3>1 DEF Destructor, CallWait, Goto, After, DtorPlaces
    <3> QED BY <3>2, <3>3 DEF TypeOK, Actor
  <2>3. closed \/ \E a \in Actor : Destructor(a)
    BY <1>3 DEF Next, CallBegins, DetachTask, DetachBulk, Purge, Pause, Unpause, Wait,
         WaitFor, Reset, CallWait, CallContinues, NotifyOne, NotifyAll,
         Resume, ResetWait, StopWorkers, NotifyStop, JoinWorkers, CreateThreads,
         ResumePool, Timeout, Arrive, Wake, Finish, SpuriousWake, vars
  <2> QED BY <2>1, <2>2, <2>3
<1> QED BY <1>1, <1>2, <1>3 DEF Alone

(* When the wait of the destructor is over, only it and idle workers move.   *)
LEMMA OverSteps ==
  ASSUME IInv, Closing, [Next]_vars, NEW d \in Actor, pc[d] \in OverPlaces
  PROVE  /\ UNCHANGED <<tasks, paused>> /\ Busy' = {}
         /\ (\A w \in Worker : wpc[w] \in {"none", "exited"}) => wpc' = wpc
<1> USE DEF IInv, Closing, OverPlaces, DtorPlaces
<1>1. /\ d \in Clients /\ closed /\ \A c \in Clients \ {d} : pc[c] = "ready"
      /\ Busy = {} /\ ~Available
  BY DEF Alone, Over, Available
<1>2. \A t \in Tasks : pc[t] \in Outside
  BY <1>1 DEF TasksExecute, Executing, TaskInOnePlace, Busy
<1>3. ASSUME NEW w \in Worker, Arrive(w) \/ Finish(w) PROVE FALSE
  BY <1>1, <1>3 DEF Arrive, Finish, Busy
<1>4. ASSUME NEW w \in Worker, Wake(w)
      PROVE  UNCHANGED <<tasks, paused>> /\ Busy' = {} /\ wpc[w] = "asleep"
  <2>1. Block(w, tasksRunning) \/ Break(w, tasksRunning)
    BY <1>1, <1>4 DEF Wake, Await, Take
  <2>2. /\ tasks' = tasks
        /\ \E to \in {"asleep", "exited"} : wpc' = [wpc EXCEPT ![w] = to]
    BY <2>1 DEF Block, Break
  <2>3. Busy' = {}
    BY <1>1, <2>2 DEF Busy, TypeOK
  <2> QED BY <1>4, <2>2, <2>3 DEF Wake, pauseVars
<1>5. ASSUME NEW a \in Actor, CallBegins(a) PROVE FALSE
  <2>1. ~Calls(a) /\ closed
    BY <1>1, <1>2 DEF Calls, Outside, Actor
  <2> QED
    BY <1>5, <2>1, <1>1 DEF CallBegins, DetachTask, DetachBulk, Purge, Pause, Unpause, Wait,
                WaitFor, Reset, Destructor
<1>6. ASSUME NEW a \in Actor, CallContinues(a) \/ Timeout(a)
      PROVE  UNCHANGED <<tasks, paused, wpc>>
  <2>1. a = d
    BY <1>1, <1>2, <1>6 DEF CallContinues, NotifyOne, NotifyAll, Resume, ResetWait, CallWait,
                StopWorkers, NotifyStop, JoinWorkers, CreateThreads, ResumePool,
                Timeout, Goto, After, Outside, Actor
  <2> QED BY <1>6, <2>1 DEF CallContinues, NotifyOne, NotifyAll, Resume, ResetWait, CallWait,
                StopWorkers, NotifyStop, JoinWorkers, CreateThreads, ResumePool,
                Timeout, Goto, After, queueVars, threadVars, pauseVars
<1>7. CASE SpuriousWake \/ UNCHANGED vars
  <2>1. UNCHANGED <<tasks, paused, wpc>>
    BY <1>7 DEF SpuriousWake, vars, queueVars, threadVars, pauseVars
  <2> QED BY <1>1, <2>1 DEF Busy
<1>8. UNCHANGED wpc => Busy' = {}
  BY <1>1 DEF Busy
<1> QED BY <1>3, <1>4, <1>5, <1>6, <1>7, <1>8 DEF Next

(* tasks_running at zero: no worker runs a task or is about to look.         *)
LEMMA DoneNotBusy ==
  ASSUME IInv, tasksRunning = 0
  PROVE  Busy = {}
<1>1. Busy \in SUBSET Worker
  BY DEF Busy
<1>2. IsFiniteSet(Busy) /\ Cardinality(Busy) = 0
  BY <1>1, WorkersFinite DEF IInv, RunningExact
<1> QED BY <1>2, FS_EmptySet

(* The wait ends with nothing to do, and the workers are joined before the   *)
(* destructor returns.                                                       *)
LEMMA OverStep ==
  ASSUME IInv, Closing, [Next]_vars
  PROVE  Over'
<1> SUFFICES ASSUME NEW a \in Actor, pc'[a] \in OverPlaces
             PROVE  /\ Busy' = {} /\ (paused' \/ tasks' = <<>>)
                    /\ pc'[a] = "destroyed"
                         => \A w \in Worker : wpc'[w] \in {"none", "exited"}
  BY DEF Over, OverPlaces, DtorPlaces
<1>1. CASE pc[a] \in OverPlaces
  <2>1. UNCHANGED <<tasks, paused>> /\ Busy' = {} /\ (paused \/ tasks = <<>>)
    BY <1>1, OverSteps DEF Closing, Over
  <2>2. ASSUME pc'[a] = "destroyed", NEW w \in Worker PROVE wpc'[w] \in {"none", "exited"}
    <3>1. CASE pc[a] = "destroyed"
      BY <1>1, <3>1, OverSteps DEF Closing, Over
    <3>2. CASE pc[a] # "destroyed"
      <4>1. a \in Clients
        BY <1>1 DEF Closing, Alone, OverPlaces
      <4>2. JoinWorkers(a)
        BY <4>1, <1>1, <2>2, <3>2, ClientMoves
        DEF IInv, CallBegins, DetachTask, DetachBulk, Purge, Pause, Unpause, Wait,
            WaitFor, Reset, Destructor, CallContinues, NotifyOne, NotifyAll, Resume,
            ResetWait, CallWait, StopWorkers, NotifyStop, CreateThreads, ResumePool,
            Timeout, Goto, Calls, After, OverPlaces, DtorPlaces, TypeOK
      <4>3. \A v \in 1..threadCount : wpc[v] = "exited"
        BY <4>2 DEF JoinWorkers
      <4>4. w \in 1..threadCount \/ w > threadCount
        BY PoolAssumption DEF IInv, TypeOK, Worker
      <4>5. wpc'[w] = wpc[w]
        BY <4>2 DEF JoinWorkers, threadVars
      <4> QED BY <4>3, <4>4, <4>5 DEF IInv, Restart, NoneBeyondCount
    <3> QED BY <3>1, <3>2
  <2> QED BY <2>1, <2>2
<1>2. CASE pc[a] \notin OverPlaces
  <2>1. /\ pc'[a] = "dtorStop" /\ Done(tasksRunning)
        /\ UNCHANGED <<tasks, paused, wpc>>
    <3>1. CASE pc[a] = "dtorWait"
      <4>1. a \in Clients /\ pc'[a] # pc[a]
        BY <3>1 DEF Closing, Alone, OverPlaces, DtorPlaces
      <4>2. Resume(a)
        BY <3>1, <4>1, ClientMoves
        DEF IInv, CallBegins, DetachTask, DetachBulk, Purge, Pause, Unpause, Wait,
            WaitFor, Reset, Destructor, CallContinues, NotifyOne, NotifyAll,
            ResetWait, CallWait, StopWorkers, NotifyStop, JoinWorkers,
            CreateThreads, ResumePool, Timeout, Goto, Calls
      <4> QED BY <3>1, <4>1, <4>2 DEF Resume, After, IInv, TypeOK, threadVars, pauseVars
    <3>2. CASE pc[a] # "dtorWait"
      <4>1. Destructor(a)
        BY <1>2, <3>2, DtorMoves DEF IInv, OverPlaces, DtorPlaces
      <4>2. CallWait(a, "ready", "dtorWait") /\ UNCHANGED paused
        BY <4>1 DEF Destructor
      <4> QED BY <4>2 DEF CallWait, Goto, After, IInv, TypeOK, threadVars, OverPlaces
    <3> QED BY <3>1, <3>2
  <2>2. Busy = {}
    BY <2>1, DoneNotBusy DEF Done
  <2> QED BY <2>1, <2>2 DEF Done, Busy
<1> QED BY <1>1, <1>2

(* The parts are an invariant together with that of the pool.                *)
LEMMA ClosingInvariant == Spec => [](IInv /\ Closing)
<1>1. Init => Closing
  BY ClosingInit
<1>2. IInv /\ Closing /\ [Next]_vars => Closing'
  BY TasksExecuteStep, AloneStep, OverStep DEF IInv, Closing
<1> QED BY <1>1, <1>2, PoolInvariance, PTL DEF Spec

(* When the destructor returns every worker has exited, nothing runs, and    *)
(* every task accepted has run or been purged, unless the pool is paused.    *)
THEOREM DestructorLeavesNothing == Spec => []NothingLeftBehind
<1>1. IInv /\ Closing => NothingLeftBehind
  <2> SUFFICES ASSUME IInv, Closing, NEW a \in Clients, pc[a] = "destroyed"
               PROVE  /\ \A w \in Worker : wpc[w] \in {"none", "exited"}
                      /\ Executing = {} /\ (paused \/ Queued = {})
    BY DEF NothingLeftBehind
  <2>1. /\ \A w \in Worker : wpc[w] \in {"none", "exited"}
        /\ paused \/ tasks = <<>>
    BY DEF Closing, Over, OverPlaces, DtorPlaces, Actor
  <2>2. Executing = {}
    BY <2>1 DEF Executing, IInv, TaskInOnePlace
  <2>3. tasks = <<>> => Queued = {}
    BY DEF IInv, TaskInOnePlace, Range
  <2> QED BY <2>1, <2>2, <2>3
<1> QED BY <1>1, ClosingInvariant, PTL

-----------------------------------------------------------------------------
(* Notifications sent and to be sent cover the queue, with detach_task alone.*)

(* The bound of WorkConserving, and when it has to hold.                     *)
Covered ==
  Len(tasks) <= Cardinality(Awake) + Cardinality(Notifying("notifyOne"))
MayOversleep ==
  ~paused /\ workersRunning /\ sleepers # {} /\ Notifying("notifyAll") = {}
Conserving == MayOversleep => Covered

(* There are finitely many callers.                                          *)
LEMMA ActorsFinite ==
  \A S \in SUBSET Actor : IsFiniteSet(S) /\ Cardinality(S) \in Nat
<1>1. IsFiniteSet(Actor)
  BY PoolAssumption, FS_Union DEF Actor
<1> QED BY <1>1, FS_Subset, FS_CardinalityType

(* Nobody who covered the queue is gone, and the queue is no longer.         *)
LEMMA CoveredFrame ==
  ASSUME TypeOK, TypeOK', Covered, Len(tasks') <= Len(tasks), Awake \subseteq Awake',
         Notifying("notifyOne") \subseteq Notifying("notifyOne")'
  PROVE  Covered'
<1> DEFINE A == Awake  B == Awake'
           N == Notifying("notifyOne")  M == Notifying("notifyOne")'
<1>1. A \in SUBSET Worker /\ B \in SUBSET Worker
  BY DEF Awake
<1>2. N \in SUBSET Actor /\ M \in SUBSET Actor
  BY DEF Notifying
<1>3. Cardinality(A) <= Cardinality(B) /\ Cardinality(A) \in Nat /\ Cardinality(B) \in Nat
  BY <1>1, WorkersFinite, FS_Subset
<1>4. Cardinality(N) <= Cardinality(M) /\ Cardinality(N) \in Nat /\ Cardinality(M) \in Nat
  BY <1>2, ActorsFinite, FS_Subset
<1>5. Len(tasks) \in Nat /\ Len(tasks') \in Nat
  BY DEF TypeOK
<1>6. Len(tasks) <= Cardinality(A) + Cardinality(N)
  BY DEF Covered
<1>7. Len(tasks') <= Cardinality(B) + Cardinality(M)
  <2> HIDE DEF A, B, N, M
  <2> QED BY <1>3, <1>4, <1>5, <1>6
<1> QED BY <1>7 DEF Covered

(* An empty queue needs nobody.                                              *)
LEMMA EmptyIsCovered ==
  ASSUME tasks' = <<>>
  PROVE  Covered'
<1>1. Len(tasks') = 0
  OBVIOUS
<1>2. (Awake)' \in SUBSET Worker /\ (Notifying("notifyOne"))' \in SUBSET Actor
  BY DEF Awake, Notifying
<1>3. Cardinality((Awake)') \in Nat /\ Cardinality((Notifying("notifyOne"))') \in Nat
  BY <1>2, WorkersFinite, ActorsFinite
<1> QED BY <1>1, <1>3 DEF Covered

(* At first there is nothing in the queue.                                   *)
LEMMA ConservingInit == Init => Conserving
<1> SUFFICES ASSUME Init PROVE Covered
  BY DEF Conserving
<1>1. Len(tasks) = 0
  BY DEF Init
<1>2. Awake \in SUBSET Worker /\ Notifying("notifyOne") \in SUBSET Actor
  BY DEF Awake, Notifying
<1>3. Cardinality(Awake) \in Nat /\ Cardinality(Notifying("notifyOne")) \in Nat
  BY <1>2, WorkersFinite, ActorsFinite
<1> QED BY <1>1, <1>3 DEF Covered

(* A worker takes one task, and is one who covered the queue.                *)
LEMMA TakeCovers ==
  ASSUME TypeOK, TaskInOnePlace, Covered, NEW w \in Worker, w \in Awake,
         wpc[w] # "run", NEW running, Take(w, running)
  PROVE  Covered'
<1>1. PICK i \in DOMAIN tasks : PopTask(w, i)
  BY DEF Take
<1>2. Len(tasks') = Len(tasks) - 1 /\ Len(tasks) \in Nat
  BY <1>1 DEF PopTask, Without, TypeOK
<1>3. Awake' = Awake \ {w}
  BY DEF Take, Awake, TypeOK
<1>4. Cardinality(Awake \ {w}) = Cardinality(Awake) - 1 /\ Cardinality(Awake) \in Nat
  <2>1. Awake \in SUBSET Worker
    BY DEF Awake
  <2> QED BY <2>1, OneMoreOrLess, WorkersFinite
<1>5. (Notifying("notifyOne"))' = Notifying("notifyOne")
  <2>1. tasks[i] \in Queued
    BY <1>1, WithoutFacts DEF TypeOK, TaskInOnePlace
  <2>2. pc' = [pc EXCEPT ![tasks[i]] = "ready"] /\ pc[tasks[i]] = "queued"
    BY <1>1, <2>1 DEF PopTask, Queued
  <2> QED BY <2>2 DEF Notifying, TypeOK
<1>6. Cardinality(Notifying("notifyOne")) \in Nat
  BY ActorsFinite DEF Notifying
<1> QED BY <1>2, <1>3, <1>4, <1>5, <1>6 DEF Covered

(* detach_task adds a task and somebody who is going to notify for it.       *)
LEMMA DetachCovers ==
  ASSUME TypeOK, Covered, NEW a \in Actor, NEW t \in Tasks, DetachTask(a, t)
  PROVE  Covered'
<1>1. Len(tasks') = Len(tasks) + 1 /\ Len(tasks) \in Nat
  BY DEF DetachTask, TypeOK
<1>2. Awake' = Awake
  BY DEF DetachTask, threadVars, Awake
<1>3. /\ (Notifying("notifyOne"))' = Notifying("notifyOne") \cup {a}
      /\ a \notin Notifying("notifyOne")
  BY DEF DetachTask, Calls, Notifying, TypeOK, Actor
<1>4. /\ IsFiniteSet(Notifying("notifyOne"))
      /\ Cardinality(Notifying("notifyOne")) \in Nat
  BY ActorsFinite DEF Notifying
<1>5. Cardinality(Notifying("notifyOne") \cup {a}) = Cardinality(Notifying("notifyOne")) + 1
  BY <1>3, <1>4, FS_AddElement
<1>6. Cardinality(Awake) \in Nat
  BY WorkersFinite DEF Awake
<1>7. Cardinality((Notifying("notifyOne"))') = Cardinality(Notifying("notifyOne")) + 1
  BY <1>3, <1>5
<1>8. Cardinality(Awake') = Cardinality(Awake)
  BY <1>2
<1> QED BY <1>1, <1>4, <1>6, <1>7, <1>8 DEF Covered

(* notify_one: one notification fewer to come, one worker more awake.        *)
LEMMA NotifyCovers ==
  ASSUME TypeOK, SleepersAsleep, Covered, NEW a \in Actor, NotifyOne(a), sleepers' # {}
  PROVE  Covered'
<1>1. PICK w \in sleepers : sleepers' = sleepers \ {w}
  BY DEF NotifyOne
<1>2. Awake' = Awake \cup {w} /\ w \notin Awake /\ w \in Worker
  BY <1>1 DEF NotifyOne, Awake, SleepersAsleep, TypeOK
<1>3. Cardinality(Awake \cup {w}) = Cardinality(Awake) + 1 /\ Cardinality(Awake) \in Nat
  <2>1. Awake \in SUBSET Worker
    BY DEF Awake
  <2> QED BY <1>2, <2>1, OneMoreOrLess, WorkersFinite
<1>4. /\ (Notifying("notifyOne"))' = Notifying("notifyOne") \ {a}
      /\ a \in Notifying("notifyOne")
  BY DEF NotifyOne, Goto, Notifying, TypeOK
<1>5. /\ IsFiniteSet(Notifying("notifyOne"))
      /\ Cardinality(Notifying("notifyOne")) \in Nat
  BY ActorsFinite DEF Notifying
<1>6. Cardinality(Notifying("notifyOne") \ {a}) = Cardinality(Notifying("notifyOne")) - 1
  BY <1>4, <1>5, FS_RemoveElement
<1>7. tasks' = tasks /\ Len(tasks) \in Nat
  BY DEF NotifyOne, queueVars, TypeOK
<1>8. Cardinality((Notifying("notifyOne"))') = Cardinality(Notifying("notifyOne")) - 1
  BY <1>4, <1>6
<1>9. Cardinality(Awake') = Cardinality(Awake) + 1 /\ Cardinality(Awake) \in Nat
  BY <1>2, <1>3
<1>10. Len(tasks') = Len(tasks)
  BY <1>7
<1> QED BY <1>5, <1>7, <1>8, <1>9, <1>10 DEF Covered

(* The bound is kept by every step, if nobody calls detach_bulk.             *)
LEMMA ConservingStep ==
  ASSUME Batches = {}, IInv, IInv', Conserving, [Next]_vars
  PROVE  Conserving'
<1> SUFFICES ASSUME ~paused', workersRunning', sleepers' # {},
                    (Notifying("notifyAll"))' = {}
             PROVE  Covered'
  BY DEF Conserving, MayOversleep
<1> USE DEF IInv
<1>1. ASSUME ~paused, workersRunning, sleepers # {},
             Notifying("notifyAll") \subseteq (Notifying("notifyAll"))'
      PROVE  Covered
  BY <1>1 DEF Conserving, MayOversleep
<1>2. ASSUME NEW w \in Worker, Arrive(w) \/ Wake(w) PROVE Covered'
  <2>1. PICK running : Await(w, running)
    BY <1>2 DEF Arrive, Wake
  <2>2. workersRunning /\ ~paused
    <3>1. UNCHANGED <<workersRunning, paused>>
      BY <1>2 DEF Arrive, Wake, pauseVars
    <3> QED BY <3>1
  <2>3. CASE Block(w, running)
    <3>1. tasks' = <<>>
      BY <2>2, <2>3 DEF Block, Available
    <3> QED BY <3>1, EmptyIsCovered
  <2>4. CASE Take(w, running)
    <3>1. sleepers # {} /\ Notifying("notifyAll") \subseteq (Notifying("notifyAll"))'
      <4>1. PICK i \in DOMAIN tasks : PopTask(w, i)
        BY <2>4 DEF Take
      <4>2. tasks[i] \in Queued
        BY <4>1, WithoutFacts DEF TypeOK, TaskInOnePlace
      <4> QED BY <4>1, <4>2, <2>4 DEF Take, PopTask, Notifying, TypeOK, Queued
    <3>2. w \in Awake /\ wpc[w] # "run"
      BY <1>2 DEF Arrive, Wake, Awake
    <3> QED BY <1>1, <2>2, <2>4, <3>1, <3>2, TakeCovers
  <2> QED BY <2>1, <2>2, <2>3, <2>4 DEF Await, Break
<1>3. ASSUME NEW w \in Worker, Finish(w) PROVE Covered'
  <2>1. Awake \subseteq Awake' /\ tasks' = tasks
    BY <1>3 DEF Finish, Awake, TypeOK, queueVars
  <2>2. /\ Notifying("notifyOne") \subseteq (Notifying("notifyOne"))'
        /\ Notifying("notifyAll") \subseteq (Notifying("notifyAll"))'
    BY <1>3 DEF Finish, Goto, Notifying, TypeOK
  <2>3. Covered
    BY <1>1, <1>3, <2>2 DEF Finish, pauseVars
  <2> QED BY <2>1, <2>2, <2>3, CoveredFrame DEF TypeOK
<1>4. ASSUME NEW a \in Actor, CallBegins(a) PROVE Covered'
  <2>1. pc[a] = "ready" /\ UNCHANGED threadVars
    BY <1>4 DEF CallBegins, DetachTask, DetachBulk, Purge, Pause, Unpause, Wait,
                WaitFor, Reset, Destructor, CallWait, Calls, Goto
  <2>2. CASE Purge(a)
    BY <2>2, EmptyIsCovered DEF Purge
  <2>3. CASE ~Purge(a)
    <3>1. ~paused
      BY <1>4, <2>3, <2>1 DEF CallBegins, DetachTask, DetachBulk, Pause, Unpause, Wait,
                WaitFor, Reset, Destructor, CallWait, pauseVars, Notifying, TypeOK
    <3>2. \A x \in Actor : pc[x] \in {"notifyAll", "notifyOne"} => pc'[x] = pc[x]
      BY <1>4, <2>1, <2>3 DEF CallBegins, DetachTask, DetachBulk, Pause,
                    Unpause, Wait, WaitFor, Reset, Destructor, CallWait, Goto, TypeOK
    <3>3. Covered
      BY <1>1, <2>1, <3>1, <3>2 DEF threadVars, Notifying
    <3>4. CASE \E t \in Tasks : DetachTask(a, t)
      BY <3>3, <3>4, DetachCovers
    <3>5. CASE ~(\E t \in Tasks : DetachTask(a, t))
      <4>1. tasks' = tasks
        BY <1>4, <2>3, <3>5 DEF CallBegins, Pause, Unpause, Wait,
                WaitFor, Reset, Destructor, CallWait, queueVars
      <4>2. Awake' = Awake
        BY <2>1 DEF threadVars, Awake
      <4>3. Notifying("notifyOne") \subseteq (Notifying("notifyOne"))'
        BY <3>2 DEF Notifying
      <4> QED BY <4>1, <4>2, <4>3, <3>3, CoveredFrame DEF TypeOK
    <3> QED BY <3>4, <3>5
  <2> QED BY <2>2, <2>3
<1>5. ASSUME NEW a \in Actor, CallContinues(a) \/ Timeout(a) PROVE Covered'
  <2>1. CASE NotifyAll(a) \/ NotifyStop(a) \/ StopWorkers(a)
    BY <2>1 DEF NotifyAll, NotifyStop, StopWorkers
  <2>2. CASE \E n \in 0..MaxThreads : CreateThreads(a, n)
    BY <2>2 DEF CreateThreads, Goto, Restart, NoneLeft, Manning, SleepersAsleep, TypeOK
  <2>3. CASE NotifyOne(a)
    <3>1. /\ ~paused /\ workersRunning /\ sleepers # {}
          /\ Notifying("notifyAll") \subseteq (Notifying("notifyAll"))'
      BY <2>3 DEF NotifyOne, Goto, pauseVars, Notifying, TypeOK
    <3> QED BY <1>1, <2>3, <3>1, NotifyCovers DEF Manning
  <2>4. CASE \/ Resume(a) \/ ResetWait(a) \/ JoinWorkers(a) \/ Timeout(a)
             \/ ResumePool(a)
    <3>1. UNCHANGED <<tasks, wpc, sleepers, workersRunning>>
      BY <2>4 DEF Resume, ResetWait, CallWait, JoinWorkers, Timeout, ResumePool,
                  queueVars, threadVars
    <3>2. \A x \in Actor : pc[x] \in {"notifyAll", "notifyOne"} => pc'[x] = pc[x]
      BY <2>4 DEF Resume, ResetWait, CallWait, JoinWorkers, Timeout, ResumePool,
                  Goto, After, TypeOK
    <3>3. ~paused
      <4>1. CASE ResumePool(a)
        BY <4>1 DEF ResumePool, Manning, NoPauseFlag, Notifying, TypeOK
      <4>2. CASE ~ResumePool(a)
        BY <2>4, <4>2 DEF Resume, ResetWait, CallWait, JoinWorkers, Timeout, pauseVars
      <4> QED BY <4>1, <4>2
    <3>4. Awake' = Awake /\ Notifying("notifyOne") \subseteq (Notifying("notifyOne"))'
      BY <3>1, <3>2 DEF Awake, Notifying
    <3>5. Covered
      BY <1>1, <3>1, <3>2, <3>3 DEF Notifying
    <3> QED BY <3>1, <3>4, <3>5, CoveredFrame DEF TypeOK
  <2> QED BY <1>5, <2>1, <2>2, <2>3, <2>4 DEF CallContinues
<1>6. CASE SpuriousWake \/ UNCHANGED vars
  <2>1. /\ UNCHANGED <<tasks, wpc, workersRunning, pc, paused>>
        /\ sleepers' \subseteq sleepers
    BY <1>6 DEF SpuriousWake, vars, queueVars, threadVars, pauseVars
  <2>2. /\ Awake \subseteq Awake'
        /\ Notifying("notifyOne") \subseteq (Notifying("notifyOne"))'
        /\ Notifying("notifyAll") \subseteq (Notifying("notifyAll"))'
    BY <2>1 DEF Awake, Notifying
  <2>3. Covered
    BY <1>1, <2>1, <2>2
  <2> QED BY <2>1, <2>2, <2>3, CoveredFrame DEF TypeOK
<1> QED BY <1>2, <1>3, <1>4, <1>5, <1>6 DEF Next

(* With detach_task alone no worker sleeps while a task waits for it.        *)
THEOREM NoWorkerOversleeps == Batches = {} => (Spec => []WorkConserving)
<1> SUFFICES ASSUME Batches = {} PROVE Spec => []WorkConserving
  OBVIOUS
<1>1. Init => Conserving
  BY ConservingInit
<1>2. IInv /\ IInv' /\ Conserving /\ [Next]_vars => Conserving'
  BY ConservingStep
<1>3. Conserving => WorkConserving
  BY DEF Conserving, MayOversleep, Covered, WorkConserving, Available
<1> QED BY <1>1, <1>2, <1>3, PoolInvariance, PTL DEF Spec

-----------------------------------------------------------------------------
(* The pool implements Executor.                                             *)

(* What stands behind a queue in its extension is what it was extended with. *)
LEMMA Extension ==
  ASSUME NEW S, NEW s \in Seq(S), NEW b \in Seq(S)
  PROVE  SubSeq(s \o b, Len(s) + 1, Len(s \o b)) = b
<1> DEFINE n == Len(s)  m == Len(b)  q == s \o b
<1>1. /\ n \in Nat /\ m \in Nat /\ Len(q) = n + m /\ q \in Seq(S)
      /\ \A i \in 1..m : q[n + i] = b[i]
      /\ b = [i \in 1..m |-> b[i]]
  OBVIOUS
<1>2. SubSeq(q, n + 1, n + m) = [i \in 1..m |-> q[n + i]]
  BY <1>1
<1> QED BY <1>1, <1>2

(* Executor counts and ranges over what ThreadPool does.                     *)
LEMMA SameOperators ==
  /\ \A S : Abs!Cardinality(S) = Cardinality(S)
  /\ \A f : Abs!Range(f) = Range(f) /\ (Abs!IsInjective(f) <=> IsInjective(f))
<1>1. \A S : Abs!Cardinality(S) = Cardinality(S)
  BY Zenon DEF Abs!Cardinality, Cardinality
<1>2. \A f : Abs!Range(f) = Range(f)
  BY Zenon DEF Abs!Range, Range
<1>3. \A f : Abs!IsInjective(f) <=> IsInjective(f)
  BY Zenon DEF Abs!IsInjective, IsInjective
<1> QED BY <1>1, <1>2, <1>3

(* What Executor sees of the pool besides the queue and the jobs executing.  *)
Ended == {t \in Tasks : pc[t] = "done"}
Purged == {t \in Tasks : pc[t] = "purged"}

(* A worker about to take a task runs none, so fewer run than there are.     *)
LEMMA RoomForOne ==
  ASSUME TypeOK, NEW w \in Worker, job[w] \notin Tasks
  PROVE  Cardinality(Executing) < MaxThreads
<1> DEFINE O == Worker \ {w}  J == {job[v] : v \in O}  f == [v \in O |-> job[v]]
<1>1. IsFiniteSet(O) /\ Cardinality(O) = MaxThreads - 1
  <2>1. Worker \in SUBSET Worker /\ Cardinality(Worker) = MaxThreads
    BY PoolAssumption, FS_Interval DEF Worker
  <2> QED BY <2>1, OneMoreOrLess, WorkersFinite
<1>2. IsFiniteSet(J) /\ Cardinality(J) <= Cardinality(O)
  <2>1. f \in Surjection(O, J)
    BY DEF Surjection
  <2> HIDE DEF O, J, f
  <2> QED BY <1>1, <2>1, FS_Surjection
<1>3. Executing \subseteq J
  BY DEF Executing
<1>4. Cardinality(Executing) <= Cardinality(J) /\ Cardinality(Executing) \in Nat
      /\ Cardinality(J) \in Nat
  <2> HIDE DEF J
  <2> QED BY <1>2, <1>3, FS_Subset, FS_CardinalityType
<1> QED BY <1>1, <1>2, <1>4, PoolAssumption

(* Taking the foremost task is Executor's Begin.                             *)
LEMMA TakeBegins ==
  ASSUME TypeOK, TaskInOnePlace, NEW w \in Worker, wpc[w] # "run",
         NEW running, Take(w, running)
  PROVE  \E i \in DOMAIN tasks : Abs!Begin(i)
<1>1. PICK i \in DOMAIN tasks : Foremost(i) /\ PopTask(w, i)
  BY DEF Take
<1>2. tasks[i] \in Queued /\ tasks[i] \in Tasks /\ Tasks \subseteq Actor
  BY WithoutFacts DEF TypeOK, TaskInOnePlace, Actor
<1>3. job[w] \notin Tasks
  BY DEF TaskInOnePlace
<1>4. Executing' = Executing \cup {tasks[i]}
  BY <1>1, <1>2, <1>3 DEF PopTask, Executing, TypeOK
<1>5. Ended' = Ended /\ Purged' = Purged
  BY <1>1, <1>2 DEF PopTask, Ended, Purged, Queued, TypeOK
<1>6. tasks' = Abs!Without(tasks, i) /\ Abs!Foremost(i)
  BY <1>1 DEF PopTask, Without, Abs!Without, Foremost, Abs!Foremost
<1>7. Cardinality(Executing) < MaxThreads
  BY <1>3, RoomForOne
<1>8. Abs!Begin(i)
  BY <1>4, <1>5, <1>6, <1>7, SameOperators DEF Abs!Begin, Ended, Purged
<1> QED BY <1>8

(* Finishing it is its End.                                                  *)
LEMMA FinishEnds ==
  ASSUME TypeOK, TaskInOnePlace, NEW w \in Worker, Finish(w)
  PROVE  \E j \in Tasks : Abs!End(j)
<1>1. /\ job[w] \in Tasks /\ pc[job[w]] = "ready" /\ tasks' = tasks
      /\ pc' = [pc EXCEPT ![job[w]] = "done"]
      /\ job' = [job EXCEPT ![w] = None]
  BY DEF Finish, Goto, TaskInOnePlace, queueVars
<1>2. Tasks \subseteq Actor /\ None \notin Tasks
  BY PoolAssumption DEF Actor
<1>3. Executing' = Executing \ {job[w]} /\ job[w] \in Executing
  <2>1. \A v \in Worker : v # w => job[v] # job[w]
    BY <1>1 DEF TaskInOnePlace
  <2> QED BY <2>1, <1>1, <1>2 DEF Executing, TypeOK
<1>4. Ended' = Ended \cup {job[w]} /\ Purged' = Purged
  BY <1>1, <1>2 DEF Ended, Purged, TypeOK
<1>5. PICK j \in Tasks : j = job[w]
  BY <1>1
<1>6. Abs!End(j)
  BY <1>1, <1>3, <1>4, <1>5 DEF Abs!End, Ended, Purged
<1> QED BY <1>6

(* Handing over new tasks, one or several, is Submit.                        *)
LEMMA DetachSubmits ==
  ASSUME TypeOK, TaskInOnePlace, NEW b \in Seq(Tasks), IsInjective(b),
         \A t \in Range(b) : pc[t] = "new",
         tasks' = tasks \o b, job' = job,
         \A t \in Range(b) : pc'[t] = "queued",
         \A t \in Tasks \ Range(b) :
           pc'[t] = pc[t] \/ (pc[t] \notin Outside /\ pc'[t] \notin Outside)
  PROVE  Range(Abs!Handed) \subseteq Tasks /\ Abs!Submit(Abs!Handed)
<1>1. Abs!Handed = b
  BY Extension DEF Abs!Handed, TypeOK
<1>2. Range(b) \subseteq Tasks
  BY DEF Range
<1>3. Executing' = Executing
  BY DEF Executing
<1>4. Ended' = Ended /\ Purged' = Purged
  BY <1>2 DEF Ended, Purged, Outside
<1>5. Range(b) \cap Executing = {}
  BY DEF Executing, TaskInOnePlace
<1>6. Range(b) \cap Abs!Known = {}
  BY <1>5, SameOperators DEF Abs!Known, Outside, Queued, TaskInOnePlace
<1>7. Abs!Submit(b)
  BY <1>3, <1>4, <1>6, SameOperators DEF Abs!Submit, Ended, Purged
<1> QED BY <1>1, <1>2, <1>7

(* purge drops what is queued and nothing else.                              *)
LEMMA PurgePurges ==
  ASSUME TypeOK, TaskInOnePlace, NEW a \in Actor, Purge(a)
  PROVE  Abs!Purge
<1>1. Tasks \subseteq Actor
  BY DEF Actor
<1>2. Purged' = Purged \cup Range(tasks) /\ Ended' = Ended
  BY <1>1 DEF Purge, Purged, Ended, TaskInOnePlace, Queued
<1>3. tasks' = <<>> /\ Executing' = Executing
  BY DEF Purge, threadVars, Executing
<1> QED BY <1>2, <1>3, SameOperators DEF Abs!Purge, Ended, Purged

(* Whatever else a caller does Executor does not see.                        *)
LEMMA Unseen ==
  ASSUME TypeOK, UNCHANGED <<tasks, job>>,
         \A x \in Actor : \/ pc'[x] = pc[x]
                          \/ pc[x] \notin Outside /\ pc'[x] \notin Outside
  PROVE  UNCHANGED Abs!vars
<1>1. Tasks \subseteq Actor
  BY DEF Actor
<1>2. Executing' = Executing
  BY DEF Executing
<1>3. Ended' = Ended /\ Purged' = Purged
  BY <1>1 DEF Ended, Purged, Outside
<1> QED BY <1>2, <1>3 DEF Abs!vars, Ended, Purged

(* The rest of a call begun is not seen.                                     *)
LEMMA ContinuesUnseen ==
  ASSUME TypeOK, NEW a \in Actor, CallContinues(a) \/ Timeout(a)
  PROVE  UNCHANGED Abs!vars
<1>1. UNCHANGED <<tasks, job>>
  BY DEF CallContinues, NotifyOne, NotifyAll, Resume, ResetWait, CallWait,
         StopWorkers, NotifyStop, JoinWorkers, CreateThreads, ResumePool, Timeout,
         queueVars, threadVars
<1>2. \E to : to \notin Outside /\ pc[a] \notin Outside
              /\ (pc' = [pc EXCEPT ![a] = to] \/ pc' = pc)
  <2>1. CASE NotifyOne(a) \/ NotifyAll(a) \/ Timeout(a) \/ ResumePool(a)
    BY <2>1 DEF NotifyOne, NotifyAll, Timeout, ResumePool, Goto, Outside
  <2>2. CASE Resume(a)
    BY <2>2 DEF Resume, After, Outside
  <2>3. CASE ResetWait(a)
    BY <2>3 DEF ResetWait, CallWait, Goto, After, Outside
  <2>4. CASE StopWorkers(a) \/ NotifyStop(a) \/ JoinWorkers(a)
    BY <2>4 DEF StopWorkers, NotifyStop, JoinWorkers, Goto, Outside
  <2>5. CASE \E n \in 0..MaxThreads : CreateThreads(a, n)
    BY <2>5 DEF CreateThreads, Goto, Outside
  <2> QED BY <2>1, <2>2, <2>3, <2>4, <2>5 DEF CallContinues
<1>3. \A x \in Actor : \/ pc'[x] = pc[x]
                       \/ pc[x] \notin Outside /\ pc'[x] \notin Outside
  BY <1>2, CallMoves
<1> QED BY <1>1, <1>3, Unseen

(* Every step of the pool is a step of Executor or is not seen by it.        *)
Executes == [Abs!Next]_(Abs!vars)

(* Each step of the pool is a step of Executor or leaves its variables       *)
(* alone.                                                                    *)
LEMMA StepExecutes ==
  ASSUME TypeOK, TaskInOnePlace, [Next]_vars
  PROVE  Executes
<1> USE DEF Executes
<1>0. Tasks \subseteq Actor
  BY DEF Actor
<1>1. ASSUME NEW w \in Worker, Arrive(w) \/ Wake(w) PROVE Executes
  <2>1. PICK running : Await(w, running)
    BY <1>1 DEF Arrive, Wake
  <2>2. CASE Block(w, running) \/ Break(w, running)
    BY <2>2, Unseen DEF Block, Break
  <2>3. CASE Take(w, running)
    <3>1. wpc[w] # "run"
      BY <1>1 DEF Arrive, Wake
    <3>2. \E i \in DOMAIN tasks : Abs!Begin(i)
      BY <2>3, <3>1, TakeBegins
    <3> QED BY <3>2 DEF Abs!Next
  <2> QED BY <2>1, <2>2, <2>3 DEF Await
<1>2. ASSUME NEW w \in Worker, Finish(w) PROVE Executes
  BY <1>2, FinishEnds DEF Abs!Next
<1>3. ASSUME NEW a \in Actor, NEW t \in Tasks, DetachTask(a, t) PROVE Executes
  <2> DEFINE b == <<t>>
  <2>1. b \in Seq(Tasks) /\ IsInjective(b) /\ Range(b) = {t}
    BY DEF IsInjective, Range
  <2>2. tasks' = tasks \o b
    BY <1>3 DEF DetachTask, TypeOK
  <2>3. /\ pc[t] = "new" /\ pc'[t] = "queued" /\ job' = job
        /\ \A u \in Tasks \ {t} :
             pc'[u] = pc[u] \/ (pc[u] \notin Outside /\ pc'[u] \notin Outside)
    BY <1>0, <1>3 DEF DetachTask, Calls, TypeOK, Outside, threadVars
  <2> HIDE DEF b
  <2> QED BY <2>1, <2>2, <2>3, DetachSubmits, SameOperators DEF Abs!Next
<1>4. ASSUME NEW a \in Actor, NEW b \in Batches, DetachBulk(a, b) PROVE Executes
  <2>1. b \in Seq(Tasks) /\ IsInjective(b) /\ Range(b) \subseteq Tasks
    BY PoolAssumption DEF Range
  <2>2. /\ tasks' = tasks \o b /\ job' = job
        /\ \A t \in Range(b) : pc[t] = "new" /\ pc'[t] = "queued"
        /\ \A u \in Tasks \ Range(b) :
             pc'[u] = pc[u] \/ (pc[u] \notin Outside /\ pc'[u] \notin Outside)
    BY <1>0, <1>4, <2>1 DEF DetachBulk, Calls, TypeOK, Outside, threadVars
  <2> QED BY <2>1, <2>2, DetachSubmits, SameOperators DEF Abs!Next
<1>5. ASSUME NEW a \in Actor, Purge(a) PROVE Executes
  BY <1>5, PurgePurges DEF Abs!Next
<1>6. ASSUME NEW a \in Actor,
             Pause(a) \/ Unpause(a) \/ Wait(a) \/ WaitFor(a) \/ Reset(a) \/ Destructor(a)
      PROVE  Executes
  <2>1. UNCHANGED <<tasks, job>>
    BY <1>6 DEF Pause, Unpause, Wait, WaitFor, Reset, Destructor, CallWait,
                queueVars, threadVars
  <2>2. \A x \in Actor : \/ pc'[x] = pc[x]
                         \/ pc[x] \notin Outside /\ pc'[x] \notin Outside
    BY <1>6 DEF Pause, Unpause, Wait, WaitFor, Reset, Destructor, CallWait, Calls,
                Goto, After, Outside, TypeOK
  <2> QED BY <2>1, <2>2, Unseen
<1>7. ASSUME NEW a \in Actor, CallContinues(a) \/ Timeout(a) PROVE Executes
  BY <1>7, ContinuesUnseen
<1>8. CASE SpuriousWake \/ UNCHANGED vars
  <2>1. UNCHANGED <<tasks, job, pc>>
    BY <1>8 DEF SpuriousWake, vars, queueVars, threadVars
  <2> QED BY <2>1, Unseen
<1> QED BY <1>1, <1>2, <1>3, <1>4, <1>5, <1>6, <1>7, <1>8 DEF Next, CallBegins

(* A task accepted is begun at most once, the foremost first, on no more     *)
(* threads than there are, and ends, unless purge drops it; restarts of the  *)
(* workers, pauses and waits change nothing of that.                         *)
THEOREM ImplementsExecutor == Spec => ExecutorSpec
<1>1. Init => Abs!Init
  <2> SUFFICES ASSUME Init PROVE Abs!Init
    OBVIOUS
  <2>1. \A t \in Tasks : pc[t] = "new"
    BY PoolAssumption DEF Init, Actor
  <2>2. Executing = {}
    BY PoolAssumption DEF Init, Executing
  <2> QED BY <2>1, <2>2 DEF Init, Abs!Init
<1>2. IInv /\ [Next]_vars => [Abs!Next]_(Abs!vars)
  BY StepExecutes DEF IInv, Executes
<1> QED BY <1>1, <1>2, PoolInvariance, PTL DEF Spec, ExecutorSpec, Abs!Spec

=============================================================================
