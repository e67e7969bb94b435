------------------------- MODULE ParallelLoopsProofs -------------------------
(***************************************************************************)
(* Proofs about ParallelLoops: for any ranges BS::blocks can divide, any     *)
(* number of workers and any index type, whatever the workers, purge() and   *)
(* the caller do in whatever order.                                          *)
(***************************************************************************)
EXTENDS ParallelLoops, BlocksProofs

(* Every variable keeps its type.                                            *)
LoopsTypeOK ==
  /\ call \in Calls
  /\ waitingJobs \in Seq(Job)
  /\ executing \subseteq Job /\ ended \subseteq Job /\ purged \subseteq Job
  /\ at \in [Job -> Int] /\ called \in [Indices -> Nat]
  /\ future \in [Job -> {"none", "pending", "value", "exception", "broken"}]
  /\ cpc \in {"call", "futures", "get", "wait", "waitFor", "count", "done"}
  /\ next \in Nat \ {0} /\ count \in Nat /\ now \in Nat /\ deadline \in Nat
  /\ result \in {"none", "value", "exception", "broken"}

(* The jobs of the call, once it is made, are each in one place of the pool. *)
Handed == Range(waitingJobs) \cup executing \cup ended \cup purged
JobInOnePlace ==
  /\ IsInjective(waitingJobs)
  /\ Range(waitingJobs) \cap (executing \cup ended \cup purged) = {}
  /\ executing \cap (ended \cup purged) = {} /\ ended \cap purged = {}
  /\ Handed = IF cpc = "call" THEN {} ELSE 1..NumJobs

(* A job has called the function with the indices behind it, no other, and   *)
(* with all of its own if its future holds a value.                          *)
Own(j) == Piece(j).start..Piece(j).end - 1
Worked ==
  /\ \A i \in Indices \ RangeOf(call) : called[i] = 0
  /\ \A j \in 1..NumJobs :
       /\ j \notin executing \cup ended => \A i \in Own(j) : called[i] = 0
       /\ j \in executing =>
            /\ at[j] \in Piece(j).start..Piece(j).end
            /\ \A i \in Own(j) : called[i] = IF i < at[j] THEN 1 ELSE 0
       /\ j \in ended => \A i \in Own(j) : called[i] \in {0, 1}
       /\ future[j] = "value" => \A i \in Own(j) : called[i] = 1

(* A future is settled when its job ends or is purged, and not before.       *)
Settled ==
  /\ cpc = "call" \/ ~call.submit => \A j \in Job : future[j] = "none"
  /\ cpc # "call" /\ call.submit =>
       \A j \in 1..NumJobs :
         /\ j \in Range(waitingJobs) \cup executing => future[j] = "pending"
         /\ j \in ended => future[j] \in {"value", "exception"}
         /\ j \in purged => future[j] = "broken"

(* What the caller has found out about the futures it has looked at.         *)
Seen ==
  /\ cpc \notin {"call", "done"} => call.submit /\ result = "none"
  /\ cpc = "call" => result = "none"
  /\ cpc = "get" => /\ next <= NumJobs + 1
                    /\ \A j \in 1..(next - 1) : future[j] = "value"
  /\ cpc = "waitFor" => /\ next <= NumJobs + 1
                        /\ (\A j \in 1..(next - 1) : Ready(j)) \/ deadline <= now
  /\ cpc = "count" => /\ next <= NumJobs + 1 /\ count <= next - 1
                      /\ count = next - 1 => \A j \in 1..(next - 1) : Ready(j)
  /\ result = "value" => \A j \in 1..NumJobs : future[j] = "value"

LoopInv == LoopsTypeOK /\ JobInOnePlace /\ Worked /\ Settled /\ Seen

-----------------------------------------------------------------------------
(* The pool that runs the jobs counts and ranges over what this module does. *)
LEMMA SameOperators ==
  /\ \A f : Pool!Range(f) = Range(f) /\ (Pool!IsInjective(f) <=> IsInjective(f))
<1>1. \A f : Pool!Range(f) = Range(f)
  BY Zenon DEF Pool!Range, Range
<1>2. \A f : Pool!IsInjective(f) <=> IsInjective(f)
  BY Zenon DEF Pool!IsInjective, IsInjective
<1> QED BY <1>1, <1>2

(* A call is of one of four kinds, on a range that BS::blocks can divide.    *)
LEMMA CallFacts ==
  ASSUME NEW c \in Calls
  PROVE  /\ c.range \in Ranges /\ c.submit \in BOOLEAN
         /\ c.kind \in {"blocks", "loop", "sequence", "task"}
<1>1. PICK r \in Ranges :
        c \in {DetachBlocks(r), DetachLoop(r), DetachSequence(r), SubmitBlocks(r),
               SubmitLoop(r), SubmitSequence(r), SubmitTask(r)}
  BY DEF Calls
<1>2. \E k \in {"blocks", "loop", "sequence", "task"}, s \in BOOLEAN :
        c = [kind |-> k, submit |-> s, range |-> r]
  BY <1>1, Zenon DEF DetachBlocks, DetachLoop, DetachSequence, SubmitBlocks, SubmitLoop,
                     SubmitSequence, SubmitTask, Call
<1> QED BY <1>2

(* What the call enqueues is decided by its kind.                            *)
LEMMA PiecesCases ==
  ASSUME NEW c \in Calls
  PROVE  /\ c.kind = "task" => Pieces(c) = <<[start |-> c.range.first, end |-> c.range.first + 1]>>
         /\ c.kind = "sequence" => Pieces(c) = SequencePieces(c.range)
         /\ c.kind \in {"blocks", "loop"} => Pieces(c) = BlockPieces(c.range)
BY DEF Pieces

(* The arguments are in the bounds of the index type.                        *)
LEMMA RangeFacts ==
  ASSUME NEW r \in Ranges
  PROVE  /\ Legal(DivisionOf(r))
         /\ r.lo \in Int /\ r.hi \in Int /\ r.first \in r.lo..r.hi /\ r.after \in r.lo..r.hi
BY LoopsAssumption DEF Legal, DivisionOf

(* What makes pieces a division of the indices in I among n jobs.            *)
Divides(P, n, I) ==
  /\ n \in Nat /\ DOMAIN P = 1..n
  /\ \A j \in 1..n : P[j].start \in Int /\ P[j].end \in Int /\ P[j].start < P[j].end
  /\ \A j \in 1..n : P[j].start..(P[j].end - 1) \subseteq I
  /\ \A i \in I : \E j \in 1..n : i \in P[j].start..(P[j].end - 1)
  /\ \A j, k \in 1..n : j # k =>
       P[j].start..(P[j].end - 1) \cap P[k].start..(P[k].end - 1) = {}

(* BS::blocks gives its jobs the whole range and nothing twice.              *)
LEMMA BlocksDivide ==
  ASSUME NEW r \in Ranges
  PROVE  Divides(BlockPieces(r), Len(BlockPieces(r)), r.first..r.after - 1)
<1> DEFINE d == DivisionOf(r)  n == NumBlocks(d)  P == BlockPieces(r)
<1>1. /\ Legal(d) /\ Partition(d) /\ d.first = r.first /\ d.after = r.after
      /\ d.first \in Int /\ d.after \in Int
  BY RangeFacts, BlocksPartition DEF DivisionOf
<1>2. n \in Nat
  <2>1. d.wanted \in Nat /\ TotalSize(d) \in Nat
    BY <1>1 DEF Legal, TotalSize
  <2> QED BY <2>1 DEF NumBlocks, Smaller
<1>3. P = [j \in 1..n |-> [start |-> Start(d, j - 1), end |-> End(d, j - 1)]]
  BY DEF BlockPieces
<1>4. DOMAIN P = 1..n /\ Len(P) = n
  BY <1>2, <1>3
<1>5. \A b \in 0..(n - 1) : Start(d, b) \in Int /\ End(d, b) \in Int
  <2> SUFFICES ASSUME NEW b \in 0..(n - 1)
               PROVE  Start(d, b) \in Int /\ End(d, b) \in Int
    OBVIOUS
  <2>1. d.after > d.first
    <3>1. CASE ~(d.after > d.first)
      <4>1. TotalSize(d) = 0
        BY <3>1 DEF TotalSize
      <4>2. n = 0
        BY <1>1, <4>1 DEF NumBlocks, Smaller, Legal
      <4> QED BY <4>2
    <3> QED BY <3>1
  <2>2. b \in 0..n /\ b + 1 \in 0..n
    BY <1>2
  <2>3. Start(d, b) \in d.first..d.after /\ Start(d, b + 1) \in d.first..d.after
    BY <2>1, <2>2, <1>1, StartIsPlain, PlainFacts
  <2> HIDE DEF n, d
  <2> QED BY <2>3, <1>1 DEF End
<1>6. ASSUME NEW j \in 1..n
      PROVE  /\ j - 1 \in 0..(n - 1)
             /\ P[j].start = Start(d, j - 1) /\ P[j].end = End(d, j - 1)
  BY <1>2, <1>3, <1>6
<1> HIDE DEF P, n, d
<1>7. \A j \in 1..n : /\ P[j].start \in Int /\ P[j].end \in Int
                      /\ P[j].start < P[j].end
                      /\ P[j].start..(P[j].end - 1) \subseteq r.first..(r.after - 1)
  <2> SUFFICES ASSUME NEW j \in 1..n
               PROVE  /\ P[j].start \in Int /\ P[j].end \in Int
                      /\ P[j].start < P[j].end
                      /\ P[j].start..(P[j].end - 1) \subseteq r.first..(r.after - 1)
    OBVIOUS
  <2>1. /\ Start(d, j - 1) \in Int /\ End(d, j - 1) \in Int
        /\ Start(d, j - 1) < End(d, j - 1)
        /\ d.first <= Start(d, j - 1) /\ End(d, j - 1) <= d.after
    BY <1>1, <1>5, <1>6 DEF Partition, n
  <2> QED BY <2>1, <1>1, <1>6
<1>8. ASSUME NEW i \in r.first..(r.after - 1)
      PROVE  \E j \in 1..n : i \in P[j].start..(P[j].end - 1)
  <2>1. PICK b \in 0..(n - 1) : i \in Start(d, b)..(End(d, b) - 1)
    BY <1>1 DEF Partition, BlockIndices, n
  <2>2. b + 1 \in 1..n /\ (b + 1) - 1 = b
    BY <1>2
  <2> QED BY <2>1, <2>2, <1>6
<1>9. ASSUME NEW j \in 1..n, NEW k \in 1..n, j # k
      PROVE  P[j].start..(P[j].end - 1) \cap P[k].start..(P[k].end - 1) = {}
  <2>1. \A b, c \in 0..(n - 1) : b < c => End(d, b) <= Start(d, c)
    BY <1>1 DEF Partition, n
  <2>2. CASE j < k
    <3>1. j - 1 < k - 1
      BY <2>2, <1>2
    <3>2. P[j].end <= P[k].start
      BY <3>1, <2>1, <1>6
    <3> QED BY <3>2, <1>7
  <2>3. CASE k < j
    <3>1. k - 1 < j - 1
      BY <2>3, <1>2
    <3>2. P[k].end <= P[j].start
      BY <3>1, <2>1, <1>6
    <3> QED BY <3>2, <1>7
  <2> QED BY <2>2, <2>3, <1>9, <1>2
<1> QED BY <1>2, <1>4, <1>7, <1>8, <1>9 DEF Divides, P

(* The jobs of a sequence have one index each.                               *)
LEMMA SequenceDivides ==
  ASSUME NEW r \in Ranges
  PROVE  Divides(SequencePieces(r), Len(SequencePieces(r)), r.first..r.after - 1)
<1> DEFINE n == TotalSize(r)  P == SequencePieces(r)
<1>1. r.first \in Int /\ r.after \in Int
  BY RangeFacts
<1>2. n \in Nat /\ n = IF r.after > r.first THEN r.after - r.first ELSE 0
  BY <1>1 DEF TotalSize
<1>3. DOMAIN P = 1..n /\ Len(P) = n
      /\ \A j \in 1..n : P[j].start = r.first + j - 1 /\ P[j].end = r.first + j
  BY <1>2 DEF SequencePieces
<1> HIDE DEF P, n
<1>4. \A j \in 1..n : /\ P[j].start \in Int /\ P[j].end \in Int
                      /\ P[j].start < P[j].end
                      /\ P[j].start..(P[j].end - 1) = {r.first + j - 1}
                      /\ r.first + j - 1 \in r.first..(r.after - 1)
  BY <1>1, <1>2, <1>3
<1>5. ASSUME NEW i \in r.first..(r.after - 1)
      PROVE  \E j \in 1..n : i \in P[j].start..(P[j].end - 1)
  <2>1. i - r.first + 1 \in 1..n /\ r.first + (i - r.first + 1) - 1 = i
    BY <1>1, <1>2
  <2> QED BY <2>1, <1>4
<1>6. \A j, k \in 1..n : j # k => r.first + j - 1 # r.first + k - 1
  BY <1>1, <1>2
<1>7. ASSUME NEW j \in 1..n, NEW k \in 1..n, j # k
      PROVE  P[j].start..(P[j].end - 1) \cap P[k].start..(P[k].end - 1) = {}
  BY <1>4, <1>6, <1>7
<1> QED BY <1>2, <1>3, <1>4, <1>5, <1>7 DEF Divides, P

(* Whatever the call, its jobs together have the indices asked for, each once*)
LEMMA PiecesDivide ==
  ASSUME NEW c \in Calls
  PROVE  /\ Divides(Pieces(c), Len(Pieces(c)), RangeOf(c))
         /\ Len(Pieces(c)) <= MaxJobs
         /\ RangeOf(c) \subseteq c.range.lo..c.range.hi
         /\ c.range.lo \in Int /\ c.range.hi \in Int
<1> DEFINE r == c.range
<1>1. /\ r \in Ranges /\ r.lo \in Int /\ r.hi \in Int
      /\ r.first \in r.lo..r.hi /\ r.after \in r.lo..r.hi
  BY CallFacts, RangeFacts
<1>2. RangeOf(c) \subseteq r.lo..r.hi
  BY <1>1 DEF RangeOf
<1>3. CASE c.kind = "task"
  <2> DEFINE P == Pieces(c)
  <2>1. P = <<[start |-> r.first, end |-> r.first + 1]>> /\ RangeOf(c) = {r.first}
    BY <1>3, PiecesCases DEF RangeOf
  <2>2. Len(P) = 1 /\ DOMAIN P = 1..1 /\ P[1].start = r.first /\ P[1].end = r.first + 1
    BY <2>1
  <2>3. 1..1 = {1} /\ P[1].start..(P[1].end - 1) = {r.first} /\ r.first \in Int
    BY <2>2, <1>1
  <2> HIDE DEF P, r
  <2>4. Divides(P, Len(P), RangeOf(c))
    BY <2>1, <2>2, <2>3 DEF Divides
  <2> QED BY <2>4, <1>1, <1>2, LoopsAssumption DEF P, r
<1>4. CASE c.kind # "task"
  <2>1. RangeOf(c) = r.first..(r.after - 1)
    BY <1>4 DEF RangeOf
  <2>2. Pieces(c) \in {SequencePieces(r), BlockPieces(r)}
    BY <1>4, CallFacts, PiecesCases
  <2> QED BY <2>1, <2>2, <1>1, <1>2, BlocksDivide, SequenceDivides, LoopsAssumption
<1> QED BY <1>3, <1>4

(* The pieces of the call under way.                                         *)
LEMMA PieceFacts ==
  ASSUME call \in Calls
  PROVE  /\ NumJobs \in Nat /\ 1..NumJobs \subseteq Job
         /\ RangeOf(call) \subseteq Indices /\ \A i \in Indices : i \in Int
         /\ \A j \in 1..NumJobs :
              /\ Piece(j).start \in Int /\ Piece(j).end \in Int
              /\ Piece(j).start < Piece(j).end
              /\ Own(j) = Piece(j).start..(Piece(j).end - 1)
              /\ Own(j) \subseteq RangeOf(call)
         /\ \A i \in RangeOf(call) : \E j \in 1..NumJobs : i \in Own(j)
         /\ \A j, k \in 1..NumJobs : j # k => Own(j) \cap Own(k) = {}
<1>1. /\ Divides(Pieces(call), NumJobs, RangeOf(call)) /\ NumJobs <= MaxJobs
      /\ RangeOf(call) \subseteq Indices /\ \A i \in Indices : i \in Int
  BY PiecesDivide DEF NumJobs, Indices
<1>2. NumJobs \in Nat /\ 1..NumJobs \subseteq Job
  BY <1>1, LoopsAssumption DEF Divides, Job
<1>3. \A j : Own(j) = Piece(j).start..(Piece(j).end - 1)
  BY DEF Own
<1> QED BY <1>1, <1>2, <1>3 DEF Divides, Piece

(* What Begin, with no priorities, does: the first of the queue goes.        *)
LEMMA BeginFacts ==
  ASSUME LoopsTypeOK, JobInOnePlace, NEW i \in DOMAIN waitingJobs, Pool!Begin(i)
  PROVE  \E j \in Job :
           /\ j = waitingJobs[i] /\ j \in Range(waitingJobs)
           /\ waitingJobs' \in Seq(Job) /\ IsInjective(waitingJobs')
           /\ Range(waitingJobs') = Range(waitingJobs) \ {j}
           /\ executing' = executing \cup {j} /\ UNCHANGED <<ended, purged>>
<1> DEFINE n == Len(waitingJobs)  q == waitingJobs  r == waitingJobs'
<1>1. /\ i = 1 /\ n \in Nat \ {0} /\ DOMAIN q = 1..n
      /\ \A k \in 1..n : q[k] \in Job
      /\ \A k, l \in 1..n : q[k] = q[l] => k = l
  BY DEF Pool!Begin, Pool!Foremost, LoopsTypeOK, JobInOnePlace, IsInjective
<1>2. r = [k \in 1..(n - 1) |-> q[k + 1]]
  BY <1>1 DEF Pool!Begin, Pool!Without
<1>3. executing' = executing \cup {q[1]} /\ UNCHANGED <<ended, purged>>
  BY <1>1 DEF Pool!Begin
<1> HIDE DEF n, q, r
<1>4. r \in [1..(n - 1) -> Job] /\ n - 1 \in Nat
  BY <1>1, <1>2
<1>5. r \in Seq(Job) /\ DOMAIN r = 1..(n - 1)
  BY <1>4
<1>6. \A k, l \in 1..(n - 1) : r[k] = r[l] => k = l
  BY <1>1, <1>2
<1>7. \A k \in 1..(n - 1) : k + 1 \in 1..n /\ k + 1 # 1 /\ r[k] = q[k + 1]
  BY <1>1, <1>2
<1>8. \A l \in 1..n : l # 1 => l - 1 \in 1..(n - 1) /\ r[l - 1] = q[l]
  BY <1>1, <1>2
<1>9. Range(r) = Range(q) \ {q[1]} /\ q[1] \in Range(q)
  <2>1. Range(r) \subseteq Range(q) \ {q[1]}
    BY <1>1, <1>5, <1>7 DEF Range
  <2>2. Range(q) \ {q[1]} \subseteq Range(r)
    <3> SUFFICES ASSUME NEW l \in 1..n, q[l] # q[1] PROVE q[l] \in Range(r)
      BY <1>1 DEF Range
    <3>1. l - 1 \in 1..(n - 1) /\ r[l - 1] = q[l]
      BY <1>8
    <3> QED BY <3>1, <1>5 DEF Range
  <2>3. q[1] \in Range(q)
    BY <1>1 DEF Range
  <2> QED BY <2>1, <2>2, <2>3
<1>10. IsInjective(r)
  BY <1>5, <1>6 DEF IsInjective
<1> QED BY <1>1, <1>3, <1>5, <1>9, <1>10 DEF q, r

(* Jobs 1, ..., NumJobs are handed over by the call and by it alone.         *)
LEMMA EnqueueFacts ==
  ASSUME LoopsTypeOK, JobInOnePlace, Enqueue
  PROVE  /\ waitingJobs' \in Seq(Job) /\ IsInjective(waitingJobs')
         /\ Range(waitingJobs') = 1..NumJobs /\ Handed = {}
         /\ UNCHANGED <<executing, ended, purged>>
<1> DEFINE b == [j \in 1..NumJobs |-> j]
<1>1. NumJobs \in Nat /\ 1..NumJobs \subseteq Job
  BY PieceFacts DEF LoopsTypeOK
<1>2. Handed = {} /\ Range(waitingJobs) = {}
  BY DEF Enqueue, JobInOnePlace, Handed
<1>3. waitingJobs = <<>>
  <2>1. /\ waitingJobs \in Seq(Job) /\ Len(waitingJobs) \in Nat
        /\ DOMAIN waitingJobs = 1..Len(waitingJobs)
    BY DEF LoopsTypeOK
  <2>2. 1 \notin DOMAIN waitingJobs
    BY <1>2 DEF Range
  <2> QED BY <2>1, <2>2
<1>4. b \in Seq(Job) /\ DOMAIN b = 1..NumJobs
  BY <1>1
<1>5. <<>> \o b = b
  BY <1>4
<1>6. waitingJobs' = b /\ UNCHANGED <<executing, ended, purged>>
  BY <1>3, <1>5 DEF Enqueue, Pool!Submit
<1>7. Range(b) = 1..NumJobs /\ IsInjective(b)
  BY <1>1 DEF Range, IsInjective
<1> QED BY <1>2, <1>4, <1>6, <1>7

(* The steps that leave the jobs and their futures alone.                    *)
Asking ==
  \/ EnqueueNothing \/ GetOne \/ GetReturns \/ WaitOne \/ WaitForOne \/ WaitForNothing
  \/ CountOne \/ ReadyCountReturns
  \/ CallGet \/ CallWait \/ CallReadyCount
  \/ \E d \in Durations : CallWaitFor(d)
  \/ Tick

(* Asking leaves the jobs alone and makes no call.                           *)
LEMMA AskingFrame ==
  Asking => /\ UNCHANGED <<poolVars, jobVars, future>>
            /\ cpc' = "call" => cpc = "call"
            /\ cpc = "call" => cpc' = "call" \/ NumJobs = 0
BY DEF Asking, EnqueueNothing, GetOne, GetReturns, WaitOne, WaitForOne, NextFuture,
       WaitForNothing, CountOne, ReadyCountReturns, CallGet, CallWait, CallReadyCount,
       CallWaitFor, Tick, CallerStep, WaitForEnds, callerVars

(* A step asks, or hands over, or is one of the pool.                        *)
LEMMA StepCases ==
  ASSUME [Next]_vars
  PROVE  \/ Asking \/ UNCHANGED vars \/ Enqueue \/ PurgePool
         \/ \E i \in DOMAIN waitingJobs : BeginJob(i)
         \/ \E j \in Job : FunctionReturns(j) \/ FunctionThrows(j) \/ JobEnds(j)
BY DEF Next, WorkerStep, CallerContinues, Asking

(* The call and its division into jobs never change.                         *)
LEMMA CallStays ==
  ASSUME [Next]_vars
  PROVE  call' = call
<1>1. CASE Asking
  BY <1>1, AskingFrame DEF jobVars
<1>2. CASE ~Asking
  BY <1>2, StepCases DEF vars, jobVars, Enqueue, PurgePool, BeginJob, FunctionReturns,
                  FunctionThrows, JobEnds
<1> QED BY <1>1, <1>2

-----------------------------------------------------------------------------
(* Before the call nothing is handed over and no index used.                 *)
LEMMA LoopInit == Init => LoopInv
<1> SUFFICES ASSUME Init PROVE LoopInv
  OBVIOUS
<1>1. /\ call \in Calls /\ waitingJobs = <<>> /\ executing = {} /\ ended = {} /\ purged = {}
      /\ cpc = "call" /\ result = "none" /\ next = 1
      /\ \A j \in Job : future[j] = "none"
      /\ \A i \in Indices : called[i] = 0
  BY DEF Init, Pool!Init
<1>2. LoopsTypeOK
  BY <1>1 DEF Init, LoopsTypeOK
<1>3. Range(waitingJobs) = {} /\ IsInjective(waitingJobs)
  BY <1>1 DEF Range, IsInjective
<1>4. JobInOnePlace
  BY <1>1, <1>3 DEF JobInOnePlace, Handed
<1>5. Worked
  BY <1>1, PieceFacts DEF Worked
<1>6. Settled
  BY <1>1 DEF Settled
<1>7. Seen
  BY <1>1 DEF Seen
<1> QED BY <1>2, <1>4, <1>5, <1>6, <1>7 DEF LoopInv

(* No step breaks the types.                                                 *)
LEMMA LoopTypeStep ==
  ASSUME LoopsTypeOK, JobInOnePlace, [Next]_vars
  PROVE  LoopsTypeOK'
<1> USE DEF LoopsTypeOK
<1>0. call' = call
  BY CallStays
<1>1. CASE Asking
  <2>1. UNCHANGED <<poolVars, jobVars, future>>
    BY <1>1, AskingFrame
  <2>2. /\ cpc' \in {"call", "futures", "get", "wait", "waitFor", "count", "done"}
        /\ next' \in Nat \ {0} /\ count' \in Nat /\ now' \in Nat /\ deadline' \in Nat
        /\ result' \in {"none", "value", "exception", "broken"}
    BY <1>1, LoopsAssumption
    DEF Asking, EnqueueNothing, GetOne, GetReturns, WaitOne, WaitForOne, NextFuture,
        WaitForNothing, CountOne, ReadyCountReturns, CallGet, CallWait, CallReadyCount,
        CallWaitFor, Tick, CallerStep, WaitForEnds, callerVars
  <2> QED BY <2>1, <2>2 DEF poolVars, jobVars, Indices
<1>2. CASE Enqueue
  BY <1>2, EnqueueFacts DEF Enqueue, jobVars, Indices
<1>3. CASE PurgePool
  <2>1. Range(waitingJobs) \subseteq Job
    BY DEF Range
  <2> QED BY <1>3, <2>1, SameOperators
          DEF PurgePool, Pool!Purge, jobVars, callerVars, Indices
<1>4. ASSUME NEW i \in DOMAIN waitingJobs, BeginJob(i) PROVE LoopsTypeOK'
  <2>1. PICK j \in Job :
           /\ j = waitingJobs[i] /\ j \in Range(waitingJobs)
           /\ waitingJobs' \in Seq(Job)
           /\ executing' = executing \cup {j} /\ UNCHANGED <<ended, purged>>
    BY <1>4, BeginFacts DEF BeginJob
  <2>2. Piece(j).start \in Int
    BY <2>1, PieceFacts DEF JobInOnePlace, Handed
  <2> QED BY <1>4, <2>1, <2>2 DEF BeginJob, callerVars, Indices
<1>5. ASSUME NEW j \in Job, FunctionReturns(j) \/ FunctionThrows(j) \/ JobEnds(j)
      PROVE  LoopsTypeOK'
  <2>1. j \in 1..NumJobs
    BY <1>5 DEF FunctionReturns, FunctionThrows, JobEnds, JobInOnePlace, Handed
  <2>2. Piece(j).end \in Int
    BY <2>1, PieceFacts
  <2>3. CASE FunctionReturns(j)
    <3>1. called' \in [Indices -> Nat] /\ at' \in [Job -> Int]
      BY <2>2, <2>3 DEF FunctionReturns, CallFunction
    <3> QED BY <3>1, <2>3, <1>0 DEF FunctionReturns, poolVars, callerVars, Indices
  <2>4. CASE FunctionThrows(j)
    <3>1. called' \in [Indices -> Nat]
      BY <2>4 DEF FunctionThrows, CallFunction
    <3> QED BY <3>1, <2>4 DEF FunctionThrows, Settle, Pool!End, callerVars, Indices
  <2>5. CASE JobEnds(j)
    BY <2>5 DEF JobEnds, Settle, Pool!End, jobVars, callerVars, Indices
  <2> QED BY <1>5, <2>3, <2>4, <2>5
<1>6. CASE UNCHANGED vars
  BY <1>6 DEF vars, poolVars, jobVars, callerVars, Indices
<1> QED BY <1>1, <1>2, <1>3, <1>4, <1>5, <1>6, StepCases

(* No step loses a job or gives it to two workers.                           *)
LEMMA PlaceStep ==
  ASSUME LoopsTypeOK, JobInOnePlace, [Next]_vars
  PROVE  JobInOnePlace'
<1> USE DEF JobInOnePlace, Handed
<1>0. NumJobs' = NumJobs /\ NumJobs \in Nat
  BY CallStays, PieceFacts DEF NumJobs, LoopsTypeOK
<1>1. CASE Asking \/ UNCHANGED vars
  <2>1. UNCHANGED poolVars /\ ((cpc' = "call" <=> cpc = "call") \/ NumJobs = 0)
    BY <1>1, AskingFrame DEF vars, callerVars
  <2>2. UNCHANGED <<waitingJobs, executing, ended, purged>>
    BY <2>1 DEF poolVars
  <2>3. NumJobs = 0 => 1..NumJobs = {}
    OBVIOUS
  <2> QED BY <1>0, <2>1, <2>2, <2>3
<1>2. CASE Enqueue
  <2>1. cpc' # "call"
    BY <1>2 DEF Enqueue
  <2> QED BY <1>0, <1>2, <2>1, EnqueueFacts
<1>3. CASE PurgePool
  <2>1. /\ waitingJobs' = <<>> /\ purged' = purged \cup Range(waitingJobs)
        /\ UNCHANGED <<executing, ended>> /\ cpc' = cpc
    BY <1>3, SameOperators DEF PurgePool, Pool!Purge, callerVars
  <2>2. Range(waitingJobs') = {} /\ IsInjective(waitingJobs')
    BY <2>1 DEF Range, IsInjective
  <2> QED BY <1>0, <2>1, <2>2
<1>4. ASSUME NEW i \in DOMAIN waitingJobs, BeginJob(i) PROVE JobInOnePlace'
  <2>1. PICK j \in Job :
           /\ j = waitingJobs[i] /\ j \in Range(waitingJobs)
           /\ IsInjective(waitingJobs')
           /\ Range(waitingJobs') = Range(waitingJobs) \ {j}
           /\ executing' = executing \cup {j} /\ UNCHANGED <<ended, purged>>
    BY <1>4, BeginFacts DEF BeginJob
  <2>2. cpc' = cpc
    BY <1>4 DEF BeginJob, callerVars
  <2> QED BY <1>0, <2>1, <2>2
<1>5. ASSUME NEW j \in Job, FunctionReturns(j) \/ FunctionThrows(j) \/ JobEnds(j)
      PROVE  JobInOnePlace'
  <2>1. cpc' = cpc /\ waitingJobs' = waitingJobs /\ purged' = purged /\ j \in executing
    BY <1>5 DEF FunctionReturns, FunctionThrows, JobEnds, Pool!End, poolVars, callerVars
  <2>2. \/ UNCHANGED <<executing, ended>>
        \/ executing' = executing \ {j} /\ ended' = ended \cup {j}
    BY <1>5 DEF FunctionReturns, FunctionThrows, JobEnds, Pool!End, poolVars
  <2> QED BY <1>0, <2>1, <2>2
<1> QED BY <1>1, <1>2, <1>3, <1>4, <1>5, StepCases

(* What a call of the function does to the counts: the indices to come, which*)
(* are the job's own and have not been used, are used.                       *)
LEMMA CallingFacts ==
  ASSUME LoopsTypeOK, Worked, NEW j \in 1..NumJobs, j \in executing, More(j),
         CallFunction(j)
  PROVE  /\ Upcoming(j) \subseteq Own(j)
         /\ \A i \in Own(j) : called'[i] = IF i < at[j] \/ i \in Upcoming(j) THEN 1 ELSE 0
         /\ \A i \in Indices \ Own(j) : called'[i] = called[i]
         /\ call.kind = "blocks" => Upcoming(j) = at[j]..(Piece(j).end - 1)
         /\ call.kind # "blocks" => Upcoming(j) = {at[j]}
<1>1. /\ Piece(j).start \in Int /\ Piece(j).end \in Int /\ Own(j) \subseteq Indices
      /\ Own(j) = Piece(j).start..(Piece(j).end - 1)
  BY PieceFacts DEF LoopsTypeOK
<1>2. /\ at[j] \in Piece(j).start..Piece(j).end /\ at[j] < Piece(j).end
      /\ \A i \in Own(j) : called[i] = IF i < at[j] THEN 1 ELSE 0
  BY DEF Worked, More
<1>3. /\ call.kind = "blocks" => Upcoming(j) = at[j]..(Piece(j).end - 1)
      /\ call.kind # "blocks" => Upcoming(j) = {at[j]}
  BY DEF Upcoming
<1>4. Upcoming(j) \subseteq Own(j) /\ \A i \in Upcoming(j) : ~(i < at[j])
  BY <1>1, <1>2, <1>3
<1>5. \A i \in Indices :
        called'[i] = IF i \in Upcoming(j) THEN called[i] + 1 ELSE called[i]
  BY DEF CallFunction, LoopsTypeOK
<1> QED BY <1>1, <1>2, <1>3, <1>4, <1>5

(* A job calls the function with what is its own and has not been used.      *)
LEMMA WorkedStep ==
  ASSUME LoopsTypeOK, JobInOnePlace, Worked, Settled, [Next]_vars
  PROVE  Worked'
<1>0. call' = call
  BY CallStays
<1>1. /\ NumJobs' = NumJobs /\ Indices' = Indices /\ RangeOf(call)' = RangeOf(call)
      /\ \A j : Piece(j)' = Piece(j) /\ Own(j)' = Own(j)
  BY <1>0 DEF NumJobs, Indices, Piece, Own
<1>2. executing \cup ended \subseteq 1..NumJobs /\ Range(waitingJobs) \subseteq 1..NumJobs
  BY DEF JobInOnePlace, Handed
<1>3. CASE Asking \/ UNCHANGED vars
  <2>1. UNCHANGED <<executing, ended, at, called, future>>
    BY <1>3, AskingFrame DEF vars, poolVars, jobVars
  <2> QED BY <1>0, <1>1, <2>1 DEF Worked
<1>4. CASE Enqueue
  <2>1. /\ UNCHANGED <<at, called, executing, ended>>
        /\ \A j \in 1..NumJobs : future'[j] # "value"
    BY <1>4, EnqueueFacts, PieceFacts DEF Enqueue, jobVars, LoopsTypeOK
  <2> QED BY <1>0, <1>1, <2>1 DEF Worked
<1>5. CASE PurgePool
  <2>1. /\ UNCHANGED <<at, called, executing, ended>>
        /\ \A j \in 1..NumJobs : future'[j] = "value" => future[j] = "value"
    BY <1>5, PieceFacts DEF PurgePool, Pool!Purge, jobVars, LoopsTypeOK
  <2> QED BY <1>0, <1>1, <2>1 DEF Worked
<1>6. ASSUME NEW i \in DOMAIN waitingJobs, BeginJob(i) PROVE Worked'
  <2>1. PICK j \in Job :
           /\ j = waitingJobs[i] /\ j \in Range(waitingJobs)
           /\ executing' = executing \cup {j} /\ UNCHANGED ended
    BY <1>6, BeginFacts DEF BeginJob
  <2>2. /\ at' = [at EXCEPT ![j] = Piece(j).start] /\ UNCHANGED <<called, future>>
    BY <1>6, <2>1 DEF BeginJob, callerVars
  <2>3. j \in 1..NumJobs /\ j \notin executing \cup ended
    BY <2>1, <1>2 DEF JobInOnePlace
  <2>4. /\ Piece(j).start \in Int /\ Piece(j).end \in Int /\ Piece(j).start < Piece(j).end
        /\ Own(j) = Piece(j).start..(Piece(j).end - 1)
    BY <2>3, PieceFacts DEF LoopsTypeOK
  <2>5. /\ at'[j] = Piece(j).start /\ at'[j] \in Piece(j).start..Piece(j).end
        /\ \A l \in Own(j) : called[l] = IF l < at'[j] THEN 1 ELSE 0
    BY <2>2, <2>3, <2>4 DEF Worked, LoopsTypeOK
  <2>6. \A k \in Job \ {j} : at'[k] = at[k]
    BY <2>2 DEF LoopsTypeOK
  <2>7. 1..NumJobs \subseteq Job
    BY PieceFacts DEF LoopsTypeOK
  <2> QED BY <1>0, <1>1, <2>1, <2>2, <2>3, <2>5, <2>6, <2>7 DEF Worked
<1>7. ASSUME NEW j \in Job, FunctionReturns(j) \/ FunctionThrows(j)
      PROVE  Worked'
  <2>1. j \in executing /\ More(j) /\ CallFunction(j) /\ j \in 1..NumJobs
    BY <1>2, <1>7 DEF FunctionReturns, FunctionThrows
  <2>2. /\ Upcoming(j) \subseteq Own(j)
        /\ \A i \in Own(j) : called'[i] = IF i < at[j] \/ i \in Upcoming(j) THEN 1 ELSE 0
        /\ \A i \in Indices \ Own(j) : called'[i] = called[i]
        /\ call.kind = "blocks" => Upcoming(j) = at[j]..(Piece(j).end - 1)
        /\ call.kind # "blocks" => Upcoming(j) = {at[j]}
    BY <2>1, CallingFacts
  <2>3. /\ Own(j) \subseteq RangeOf(call) /\ RangeOf(call) \subseteq Indices
        /\ 1..NumJobs \subseteq Job
        /\ \A k \in 1..NumJobs : k # j => Own(k) \cap Own(j) = {} /\ Own(k) \subseteq Indices
        /\ Piece(j).start \in Int /\ Piece(j).end \in Int
        /\ Own(j) = Piece(j).start..(Piece(j).end - 1)
    BY <2>1, PieceFacts DEF LoopsTypeOK
  <2>4. \A i \in Indices \ RangeOf(call) : called'[i] = 0
    BY <2>2, <2>3 DEF Worked
  <2>5. \A k \in 1..NumJobs : k # j => \A i \in Own(k) : called'[i] = called[i]
    BY <2>2, <2>3
  <2>6. future[j] # "value" /\ j \notin ended
    BY <2>1 DEF Settled, JobInOnePlace, Handed
  <2>7. CASE FunctionReturns(j)
    <3>1. /\ UNCHANGED <<executing, ended, future>>
          /\ at' = [at EXCEPT ![j] = IF call.kind = "blocks" THEN Piece(j).end ELSE @ + 1]
      BY <2>7 DEF FunctionReturns, poolVars
    <3>2. \A k \in 1..NumJobs : k # j => at'[k] = at[k]
      BY <3>1, <2>3 DEF LoopsTypeOK
    <3>3. at[j] \in Piece(j).start..Piece(j).end /\ at[j] < Piece(j).end
      BY <2>1 DEF Worked, More
    <3>4. /\ at'[j] \in Piece(j).start..Piece(j).end
          /\ \A i \in Own(j) : i < at'[j] <=> i < at[j] \/ i \in Upcoming(j)
      BY <2>2, <2>3, <3>1, <3>3 DEF LoopsTypeOK
    <3>5. \A i \in Own(j) : called'[i] = IF i < at'[j] THEN 1 ELSE 0
      BY <2>2, <3>4
    <3> QED BY <1>0, <1>1, <2>1, <2>4, <2>5, <2>6, <3>1, <3>2, <3>4, <3>5 DEF Worked
  <2>8. CASE FunctionThrows(j)
    <3>1. /\ executing' = executing \ {j} /\ ended' = ended \cup {j} /\ at' = at
          /\ \A k \in 1..NumJobs : future'[k] = "value" => future[k] = "value" /\ k # j
      BY <2>3, <2>6, <2>8 DEF FunctionThrows, Pool!End, Settle, LoopsTypeOK
    <3>2. \A i \in Own(j) : called'[i] \in {0, 1}
      BY <2>2
    <3> QED BY <1>0, <1>1, <2>1, <2>4, <2>5, <3>1, <3>2 DEF Worked
  <2> QED BY <1>7, <2>7, <2>8
<1>8. ASSUME NEW j \in Job, JobEnds(j) PROVE Worked'
  <2>1. j \in 1..NumJobs /\ j \in executing /\ ~More(j) /\ 1..NumJobs \subseteq Job
    BY <1>2, <1>8, PieceFacts DEF JobEnds, LoopsTypeOK
  <2>2. /\ executing' = executing \ {j} /\ ended' = ended \cup {j}
        /\ UNCHANGED <<at, called>>
        /\ \A k \in 1..NumJobs : k # j => future'[k] = future[k]
    BY <2>1, <1>8 DEF JobEnds, Pool!End, Settle, jobVars, LoopsTypeOK
  <2>3. \A i \in Own(j) : called[i] = 1
    <3>1. /\ Piece(j).start \in Int /\ Piece(j).end \in Int
          /\ Own(j) = Piece(j).start..(Piece(j).end - 1)
      BY <2>1, PieceFacts DEF LoopsTypeOK
    <3>2. at[j] \in Piece(j).start..Piece(j).end /\ ~(at[j] < Piece(j).end)
      BY <2>1 DEF Worked, More
    <3>3. \A i \in Own(j) : i < at[j]
      BY <3>1, <3>2
    <3> QED BY <2>1, <3>3 DEF Worked
  <2> QED BY <1>0, <1>1, <2>1, <2>2, <2>3 DEF Worked
<1> QED BY <1>3, <1>4, <1>5, <1>6, <1>7, <1>8, StepCases

(* A future is settled with its job, by whoever is done with the job.        *)
LEMMA SettledStep ==
  ASSUME LoopsTypeOK, JobInOnePlace, Settled, [Next]_vars
  PROVE  Settled'
<1>0. call' = call /\ NumJobs' = NumJobs
  BY CallStays DEF NumJobs
<1>1. executing \cup ended \cup purged \cup Range(waitingJobs) \subseteq 1..NumJobs
      /\ 1..NumJobs \subseteq Job
  BY PieceFacts DEF JobInOnePlace, Handed, LoopsTypeOK
<1>2. CASE Asking \/ UNCHANGED vars
  <2>1. UNCHANGED <<waitingJobs, executing, ended, purged, future>>
        /\ (cpc' = "call" => cpc = "call")
    BY <1>2, AskingFrame DEF vars, poolVars, callerVars
  <2>2. cpc = "call" /\ cpc' # "call" => 1..NumJobs = {}
    BY <1>2, AskingFrame DEF vars, callerVars
  <2> QED BY <1>0, <2>1, <2>2 DEF Settled
<1>3. CASE Enqueue
  <2>1. /\ Range(waitingJobs') = 1..NumJobs /\ Handed = {}
        /\ UNCHANGED <<executing, ended, purged>>
    BY <1>3, EnqueueFacts
  <2>2. /\ cpc' # "call"
        /\ call.submit => \A j \in 1..NumJobs : future'[j] = "pending"
        /\ ~call.submit => \A j \in Job : future'[j] = "none"
    BY <1>3, <1>1 DEF Enqueue
  <2> QED BY <1>0, <2>1, <2>2 DEF Settled, Handed
<1>4. CASE PurgePool
  <2>1. /\ waitingJobs' = <<>> /\ purged' = purged \cup Range(waitingJobs)
        /\ UNCHANGED <<executing, ended>> /\ cpc' = cpc
        /\ \A j \in Job :
             future'[j] = IF j \in Range(waitingJobs) /\ future[j] = "pending"
                          THEN "broken" ELSE future[j]
    BY <1>4, SameOperators DEF PurgePool, Pool!Purge, callerVars
  <2>2. Range(waitingJobs') = {}
    BY <2>1 DEF Range
  <2> QED BY <1>0, <1>1, <2>1, <2>2 DEF Settled, JobInOnePlace
<1>5. ASSUME NEW i \in DOMAIN waitingJobs, BeginJob(i) PROVE Settled'
  <2>1. PICK j \in Job :
           /\ j = waitingJobs[i] /\ j \in Range(waitingJobs)
           /\ Range(waitingJobs') = Range(waitingJobs) \ {j}
           /\ executing' = executing \cup {j} /\ UNCHANGED <<ended, purged>>
    BY <1>5, BeginFacts DEF BeginJob
  <2>2. UNCHANGED <<cpc, future>>
    BY <1>5 DEF BeginJob, callerVars
  <2> QED BY <1>0, <2>1, <2>2 DEF Settled
<1>6. ASSUME NEW j \in Job, FunctionReturns(j) PROVE Settled'
  <2>1. UNCHANGED <<waitingJobs, executing, ended, purged, future, cpc>>
    BY <1>6 DEF FunctionReturns, poolVars, callerVars
  <2> QED BY <1>0, <2>1 DEF Settled
<1>7. ASSUME NEW j \in Job, FunctionThrows(j) \/ JobEnds(j) PROVE Settled'
  <2>1. PICK how \in {"value", "exception"} : Settle(j, how)
    BY <1>7 DEF FunctionThrows, JobEnds
  <2>2. /\ j \in executing /\ executing' = executing \ {j} /\ ended' = ended \cup {j}
        /\ UNCHANGED <<waitingJobs, purged, cpc>>
    BY <1>7 DEF FunctionThrows, JobEnds, Pool!End, callerVars
  <2>3. \A k \in Job : future'[k] = IF k = j /\ future[k] = "pending" THEN how ELSE future[k]
    BY <2>1 DEF Settle, LoopsTypeOK
  <2> QED BY <1>0, <1>1, <2>1, <2>2, <2>3 DEF Settled, JobInOnePlace
<1> QED BY <1>2, <1>3, <1>4, <1>5, <1>6, <1>7, StepCases

(* A future that is settled stays as it is.                                  *)
LEMMA ReadyStays ==
  ASSUME LoopsTypeOK, JobInOnePlace, Settled, [Next]_vars, NEW j \in 1..NumJobs,
         future[j] \in {"value", "exception", "broken"}
  PROVE  future'[j] = future[j]
<1>0. j \in Job
  BY PieceFacts DEF LoopsTypeOK
<1>1. CASE Asking
  BY <1>1, AskingFrame
<1>2. CASE Enqueue
  BY <1>0, <1>2 DEF Enqueue, Settled
<1>3. CASE PurgePool
  BY <1>0, <1>3 DEF PurgePool
<1>4. ASSUME NEW i \in DOMAIN waitingJobs, BeginJob(i) PROVE future' = future
  BY <1>4 DEF BeginJob
<1>5. ASSUME NEW k \in Job, FunctionReturns(k) \/ FunctionThrows(k) \/ JobEnds(k)
      PROVE  future'[j] = future[j]
  BY <1>0, <1>5 DEF FunctionReturns, FunctionThrows, JobEnds, Settle, LoopsTypeOK
<1> QED BY <1>1, <1>2, <1>3, <1>4, <1>5, StepCases DEF vars

(* What has been seen of the first n futures stays true.                     *)
LEMMA SeenStays ==
  ASSUME LoopsTypeOK, JobInOnePlace, Settled, [Next]_vars, NEW n \in Nat, n <= NumJobs
  PROVE  /\ (\A j \in 1..n : future[j] = "value") => \A j \in 1..n : future'[j] = "value"
         /\ (\A j \in 1..n : Ready(j)) => \A j \in 1..n : Ready(j)'
<1>1. \A j \in 1..n : j \in 1..NumJobs
  BY PieceFacts DEF LoopsTypeOK
<1> QED BY <1>1, ReadyStays DEF Ready

(* The caller's knowledge is kept by whatever others do meanwhile.           *)
LEMMA SeenFrame ==
  ASSUME LoopsTypeOK, JobInOnePlace, Settled, Seen, [Next]_vars, UNCHANGED callerVars,
         now' >= now
  PROVE  Seen'
<1>0. /\ call' = call /\ NumJobs' = NumJobs /\ NumJobs \in Nat
      /\ next \in Nat \ {0} /\ deadline \in Nat /\ now \in Nat
      /\ UNCHANGED <<cpc, next, count, deadline, result>>
  BY CallStays, PieceFacts DEF NumJobs, LoopsTypeOK, callerVars
<1>1. next - 1 \in Nat /\ (next <= NumJobs + 1 => next - 1 <= NumJobs)
  BY <1>0
<1>2. next <= NumJobs + 1 =>
        /\ (\A j \in 1..(next - 1) : future[j] = "value")
             => \A j \in 1..(next - 1) : future'[j] = "value"
        /\ (\A j \in 1..(next - 1) : Ready(j)) => \A j \in 1..(next - 1) : Ready(j)'
  BY <1>1, SeenStays
<1>3. (\A j \in 1..NumJobs : future[j] = "value") => \A j \in 1..NumJobs : future'[j] = "value"
  BY <1>0, SeenStays
<1>4. now' \in Nat
  BY LoopTypeStep DEF LoopsTypeOK
<1>5. deadline <= now => deadline <= now'
  BY <1>0, <1>4
<1> QED BY <1>0, <1>2, <1>3, <1>5 DEF Seen

(* What the caller knows is true when it learns it and stays so.             *)
LEMMA SeenStep ==
  ASSUME LoopsTypeOK, JobInOnePlace, Settled, Seen, [Next]_vars
  PROVE  Seen'
<1>0. /\ call' = call /\ NumJobs' = NumJobs /\ NumJobs \in Nat
      /\ next \in Nat \ {0} /\ count \in Nat /\ deadline \in Nat /\ now \in Nat
  BY CallStays, PieceFacts DEF NumJobs, LoopsTypeOK
<1>1. CASE \/ Tick \/ UNCHANGED vars \/ PurgePool
           \/ \E i \in DOMAIN waitingJobs : BeginJob(i)
           \/ \E j \in Job : FunctionReturns(j) \/ FunctionThrows(j) \/ JobEnds(j)
  <2>1. UNCHANGED callerVars /\ now' >= now
    BY <1>0, <1>1 DEF Tick, vars, PurgePool, BeginJob, FunctionReturns, FunctionThrows,
                      JobEnds
  <2> QED BY <2>1, SeenFrame
<1>2. CASE EnqueueNothing \/ Enqueue
  <2>1. /\ cpc' \in {"futures", "done"} /\ (cpc' = "futures" => call.submit)
        /\ result' = "none"
    BY <1>2 DEF EnqueueNothing, Enqueue, Seen
  <2> QED BY <1>0, <2>1 DEF Seen
<1>3. CASE CallGet \/ CallWait \/ CallReadyCount \/ \E d \in Durations : CallWaitFor(d)
  <2>1. /\ cpc = "futures" /\ cpc' \in {"get", "wait", "waitFor", "count"} /\ next' = 1
        /\ result' = result /\ (cpc' = "count" => count' = 0)
    BY <1>3 DEF CallGet, CallWait, CallReadyCount, CallWaitFor, CallerStep
  <2>2. 1..(next' - 1) = {} /\ next' <= NumJobs + 1
    BY <1>0, <2>1
  <2> QED BY <1>0, <2>1, <2>2 DEF Seen
<1>4. CASE GetOne
  <2>1. cpc = "get" /\ future' = future
    BY <1>4 DEF GetOne
  <2>2. CASE future[next] = "value"
    <3>1. next' = next + 1 /\ next <= NumJobs /\ UNCHANGED <<cpc, result>>
      BY <1>4, <2>2 DEF GetOne
    <3>2. \A j \in 1..(next' - 1) : j = next \/ j \in 1..(next - 1)
      BY <1>0, <3>1
    <3>3. \A j \in 1..(next' - 1) : future'[j] = "value"
      BY <2>1, <2>2, <3>2 DEF Seen
    <3> QED BY <1>0, <2>1, <3>1, <3>3 DEF Seen
  <2>3. CASE future[next] # "value"
    <3>1. result' \in {"exception", "broken"} /\ cpc' = "done"
      BY <1>4, <2>3 DEF GetOne
    <3> QED BY <1>0, <3>1 DEF Seen
  <2> QED BY <2>2, <2>3
<1>5. CASE GetReturns
  <2>1. cpc = "get" /\ cpc' = "done" /\ next > NumJobs /\ future' = future
    BY <1>5 DEF GetReturns, CallerStep
  <2>2. 1..NumJobs = 1..(next - 1)
    BY <1>0, <2>1 DEF Seen
  <2> QED BY <1>0, <2>1, <2>2 DEF Seen
<1>6. CASE WaitOne \/ WaitForNothing \/ ReadyCountReturns
  <2>1. /\ cpc \in {"wait", "waitFor", "count"} /\ cpc' \in {"wait", "futures"}
        /\ result' = result
    BY <1>6 DEF WaitOne, WaitForNothing, ReadyCountReturns, CallerStep
  <2> QED BY <1>0, <2>1 DEF Seen
<1>7. CASE WaitForOne
  <2>1. /\ cpc = "waitFor" /\ cpc' \in {"waitFor", "futures"} /\ next <= NumJobs
        /\ UNCHANGED <<future, result, deadline, now>>
        /\ Ready(next) \/ deadline <= now
        /\ cpc' = "waitFor" => next' = next + 1
    BY <1>0, <1>7 DEF WaitForOne, WaitForEnds, NextFuture
  <2>2. CASE cpc' = "futures"
    BY <1>0, <2>1, <2>2 DEF Seen
  <2>3. CASE cpc' = "waitFor"
    <3>1. next' <= NumJobs + 1 /\ \A j \in 1..(next' - 1) : j = next \/ j \in 1..(next - 1)
      BY <1>0, <2>1, <2>3
    <3>2. (\A j \in 1..(next' - 1) : Ready(j)) \/ deadline <= now
      BY <2>1, <3>1 DEF Seen
    <3>3. (\A j \in 1..(next' - 1) : Ready(j)') \/ deadline' <= now'
      BY <2>1, <3>2 DEF Ready
    <3> QED BY <1>0, <2>1, <2>3, <3>1, <3>3 DEF Seen
  <2> QED BY <2>1, <2>2, <2>3
<1>8. CASE CountOne
  <2>1. /\ cpc = "count" /\ cpc' = "count" /\ next <= NumJobs /\ next' = next + 1
        /\ count' = (IF Ready(next) THEN count + 1 ELSE count)
        /\ UNCHANGED <<future, result>>
    BY <1>8 DEF CountOne
  <2>2. next' <= NumJobs + 1 /\ count' <= next' - 1
        /\ \A j \in 1..(next' - 1) : j = next \/ j \in 1..(next - 1)
    BY <1>0, <2>1 DEF Seen
  <2>3. count' = next' - 1 => Ready(next) /\ count = next - 1
    BY <1>0, <2>1 DEF Seen
  <2>4. count' = next' - 1 => \A j \in 1..(next' - 1) : Ready(j)'
    BY <2>1, <2>2, <2>3 DEF Seen, Ready
  <2> QED BY <1>0, <2>1, <2>2, <2>4 DEF Seen
<1> QED BY <1>1, <1>2, <1>3, <1>4, <1>5, <1>6, <1>7, <1>8, StepCases DEF Asking

-----------------------------------------------------------------------------
(* The invariant is inductive.                                               *)
THEOREM LoopInvariance == Spec => []LoopInv
<1>1. Init => LoopInv
  BY LoopInit
<1>2. LoopInv /\ [Next]_vars => LoopInv'
  BY LoopTypeStep, PlaceStep, WorkedStep, SettledStep, SeenStep DEF LoopInv
<1> QED BY <1>1, <1>2, PTL DEF Spec

(* No index is handed to the function twice and none outside the range,      *)
(* whatever the range, the number of blocks and the order of the workers.    *)
THEOREM NoIndexTwice == Spec => []IndexOnce
<1>1. LoopInv => IndexOnce
  <2> SUFFICES ASSUME LoopInv, NEW i \in Indices
               PROVE  called[i] <= IF i \in RangeOf(call) THEN 1 ELSE 0
    BY DEF IndexOnce
  <2>1. CASE i \in RangeOf(call)
    <3>1. PICK j \in 1..NumJobs : i \in Own(j)
      BY <2>1, PieceFacts DEF LoopInv, LoopsTypeOK
    <3>2. called[i] \in {0, 1}
      BY <3>1 DEF LoopInv, Worked
    <3> QED BY <2>1, <3>2
  <2>2. CASE i \notin RangeOf(call)
    BY <2>2 DEF LoopInv, Worked
  <2> QED BY <2>1, <2>2
<1> QED BY <1>1, LoopInvariance, PTL

(* get() returns normally only when the function has returned for every index*)
(* and no job is running.                                                    *)
THEOREM GetIsComplete == Spec => []GetMeansDone
<1>1. LoopInv => GetMeansDone
  <2> SUFFICES ASSUME LoopInv, result = "value"
               PROVE  executing = {} /\ \A i \in RangeOf(call) : called[i] = 1
    BY DEF GetMeansDone
  <2>1. \A j \in 1..NumJobs : future[j] = "value"
    BY DEF LoopInv, Seen
  <2>2. \A i \in RangeOf(call) : called[i] = 1
    BY <2>1, PieceFacts DEF LoopInv, LoopsTypeOK, Worked
  <2>3. executing \subseteq 1..NumJobs /\ (cpc = "call" => executing = {})
    BY DEF LoopInv, JobInOnePlace, Handed
  <2>4. cpc # "call" => \A j \in 1..NumJobs : j \notin executing
    BY <2>1, PieceFacts DEF LoopInv, Settled, LoopsTypeOK
  <2> QED BY <2>2, <2>3, <2>4
<1> QED BY <1>1, LoopInvariance, PTL

(* A future tells what became of its job.                                    *)
THEOREM FuturesAreTrue == Spec => []FuturesTellTruth
<1>1. LoopInv => FuturesTellTruth
  <2> SUFFICES ASSUME LoopInv, call.submit, NEW j \in 1..NumJobs
               PROVE  /\ future[j] = "broken" <=> j \in purged
                      /\ Ready(j) /\ j \notin purged => j \in ended
                      /\ future[j] = "value" =>
                           \A i \in Piece(j).start..Piece(j).end - 1 : called[i] = 1
    BY DEF FuturesTellTruth
  <2>1. j \in Job
    BY PieceFacts DEF LoopInv, LoopsTypeOK
  <2>2. future[j] = "value" => \A i \in Piece(j).start..Piece(j).end - 1 : called[i] = 1
    BY DEF LoopInv, Worked, Own
  <2>3. CASE cpc = "call"
    BY <2>1, <2>2, <2>3 DEF LoopInv, Settled, JobInOnePlace, Handed, Ready
  <2>4. CASE cpc # "call"
    <3>1. j \in Range(waitingJobs) \cup executing \cup ended \cup purged
      BY <2>4 DEF LoopInv, JobInOnePlace, Handed
    <3> QED BY <2>2, <2>4, <3>1 DEF LoopInv, Settled, Ready
  <2> QED BY <2>3, <2>4
<1> QED BY <1>1, LoopInvariance, PTL

(* wait_for returns true only if all futures are ready or it is exactly the  *)
(* deadline; ready_count counts all of them only if all are ready.           *)
THEOREM AnswersAreHonest == Spec => AnswersHonest
<1> DEFINE Honest ==
      /\ CallerStep("waitFor", "futures") /\ next' > NumJobs
           => AllReady \/ now = deadline
      /\ CallerStep("count", "futures") /\ count = NumJobs => AllReady
<1>1. LoopInv /\ [Next]_vars => [Honest]_vars
  <2> SUFFICES ASSUME LoopInv, Next PROVE Honest
    OBVIOUS
  <2>0. /\ NumJobs \in Nat /\ next \in Nat \ {0} /\ deadline \in Nat /\ now \in Nat
        /\ count \in Nat
    BY PieceFacts DEF LoopInv, LoopsTypeOK
  <2>1. ASSUME CallerStep("waitFor", "futures"), next' > NumJobs
        PROVE  AllReady \/ now = deadline
    <3>1. WaitForOne \/ WaitForNothing
      BY <2>1 DEF CallerStep, Next, WorkerStep, CallerContinues, EnqueueNothing, Enqueue,
           GetOne, GetReturns, WaitOne, CountOne, ReadyCountReturns, CallGet, CallWait,
           CallReadyCount, CallWaitFor, PurgePool, Tick, BeginJob, FunctionReturns,
           FunctionThrows, JobEnds, callerVars
    <3>2. CASE WaitForNothing
      BY <2>0, <3>2 DEF WaitForNothing, AllReady
    <3>3. CASE WaitForOne
      <4>1. next = NumJobs /\ deadline >= now /\ (Ready(next) \/ now >= deadline)
        BY <2>0, <2>1, <3>3 DEF WaitForOne, WaitForEnds, NextFuture, CallerStep
      <4>2. \A j \in 1..NumJobs : j = next \/ j \in 1..(next - 1)
        BY <2>0, <4>1
      <4>3. (\A j \in 1..(next - 1) : Ready(j)) \/ deadline <= now
        BY <2>1 DEF LoopInv, Seen, CallerStep
      <4> QED BY <2>0, <4>1, <4>2, <4>3 DEF AllReady
    <3> QED BY <3>1, <3>2, <3>3
  <2>2. ASSUME CallerStep("count", "futures"), count = NumJobs PROVE AllReady
    <3>1. ReadyCountReturns
      BY <2>2 DEF CallerStep, Next, WorkerStep, CallerContinues, EnqueueNothing, Enqueue,
           GetOne, GetReturns, WaitOne, WaitForOne, WaitForEnds, WaitForNothing, CountOne,
           CallGet, CallWait, CallReadyCount, CallWaitFor, PurgePool, Tick, BeginJob,
           FunctionReturns, FunctionThrows, JobEnds, callerVars
    <3>2. next > NumJobs /\ cpc = "count"
      BY <3>1 DEF ReadyCountReturns, CallerStep
    <3>3. next = NumJobs + 1 /\ count = next - 1 /\ 1..NumJobs = 1..(next - 1)
      BY <2>0, <2>2, <3>2 DEF LoopInv, Seen
    <3> QED BY <3>2, <3>3 DEF LoopInv, Seen, AllReady
  <2> QED BY <2>1, <2>2
<1> QED BY <1>1, LoopInvariance, PTL DEF Spec, AnswersHonest

-----------------------------------------------------------------------------
(* Before any call BS::blocks would divide whatever may be asked for, and the*)
(* common type of two indices holds them both, but for the one exception.    *)
THEOREM EveryRangeIsPartitioned == Spec => []RangesPartitioned
<1>1. RangesPartitioned
  BY BlocksPartition DEF RangesPartitioned
<1> QED BY <1>1, PTL

(* A signed type of s bytes and an unsigned one of u both fit in MixedType,  *)
(* unless the unsigned one has 8 bytes.                                      *)
LEMMA MixedIsWide ==
  ASSUME NEW s \in {1, 2, 4, 8}, NEW u \in {1, 2, 4, 8}, u # 8
  PROVE  /\ MixedType(s, u).signed = TRUE
         /\ MixedType(s, u).bytes >= s /\ MixedType(s, u).bytes > u
<1>1. \A n : Signed(n).signed = TRUE /\ Signed(n).bytes = n
  BY DEF Signed
<1>2. MixedType(s, u) =
        IF s = 8 THEN Signed(8)
        ELSE IF (s = 1 /\ u = 1) \/ (s = 2 /\ u = 1) THEN Signed(2)
        ELSE IF (s <= 2 /\ u <= 2) \/ (s = 4 /\ u < 4) THEN Signed(4)
        ELSE Signed(8)
  BY DEF MixedType
<1> QED BY <1>1, <1>2

(* With an unsigned type of 8 bytes it is that type.                         *)
LEMMA MixedOfEight ==
  ASSUME NEW s \in {1, 2, 4, 8}
  PROVE  ~MixedType(s, 8).signed /\ MixedType(s, 8).bytes = 8
BY DEF MixedType

(* A type that holds another one holds its values from 0 on, and an unsigned *)
(* one of 8 bytes holds those of every type.                                 *)
LEMMA WideFromZero ==
  ASSUME NEW t, NEW u, t.bytes \in Nat, u.bytes \in {1, 2, 4, 8},
         Holds(t, u) \/ (~t.signed /\ t.bytes = 8)
  PROVE  HoldsFromZero(t, u)
<1>1. ValueBits(u) \in {8 * u.bytes, 8 * u.bytes - 1}
  BY DEF ValueBits
<1>2. CASE t.signed = u.signed /\ t.bytes >= u.bytes
  <2>1. CASE t.signed
    BY <1>2, <2>1 DEF HoldsFromZero, ValueBits
  <2>2. CASE ~t.signed
    BY <1>2, <2>2 DEF HoldsFromZero, ValueBits
  <2> QED BY <2>1, <2>2
<1>3. CASE t.signed /\ ~u.signed /\ t.bytes > u.bytes
  <2>1. ValueBits(t) = 8 * t.bytes - 1
    BY <1>3 DEF ValueBits
  <2> QED BY <1>1, <1>3, <2>1 DEF HoldsFromZero
<1>4. CASE ~t.signed /\ t.bytes = 8
  <2>1. ValueBits(t) = 64
    BY <1>4 DEF ValueBits
  <2> QED BY <1>1, <2>1 DEF HoldsFromZero
<1> QED BY <1>2, <1>3, <1>4 DEF Holds

(* common_index_type is wide enough: an index from 0 on keeps its value, and *)
(* so does one below 0 unless the other type is uint64_t.                    *)
THEOREM CommonTypeIsWide == Spec => []IndexTypesHold
<1>1. ASSUME NEW t \in IntegerTypes, NEW u \in IntegerTypes, NEW common,
             common = CommonIndexType(t, u)
      PROVE  /\ HoldsFromZero(common, t) /\ HoldsFromZero(common, u)
             /\ \/ Holds(common, t) /\ Holds(common, u)
                \/ t.signed # u.signed /\ \E x \in {t, u} : ~x.signed /\ x.bytes = 8
  <2> DEFINE Unsigned64(x) == ~x.signed /\ x.bytes = 8
             Both == Holds(common, t) /\ Holds(common, u)
             Excepted == t.signed # u.signed /\ (Unsigned64(t) \/ Unsigned64(u))
  <2>0. /\ t.signed \in BOOLEAN /\ u.signed \in BOOLEAN
        /\ t.bytes \in {1, 2, 4, 8} /\ u.bytes \in {1, 2, 4, 8}
    BY DEF IntegerTypes
  <2> DEFINE Goal == common.bytes \in Nat /\ (Both \/ (Unsigned64(common) /\ Excepted))
  <2>1. ASSUME t.signed = u.signed PROVE Goal
    <3>1. common = IF t.bytes >= u.bytes THEN t ELSE u
      BY <1>1, <2>1 DEF CommonIndexType
    <3> QED BY <2>0, <2>1, <3>1 DEF Holds
  <2>2. ASSUME t.signed, ~u.signed PROVE Goal
    <3>0. t.signed = TRUE /\ u.signed = FALSE
      BY <2>0, <2>2
    <3>1. common = MixedType(t.bytes, u.bytes)
      BY <1>1, <2>0, <2>2 DEF CommonIndexType
    <3>2. ASSUME u.bytes = 8 PROVE Goal
      <4>1. ~common.signed /\ common.bytes = 8
        BY <2>0, <3>1, <3>2, MixedOfEight
      <4>2. Unsigned64(common) /\ common.bytes \in Nat
        BY <4>1
      <4>3. t.signed # u.signed /\ Unsigned64(u)
        BY <2>2, <3>0, <3>2
      <4> HIDE DEF Unsigned64
      <4> QED BY <4>2, <4>3
    <3>3. ASSUME u.bytes # 8 PROVE Goal
      <4>1. common.signed = TRUE /\ common.bytes >= t.bytes /\ common.bytes > u.bytes
        BY <2>0, <3>1, <3>3, MixedIsWide
      <4>2. common.bytes \in Nat
        BY <2>0, <3>1 DEF MixedType, Signed
      <4> QED BY <2>2, <3>0, <4>1, <4>2 DEF Holds
    <3> QED BY <3>2, <3>3
  <2>3. ASSUME ~t.signed, u.signed PROVE Goal
    <3>0. u.signed = TRUE /\ t.signed = FALSE
      BY <2>0, <2>3
    <3>1. common = MixedType(u.bytes, t.bytes)
      BY <1>1, <2>0, <2>3 DEF CommonIndexType
    <3>2. ASSUME t.bytes = 8 PROVE Goal
      <4>1. ~common.signed /\ common.bytes = 8
        BY <2>0, <3>1, <3>2, MixedOfEight
      <4>2. Unsigned64(common) /\ common.bytes \in Nat
        BY <4>1
      <4>3. t.signed # u.signed /\ Unsigned64(t)
        BY <2>3, <3>0, <3>2
      <4> HIDE DEF Unsigned64
      <4> QED BY <4>2, <4>3
    <3>3. ASSUME t.bytes # 8 PROVE Goal
      <4>1. common.signed = TRUE /\ common.bytes >= u.bytes /\ common.bytes > t.bytes
        BY <2>0, <3>1, <3>3, MixedIsWide
      <4>2. common.bytes \in Nat
        BY <2>0, <3>1 DEF MixedType, Signed
      <4> QED BY <2>3, <3>0, <4>1, <4>2 DEF Holds
    <3> QED BY <3>2, <3>3
  <2>4. Goal
    BY <2>0, <2>1, <2>2, <2>3
  <2>5. HoldsFromZero(common, t) /\ HoldsFromZero(common, u)
    BY <2>0, <2>4, WideFromZero
  <2> QED BY <2>4, <2>5
<1>2. CommonTypeHolds
  BY <1>1 DEF CommonTypeHolds
<1> QED BY <1>2, PTL DEF IndexTypesHold

=============================================================================
