------------------------------ MODULE Executor ------------------------------
(***************************************************************************)
(* What the users of a thread pool rely on, with no worker, lock or        *)
(* condition variable: a job handed over is begun at most once, the        *)
(* foremost first, on a bounded number of threads, and is run to its end   *)
(* unless it is purged before it is begun.                                 *)
(***************************************************************************)
EXTENDS Integers, FiniteSets, Sequences, Functions

CONSTANTS
  Jobs,       (* everything that may be handed over                          *)
  Urgency,    (* the priority of each job                                    *)
  Ordered,    (* whether priorities count; else first in, first out          *)
  Slots       (* bound on the jobs executing at once                         *)

VARIABLES
  waitingJobs,  (* handed over and not begun                                 *)
  executing,    (* begun and not ended                                       *)
  ended,        (* run to the end                                            *)
  purged        (* dropped without being run                                 *)

vars == <<waitingJobs, executing, ended, purged>>

Init == waitingJobs = <<>> /\ executing = {} /\ ended = {} /\ purged = {}

Known == Range(waitingJobs) \cup executing \cup ended \cup purged

(* A job is handed over by itself or at the end of a batch of others.        *)
Submit(batch) ==
  /\ IsInjective(batch) /\ Range(batch) \cap Known = {}
  /\ waitingJobs' = waitingJobs \o batch
  /\ UNCHANGED <<executing, ended, purged>>

Foremost(i) ==
  IF Ordered
  THEN \A k \in DOMAIN waitingJobs :
         Urgency[waitingJobs[i]] >= Urgency[waitingJobs[k]]
  ELSE i = 1

Without(s, i) == [k \in 1..Len(s) - 1 |-> IF k < i THEN s[k] ELSE s[k + 1]]

Begin(i) ==
  /\ Foremost(i)
  /\ Cardinality(executing) < Slots
  /\ executing' = executing \cup {waitingJobs[i]}
  /\ waitingJobs' = Without(waitingJobs, i)
  /\ UNCHANGED <<ended, purged>>

End(j) ==
  /\ j \in executing
  /\ executing' = executing \ {j}
  /\ ended' = ended \cup {j}
  /\ UNCHANGED <<waitingJobs, purged>>

Purge ==
  /\ purged' = purged \cup Range(waitingJobs)
  /\ waitingJobs' = <<>>
  /\ UNCHANGED <<executing, ended>>

(* The batch is what stands behind the jobs that were there before.          *)
Handed ==
  SubSeq(waitingJobs', Len(waitingJobs) + 1, Len(waitingJobs'))

Next ==
  \/ Range(Handed) \subseteq Jobs /\ Submit(Handed)
  \/ \E i \in DOMAIN waitingJobs : Begin(i)
  \/ \E j \in Jobs : End(j)
  \/ Purge

Spec == Init /\ [][Next]_vars

=============================================================================
