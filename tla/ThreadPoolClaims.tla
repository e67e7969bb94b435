-------------------------- MODULE ThreadPoolClaims --------------------------
(***************************************************************************)
(* What a comment of mt_thread_pool.h says of wait, and the code does not. *)
(***************************************************************************)
EXTENDS ThreadPool

(* Line 2279, of the worker: "Once the task finishes, the worker notifies    *)
(* wait() in case it is waiting."  A caller blocked on tasks_done_cv while   *)
(* nothing runs and nothing is queued is never left there.                   *)
WaitIsNotified ==
  \A a \in Clients : pc[a] = "waiting" ~> pc[a] # "waiting"

=============================================================================
