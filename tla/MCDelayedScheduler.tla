------------------------- MODULE MCDelayedScheduler -------------------------
(* Values for TLC's runs of DelayedScheduler.                                *)
EXTENDS DelayedSchedulerClaims

CONSTANTS t1, t2, c1, c2, k1

SameToken == [t \in Tasks |-> k1]
Unsequenced == [t \in Tasks |-> NoToken]
DelayRange == -1..1

=============================================================================
