------------------------------ MODULE MCMtPool ------------------------------
(* Values for TLC's runs of MtPool.                                          *)
EXTENDS MtPool

CONSTANTS t1, t2, Helper

Unsequenced == [t \in Tasks |-> NoToken]

=============================================================================
