---------------------------- MODULE MCMtPoolDemo ----------------------------
(* Values for TLC's runs of MtPoolDemo.                                      *)
EXTENDS MtPoolDemo

CONSTANTS k1

PairedTokens == [t \in Tasks |-> IF t \in {P, Q} THEN k1 ELSE NoToken]

=============================================================================
