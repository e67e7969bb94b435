---------------------------- MODULE MCThreadPool ----------------------------
(* Values for TLC's runs of ThreadPool.                                      *)
EXTENDS ThreadPoolClaims

CONSTANTS t1, t2, t3, c1, c2

NoPriorities == [t \in Tasks |-> 0]
SecondFirst == [t \in Tasks |-> IF t = t2 THEN 1 ELSE 0]

UpToTwo == {<<t1, t2>>, <<t2>>}

=============================================================================
