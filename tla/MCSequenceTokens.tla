-------------------------- MODULE MCSequenceTokens --------------------------
(* Values for TLC's run of SequenceTokens.                                   *)
EXTENDS SequenceTokens, TLC

CONSTANTS p1, p2, p3, io, net

(* Threads are alike, and so are names; all properties treat them alike.     *)
ThreadSymmetry == Permutations(Threads) \cup Permutations(Names)

=============================================================================
