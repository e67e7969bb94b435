--------------------------- MODULE MCParallelLoops ---------------------------
(* Values for TLC's run of ParallelLoops: index types of three bits, one     *)
(* signed and narrower than int, one unsigned, and one signed as wide.       *)
EXTENDS ParallelLoops

Types ==
  {[lo |-> -4, hi |-> 3, promoted |-> TRUE],
   [lo |-> 0, hi |-> 7, promoted |-> FALSE],
   [lo |-> -4, hi |-> 3, promoted |-> FALSE]}

AllDivisions ==
  {[lo |-> t.lo, hi |-> t.hi, promoted |-> t.promoted, first |-> f, after |-> a,
    wanted |-> n] : t \in Types, f \in -4..7, a \in -4..7, n \in 1..9}

Range3(first, after, blocks) ==
  [lo |-> -4, hi |-> 3, promoted |-> TRUE, first |-> first, after |-> after,
   blocks |-> blocks]

SmallRanges == {Range3(-3, 1, 3), Range3(0, 3, 0), Range3(0, 2, 3), Range3(2, -1, 2)}

ShortWaits == 0..1

=============================================================================
