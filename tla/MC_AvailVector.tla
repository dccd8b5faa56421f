---------------------------- MODULE MC_AvailVector ----------------------------
EXTENDS AvailVector, TLC

CONSTANTS t1, t2

Symmetry == Permutations({t1, t2})

\* Three PEs; a bitmap with PE 0 down, one with only PE 0 up, and all up.
MCBitmaps ==
  { [q \in Procs |-> IF q = 0 THEN 0 ELSE 1],
    [q \in Procs |-> IF q = 0 THEN 1 ELSE 0],
    AllOnes }
=============================================================================
