\* Merging critical paths into a fixed and a keyed merge point.
CONSTANTS
  Envs <- MCEnvs
  Keys = {k1, k2}
  Arrs = {1, 2}
  GARBAGE = GARBAGE
  MaxSteps = 6
SPECIFICATION Spec
INVARIANT TypeOK
INVARIANT MergePointsHoldLongest
\* The number of steps is bounded; the program itself goes on.
CHECK_DEADLOCK FALSE
INVARIANT ExecutingPathNotShortened
