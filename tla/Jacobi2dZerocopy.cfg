\* A 2 x 2 array of blocks, one iteration, with -z.
CONSTANTS
  N = 2
  NIters = 1
  ZCModes = {TRUE}
  PrintModes = {FALSE}
SPECIFICATION Spec
INVARIANT GhostsFromNeighbours
\* The program ends at CkExit.
CHECK_DEADLOCK FALSE
