\* A 2 x 2 array of blocks (grid_size = 2 * block_size), two iterations,
\* with and without -z and -p.
CONSTANTS
  N = 2
  NIters = 2
  ZCModes = {FALSE, TRUE}
  PrintModes = {FALSE, TRUE}
SPECIFICATION Spec
INVARIANT TypeOK
INVARIANT RegularGhostsFromNeighbours
INVARIANT PrintsFinalResult
INVARIANT PrintVisitsAll
PROPERTY Terminates
PROPERTY BulkSynchronous
\* The program ends at CkExit.
CHECK_DEADLOCK FALSE
