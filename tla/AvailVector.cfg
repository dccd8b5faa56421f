CONSTANTS
  NONE = NONE
  NumProc = 3
  Bitmaps <- MCBitmaps
  MaxCalls = 2
  CkptPes = {2, 4}
  MaxRestarts = 1
  t1 = t1
  t2 = t2
  Threads = {t1}
SPECIFICATION Spec
INVARIANT TypeOK
INVARIANT ReadIsWrittenBitmap
INVARIANT NewLdBalancerAvailable
INVARIANT AccessesInBounds
INVARIANT RestoredAsCheckpointed
\* Every thread makes a bounded number of calls.
CHECK_DEADLOCK FALSE
