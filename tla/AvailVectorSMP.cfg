CONSTANTS
  NONE = NONE
  NumProc = 3
  Bitmaps <- MCBitmaps
  MaxCalls = 2
  CkptPes = {2}
  MaxRestarts = 0
  t1 = t1
  t2 = t2
  Threads = {t1, t2}
SPECIFICATION Spec
INVARIANT ReadIsWrittenBitmap
SYMMETRY Symmetry
CHECK_DEADLOCK FALSE
