\* LBManager with three strategies on two PEs, with and without +LBLoop
\* and +LBPeriod, and up to two user calls before or after init.
CONSTANTS
  PEs = {0, 1}
  NumLBs = 3
  NIL = NIL
  LateSetPeriod = FALSE
  MaxCalls = 2
SPECIFICATION Spec
INVARIANT TypeOK
INVARIANT StartupConsistent
INVARIANT OneStrategyOn
 
 
 
 
\* The application goes on when load balancing stops, so a state with no
\* step of this model is not an error by itself; LBKeepsRunning is what
\* says load balancing must not stop.
CHECK_DEADLOCK FALSE
