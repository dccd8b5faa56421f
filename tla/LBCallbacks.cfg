CONSTANTS
  NULL = NULL
  MaxAdds = 4
  MaxLoops = 3
SPECIFICATION Spec
INVARIANT CountIsLive
INVARIANT HandlesStable
PROPERTY EachLiveCalledOnce
\* The owner makes a bounded number of calls, and StartLB without a live
\* callback aborts the process.
CHECK_DEADLOCK FALSE
