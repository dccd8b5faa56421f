\* Buffer registry under two concurrent requesters: ids are never shared
\* by mistake, allocations stay put while in use, abort only on exhaustion.
CONSTANTS
  l1 = l1
  l2 = l2
  NULL = NULL
  UNSET = UNSET
  NumBuffers = 2
  MaxRequests = 6
  Lanes <- MCLanes
  Requests <- MCRequests
SPECIFICATION Spec
SYMMETRY Symmetry
INVARIANT TypeOK
INVARIANT NoSharedSlot
INVARIANT InFlightAllocationStable
INVARIANT AbortOnlyWhenExhausted
PROPERTY RegistryContract
\* The workload is bounded and an exhausted id space aborts the process.
CHECK_DEADLOCK FALSE
