\* Stream pool: growth keeps handles, getNextStream stays round-robin.
CONSTANTS
  SMP = FALSE
  Capabilities <- MCCapabilities
  PesOnNode = {1, 8, 64}
  DeviceCounts = {1, 2}
  StreamRequests = {1, 2, 3}
  MaxCalls = 6
SPECIFICATION Spec
INVARIANT TypeOK
PROPERTY StreamsOnlyGrow
PROPERTY RoundRobin
\* The process exits after destroyStreams or an invalid stream index.
CHECK_DEADLOCK FALSE
