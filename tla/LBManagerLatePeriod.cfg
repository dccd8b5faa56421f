\* LBSetPeriod called after init: a period set on a PE whose manager
\* chose the barrier makes ResumeClients re-arm a timer instead of
\* releasing the clients held at the barrier.
CONSTANTS
  PEs = {0, 1}
  NumLBs = 2
  NIL = NIL
  LateSetPeriod = TRUE
  MaxCalls = 1
SPECIFICATION Spec
PROPERTY WaitersResumed
\* A late LBSetPeriod(-1) in timer mode leaves a PE with no trigger at all:
\* the application goes on without load balancing, a state with no step of
\* this model.
CHECK_DEADLOCK FALSE
