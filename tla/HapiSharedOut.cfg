\* Two requesters share user-addressed slot 0 and both read it back.
CONSTANTS
  l1 = l1
  l2 = l2
  NULL = NULL
  UNSET = UNSET
  NumBuffers = 2
  MaxRequests = 2
  Lanes <- MCLanes
  Requests <- SharedOutRequests
SPECIFICATION Spec
PROPERTY DeviceToHostIntoOwnBuffer
CHECK_DEADLOCK FALSE
