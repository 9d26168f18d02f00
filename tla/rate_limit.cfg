SPECIFICATION Spec
CONSTANTS
  MaxRequests = 6
  Limit = 2
  Window = 1
  MaxConcurrent = 2
  MaxTime = 2
  None = None
INVARIANTS
  WindowBound
PROPERTIES
  LostIsSlow
  RefusedIsBusy
CHECK_DEADLOCK FALSE
