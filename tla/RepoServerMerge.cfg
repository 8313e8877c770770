SPECIFICATION Spec
CONSTANTS
  Procs = {g1}
  N = 4
  Merges = TRUE
  MaxRequests = 1
  MaxFaults = 0
INVARIANT ChangeReported
CHECK_DEADLOCK FALSE
