SPECIFICATION Spec
CONSTANTS
  Procs = {g1, g2}
  N = 4
  Merges = FALSE
  MaxRequests = 2
  MaxFaults = 1
SYMMETRY Symm
INVARIANT TypeOK
INVARIANT AnswerIsLastChange
INVARIANT ChangeReported
CHECK_DEADLOCK FALSE
