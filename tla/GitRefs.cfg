SPECIFICATION FairSpec
CONSTANTS
  Procs = {p1, p2}
  MaxCalls = 3
  MaxPushes = 1
  MaxFaults = 2
INVARIANTS
  TypeOK
  SingleLister
  NoStepBack
PROPERTY CallsReturn
CHECK_DEADLOCK FALSE
