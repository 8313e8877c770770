SPECIFICATION FairSpec
CONSTANTS
  Procs = {p1, p2, p3}
  Revs = {r1, r2}
  NoRev = NoRev
  NoProc = NoProc
  MaxCalls = 5
INVARIANTS
  TypeOK
  UsersSeeTheirRevision
  SharedOnlyIfAllowed
  CountExact
  NoForgottenSleeper
PROPERTIES
  CallsReturn
CHECK_DEADLOCK FALSE
