SPECIFICATION FairSpec
CONSTANTS
  Apps = {a1, a2}
  MaxVersion = 2
  MaxRelists = 1
INVARIANTS
  TypeOK
  InOrder
  LateLimit
PROPERTY HandledUnlessEarly
CHECK_DEADLOCK FALSE
