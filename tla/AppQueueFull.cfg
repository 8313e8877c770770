SPECIFICATION FairSpec
CONSTANTS
  Keys = {k1, k2, k3, k4}
  Workers = {w1}
  MaxVersion = 2
  NoItem = NoItem
INVARIANTS
  TypeOK
  BookkeepingExact
  NoLostWakeup
  StopLimit
PROPERTIES
  NeverOvertaken
  StopDrains
CHECK_DEADLOCK FALSE
