SPECIFICATION FairSpec
CONSTANTS
  Keys = {k1, k2}
  Workers = {w1, w2}
  MaxVersion = 3
  NoItem = NoItem
INVARIANTS
  SingleHandler
  LatestKept
PROPERTIES
  NoStaleHandling
  ImplementsMailbox
  Delivered
CHECK_DEADLOCK FALSE
