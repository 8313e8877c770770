SPECIFICATION FairSpec
CONSTANTS
  Commits = {1, 2, 3, 4}
  Parents <- Graph
  Heads = {2, 3}
  Unlisted = {4}
  MaxPushes = 1
  MaxFaults = 3
INVARIANTS TypeOK RevisionInPlace OneClone
PROPERTY Recovers
