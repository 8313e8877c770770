SPECIFICATION FairSpec
CONSTANTS
  Sources <- GitAndChart
  NameOf <- Names
  Multi = TRUE
  Edits <- Rearranged
  CommitsOf <- OneVersion
  Helm <- Charts
  MaxChanges = 2
  MaxLag = 1
  Faults <- Crashes
  MaxFaults = 1
  Starts <- NewOrSettled
INVARIANT DeployedRecorded
INVARIANT AnnotationsAgree
INVARIANT ChangeFound
PROPERTY Settles
CHECK_DEADLOCK FALSE
