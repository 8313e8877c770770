SPECIFICATION FairSpec
CONSTANTS
  Sources <- OneSource
  NameOf <- NoNames
  Multi = FALSE
  Edits <- NoEdits
  CommitsOf <- TwoCommits
  Helm <- NoCharts
  MaxChanges = 1
  MaxLag = 2
  Faults <- RpcFaults
  MaxFaults = 1
  Starts <- Settled
PROPERTY EventuallyAccurate
CHECK_DEADLOCK FALSE
