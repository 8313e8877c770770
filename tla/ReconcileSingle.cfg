SPECIFICATION Spec
CONSTANTS
  Sources <- OneSource
  NameOf <- NoNames
  Multi = FALSE
  Edits <- NoEdits
  CommitsOf <- ThreeCommits
  Helm <- NoCharts
  MaxChanges = 2
  MaxLag = 1
  Faults <- AllFaults
  MaxFaults = 1
  Starts <- Settled
INVARIANT TypeOK
INVARIANT AccurateUnlessMisread
INVARIANT NeverAhead
PROPERTY NeverOlder
CHECK_DEADLOCK FALSE
