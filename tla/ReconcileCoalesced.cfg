SPECIFICATION Spec
CONSTANTS
  Sources <- OneSource
  NameOf <- NoNames
  Multi = FALSE
  Edits <- NoEdits
  CommitsOf <- ThreeCommits
  Helm <- NoCharts
  MaxChanges = 2
  MaxLag = 2
  Faults <- NoFaults
  MaxFaults = 0
  Starts <- Settled
INVARIANT AccurateAtAnyPace
CHECK_DEADLOCK FALSE
