SPECIFICATION FairSpec
CONSTANTS
  Serves = {1, 2}
  Services <- MCServices
  Processes <- MCProcesses
  i1 = i1
  i2 = i2
  Instances = {i1, i2}
  AliasSets <- MCAliasSets
  None = None
  Scenarios <- MCScenarios
INVARIANTS
  SnapshotIsCurrent
  LiveRunKeepsItsRow
PROPERTIES
  StacksStopWhole
  RunsEnd
CHECK_DEADLOCK FALSE
