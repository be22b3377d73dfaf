SPECIFICATION Spec
CONSTANTS
  Tasks = {k1, k2}
  BatchSize = 2
  MaxBlocks = 3
  MaxFaults = 2
  MaxStarts = 3
CHECK_DEADLOCK FALSE
INVARIANTS
  SyncedMeansReplayed
  UndisturbedReplaysOnce
PROPERTIES
  CatchesUp
