SPECIFICATION Spec
CONSTANTS
  ExportInterval = 2
  MaxBlocks = 4
  MaxUploadFaults = 2
CHECK_DEADLOCK FALSE
INVARIANTS
  LatestComplete
  ArchiveCoversHeight
