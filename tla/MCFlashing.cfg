CONSTANTS
  DiskSectors = 11
  LbSectors = 2
  CopySectors = 2
  Partitions <- MCPartitions
  Commands <- MCCommands
SPECIFICATION Spec
CHECK_DEADLOCK FALSE
INVARIANTS TypeOK EntriesInOrder OkIsAllOrNothing NothingMisplaced SmallBlockTransfer
PROPERTIES Ends SkipIsNeverRefused
