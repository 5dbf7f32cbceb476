CONSTANTS
  SectorSize = 2
  MaxWriteSectors = 2
  MaxEraseSectors = 2
  LbaLimit = 5
  DiskSectors = 5
  MaxLen = 7
  MaxCalls = 1
SPECIFICATION Spec
CHECK_DEADLOCK FALSE
INVARIANT OverflowIsReal
