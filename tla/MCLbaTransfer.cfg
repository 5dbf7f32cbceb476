CONSTANTS
  SectorSize = 2
  MaxWriteSectors = 2
  MaxEraseSectors = 2
  LbaLimit = 5
  DiskSectors = 5
  MaxLen = 7
  MaxCalls = 2
SPECIFICATION Spec
CHECK_DEADLOCK FALSE
INVARIANTS TypeOK OkMeansComplete ChangeIsPrefix ReadIsExact OnlyAskedSectors
PROPERTY Returns
