CONSTANTS
  SectorSize = 3
  DiskSectors = 3
  LbaLimit = 4
  PosLimit = 14
  MaxRequest = 7
  MaxRequests = 2
SPECIFICATION Spec
CHECK_DEADLOCK FALSE
INVARIANT TypeOK
PROPERTY FileSpec
