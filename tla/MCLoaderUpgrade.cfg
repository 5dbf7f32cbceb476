CONSTANTS
  SectorSize = 1
  MaxWriteSectors = 4
  MaxEraseSectors = 6
  LbaLimit = 13
  DiskSectors = 12
  MaxLen = 10
  MaxCalls = 2
  HeaderLen = 2
  EntryLen = 1
  FwHeaderLen = 2
  Md5Len = 1
  Align = 2
  CountMax = 7
  Images <- MCImages
  File <- MCFile
  Payload <- MCPayload
  Shipped = "shipped"
  IdbLba = 1
SPECIFICATION UpgradeSpec
CHECK_DEADLOCK FALSE
INVARIANTS UpgradeTypeOK OkBoots NeverMixed OnlySuitable
PROPERTY AttemptEnds
