CONSTANTS
  Boards = {"a", "b", "c"}
  Devices <- MCDevices
  Filters <- MCFilters
  MaxArrivals = 2
  HeaderLen = 2
  EntryLen = 1
  FwHeaderLen = 2
  Md5Len = 1
  Firmwares <- MCFirmwares
  ParamSize <- MCParamSize
  MaxParam = 4
  Manufactures = {0, 202, 208}
  ChunkLen = 2
  CrcLen = 2
SPECIFICATION SessionSpec
CHECK_DEADLOCK FALSE
INVARIANTS SessionTypeOK NoneOverlooked NeverAmbiguous FoundWhereAsked
INVARIANTS BootInOrder BootBeforeStorage DownloadIsDue StorageWhereSelected
PROPERTIES PollingEnds ArrivalEndsWait SessionEnds
