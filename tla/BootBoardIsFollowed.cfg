CONSTANTS
  Boards = {"a"}
  Devices <- OneBoard
  Filters <- NoFilter
  MaxArrivals = 1
  HeaderLen = 2
  EntryLen = 1
  FwHeaderLen = 2
  Md5Len = 1
  Firmwares <- MCFirmwares
  ParamSize <- MCParamSize
  MaxParam = 4
  Manufactures = {0, 202, 208}
  ChunkLen = 2
  CrcLen = 2
SPECIFICATION SessionSpec
CHECK_DEADLOCK FALSE
INVARIANT BoardIsFollowed
