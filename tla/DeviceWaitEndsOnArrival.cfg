CONSTANTS
  Boards = {"a", "c"}
  Devices <- MCDevices
  Filters <- MCFilters
  MaxArrivals = 1
SPECIFICATION Spec
CHECK_DEADLOCK FALSE
PROPERTY WaitEndsOnArrival
