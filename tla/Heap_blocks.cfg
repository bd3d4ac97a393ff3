SPECIFICATION HeapSpec
CONSTANTS
  POOL = 27
  HDR = 3
  ALIGN = 2
  SIZE_WORD = 64
  Requests = {1, 4, 7}
INVARIANTS BlocksTile CallersServed NoRoomMeansNoRoom
CHECK_DEADLOCK FALSE
