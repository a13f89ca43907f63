CONSTANTS
  Capacity = 3
  MaxCount = 2
  VLEN = 1
  MaxPacket = 5
  MaxSession = 1
  LastBuffer = 8
  Buffer <- MCBuffer
  NoBuffer = NoBuffer
SPECIFICATION Spec
INVARIANT ClearEmpties
CHECK_DEADLOCK FALSE
