CONSTANTS
  Capacity = 3
  MaxCount = 2
  VLEN = 1
  MaxPacket = 4
  MaxSession = 2
  LastBuffer = 8
  Buffer <- MCBuffer
  NoBuffer = NoBuffer
  Limit = 2
  LastCloud = 7
  Cloud <- MCCloud
  NoCloud = NoCloud
  MaxSplit = 5
  MaxSignal = 1
  Round = 5
  BLOCKS_PER_PKT = 2
  split_angle_ = 3
  SplitBlks <- MCSplitBlks
  RANGE = 3
  FrameLen = 10
  CLOUD_POINT_MAX = 11
  MaxLost = 1
  MaxLate = 1
  LastTime = 21
SPECIFICATION RslidarSpec
INVARIANTS TypesOK HandledInOrder BufferExclusive PublishedInOrder CloudExclusive CloudsAreFrames
PROPERTIES QueuedIsHandled StopReturns QueuedIsPublished
CHECK_DEADLOCK FALSE
