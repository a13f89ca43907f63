CONSTANTS
  Round = 5
  BLOCKS_PER_PKT = 2
  split_angle_ = 3
  SplitBlks <- MCSplitBlks
  RANGE = 2
  FrameLen = 7
  CLOUD_POINT_MAX = 12
  MaxLost = 1
  MaxLate = 0
  LastTime = 20
SPECIFICATION DecoderSpec
CHECK_DEADLOCK FALSE
INVARIANTS SlightLossTolerated
