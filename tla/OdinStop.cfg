CONSTANTS
  IMU_QUEUE_MAX_SIZE = 1
  CallbacksOverlap = FALSE
  SecondDevice = FALSE
  MaxConnections = 1
  MaxSamples = 1
  MaxSaves = 0
  MaxQueueSize = 1
  MAX_TIME_DIFF = 0
  MaxStamp = 0
SPECIFICATION OdinSpec
CHECK_DEADLOCK FALSE
PROPERTIES StopReturns
