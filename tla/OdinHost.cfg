CONSTANTS
  IMU_QUEUE_MAX_SIZE = 1
  CallbacksOverlap = TRUE
  SecondDevice = TRUE
  MaxConnections = 2
  MaxSamples = 3
  MaxSaves = 1
  MaxQueueSize = 2
  MAX_TIME_DIFF = 1
  MaxStamp = 5
SPECIFICATION OdinSpec
CHECK_DEADLOCK FALSE
INVARIANTS TypesOK NoTerminate ThreadsFollowConnection AtMostOneStale PopIsSafe
PROPERTIES SamplesGoOut MatchesAreRendered
