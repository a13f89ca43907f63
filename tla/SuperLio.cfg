CONSTANTS
  ImuForInit = 1
  MapFrames = 0
  MaxAhead = 1
  MaxTime = 4
  MaxImuGap = 3
  MaxScanTime = 2
  MaxScans = 2
  MaxReset = 1
SPECIFICATION FairSpec
CHECK_DEADLOCK FALSE
INVARIANTS TypeOK PushedIsHead NoneLeftBehind
PROPERTIES NewPointsMatched CatchesUp
