CONSTANTS
  Limit = 2
  LastCloud = 7
  Cloud <- MCCloud
  NoCloud = NoCloud
  MaxSplit = 1
  MaxSignal = 1
SPECIFICATION NodeSpec
INVARIANT RepeatedStopHarmless
CHECK_DEADLOCK FALSE
