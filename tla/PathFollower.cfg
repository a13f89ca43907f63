CONSTANTS
  MaxStep = 3
  Scale = 2
  SlowRate1 = 1
  SlowRate2 = 1
  SlowTime1 = 1
  SlowTime2 = 0
  StopTime = 1
  SwitchTimeThre = 1
  JoyToSpeedDelay = 0
  PubSkipNum = 1
  TwoWayDrive = TRUE
  NoRotAtStop = FALSE
  NoRotAtGoal = TRUE
  AutonomyMode = TRUE
  Speed <- MCSpeed
  Seen <- MCSeen
SPECIFICATION FairSpec
INVARIANTS TypeOK StopObeyed
PROPERTIES GentleSteps GoesAsAsked ComesToRest
