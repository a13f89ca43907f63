CONSTANTS
  left = left
  right = right
  Option <- MCOption
  Wanted <- MCWanted
  Scored <- MCScored
  MaxSpeed = 4
  AdjacentRange = 4
  MinPathRange = 1
  PathRangeStep = 1
  PathScale = 4
  MinPathScale = 2
  PathScaleStep = 1
  PathScaleBySpeed = TRUE
  PathRangeBySpeed = TRUE
  PathCropByGoal = TRUE
  CheckRotObstacle = TRUE
  TwoWayDrive = FALSE
  GoalClearRange = 1
  JoyToSpeedDelay = 0
  JoyToCheckObstacleDelay = 1
  Speed <- MCSpeed
  GoalDis <- MCGoalDis
  BlockDis <- MCBlockDis
  mid = mid
  corner = corner
  here = here
  yonder = yonder
  Odom = Odom
  Node <- MCNode
  NavPoint <- MCNavPoint
  Place <- MCPlace
  MaxNodes = 1
  Nowhere = Nowhere
  Robot = Robot
  votes_size = 3
  momentum_thred = 2
  is_autoswitch = TRUE
SPECIFICATION PlannersSpec
INVARIANTS TypesOK PathIsClear LostGoalIsDropped RobotIsLed
PROPERTIES SearchEnds GoalInViewKept
