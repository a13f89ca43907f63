---------------------------- MODULE LocalPlanner ----------------------------
(***************************************************************************)
(* localPlanner.cpp: eight subscription handlers and a 100 Hz loop, in one *)
(* thread, that answers each new cloud with one /path.  The loop looks for *)
(* a free group of paths at ever smaller scales and then ranges.           *)
(*                                                                         *)
(* An option stands for one of the 36 rotations of one of the path groups. *)
(* The cloud in the vehicle's frame (crop, boundary and added obstacles    *)
(* included) is abstracted to the distance at which enough of its points   *)
(* block an option at a scale.  Distances, scales and speeds are counted   *)
(* in steps.                                                               *)
(***************************************************************************)
EXTENDS Integers

CONSTANTS
  Option,            \* (rotation, group) pairs
  Wanted,            \* directions of joyDir
  Scored,            \* Scored[d]: options within dirThre whose score is positive
  MaxSpeed,          \* joySpeed = 1
  AdjacentRange, MinPathRange, PathRangeStep,
  PathScale, MinPathScale, PathScaleStep,
  PathScaleBySpeed, PathRangeBySpeed, PathCropByGoal, CheckRotObstacle,
  TwoWayDrive, GoalClearRange,
  JoyToSpeedDelay, JoyToCheckObstacleDelay,
  Speed,             \* bound: the speeds asked for
  GoalDis,           \* bound: distances to the goal
  BlockDis           \* bound: distances at which options are blocked

ASSUME LocalPlannerAssumption ==
  /\ Scored \in [Wanted -> SUBSET Option] /\ Wanted # {}
  /\ MaxSpeed \in Nat \ {0} /\ Speed \subseteq 0 .. MaxSpeed
  /\ AdjacentRange \in Nat /\ MinPathRange \in Nat \ {0}
  /\ PathScale \in Nat \ {0} /\ MinPathScale \in Nat \ {0}
  /\ PathRangeStep \in Nat \ {0} /\ PathScaleStep \in Nat \ {0}
  /\ {PathScaleBySpeed, PathRangeBySpeed, PathCropByGoal, CheckRotObstacle,
      TwoWayDrive} \subseteq BOOLEAN
  /\ JoyToSpeedDelay \in Nat /\ JoyToCheckObstacleDelay \in Nat
  /\ GoalClearRange \in Nat /\ GoalDis \subseteq Nat /\ BlockDis \subseteq Nat

VARIABLES
  joySpeed, joySpeedRaw, joyDir, autonomyMode, checkObstacle,
  joyAge,        \* turns of the loop since joyTime
  newCloud,      \* newLaserCloud or newTerrainCloud
  pc,            \* "spin", or within the "search"
  pathScale,
  pathRange, relativeGoalDis,   \* locals of the search
  blocked,       \* [scale -> [option -> distance]] of the cloud searched
  path           \* the /path that answered the last cloud, Stay(0) while it is searched

joyVars == <<joySpeed, joySpeedRaw, joyDir, autonomyMode, joyAge>>
searchVars == <<pc, pathScale, pathRange, relativeGoalDis, blocked, path>>
vars == <<joyVars, checkObstacle, newCloud, searchVars>>

Larger(a, b) == IF a < b THEN b ELSE a
Lower(a, b) == IF a < b THEN a ELSE b
MaxDelay == Larger(JoyToSpeedDelay, JoyToCheckObstacleDelay)

Scales == MinPathScale .. Larger(PathScale, MinPathScale)
Blocked == [Scales -> [Option -> BlockDis]]
(* No obstacles are known before the first cloud.                           *)
Free == [s \in Scales |-> [o \in Option |-> AdjacentRange]]
(* A single pose at the origin: stay.                                       *)
Stay(speed) == [found |-> FALSE, length |-> 0, clear |-> 0, speed |-> speed]

(* autonomyMode, autonomySpeed and checkObstacle are parameters.            *)
Init ==
  /\ joySpeed \in Speed
  /\ joySpeedRaw = FALSE
  /\ joyDir \in Wanted
  /\ autonomyMode \in BOOLEAN /\ (~autonomyMode => joySpeed = 0)
  /\ checkObstacle \in BOOLEAN
  /\ joyAge = MaxDelay + 1
  /\ newCloud = FALSE
  /\ pc = "spin"
  /\ pathScale = PathScale
  /\ pathRange = 0
  /\ relativeGoalDis = 0
  /\ blocked = Free
  /\ path = Stay(0)

-----------------------------------------------------------------------------
(* The handlers run in spin_some().  Pose, goal, boundary and added         *)
(* obstacles only matter at the next cloud, where Crop chooses their effect.*)

JoystickHandler(speed, backward, yaw, dir, mode) ==
  /\ pc = "spin"
  /\ backward => speed > 0
  /\ joySpeedRaw' = (speed > 0 \/ yaw)
  /\ joySpeed' = IF backward /\ ~TwoWayDrive THEN 0 ELSE speed
  /\ joyDir' = IF speed > 0 THEN dir ELSE joyDir
  /\ autonomyMode' = mode
  /\ joyAge' = 0
  /\ UNCHANGED <<checkObstacle, newCloud, searchVars>>

SpeedHandler(speed) ==
  /\ pc = "spin"
  /\ autonomyMode /\ joyAge > JoyToSpeedDelay /\ ~joySpeedRaw
  /\ joySpeed' = speed
  /\ UNCHANGED <<joySpeedRaw, joyDir, autonomyMode, joyAge, checkObstacle, newCloud,
                 searchVars>>

CheckObstacleHandler(check) ==
  /\ pc = "spin"
  /\ autonomyMode /\ joyAge > JoyToCheckObstacleDelay
  /\ checkObstacle' = check
  /\ UNCHANGED <<joyVars, newCloud, searchVars>>

(* laserCloudHandler or terrainCloudHandler, whichever useTerrainAnalysis   *)
(* selects: a cloud not yet looked at is replaced.                          *)
CloudHandler ==
  /\ pc = "spin"
  /\ newCloud' = TRUE
  /\ UNCHANGED <<joyVars, checkObstacle, searchVars>>

-----------------------------------------------------------------------------
(* A turn of the loop with a new cloud: b is where it blocks the options,   *)
(* in autonomy the goal is dis away in direction dir.                       *)
StartRange ==
  Larger(IF PathRangeBySpeed THEN (AdjacentRange * joySpeed) \div MaxSpeed
         ELSE AdjacentRange, MinPathRange)
(* Mutant: the scale is not kept at its least. *)
StartScaleUnclamped ==
  IF PathScaleBySpeed THEN (PathScale * joySpeed) \div MaxSpeed ELSE PathScale

StartScale ==
  Larger(IF PathScaleBySpeed THEN (PathScale * joySpeed) \div MaxSpeed
         ELSE PathScale, MinPathScale)

Crop(b, dis, dir) ==
  /\ pc = "spin" /\ newCloud
  /\ newCloud' = FALSE
  /\ blocked' = b
  /\ pathRange' = StartRange
  /\ relativeGoalDis' = IF autonomyMode THEN dis ELSE AdjacentRange
  /\ joyDir' = IF autonomyMode THEN dir ELSE joyDir
  /\ pathScale' = StartScale
  /\ pc' = "search"
  /\ path' = Stay(0)
  /\ UNCHANGED <<joySpeed, joySpeedRaw, autonomyMode, joyAge, checkObstacle>>

(* Points count within pathRange and, cropping by the goal, not far beyond  *)
(* it.                                                                      *)
(* Mutant: only the points within the least range are looked at. *)
CountedNear(d) == checkObstacle /\ d < MinPathRange

Counted(d) == /\ checkObstacle
              /\ d < pathRange
              /\ d <= relativeGoalDis + GoalClearRange \/ ~PathCropByGoal
Clear == {o \in Scored[joyDir] : ~Counted(blocked[pathScale][o])}

InRange == pathScale >= MinPathScale /\ pathRange >= MinPathRange

Done(answer) ==
  /\ path' = answer
  /\ pathScale' = PathScale
  /\ pc' = "spin"
  /\ pathRange' = 0 /\ relativeGoalDis' = 0 /\ blocked' = Free
  /\ UNCHANGED <<joyVars, checkObstacle, newCloud>>

(* The option with the highest score, of those the vehicle can turn to; its *)
(* path is cut at pathRange and at the goal.                                *)
Found(turnable) ==
  /\ pc = "search" /\ InRange
  /\ \E o \in Clear \cap turnable :
       Done([found |-> TRUE, length |-> Lower(pathRange, relativeGoalDis),
             clear |-> IF checkObstacle THEN blocked[pathScale][o] ELSE pathRange,
             speed |-> joySpeed])

(* Mutant: the range stops at its least and never leaves it. *)
ShrinkClamped ==
  IF pathScale >= MinPathScale + PathScaleStep
  THEN /\ pathScale' = pathScale - PathScaleStep
       /\ pathRange' = (AdjacentRange * pathScale') \div PathScale
  ELSE /\ pathRange' = Larger(pathRange - PathRangeStep, MinPathRange)
       /\ UNCHANGED pathScale

Shrink ==
  IF pathScale >= MinPathScale + PathScaleStep
  THEN /\ pathScale' = pathScale - PathScaleStep
       /\ pathRange' = (AdjacentRange * pathScale') \div PathScale
  ELSE /\ pathRange' = pathRange - PathRangeStep
       /\ UNCHANGED pathScale

NotFound(turnable) ==
  /\ pc = "search" /\ InRange
  /\ Clear \cap turnable = {}
  /\ Shrink
  /\ UNCHANGED <<pc, relativeGoalDis, blocked, path, joyVars, checkObstacle, newCloud>>

GiveUp ==
  /\ pc = "search" /\ ~InRange
  /\ Done(Stay(joySpeed))

(* A turn without a new cloud.                                              *)
Idle ==
  /\ pc = "spin" /\ ~newCloud /\ joyAge <= MaxDelay
  /\ joyAge' = joyAge + 1
  /\ UNCHANGED <<joySpeed, joySpeedRaw, joyDir, autonomyMode, checkObstacle, newCloud,
                 searchVars>>

(* Options the vehicle can turn to without hitting what is beside it.       *)
Turnable == IF CheckRotObstacle THEN SUBSET Option ELSE {Option}

Message ==
  \/ \E speed \in Speed, backward, yaw, mode \in BOOLEAN, dir \in Wanted :
       JoystickHandler(speed, backward, yaw, dir, mode)
  \/ \E speed \in Speed : SpeedHandler(speed)
  \/ \E check \in BOOLEAN : CheckObstacleHandler(check)
  \/ CloudHandler

Search == \/ \E t \in Turnable : Found(t) \/ NotFound(t)
          \/ GiveUp

StartSearch == \E b \in Blocked, dis \in GoalDis, dir \in Wanted : Crop(b, dis, dir)

Next == Message \/ StartSearch \/ Search \/ Idle

Spec == Init /\ [][Next]_vars
(* The loop turns at 100 Hz and the search is part of it.                   *)
FairSpec == Spec /\ WF_vars(StartSearch) /\ WF_vars(Search)

-----------------------------------------------------------------------------
TypeOK ==
  /\ joySpeed \in 0 .. MaxSpeed /\ joyDir \in Wanted
  /\ {joySpeedRaw, autonomyMode, checkObstacle, newCloud} \subseteq BOOLEAN
  /\ joyAge \in 0 .. MaxDelay + 1
  /\ pc \in {"spin", "search"}
  /\ pathScale \in Scales \cup {PathScale}
  /\ pathRange \in -PathRangeStep .. Larger(AdjacentRange, MinPathRange)
  /\ path.length \in 0 .. Larger(AdjacentRange, MinPathRange)

(* Scaling shrinks pathScale for one cloud only: the next search starts     *)
(* from the parameter again, however this one ended.                        *)
ScaleRestored == pc = "spin" => pathScale = PathScale

(* No published path runs into an obstacle of its cloud, unless obstacle    *)
(* checking is off: the range and the scale it is cut to are those its      *)
(* options were checked with.                                               *)
PathIsClear == path.found => path.length <= path.clear

(* The slower the vehicle, the shorter the path: although a smaller scale   *)
(* sets pathRange anew, it stays within what the speed allows.  (Only with  *)
(* pathScaleBySpeed, as launched: else a smaller scale may lengthen it.)    *)
LengthFollowsSpeed ==
  PathRangeBySpeed /\ PathScaleBySpeed =>
    path.length <= Larger((AdjacentRange * path.speed) \div MaxSpeed, MinPathRange)

(* A new cloud is answered, whatever it blocks: no sequence of smaller      *)
(* scales and ranges goes on for ever.                                      *)
SearchEnds == pc = "search" ~> pc = "spin"
=============================================================================
