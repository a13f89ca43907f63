---------------------------- MODULE PathFollower ----------------------------
(***************************************************************************)
(* pathFollower.cpp: five subscription handlers and a 100 Hz loop, all in  *)
(* one thread, that turn the planner's path, the vehicle's pose and the    *)
(* wanted speed into /cmd_vel.                                             *)
(*                                                                         *)
(* A speed is counted in the steps of maxAccel/100 by which the loop       *)
(* changes vehicleSpeed, a fraction (slowRate, endDis/slowDwnDisThre) in   *)
(* 1/Scale.  The geometry of path and pose is abstracted to a view: where  *)
(* the look-ahead point is and how far the path's end.  Times are what is  *)
(* left of, or has passed since, the stamp the code keeps.                 *)
(***************************************************************************)
EXTENDS Integers

CONSTANTS
  MaxStep,       \* maxSpeed, in steps of maxAccel/100
  Scale,         \* the denominator of fractions
  SlowRate1, SlowRate2,   \* slowRate1, slowRate2, in 1/Scale
  SlowTime1, SlowTime2, StopTime,   \* in odometry stamps
  SwitchTimeThre, JoyToSpeedDelay,  \* in turns of the loop
  PubSkipNum,
  TwoWayDrive, NoRotAtStop, NoRotAtGoal,
  AutonomyMode,  \* the parameter: the mode at start, at autonomySpeed
  Speed,         \* bound: the speeds (steps) that are asked for
  Seen           \* bound: the views there are

ASSUME PathFollowerAssumption ==
  /\ MaxStep \in Nat \ {0} /\ Scale \in Nat \ {0}
  /\ SlowRate1 \in 0 .. Scale /\ SlowRate2 \in 0 .. Scale
  /\ SlowTime1 \in Nat /\ SlowTime2 \in Nat /\ StopTime \in Nat
  /\ SwitchTimeThre \in Nat /\ JoyToSpeedDelay \in Nat /\ PubSkipNum \in Nat
  /\ {TwoWayDrive, NoRotAtStop, NoRotAtGoal, AutonomyMode} \subseteq BOOLEAN
  /\ Speed \subseteq 0 .. MaxStep
  /\ Seen \subseteq [dir : {"ahead", "front", "back", "behind"}, near : BOOLEAN, end : 0 .. Scale]

VARIABLES
  joySpeed, joySpeedRaw,  \* the speed wanted; whether the stick is deflected
  joyYaw,                 \* whether the stick asks for a turn
  autonomyMode,
  joyAge,                 \* turns since joyTime
  safetyStop,
  pathInit,
  pathSize,               \* "one" or "many" poses
  view,                   \* the path as seen from the pose
  slowLeft, stopLeft,     \* odometry time until the slow-down, the stop ends
  navFwd, switchAge,      \* driving forward; turns since switchTime
  vehicleSpeed,
  pubSkipCount,
  cmd_vel,                \* the last command published: x in steps, z a class
  stopTurns               \* history: turns at or above the level of safetyStop

joyVars == <<joySpeed, joySpeedRaw, joyYaw, autonomyMode, joyAge>>
poseVars == <<view, slowLeft, stopLeft>>
driveVars == <<navFwd, switchAge, vehicleSpeed, pubSkipCount, cmd_vel, stopTurns>>
vars == <<joyVars, safetyStop, pathInit, pathSize, poseVars, driveVars>>

Lower(a, b) == IF a < b THEN a ELSE b
Abs(x) == IF x < 0 THEN -x ELSE x
Left(t, d) == IF t > d THEN t - d ELSE 0

-----------------------------------------------------------------------------
(* Where the look-ahead point is: dirDiff within dirDiffThre of 0, within   *)
(* pi/2, beyond it, or within dirDiffThre of pi.                            *)
Direction == {"ahead", "front", "back", "behind"}
(* near: the look-ahead point is within stopDisThre; end: endDis as a       *)
(* fraction of slowDwnDisThre, at most 1.                                   *)
View == [dir : Direction, near : BOOLEAN, end : 0 .. Scale]

Init ==
  /\ joySpeed \in IF AutonomyMode THEN Speed ELSE {0}
  /\ joySpeedRaw = FALSE
  /\ joyYaw = FALSE
  /\ autonomyMode = AutonomyMode
  /\ joyAge = JoyToSpeedDelay + 1
  /\ safetyStop = 0
  /\ pathInit = FALSE
  /\ pathSize = "one"
  /\ view = [dir |-> "ahead", near |-> TRUE, end |-> 0]
  /\ slowLeft = 0
  /\ stopLeft = 0
  /\ navFwd = TRUE
  /\ switchAge = SwitchTimeThre + 1
  /\ vehicleSpeed = 0
  /\ pubSkipCount = 0
  /\ cmd_vel = [x |-> 0, z |-> "zero"]
  /\ stopTurns = 0

(* The vehicle is somewhere on its way, passed units of stamped time later; *)
(* a tilt or a fast one restarts the stop or the slow-down.                 *)
OdomHandler(v, passed, tilt, rate) ==
  /\ view' = v
  /\ stopLeft' = IF tilt THEN StopTime ELSE Left(stopLeft, passed)
  /\ slowLeft' = IF rate THEN SlowTime1 + SlowTime2 ELSE Left(slowLeft, passed)
  /\ UNCHANGED <<joyVars, safetyStop, pathInit, pathSize, driveVars>>

(* A path of localPlanner has a pose at least: the library's begin at the   *)
(* vehicle, and where there is none a single pose is sent.                  *)
PathHandler(size, v) ==
  /\ pathSize' = size
  /\ view' = v
  /\ pathInit' = TRUE
  /\ UNCHANGED <<joyVars, safetyStop, slowLeft, stopLeft, driveVars>>

(* Mutant: both axes deflected ask for more than maxSpeed.                  *)
JoystickHandlerUnclamped(speed, backward, yaw, mode) ==
  /\ joySpeed' = IF yaw THEN 2 * speed ELSE speed
  /\ joySpeedRaw' = (speed > 0 \/ yaw)
  /\ joyYaw' = yaw
  /\ autonomyMode' = mode
  /\ joyAge' = 0
  /\ UNCHANGED <<safetyStop, pathInit, pathSize, poseVars, driveVars>>

(* axes[4] gives speed and its sign, axes[3] the yaw, axes[2] the mode.     *)
JoystickHandler(speed, backward, yaw, mode) ==
  LET refused == backward /\ ~TwoWayDrive
  IN  /\ backward => speed > 0
      /\ joySpeedRaw' = (speed > 0 \/ yaw)
      /\ joySpeed' = IF refused THEN 0 ELSE speed
      /\ joyYaw' = (yaw /\ ~refused /\ (speed = 0 => ~NoRotAtStop))
      /\ autonomyMode' = mode
      /\ joyAge' = 0
      /\ UNCHANGED <<safetyStop, pathInit, pathSize, poseVars, driveVars>>

SpeedHandler(speed) ==
  /\ autonomyMode
  /\ joyAge > JoyToSpeedDelay
  /\ ~joySpeedRaw
  /\ joySpeed' = speed
  /\ UNCHANGED <<joySpeedRaw, joyYaw, autonomyMode, joyAge, safetyStop, pathInit,
                 pathSize, poseVars, driveVars>>

StopHandler(level) ==
  /\ safetyStop' = level
  /\ stopTurns' = IF level \in 1 .. safetyStop THEN stopTurns ELSE 0
  /\ UNCHANGED <<joyVars, pathInit, pathSize, poseVars, navFwd, switchAge,
                 vehicleSpeed, pubSkipCount, cmd_vel>>

-----------------------------------------------------------------------------
(* Mutant: turns to drive backwards, and never back.                        *)
TurnsOnce ==
  /\ TwoWayDrive
  /\ switchAge > SwitchTimeThre
  /\ navFwd /\ view.dir \in {"back", "behind"}

(* The direction to drive in: on a two-way vehicle it turns round when the  *)
(* point is on the other side and the last change is long enough ago.       *)
Turns == /\ TwoWayDrive
         /\ switchAge > SwitchTimeThre
         /\ navFwd # (view.dir \in {"ahead", "front"})

NavFwd == IF Turns THEN ~navFwd ELSE navFwd
Aligned(fwd) == view.dir = IF fwd THEN "ahead" ELSE "behind"

(* joySpeed3 * Scale^2: signed, slowed before the path's end and after a    *)
(* fast tilt.                                                               *)
EndRate == IF view.end * MaxStep < joySpeed * Scale THEN view.end ELSE Scale
SlowRate == CASE slowLeft > SlowTime2 -> SlowRate1
              [] slowLeft \in 1 .. SlowTime2 -> SlowRate2
              [] OTHER -> Scale

(* Mutant: a single pose is not told apart.                                 *)
WantedAnySize == joySpeed * EndRate * SlowRate

Wanted == IF pathSize = "one" THEN 0 ELSE joySpeed * EndRate * SlowRate
Target(fwd) == IF fwd THEN Wanted ELSE -Wanted

(* vehicleSpeed one step towards a speed t / Scale^2.                       *)
Ramp(t) ==
  LET v == vehicleSpeed * (Scale * Scale)
  IN  CASE v < t -> vehicleSpeed + 1
        [] v > t -> vehicleSpeed - 1
        [] OTHER -> vehicleSpeed
Follow(fwd) == IF Aligned(fwd) /\ ~view.near THEN Ramp(Target(fwd)) ELSE Ramp(0)

(* Mutant: a safety stop that brakes gently.                                *)
NewSpeedRamped ==
  IF stopLeft > 0 THEN 0 ELSE IF safetyStop >= 1 THEN Ramp(0) ELSE Follow(NavFwd)

NewSpeed == IF stopLeft > 0 \/ safetyStop >= 1 THEN 0 ELSE Follow(NavFwd)

(* "steer": the gain times dirDiff; "joy": what the stick asks for.         *)
YawRate ==
  LET stopped == stopLeft > 0 \/ safetyStop >= 2
      manual == joySpeed = 0 /\ ~autonomyMode
      arrived == pathSize = "one" \/ (view.near /\ NoRotAtGoal)
  IN  CASE ~stopped /\ manual /\ joyYaw -> "joy"
        [] ~stopped /\ ~manual /\ ~arrived -> "steer"
        [] OTHER -> "zero"

(* Mutant: no dead band.                                                    *)
DeadBandNone(v) == v

DeadBand(v) == IF Abs(v) <= 1 THEN 0 ELSE v

Publish(v) ==
  IF pubSkipCount = 0
  THEN /\ cmd_vel' = [x |-> DeadBand(v), z |-> YawRate]
       /\ pubSkipCount' = PubSkipNum
  ELSE /\ pubSkipCount' = pubSkipCount - 1
       /\ UNCHANGED cmd_vel

(* One turn of the loop after spin_some().                                  *)
Drive ==
  /\ pathInit
  /\ navFwd' = NavFwd
  /\ switchAge' = IF Turns THEN 0 ELSE Lower(switchAge + 1, SwitchTimeThre + 1)
  /\ vehicleSpeed' = NewSpeed
  /\ Publish(NewSpeed)
  /\ stopTurns' = IF safetyStop >= 1 THEN Lower(stopTurns + 1, PubSkipNum + 1) ELSE 0
  /\ joyAge' = Lower(joyAge + 1, JoyToSpeedDelay + 1)
  /\ UNCHANGED <<joySpeed, joySpeedRaw, joyYaw, autonomyMode, safetyStop, pathInit,
                 pathSize, poseVars>>

Idle ==
  /\ ~pathInit
  /\ joyAge <= JoyToSpeedDelay
  /\ joyAge' = joyAge + 1
  /\ UNCHANGED <<joySpeed, joySpeedRaw, joyYaw, autonomyMode, safetyStop, pathInit,
                 pathSize, poseVars, driveVars>>

Message ==
  \/ \E v \in Seen, passed \in {0, 1}, tilt, rate \in BOOLEAN :
       OdomHandler(v, passed, tilt, rate)
  \/ \E size \in {"one", "many"}, v \in Seen : PathHandler(size, v)
  \/ \E speed \in Speed, backward, yaw, mode \in BOOLEAN :
       JoystickHandler(speed, backward, yaw, mode)
  \/ \E speed \in Speed : SpeedHandler(speed)
  \/ \E level \in 0 .. 2 : StopHandler(level)

Next == Message \/ Drive \/ Idle

Spec == Init /\ [][Next]_vars
(* rate.sleep() returns: the loop goes on.  Messages are owed by nobody.    *)
FairSpec == Spec /\ WF_vars(Drive)

-----------------------------------------------------------------------------
(* The variables have their types; no speed exceeds maxSpeed.               *)
TypeOK ==
  /\ joySpeed \in 0 .. MaxStep
  /\ {joySpeedRaw, joyYaw, autonomyMode, pathInit, navFwd} \subseteq BOOLEAN
  /\ joyAge \in 0 .. JoyToSpeedDelay + 1
  /\ safetyStop \in 0 .. 2
  /\ pathSize \in {"one", "many"}
  /\ view \in View
  /\ slowLeft \in 0 .. SlowTime1 + SlowTime2
  /\ stopLeft \in 0 .. StopTime
  /\ switchAge \in 0 .. SwitchTimeThre + 1
  /\ vehicleSpeed \in -MaxStep .. MaxStep
  /\ pubSkipCount \in 0 .. PubSkipNum
  /\ cmd_vel \in [x : -MaxStep .. MaxStep, z : {"zero", "joy", "steer"}]
  /\ stopTurns \in 0 .. PubSkipNum + 1

(* A vehicle that is not two-way is never commanded backwards, whatever the *)
(* path, the joystick and the order of slow-downs and stops.                *)
NeverBackward == ~TwoWayDrive => vehicleSpeed >= 0 /\ cmd_vel.x >= 0

(* A safety stop has reached the wheels after PubSkipNum + 1 turns, though  *)
(* only every (PubSkipNum + 1)th turn publishes: the commanded speed is 0,  *)
(* at level 2 the turn rate as well.                                        *)
StopObeyed ==
  stopTurns > PubSkipNum =>
    cmd_vel.x = 0 /\ (safetyStop = 2 => cmd_vel.z = "zero")

(* From one command to the next the speed changes by at most the steps of   *)
(* the turns between them (and the one hidden by the dead band), unless it  *)
(* drops to 0.  So a command is never followed by one the other way, also   *)
(* when stops come and go between two commands, if at most one turn is      *)
(* skipped (the default and the launch file's pubSkipNum).                  *)
GentleStep ==
  PubSkipNum <= 1 /\ cmd_vel'.x # 0
    => Abs(cmd_vel'.x - cmd_vel.x) <= PubSkipNum + 2
GentleSteps == [][GentleStep]_vars

(* The vehicle comes to rest and stays there once no speed is wanted, the   *)
(* planner has sent a single pose (no path was found) or the look-ahead     *)
(* point is within stopDisThre.                                             *)
ComesToRest ==
  <>[](pathInit /\ (joySpeed = 0 \/ pathSize = "one" \/ view.near))
    => <>[](cmd_vel.x = 0)

(* With the path straight ahead, its end far and no stop or slow-down the   *)
(* vehicle gets to the speed wanted, from whatever it was doing before.     *)
Unhindered(s) ==
  /\ pathInit /\ pathSize = "many" /\ joySpeed = s
  /\ view.dir = "ahead" /\ ~view.near /\ view.end = Scale
  /\ safetyStop = 0 /\ stopLeft = 0 /\ slowLeft = 0
GoesAsAsked ==
  \A s \in Speed : <>[]Unhindered(s) => <>[](cmd_vel.x = DeadBand(s))

=============================================================================
