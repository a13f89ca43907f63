------------------------- MODULE PathFollowerProofs -------------------------
(***************************************************************************)
(* For every speed, scale, delay and view: pathFollower's types and speed  *)
(* limit, that a one-way vehicle is not driven backwards, that a safety    *)
(* stop arrives, that commands change gently, and that every turn of the   *)
(* loop brings what was asked for closer.                                  *)
(***************************************************************************)
EXTENDS PathFollower, TLAPS

(* Turns since the last command.                                            *)
Skipped == PubSkipNum - pubSkipCount

(* How far vehicleSpeed has moved from the last command: one step per turn, *)
(* counted from the dead band's edge or, after a stop, from 0; a command    *)
(* never lies in the dead band.                                             *)
SpeedNearCommand ==
  /\ Abs(cmd_vel.x) # 1
  /\ IF cmd_vel.x = 0 THEN Abs(vehicleSpeed) <= 1 + Skipped
     ELSE \/ Abs(vehicleSpeed - cmd_vel.x) <= Skipped
          \/ Abs(vehicleSpeed) < Skipped

(* A stop in force is obeyed from the first command after it.               *)
StopUnderWay ==
  /\ stopTurns > 0 => safetyStop >= 1 /\ vehicleSpeed = 0
  /\ stopTurns > Skipped => cmd_vel.x = 0 /\ (safetyStop = 2 => cmd_vel.z = "zero")

OneWay == ~TwoWayDrive => navFwd /\ vehicleSpeed >= 0 /\ cmd_vel.x >= 0

Inv == TypeOK /\ OneWay /\ StopUnderWay /\ SpeedNearCommand

(* A product grows with its factors: what bounds the speed wanted.          *)
LEMMA TimesMonotone ==
  ASSUME NEW a \in Nat, NEW b \in Nat, NEW c \in Nat, a <= b
  PROVE  a * c <= b * c /\ a * c \in Nat
<1>1. PICK d \in Nat : b = a + d
  BY SMT
<1>2. d * c \in Nat /\ a * c \in Nat
  BY SMT
<1>3. (a + d) * c = a * c + d * c
  BY SMT
<1> QED BY <1>1, <1>2, <1>3, SMT

(* The speed wanted is slowed by fractions.                                 *)
LEMMA RatesRange ==
  ASSUME TypeOK
  PROVE  /\ EndRate \in Nat /\ EndRate <= Scale
         /\ SlowRate \in Nat /\ SlowRate <= Scale
<1>1. /\ MaxStep \in Nat /\ Scale \in Nat /\ joySpeed \in Nat
      /\ joySpeed <= MaxStep
  BY PathFollowerAssumption, SMT DEF TypeOK
<1>2. EndRate \in Nat /\ EndRate <= Scale
  BY <1>1, SMT DEF EndRate, TypeOK, View
<1>3. SlowRate \in Nat /\ SlowRate <= Scale
  BY <1>1, PathFollowerAssumption, SMT DEF SlowRate, TypeOK
<1> QED BY <1>2, <1>3

(* Slowed down or not, the speed wanted is none at all up to maxSpeed.      *)
LEMMA WantedRange ==
  ASSUME TypeOK
  PROVE  Wanted \in 0 .. MaxStep * (Scale * Scale)
<1>1. /\ MaxStep \in Nat /\ Scale \in Nat /\ joySpeed \in Nat
      /\ joySpeed <= MaxStep
  BY PathFollowerAssumption, SMT DEF TypeOK
<1> DEFINE e == EndRate
           r == SlowRate
           p == e * r
           S == Scale * Scale
<1>4. e \in Nat /\ e <= Scale /\ r \in Nat /\ r <= Scale
  BY RatesRange
<1> HIDE DEF e, r
<1>5. p \in Nat /\ p <= Scale * r
  BY <1>1, <1>4, TimesMonotone
<1>6. r * Scale <= S
  BY <1>1, <1>4, TimesMonotone
<1>7. S \in Nat /\ p <= S
  BY <1>1, <1>4, <1>5, <1>6, SMT
<1> HIDE DEF p, S
<1>8. joySpeed * p \in Nat /\ joySpeed * p <= MaxStep * p
  BY <1>1, <1>5, TimesMonotone
<1>9. p * MaxStep <= S * MaxStep
  BY <1>1, <1>5, <1>7, TimesMonotone
<1>10. joySpeed * p \in 0 .. MaxStep * S
  BY <1>1, <1>5, <1>7, <1>8, <1>9, SMT
<1>11. joySpeed * e * r = joySpeed * p
  BY <1>1, <1>4, SMT DEF p
<1>12. joySpeed * e * r \in 0 .. MaxStep * (Scale * Scale)
  BY <1>10, <1>11 DEF S
<1>13. 0 \in 0 .. MaxStep * (Scale * Scale)
  BY <1>1, SMT
<1> QED BY <1>12, <1>13 DEF Wanted, e, r

(* The ramp moves by a step and never past the whole step beyond its        *)
(* target, so it stays within the limits on both sides.                     *)
LEMMA RampRange ==
  ASSUME NEW t \in Int, NEW lo \in Int, NEW hi \in Int,
         vehicleSpeed \in lo .. hi,
         Scale \in Nat \ {0},
         lo * (Scale * Scale) <= t, t <= hi * (Scale * Scale)
  PROVE  /\ Ramp(t) \in lo .. hi
         /\ Abs(Ramp(t) - vehicleSpeed) <= 1
<1> DEFINE S == Scale * Scale
<1>1. S \in Nat /\ S > 0
  BY SMT
<1> HIDE DEF S
<1>2. vehicleSpeed * S < t => vehicleSpeed < hi
  <2> SUFFICES ASSUME vehicleSpeed = hi PROVE ~(vehicleSpeed * S < t)
    BY SMT
  <2> QED BY <1>1, SMT DEF S
<1>3. vehicleSpeed * S > t => vehicleSpeed > lo
  <2> SUFFICES ASSUME vehicleSpeed = lo PROVE ~(vehicleSpeed * S > t)
    BY SMT
  <2> QED BY <1>1, SMT DEF S
<1>4. Ramp(t) = IF vehicleSpeed * S < t THEN vehicleSpeed + 1
                ELSE IF vehicleSpeed * S > t THEN vehicleSpeed - 1
                ELSE vehicleSpeed
  BY <1>1, SMT DEF Ramp, S
<1> QED BY <1>1, <1>2, <1>3, <1>4, SMT DEF Abs

(* The new speed: at most a step from the old one or 0, within the limits,  *)
(* and not negative while driving forward from a speed that is not.         *)
LEMMA NewSpeedRange ==
  ASSUME TypeOK
  PROVE  /\ NewSpeed \in -MaxStep .. MaxStep
         /\ NewSpeed = 0 \/ Abs(NewSpeed - vehicleSpeed) <= 1
         /\ NavFwd /\ vehicleSpeed >= 0 => NewSpeed >= 0
         /\ safetyStop >= 1 => NewSpeed = 0
<1> DEFINE S == Scale * Scale
           top == MaxStep * S
<1>1. /\ MaxStep \in Nat \ {0} /\ Scale \in Nat \ {0}
      /\ vehicleSpeed \in -MaxStep .. MaxStep
      /\ safetyStop \in 0 .. 2 /\ stopLeft \in Nat
  BY PathFollowerAssumption, SMT DEF TypeOK
<1>2. S \in Nat
  BY <1>1, SMT
<1>3. Wanted \in 0 .. top
  BY WantedRange
<1> HIDE DEF S
<1>4. top \in Nat /\ (-MaxStep) * S = -top /\ 0 * S = 0
  BY <1>1, <1>2, SMT
<1> HIDE DEF top
<1>5. \A t \in -top .. top :
        /\ Ramp(t) \in -MaxStep .. MaxStep
        /\ Abs(Ramp(t) - vehicleSpeed) <= 1
  <2> TAKE t \in -top .. top
  <2>1. /\ t \in Int /\ -MaxStep \in Int /\ MaxStep \in Int
        /\ (-MaxStep) * S <= t /\ t <= MaxStep * S
    BY <1>1, <1>2, <1>4, SMT DEF top
  <2> QED BY <1>1, <2>1, RampRange DEF S
<1>6. vehicleSpeed >= 0 => \A t \in 0 .. top : Ramp(t) >= 0
  <2> SUFFICES ASSUME vehicleSpeed >= 0, NEW t \in 0 .. top PROVE Ramp(t) >= 0
    OBVIOUS
  <2>1. /\ t \in Int /\ 0 \in Int /\ MaxStep \in Int /\ vehicleSpeed \in 0 .. MaxStep
        /\ 0 * S <= t /\ t <= MaxStep * S
    BY <1>1, <1>2, <1>4, SMT DEF top
  <2>2. Ramp(t) \in 0 .. MaxStep
    BY <1>1, <2>1, RampRange DEF S
  <2> QED BY <1>1, <2>2, SMT
<1>7. \A fwd \in BOOLEAN : Target(fwd) \in -top .. top /\ (fwd => Target(fwd) \in 0 .. top)
  BY <1>3, <1>4, SMT DEF Target
<1>8. 0 \in 0 .. top /\ 0 \in -top .. top
  BY <1>4, SMT
<1>9. NavFwd \in BOOLEAN
  BY DEF NavFwd, Turns, TypeOK
<1>10. /\ Follow(NavFwd) \in -MaxStep .. MaxStep
       /\ Abs(Follow(NavFwd) - vehicleSpeed) <= 1
       /\ NavFwd /\ vehicleSpeed >= 0 => Follow(NavFwd) >= 0
  BY <1>5, <1>6, <1>7, <1>8, <1>9, ZenonT(30) DEF Follow
<1> QED BY <1>1, <1>10, SMT DEF NewSpeed

(* Publishing, or counting a turn without it.                               *)
LEMMA PublishRange ==
  ASSUME TypeOK, NEW v \in -MaxStep .. MaxStep, Publish(v)
  PROVE  /\ pubSkipCount' \in 0 .. PubSkipNum
         /\ cmd_vel' \in [x : -MaxStep .. MaxStep, z : {"zero", "joy", "steer"}]
         /\ \/ /\ cmd_vel' = cmd_vel
               /\ Skipped' = Skipped + 1
            \/ /\ cmd_vel'.x = DeadBand(v) /\ cmd_vel'.z = YawRate
               /\ Skipped = PubSkipNum /\ Skipped' = 0
<1>1. /\ PubSkipNum \in Nat /\ pubSkipCount \in 0 .. PubSkipNum /\ MaxStep \in Nat
      /\ DeadBand(v) \in -MaxStep .. MaxStep
  BY PathFollowerAssumption, SMT DEF TypeOK, DeadBand, Abs
<1>2. YawRate \in {"zero", "joy", "steer"}
  BY DEF YawRate
<1>3. CASE pubSkipCount = 0
  BY <1>1, <1>2, <1>3, SMT DEF Publish, Skipped, TypeOK
<1>4. CASE pubSkipCount # 0
  BY <1>1, <1>4, SMT DEF Publish, Skipped, TypeOK
<1> QED BY <1>3, <1>4

(* The follower starts at rest, with no stop in force and no command sent. *)
THEOREM InitInv == Init => Inv
<1> SUFFICES ASSUME Init PROVE Inv
  OBVIOUS
<1> USE PathFollowerAssumption DEF Init
<1>1. TypeOK
  <2>1. joySpeed \in 0 .. MaxStep
    BY SMT
  <2>2. view \in View
    BY SMT DEF View, Direction
  <2>3. {joySpeedRaw, joyYaw, autonomyMode, pathInit, navFwd} \subseteq BOOLEAN
    BY Zenon
  <2>6. safetyStop \in 0 .. 2 /\ pathSize \in {"one", "many"}
    BY SMT
  <2>4. /\ joyAge \in 0 .. JoyToSpeedDelay + 1
        /\ slowLeft \in 0 .. SlowTime1 + SlowTime2 /\ stopLeft \in 0 .. StopTime
        /\ switchAge \in 0 .. SwitchTimeThre + 1
        /\ vehicleSpeed \in -MaxStep .. MaxStep
        /\ pubSkipCount \in 0 .. PubSkipNum
        /\ stopTurns \in 0 .. PubSkipNum + 1
    BY SMT
  <2>5. cmd_vel \in [x : -MaxStep .. MaxStep, z : {"zero", "joy", "steer"}]
    BY SMT
  <2> QED BY <2>1, <2>2, <2>3, <2>4, <2>5, <2>6, Zenon DEF TypeOK
<1>2. OneWay
  BY SMT DEF OneWay
<1>3. StopUnderWay /\ SpeedNearCommand
  BY SMT DEF StopUnderWay, SpeedNearCommand, Skipped, Abs
<1> QED BY <1>1, <1>2, <1>3 DEF Inv

(* What a message changes, the loop's variables are not part of.            *)
LEMMA MessageStep ==
  ASSUME Inv, Message
  PROVE  Inv'
<1> USE PathFollowerAssumption DEF Inv
<1>1. ASSUME NEW v \in Seen, NEW passed \in {0, 1}, NEW tilt \in BOOLEAN,
             NEW rate \in BOOLEAN, OdomHandler(v, passed, tilt, rate)
      PROVE  Inv'
  <2>1. TypeOK'
    BY <1>1, SMT DEF OdomHandler, TypeOK, View, Direction, Left, joyVars, driveVars
  <2>2. OneWay' /\ StopUnderWay' /\ SpeedNearCommand'
    BY <1>1 DEF OdomHandler, OneWay, StopUnderWay, SpeedNearCommand, Skipped, driveVars
  <2> QED BY <2>1, <2>2
<1>2. ASSUME NEW size \in {"one", "many"}, NEW v \in Seen, PathHandler(size, v)
      PROVE  Inv'
  <2>1. TypeOK'
    BY <1>2, SMT DEF PathHandler, TypeOK, View, Direction, joyVars, driveVars
  <2>2. OneWay' /\ StopUnderWay' /\ SpeedNearCommand'
    BY <1>2 DEF PathHandler, OneWay, StopUnderWay, SpeedNearCommand, Skipped, driveVars
  <2> QED BY <2>1, <2>2
<1>3. ASSUME NEW speed \in Speed, NEW backward \in BOOLEAN, NEW yaw \in BOOLEAN,
             NEW mode \in BOOLEAN, JoystickHandler(speed, backward, yaw, mode)
      PROVE  Inv'
  <2>1. TypeOK'
    BY <1>3, SMT DEF JoystickHandler, TypeOK, poseVars, driveVars
  <2>2. OneWay' /\ StopUnderWay' /\ SpeedNearCommand'
    BY <1>3 DEF JoystickHandler, OneWay, StopUnderWay, SpeedNearCommand, Skipped, driveVars
  <2> QED BY <2>1, <2>2
<1>4. ASSUME NEW speed \in Speed, SpeedHandler(speed)
      PROVE  Inv'
  <2>1. TypeOK'
    BY <1>4, SMT DEF SpeedHandler, TypeOK, poseVars, driveVars
  <2>2. OneWay' /\ StopUnderWay' /\ SpeedNearCommand'
    BY <1>4 DEF SpeedHandler, OneWay, StopUnderWay, SpeedNearCommand, Skipped, driveVars
  <2> QED BY <2>1, <2>2
<1>5. ASSUME NEW level \in 0 .. 2, StopHandler(level)
      PROVE  Inv'
  <2>1. TypeOK'
    BY <1>5, SMT DEF StopHandler, TypeOK, joyVars, poseVars
  <2>2. OneWay' /\ SpeedNearCommand'
    BY <1>5 DEF StopHandler, OneWay, SpeedNearCommand, Skipped
  <2>3. StopUnderWay'
    BY <1>5, SMT DEF StopHandler, StopUnderWay, Skipped, TypeOK
  <2> QED BY <2>1, <2>2, <2>3
<1> QED BY <1>1, <1>2, <1>3, <1>4, <1>5 DEF Message

(* A turn of the loop.                                                      *)
LEMMA DriveStep ==
  ASSUME Inv, Drive
  PROVE  Inv' /\ GentleStep
<1> USE PathFollowerAssumption DEF Inv
<1> DEFINE new == NewSpeed
<1>1. /\ new \in -MaxStep .. MaxStep
      /\ new = 0 \/ Abs(new - vehicleSpeed) <= 1
      /\ NavFwd /\ vehicleSpeed >= 0 => new >= 0
      /\ safetyStop >= 1 => new = 0
  BY NewSpeedRange
<1>2. vehicleSpeed' = new /\ Publish(new)
  BY DEF Drive
<1> HIDE DEF new
<1>3. /\ pubSkipCount' \in 0 .. PubSkipNum
      /\ cmd_vel' \in [x : -MaxStep .. MaxStep, z : {"zero", "joy", "steer"}]
      /\ \/ /\ cmd_vel' = cmd_vel
            /\ Skipped' = Skipped + 1
         \/ /\ cmd_vel'.x = DeadBand(new) /\ cmd_vel'.z = YawRate
            /\ Skipped = PubSkipNum /\ Skipped' = 0
  BY <1>1, <1>2, PublishRange
<1>4. NavFwd \in BOOLEAN /\ (~TwoWayDrive /\ navFwd => NavFwd)
  BY DEF NavFwd, Turns, TypeOK
<1>5. TypeOK'
  BY <1>1, <1>2, <1>3, <1>4, SMT DEF Drive, TypeOK, Lower, poseVars
<1>6. Skipped \in 0 .. PubSkipNum /\ vehicleSpeed \in Int /\ new \in Int /\ cmd_vel.x \in Int
  BY <1>1, SMT DEF Skipped, TypeOK
<1>7. OneWay'
  <2>1. SUFFICES ASSUME ~TwoWayDrive PROVE navFwd' /\ new >= 0 /\ cmd_vel'.x >= 0
    BY <1>2 DEF OneWay
  <2>2. navFwd' /\ new >= 0
    BY <1>1, <1>4, <2>1 DEF OneWay, Drive
  <2>3. DeadBand(new) >= 0
    BY <1>6, <2>2, SMT DEF DeadBand
  <2> QED BY <1>3, <2>1, <2>2, <2>3 DEF OneWay
<1>8. StopUnderWay'
  <2>1. /\ safetyStop' = safetyStop
        /\ stopTurns' = IF safetyStop >= 1 THEN Lower(stopTurns + 1, PubSkipNum + 1) ELSE 0
    BY DEF Drive
  <2>2. CASE safetyStop >= 1
    <3>1. new = 0 /\ DeadBand(new) = 0 /\ (safetyStop = 2 => YawRate = "zero")
      <4>1. new = 0
        BY <1>1, <2>2
      <4>2. DeadBand(new) = 0
        BY <4>1, SMT DEF DeadBand, Abs
      <4>3. safetyStop = 2 => safetyStop >= 2
        BY SMT
      <4>4. safetyStop = 2 => YawRate = "zero"
        BY <4>3, Zenon DEF YawRate
      <4> QED BY <4>1, <4>2, <4>4
    <3>2. stopTurns' > Skipped' => Skipped' = 0 \/ stopTurns > Skipped
      BY <1>3, <1>6, <2>1, <2>2, SMT DEF Lower, TypeOK
    <3>3. CASE cmd_vel' = cmd_vel /\ Skipped' = Skipped + 1
      BY <1>2, <1>6, <2>1, <2>2, <3>1, <3>2, <3>3, SMT DEF StopUnderWay
    <3>4. CASE cmd_vel'.x = DeadBand(new) /\ cmd_vel'.z = YawRate
      BY <1>2, <2>1, <2>2, <3>1, <3>4, SMT DEF StopUnderWay
    <3> QED BY <1>3, <3>3, <3>4
  <2>3. CASE ~(safetyStop >= 1)
    <3>1. stopTurns' = 0
      BY <2>1, <2>3, Zenon
    <3>2. Skipped' \in Nat
      BY <1>3, <1>6, SMT
    <3> QED BY <3>1, <3>2, SMT DEF StopUnderWay
  <2> QED BY <2>2, <2>3
<1>9. SpeedNearCommand'
  BY <1>1, <1>2, <1>3, <1>6, SMT DEF SpeedNearCommand, DeadBand, Abs
<1>10. GentleStep
  BY <1>1, <1>3, <1>6, SMT DEF GentleStep, SpeedNearCommand, DeadBand, Abs
<1> QED BY <1>5, <1>7, <1>8, <1>9, <1>10

(* A turn of the loop before the first path commands nothing (line 276), so
   every part of the invariant is untouched. *)
LEMMA OtherStep ==
  ASSUME Inv, Idle \/ UNCHANGED vars
  PROVE  Inv' /\ GentleStep
<1> USE PathFollowerAssumption DEF Inv
<1>1. CASE Idle
  <2>1. TypeOK'
    BY <1>1, SMT DEF Idle, TypeOK, poseVars, driveVars
  <2>2. OneWay' /\ StopUnderWay' /\ SpeedNearCommand' /\ cmd_vel' = cmd_vel
    BY <1>1 DEF Idle, OneWay, StopUnderWay, SpeedNearCommand, Skipped, driveVars
  <2>3. GentleStep
    BY <2>2, SMT DEF GentleStep, Abs, TypeOK
  <2> QED BY <2>1, <2>2, <2>3
<1>2. CASE UNCHANGED vars
  <2>1. TypeOK' /\ OneWay' /\ StopUnderWay' /\ SpeedNearCommand' /\ cmd_vel' = cmd_vel
    BY <1>2 DEF vars, TypeOK, OneWay, StopUnderWay, SpeedNearCommand, Skipped, joyVars, poseVars, driveVars
  <2>2. GentleStep
    BY <2>1, SMT DEF GentleStep, Abs, TypeOK
  <2> QED BY <2>1, <2>2
<1> QED BY <1>1, <1>2

(* A message leaves the last command alone.                                 *)
LEMMA MessageGentle ==
  ASSUME Inv, Message
  PROVE  GentleStep
<1>1. cmd_vel' = cmd_vel
  BY DEF Message, OdomHandler, PathHandler, JoystickHandler, SpeedHandler, StopHandler, driveVars
<1> QED BY <1>1, PathFollowerAssumption, SMT DEF GentleStep, Abs, Inv, TypeOK

(* Every step of the node keeps the invariant and, if it publishes, changes the
   command gently. *)
THEOREM NextInv == Inv /\ [Next]_vars => Inv' /\ GentleStep
BY MessageStep, MessageGentle, DriveStep, OtherStep DEF Next

(* The inductive invariant holds in every reachable state.                  *)
THEOREM Invariance == Spec => []Inv
BY InitInv, NextInv, PTL DEF Spec

(* Types, and that neither the speed kept nor the one sent exceeds maxSpeed.*)
THEOREM TypeCorrect == Spec => []TypeOK
<1>1. Inv => TypeOK
  BY DEF Inv
<1> QED BY <1>1, Invariance, PTL

(* With twoWayDrive off no command is ever negative.                        *)
THEOREM OneWayForward == Spec => []NeverBackward
<1>1. Inv => NeverBackward
  BY DEF Inv, OneWay, NeverBackward
<1> QED BY <1>1, Invariance, PTL

(* A safety stop reaches /cmd_vel within PubSkipNum + 1 turns.              *)
THEOREM SafetyStop == Spec => []StopObeyed
<1>1. Inv => StopObeyed
  BY PathFollowerAssumption, SMT DEF Inv, StopUnderWay, StopObeyed, Skipped, TypeOK
<1> QED BY <1>1, Invariance, PTL

(* No command differs from the last by more than the turns between allow,   *)
(* unless it is 0.                                                          *)
THEOREM Gentle == Spec => GentleSteps
<1>1. Inv /\ [Next]_vars => [GentleStep]_vars
  BY NextInv
<1> QED BY <1>1, Invariance, PTL DEF Spec, GentleSteps

(* With at most one turn skipped, two commands in a row never point in      *)
(* opposite directions: the vehicle is told to stop in between.             *)
THEOREM NoReversal ==
  PubSkipNum <= 1 => (Spec => [][cmd_vel.x * cmd_vel'.x >= 0]_vars)
<1> SUFFICES ASSUME PubSkipNum <= 1 PROVE Spec => [][cmd_vel.x * cmd_vel'.x >= 0]_vars
  OBVIOUS
<1>1. ASSUME Inv, [Next]_vars PROVE cmd_vel.x * cmd_vel'.x >= 0
  <2> DEFINE x == cmd_vel.x
             y == cmd_vel'.x
  <2>1. Inv' /\ GentleStep
    BY <1>1, NextInv
  <2>2. x \in Int /\ y \in Int /\ Abs(x) # 1 /\ Abs(y) # 1
    BY <1>1, <2>1, PathFollowerAssumption, SMT DEF Inv, TypeOK, SpeedNearCommand, Abs
  <2>3. y = 0 \/ Abs(y - x) <= 3
    BY <2>1, <2>2, PathFollowerAssumption, SMT DEF GentleStep, Abs
  <2> HIDE DEF x, y
  <2>4. x = 0 \/ y = 0 \/ (x > 1 /\ y > 1) \/ (x < -1 /\ y < -1)
    BY <2>2, <2>3, SMT DEF Abs
  <2>5. x * y >= 0
    <3>1. CASE x = 0
      BY <2>2, <3>1, SMT
    <3>2. CASE y = 0
      BY <2>2, <3>2, SMT
    <3>3. CASE x > 1 /\ y > 1
      <4>1. x \in Nat /\ y \in Nat
        BY <2>2, <3>3, SMT
      <4> QED BY <4>1, SMT
    <3>4. CASE x < -1 /\ y < -1
      <4>1. -x \in Nat /\ -y \in Nat
        BY <2>2, <3>4, SMT
      <4>2. (-x) * (-y) >= 0 /\ x * y = (-x) * (-y)
        BY <2>2, <4>1, SMT
      <4> QED BY <4>2, SMT
    <3> QED BY <2>4, <3>1, <3>2, <3>3, <3>4
  <2> QED BY <2>5 DEF x, y
<1> QED BY <1>1, Invariance, PTL DEF Spec

-----------------------------------------------------------------------------
(* How many turns of the loop what was asked for is away: the safety half   *)
(* of ComesToRest and GoesAsAsked.                                          *)

(* What ComesToRest asks for.                                               *)
NotWanted == joySpeed = 0 \/ pathSize = "one" \/ view.near

(* The speed goes down by a step in each turn; then a command has to be due.*)
TurnsToRest ==
  IF vehicleSpeed # 0 THEN Abs(vehicleSpeed) + PubSkipNum + 1
  ELSE IF cmd_vel.x # 0 THEN pubSkipCount + 1 ELSE 0

(* Messages set nothing back, turns get closer.                             *)
CloserToRest ==
  NotWanted => /\ TurnsToRest' <= TurnsToRest
               /\ Drive => TurnsToRest = 0 \/ TurnsToRest' < TurnsToRest

(* First the vehicle has to be let turn round.                              *)
TurnsToSpeed(s) ==
  IF ~navFwd THEN SwitchTimeThre - switchAge + 2 * MaxStep + PubSkipNum + 3
  ELSE IF vehicleSpeed # s THEN Abs(s - vehicleSpeed) + PubSkipNum + 1
  ELSE IF cmd_vel.x # DeadBand(s) THEN pubSkipCount + 1 ELSE 0

CloserToSpeed(s) ==
  Unhindered(s) => /\ TurnsToSpeed(s)' <= TurnsToSpeed(s)
                   /\ Drive => TurnsToSpeed(s) = 0 \/ TurnsToSpeed(s)' < TurnsToSpeed(s)

(* A product grows strictly with its factor.                                *)
LEMMA TimesStrict ==
  ASSUME NEW a \in Int, NEW b \in Int, NEW c \in Nat \ {0}, a < b
  PROVE  a * c < b * c
<1>1. PICK d \in Nat \ {0} : b = a + d
  BY b - a \in Nat \ {0}, SMT
<1>2. d * c \in Nat \ {0} /\ a * c \in Int
  BY SMT
<1>3. (a + d) * c = a * c + d * c
  BY SMT
<1> QED BY <1>1, <1>2, <1>3, SMT

(* Towards a whole step the ramp ends on it.                                *)
LEMMA RampToStep ==
  ASSUME TypeOK, NEW s \in Int
  PROVE  Ramp(s * (Scale * Scale)) = IF vehicleSpeed < s THEN vehicleSpeed + 1
                                     ELSE IF vehicleSpeed > s THEN vehicleSpeed - 1
                                     ELSE vehicleSpeed
<1> DEFINE S == Scale * Scale
           a == vehicleSpeed * S
           b == s * S
<1>1. vehicleSpeed \in Int /\ S \in Nat \ {0}
  BY PathFollowerAssumption, SMT DEF TypeOK
<1> HIDE DEF S
<1>2. a \in Int /\ b \in Int
  BY <1>1, SMT
<1>3. vehicleSpeed < s => a < b
  BY <1>1, TimesStrict
<1>4. vehicleSpeed > s => a > b
  BY <1>1, TimesStrict
<1>5. vehicleSpeed = s => a = b
  OBVIOUS
<1>6. Ramp(b) = IF a < b THEN vehicleSpeed + 1
                ELSE IF a > b THEN vehicleSpeed - 1 ELSE vehicleSpeed
  BY <1>2, SMT DEF Ramp, S
<1> HIDE DEF a, b
<1>7. Ramp(b) = IF vehicleSpeed < s THEN vehicleSpeed + 1
                ELSE IF vehicleSpeed > s THEN vehicleSpeed - 1 ELSE vehicleSpeed
  BY <1>1, <1>2, <1>3, <1>4, <1>5, <1>6, SMT
<1> QED BY <1>7 DEF b, S

(* Without a speed wanted the loop brakes.                                  *)
LEMMA BrakesWhenNotWanted ==
  ASSUME TypeOK, NotWanted
  PROVE  \/ NewSpeed = 0
         \/ vehicleSpeed < 0 /\ NewSpeed = vehicleSpeed + 1
         \/ vehicleSpeed > 0 /\ NewSpeed = vehicleSpeed - 1
<1>1. /\ vehicleSpeed \in Int
      /\ EndRate \in Nat /\ SlowRate \in Nat
  BY RatesRange, SMT DEF TypeOK
<1>2. Ramp(0) = IF vehicleSpeed < 0 THEN vehicleSpeed + 1
                ELSE IF vehicleSpeed > 0 THEN vehicleSpeed - 1 ELSE vehicleSpeed
  <2>1. 0 * (Scale * Scale) = 0
    BY PathFollowerAssumption, SMT
  <2> QED BY <2>1, RampToStep
<1>3. view.near \/ Wanted = 0
  BY <1>1, SMT DEF NotWanted, Wanted
<1>4. view.near \/ \A fwd \in BOOLEAN : Target(fwd) = 0
  BY <1>3, SMT DEF Target
<1>5. NavFwd \in BOOLEAN
  BY DEF NavFwd, Turns, TypeOK
<1>6. Follow(NavFwd) = Ramp(0)
  BY <1>4, <1>5, Zenon DEF Follow
<1>7. NewSpeed = 0 \/ NewSpeed = Ramp(0)
  BY <1>6, Zenon DEF NewSpeed
<1> QED BY <1>1, <1>2, <1>7, SMT

(* What a turn does to speed, command and count.                            *)
LEMMA DriveIs ==
  ASSUME TypeOK, Drive
  PROVE  /\ vehicleSpeed' = NewSpeed /\ NewSpeed \in -MaxStep .. MaxStep
         /\ \/ pubSkipCount = 0 /\ cmd_vel'.x = DeadBand(NewSpeed) /\ pubSkipCount' = PubSkipNum
            \/ pubSkipCount # 0 /\ cmd_vel' = cmd_vel /\ pubSkipCount' = pubSkipCount - 1
<1>1. vehicleSpeed' = NewSpeed /\ Publish(NewSpeed)
  BY DEF Drive
<1>2. NewSpeed \in -MaxStep .. MaxStep
  BY NewSpeedRange
<1> HIDE DEF NewSpeed
<1> QED BY <1>1, <1>2 DEF Publish

(* Messages and turns before the first path leave the wheels alone.         *)
LEMMA OnlyDriveDrives ==
  ASSUME [Next]_vars, ~Drive
  PROVE  UNCHANGED <<navFwd, switchAge, vehicleSpeed, pubSkipCount, cmd_vel>>
BY DEF Next, Message, Idle, OdomHandler, PathHandler, JoystickHandler, SpeedHandler, StopHandler,
       vars, driveVars

(* However fast the vehicle is, rest is so many turns away at most.         *)
LEMMA RestTurnsTyped ==
  ASSUME TypeOK
  PROVE  TurnsToRest \in 0 .. MaxStep + PubSkipNum + 1
BY PathFollowerAssumption, SMT DEF TypeOK, TurnsToRest, Abs

(* Every step keeps or lowers the turns to rest, every turn lowers them.    *)
LEMMA RestComesCloser ==
  ASSUME Inv, [Next]_vars
  PROVE  CloserToRest
<1> SUFFICES ASSUME NotWanted
    PROVE  /\ TurnsToRest' <= TurnsToRest
           /\ Drive => TurnsToRest = 0 \/ TurnsToRest' < TurnsToRest
  BY DEF CloserToRest
<1>1. TypeOK /\ TurnsToRest \in Int
  BY RestTurnsTyped, PathFollowerAssumption, SMT DEF Inv
<1>2. CASE ~Drive
  <2>1. TurnsToRest' = TurnsToRest
    BY <1>2, OnlyDriveDrives DEF TurnsToRest
  <2> QED BY <1>1, <1>2, <2>1, SMT
<1>3. CASE Drive
  <2> DEFINE v == vehicleSpeed
             n == NewSpeed
  <2>1. /\ v \in Int /\ PubSkipNum \in Nat /\ pubSkipCount \in 0 .. PubSkipNum
        /\ cmd_vel.x \in Int
    BY <1>1, PathFollowerAssumption, SMT DEF TypeOK
  <2>2. n = 0 \/ (v < 0 /\ n = v + 1) \/ (v > 0 /\ n = v - 1)
    BY <1>1, BrakesWhenNotWanted
  <2>3. /\ vehicleSpeed' = n
        /\ \/ pubSkipCount = 0 /\ cmd_vel'.x = DeadBand(n) /\ pubSkipCount' = PubSkipNum
           \/ pubSkipCount # 0 /\ cmd_vel' = cmd_vel /\ pubSkipCount' = pubSkipCount - 1
    BY <1>1, <1>3, DriveIs
  <2> HIDE DEF n
  <2>4. CASE v # 0
    BY <2>1, <2>2, <2>3, <2>4, SMT DEF TurnsToRest, Abs, DeadBand
  <2>5. CASE v = 0
    BY <2>1, <2>2, <2>3, <2>5, SMT DEF TurnsToRest, Abs, DeadBand
  <2> QED BY <2>4, <2>5
<1> QED BY <1>2, <1>3

(* The speed wanted is so many turns away at most, turning round included.  *)
LEMMA SpeedTurnsTyped ==
  ASSUME TypeOK, NEW s \in Speed
  PROVE  TurnsToSpeed(s) \in 0 .. SwitchTimeThre + 2 * MaxStep + PubSkipNum + 3
<1>1. s \in 0 .. MaxStep
  BY PathFollowerAssumption
<1> QED BY <1>1, PathFollowerAssumption, SMT DEF TypeOK, TurnsToSpeed, Abs, DeadBand

(* Unhindered and forward, the loop takes a step towards the speed wanted.  *)
LEMMA DrivesAsAsked ==
  ASSUME TypeOK, NEW s \in Speed, Unhindered(s), navFwd
  PROVE  /\ NavFwd
         /\ NewSpeed = IF vehicleSpeed < s THEN vehicleSpeed + 1
                       ELSE IF vehicleSpeed > s THEN vehicleSpeed - 1 ELSE vehicleSpeed
<1>1. s \in Int /\ Scale \in Int
  BY PathFollowerAssumption
<1>2. NavFwd = TRUE
  BY DEF NavFwd, Turns, Unhindered, TypeOK
<1>3. EndRate = Scale
  BY DEF EndRate, Unhindered
<1>4. SlowRate = Scale
  BY PathFollowerAssumption, SMT DEF SlowRate, Unhindered
<1>5. Wanted = s * (Scale * Scale)
  <2>1. Wanted = s * Scale * Scale
    BY <1>3, <1>4, Zenon DEF Wanted, Unhindered
  <2> QED BY <1>1, <2>1, SMT
<1>6. Follow(TRUE) = Ramp(Wanted)
  BY DEF Follow, Aligned, Target, Unhindered
<1>7. NewSpeed = Follow(NavFwd)
  BY SMT DEF NewSpeed, Unhindered
<1> QED BY <1>1, <1>2, <1>5, <1>6, <1>7, RampToStep

(* Every step keeps or lowers the turns to the speed wanted.                *)
LEMMA SpeedComesCloser ==
  ASSUME Inv, [Next]_vars, NEW s \in Speed
  PROVE  CloserToSpeed(s)
<1> SUFFICES ASSUME Unhindered(s)
    PROVE  /\ TurnsToSpeed(s)' <= TurnsToSpeed(s)
           /\ Drive => TurnsToSpeed(s) = 0 \/ TurnsToSpeed(s)' < TurnsToSpeed(s)
  BY DEF CloserToSpeed
<1>1. TypeOK /\ TurnsToSpeed(s) \in Int
  BY SpeedTurnsTyped, PathFollowerAssumption, SMT DEF Inv
<1>2. CASE ~Drive
  <2>1. TurnsToSpeed(s)' = TurnsToSpeed(s)
    BY <1>2, OnlyDriveDrives DEF TurnsToSpeed
  <2> QED BY <1>1, <1>2, <2>1, SMT
<1>3. CASE Drive
  <2> DEFINE v == vehicleSpeed
             n == NewSpeed
  <2>1. /\ v \in -MaxStep .. MaxStep /\ PubSkipNum \in Nat /\ pubSkipCount \in 0 .. PubSkipNum
        /\ cmd_vel.x \in Int /\ MaxStep \in Nat /\ s \in 0 .. MaxStep
        /\ SwitchTimeThre \in Nat /\ switchAge \in 0 .. SwitchTimeThre + 1
    BY <1>1, PathFollowerAssumption, SMT DEF TypeOK
  <2>2. /\ vehicleSpeed' = n /\ n \in -MaxStep .. MaxStep
        /\ \/ pubSkipCount = 0 /\ cmd_vel'.x = DeadBand(n) /\ pubSkipCount' = PubSkipNum
           \/ pubSkipCount # 0 /\ cmd_vel' = cmd_vel /\ pubSkipCount' = pubSkipCount - 1
    BY <1>1, <1>3, DriveIs
  <2>3. /\ navFwd' = NavFwd
        /\ switchAge' = IF Turns THEN 0 ELSE Lower(switchAge + 1, SwitchTimeThre + 1)
    BY <1>3 DEF Drive
  <2> HIDE DEF n
  <2>4. CASE navFwd
    <3>1. navFwd' /\ n = IF v < s THEN v + 1 ELSE IF v > s THEN v - 1 ELSE v
      BY <1>1, <2>3, <2>4, DrivesAsAsked DEF n
    <3>2. CASE v # s
      BY <2>1, <2>2, <2>4, <3>1, <3>2, SMT DEF TurnsToSpeed, Abs, DeadBand
    <3>3. CASE v = s
      BY <2>1, <2>2, <2>4, <3>1, <3>3, SMT DEF TurnsToSpeed, Abs, DeadBand
    <3> QED BY <3>2, <3>3
  <2>5. CASE ~navFwd
    <3>1. TwoWayDrive
      BY <2>5 DEF Inv, OneWay
    <3>2. Turns <=> switchAge > SwitchTimeThre
      BY <2>5, <3>1 DEF Turns, Unhindered
    <3>3. CASE Turns
      <4>1. navFwd' = TRUE
        BY <2>3, <2>5, <3>3 DEF NavFwd
      <4>2. TurnsToSpeed(s)' <= 2 * MaxStep + PubSkipNum + 1
        BY <2>1, <2>2, <4>1, SMT DEF TurnsToSpeed, Abs
      <4>3. TurnsToSpeed(s) >= 2 * MaxStep + PubSkipNum + 2
        BY <2>1, <2>5, SMT DEF TurnsToSpeed
      <4>4. TurnsToSpeed(s)' \in Int
        BY <2>1, <2>2, <4>1, SMT DEF TurnsToSpeed, Abs
      <4> QED BY <1>1, <2>1, <4>2, <4>3, <4>4, SMT
    <3>4. CASE ~Turns
      <4>1. navFwd' = FALSE
        BY <2>3, <2>5, <3>4 DEF NavFwd
      <4>2. switchAge' = switchAge + 1
        BY <2>1, <2>3, <3>2, <3>4, SMT DEF Lower
      <4> QED BY <2>1, <2>5, <4>1, <4>2, SMT DEF TurnsToSpeed
    <3> QED BY <3>3, <3>4
  <2> QED BY <2>4, <2>5
<1> QED BY <1>2, <1>3

(* Once no speed is wanted, the planner has found no path or the point is   *)
(* near, each turn of the loop brings the vehicle closer to rest, of which  *)
(* it is never more than MaxStep + PubSkipNum + 1 turns away; messages in   *)
(* between set nothing back, and at rest it stays.                          *)
THEOREM RestInTurns ==
  Spec => /\ [](TurnsToRest \in 0 .. MaxStep + PubSkipNum + 1)
          /\ [][CloserToRest]_vars
<1>1. Inv => TurnsToRest \in 0 .. MaxStep + PubSkipNum + 1
  BY RestTurnsTyped DEF Inv
<1>2. Inv /\ [Next]_vars => [CloserToRest]_vars
  BY RestComesCloser
<1> QED BY <1>1, <1>2, Invariance, PTL DEF Spec

(* Unhindered, each turn brings the command closer to the speed wanted, by  *)
(* way of turning round where the vehicle drives backwards, and there it    *)
(* stays.                                                                   *)
THEOREM SpeedInTurns ==
  Spec => /\ [](\A s \in Speed :
                   TurnsToSpeed(s) \in 0 .. SwitchTimeThre + 2 * MaxStep + PubSkipNum + 3)
          /\ [][\A s \in Speed : CloserToSpeed(s)]_vars
<1> DEFINE Bounded == \A s \in Speed :
                        TurnsToSpeed(s) \in 0 .. SwitchTimeThre + 2 * MaxStep + PubSkipNum + 3
           Closer == \A s \in Speed : CloserToSpeed(s)
<1>1. Inv => Bounded
  BY SpeedTurnsTyped DEF Inv
<1>2. Inv /\ [Next]_vars => [Closer]_vars
  BY SpeedComesCloser
<1> HIDE DEF Bounded, Closer
<1>3. Spec => []Bounded /\ [][Closer]_vars
  BY <1>1, <1>2, Invariance, PTL DEF Spec
<1> QED BY <1>3 DEF Bounded, Closer
=============================================================================
