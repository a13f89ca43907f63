--------------------------- MODULE PlannersProofs ---------------------------
(***************************************************************************)
(* Proofs about the planners.  For every range, scale, step, speed and set *)
(* of options: localPlanner's types, that it restores its scale, that its  *)
(* paths end before obstacles and that they stay within what the speed     *)
(* allows, and that a search gets ever smaller.  A smaller scale computes  *)
(* the range anew, with a product and a quotient: most of the work is to   *)
(* bound those.                                                            *)
(*                                                                         *)
(* Then far_planner's goal, for any nodes, graphs and goals, any number of *)
(* votes and any momentum.                                                 *)
(***************************************************************************)
EXTENDS MCPlanners, FiniteSetTheorems, TLAPS

MaxRange == Larger(AdjacentRange, MinPathRange)
SpeedRange == Larger((AdjacentRange * joySpeed) \div MaxSpeed, MinPathRange)

(* Within a search, scale and range are at most what it started with.       *)
Searching ==
  pc = "search" =>
    /\ pathScale \in Scales /\ blocked \in Blocked
    /\ PathScaleBySpeed => pathScale <= StartScale
    /\ PathRangeBySpeed /\ PathScaleBySpeed => pathRange <= SpeedRange

Inv ==
  /\ TypeOK /\ ScaleRestored /\ PathIsClear /\ LengthFollowsSpeed
  /\ Searching
  /\ relativeGoalDis \in Nat

-----------------------------------------------------------------------------
(* A product grows with its factors.                                        *)
LEMMA TimesMonotone ==
  ASSUME NEW a \in Nat, NEW b \in Nat, NEW c \in Nat, b <= c
  PROVE  a * b <= a * c /\ a * b \in Nat
  BY SMT

(* The next factor makes a product more by the other one.                   *)
LEMMA TimesNext ==
  ASSUME NEW a \in Nat, NEW b \in Nat
  PROVE  a * (b + 1) = a * b + a /\ a * b \in Nat
  BY SMT

(* A quotient is the largest factor that fits.                              *)
LEMMA QuotientFits ==
  ASSUME NEW x \in Nat, NEW m \in Nat \ {0}
  PROVE  /\ x \div m \in Nat
         /\ m * (x \div m) <= x /\ x < m * (x \div m) + m
<1> DEFINE q == x \div m
<1>1. q \in Nat /\ m * q <= x
  BY SMT
<1>2. x < m * q + m
  BY SMT
<1> QED BY <1>1, <1>2

(* The quotient by m is the largest k with m * k below the dividend: how a
   lower bound survives the shares taken of the path range. *)
LEMMA QuotientIsLargest ==
  ASSUME NEW x \in Nat, NEW m \in Nat \ {0}, NEW k \in Nat, m * k <= x
  PROVE  k <= x \div m
<1> DEFINE q == x \div m
<1>1. q \in Nat /\ x < m * q + m
  BY QuotientFits
<1> HIDE DEF q
<1>2. ASSUME q < k PROVE FALSE
  <2>1. m * (q + 1) <= m * k
    BY <1>1, <1>2, TimesMonotone
  <2>2. m * (q + 1) = m * q + m
    BY <1>1, SMT
  <2> QED BY <1>1, <2>1, <2>2, SMT
<1>3. k <= q
  BY <1>1, <1>2, SMT
<1> QED BY <1>3 DEF q

(* A dividend of at most m * a has a quotient of at most a. *)
LEMMA QuotientBound ==
  ASSUME NEW x \in Nat, NEW m \in Nat \ {0}, NEW a \in Nat, x <= m * a
  PROVE  x \div m \in 0 .. a
<1> DEFINE q == x \div m
<1>1. q \in Nat /\ m * q <= x
  BY QuotientFits
<1> HIDE DEF q
<1>2. ASSUME a < q PROVE FALSE
  <2>1. m * (a + 1) <= m * q
    BY <1>1, <1>2, TimesMonotone
  <2>2. m * (a + 1) = m * a + m /\ m * a \in Nat /\ m * q \in Nat
    BY <1>1, SMT
  <2> QED BY <1>1, <2>1, <2>2, SMT
<1>3. q \in 0 .. a
  BY <1>1, <1>2, SMT
<1> QED BY <1>3 DEF q

(* A speed of at most MaxSpeed takes its share of a, at most all of it.     *)
LEMMA ShareOfSpeed ==
  ASSUME NEW a \in Nat, NEW s \in 0 .. MaxSpeed
  PROVE  (a * s) \div MaxSpeed \in 0 .. a
<1>1. s \in Nat /\ MaxSpeed \in Nat \ {0} /\ s <= MaxSpeed
  BY LocalPlannerAssumption, SMT
<1>2. a * s <= a * MaxSpeed /\ a * s \in Nat
  BY <1>1, TimesMonotone
<1>3. a * MaxSpeed = MaxSpeed * a
  BY <1>1, SMT
<1> QED BY <1>1, <1>2, <1>3, QuotientBound

(* The share of a scale that is within the speed's share of PathScale is    *)
(* within the speed's share.                                                *)
LEMMA ShareOfScale ==
  ASSUME NEW a \in Nat, NEW s \in 0 .. MaxSpeed, NEW k \in Nat,
         k <= (PathScale * s) \div MaxSpeed
  PROVE  (a * k) \div PathScale <= (a * s) \div MaxSpeed
<1> DEFINE q == (a * k) \div PathScale
           r == (PathScale * s) \div MaxSpeed
           P == PathScale
           M == MaxSpeed
<1>1. s \in Nat /\ M \in Nat \ {0} /\ P \in Nat \ {0} /\ a * k \in Nat /\ a * s \in Nat
      /\ P * s \in Nat
  BY LocalPlannerAssumption, SMT
<1>2. r \in Nat /\ M * r <= P * s
  BY <1>1, QuotientFits
<1>3. q \in Nat /\ P * q <= a * k
  BY <1>1, QuotientFits
<1>4. k <= r
  OBVIOUS
<1> HIDE DEF q, r, P, M
<1>5. M * k <= P * s
  BY <1>1, <1>2, <1>4, TimesMonotone, SMT
<1>6. M * (P * q) <= M * (a * k)
  BY <1>1, <1>3, TimesMonotone, SMT
<1>7. a * (M * k) <= a * (P * s)
  <2>1. M * k \in Nat
    BY <1>1, SMT
  <2> QED BY <1>1, <1>5, <2>1, TimesMonotone
<1>8. M * (a * k) = a * (M * k) /\ M * (P * q) = P * (M * q) /\ a * (P * s) = P * (a * s)
  BY <1>1, <1>3, SMT
<1>9. P * (M * q) <= P * (a * s)
  BY <1>1, <1>3, <1>6, <1>7, <1>8, SMT
<1>10. M * q <= a * s
  <2>1. ASSUME a * s < M * q PROVE FALSE
    <3>1. M * q \in Nat /\ a * s + 1 <= M * q
      BY <1>1, <1>3, <2>1, SMT
    <3>2. P * (a * s + 1) <= P * (M * q)
      BY <1>1, <3>1, TimesMonotone, SMT
    <3>3. P * (a * s + 1) = P * (a * s) + P /\ P * (a * s) \in Nat /\ P * (M * q) \in Nat
      BY <1>1, <3>1, SMT
    <3> QED BY <1>1, <1>9, <3>2, <3>3, SMT
  <2> QED BY <1>1, <1>3, <2>1, SMT
<1>11. q <= (a * s) \div M
  BY <1>1, <1>3, <1>10, QuotientIsLargest
<1> QED BY <1>11 DEF q, M

-----------------------------------------------------------------------------
(* Where a search starts.                                                   *)
LEMMA StartTyped ==
  ASSUME joySpeed \in 0 .. MaxSpeed
  PROVE  /\ StartScale \in Scales
         /\ StartRange \in MinPathRange .. MaxRange
         /\ PathRangeBySpeed => StartRange = SpeedRange
<1>1. (PathScale * joySpeed) \div MaxSpeed \in 0 .. PathScale
  BY LocalPlannerAssumption, ShareOfSpeed
<1>2. (AdjacentRange * joySpeed) \div MaxSpeed \in 0 .. AdjacentRange
  BY LocalPlannerAssumption, ShareOfSpeed
<1>3. StartScale \in Scales
  BY <1>1, LocalPlannerAssumption, SMT DEF StartScale, Scales, Larger
<1>4. StartRange \in MinPathRange .. MaxRange
  BY <1>2, LocalPlannerAssumption, SMT DEF StartRange, MaxRange, Larger
<1>5. PathRangeBySpeed => StartRange = SpeedRange
  BY DEF StartRange, SpeedRange
<1> QED BY <1>3, <1>4, <1>5

(* Where a step of the search leads.                                        *)
LEMMA ShrinkTyped ==
  ASSUME Inv, pc = "search", InRange, Shrink
  PROVE  /\ pathScale' \in Scales /\ pathScale' <= pathScale
         /\ pathRange' \in -PathRangeStep .. MaxRange
         /\ PathScaleBySpeed /\ PathRangeBySpeed => pathRange' <= SpeedRange
<1> USE LocalPlannerAssumption
<1>1. /\ pathScale \in Scales /\ joySpeed \in 0 .. MaxSpeed
      /\ pathRange \in MinPathRange .. MaxRange
      /\ PathScaleBySpeed => pathScale <= StartScale
      /\ PathRangeBySpeed /\ PathScaleBySpeed => pathRange <= SpeedRange
  BY SMT DEF Inv, TypeOK, Searching, InRange, MaxRange, Scales, Larger
<1>2. CASE pathScale >= MinPathScale + PathScaleStep
  <2>1. /\ pathScale' = pathScale - PathScaleStep
        /\ pathRange' = (AdjacentRange * pathScale') \div PathScale
    BY <1>2 DEF Shrink
  <2>2. /\ pathScale' \in Scales /\ pathScale' <= pathScale
        /\ pathScale' \in Nat /\ pathScale' <= PathScale
    BY <1>1, <1>2, <2>1, SMT DEF Scales, Larger
  <2>3. pathRange' \in 0 .. AdjacentRange
    <3>1. AdjacentRange * pathScale' <= AdjacentRange * PathScale
          /\ AdjacentRange * pathScale' \in Nat
      BY <2>2, TimesMonotone
    <3>2. AdjacentRange * PathScale = PathScale * AdjacentRange
      BY SMT
    <3> QED BY <2>1, <3>1, <3>2, QuotientBound
  <2>4. ASSUME PathScaleBySpeed PROVE pathRange' <= SpeedRange
    <3>1. (PathScale * joySpeed) \div MaxSpeed \in 0 .. PathScale
          /\ (AdjacentRange * joySpeed) \div MaxSpeed \in 0 .. AdjacentRange
      BY <1>1, ShareOfSpeed
    <3>2. pathScale' <= (PathScale * joySpeed) \div MaxSpeed
      <4>1. pathScale <= StartScale /\ MinPathScale < pathScale
        BY <1>1, <1>2, <2>4, SMT DEF Scales, Larger
      <4>2. StartScale = Larger((PathScale * joySpeed) \div MaxSpeed, MinPathScale)
        BY <2>4 DEF StartScale
      <4> QED BY <1>1, <2>2, <3>1, <4>1, <4>2, SMT DEF Larger, Scales
    <3>3. pathRange' <= (AdjacentRange * joySpeed) \div MaxSpeed
      BY <1>1, <2>1, <2>2, <3>2, ShareOfScale
    <3> QED BY <2>3, <3>1, <3>3, SMT DEF SpeedRange, Larger
  <2> QED BY <2>2, <2>3, <2>4, SMT DEF MaxRange, Larger
<1>3. CASE ~(pathScale >= MinPathScale + PathScaleStep)
  <2>1. pathRange' = pathRange - PathRangeStep /\ pathScale' = pathScale
    BY <1>3 DEF Shrink
  <2>2. SpeedRange \in Int
    <3>1. (AdjacentRange * joySpeed) \div MaxSpeed \in 0 .. AdjacentRange
      BY <1>1, ShareOfSpeed
    <3> QED BY <3>1, SMT DEF SpeedRange, Larger
  <2> QED BY <1>1, <2>1, <2>2, SMT DEF MaxRange, Scales, Larger
<1> QED BY <1>2, <1>3

(* What ends a search keeps Inv, given an answer that fits.                 *)
LEMMA DoneInv ==
  ASSUME Inv, pc = "search", NEW answer, Done(answer),
         answer.length \in 0 .. MaxRange,
         answer.found => answer.length <= answer.clear,
         PathRangeBySpeed /\ PathScaleBySpeed =>
           answer.length <= Larger((AdjacentRange * answer.speed) \div MaxSpeed, MinPathRange)
  PROVE  Inv'
<1> USE LocalPlannerAssumption
<1>1. /\ path' = answer /\ pathScale' = PathScale /\ pc' = "spin"
      /\ pathRange' = 0 /\ relativeGoalDis' = 0 /\ blocked' = Free
      /\ UNCHANGED <<joyVars, checkObstacle, newCloud>>
  BY DEF Done
<1>2. TypeOK'
  BY <1>1, SMT DEF Inv, TypeOK, MaxRange, Larger, joyVars
<1>3. ScaleRestored' /\ PathIsClear' /\ LengthFollowsSpeed' /\ Searching'
  BY <1>1 DEF ScaleRestored, PathIsClear, LengthFollowsSpeed, Searching
<1>4. relativeGoalDis' \in Nat
  BY <1>1
<1> QED BY <1>2, <1>3, <1>4 DEF Inv

-----------------------------------------------------------------------------
(* The planner starts at full scale, with an answer that stays in place, so
   Inv holds initially. *)
LEMMA InitInv == Init => Inv
<1> SUFFICES ASSUME Init PROVE Inv
  OBVIOUS
<1> USE LocalPlannerAssumption
<1>1. joySpeed \in 0 .. MaxSpeed /\ MaxDelay \in Nat
  BY SMT DEF Init, MaxDelay, Larger
<1>2. (AdjacentRange * 0) \div MaxSpeed \in 0 .. AdjacentRange
  <2>1. AdjacentRange \in Nat /\ 0 \in 0 .. MaxSpeed
    BY LocalPlannerAssumption, SMT
  <2> QED BY <2>1, ShareOfSpeed, Zenon
<1>3. TypeOK
  <2>1. /\ joySpeed \in 0 .. MaxSpeed /\ joyDir \in Wanted
        /\ joyAge \in 0 .. MaxDelay + 1
        /\ pc \in {"spin", "search"}
    BY <1>1, SMT DEF Init
  <2>2. {joySpeedRaw, autonomyMode, checkObstacle, newCloud} \subseteq BOOLEAN
    BY DEF Init
  <2>3. pathScale \in Scales \cup {PathScale}
    BY DEF Init
  <2>4. pathRange \in -PathRangeStep .. MaxRange /\ path.length \in 0 .. MaxRange
    BY SMT DEF Init, MaxRange, Larger, Stay
  <2> QED BY <2>1, <2>2, <2>3, <2>4 DEF TypeOK, MaxRange
<1>4. ScaleRestored /\ PathIsClear /\ Searching /\ relativeGoalDis \in Nat
  BY DEF Init, ScaleRestored, PathIsClear, Searching, Stay
<1>5. LengthFollowsSpeed
  BY <1>2, SMT DEF Init, LengthFollowsSpeed, Stay, Larger
<1> QED BY <1>3, <1>4, <1>5 DEF Inv

(* A message, or a turn of the loop without a cloud.                        *)
LEMMA HandlerInv ==
  ASSUME Inv, Message \/ Idle PROVE Inv'
<1> USE LocalPlannerAssumption
<1>1. pc = "spin" /\ UNCHANGED searchVars
  BY DEF Message, Idle, JoystickHandler, SpeedHandler, CheckObstacleHandler, CloudHandler
<1>2. MaxDelay \in Nat
  BY SMT DEF MaxDelay, Larger
<1>3. /\ joySpeed' \in 0 .. MaxSpeed /\ joyDir' \in Wanted
      /\ {joySpeedRaw', autonomyMode', checkObstacle', newCloud'} \subseteq BOOLEAN
      /\ joyAge' \in 0 .. MaxDelay + 1
  <2>1. CASE \E speed \in Speed, backward, yaw, mode \in BOOLEAN, dir \in Wanted :
               JoystickHandler(speed, backward, yaw, dir, mode)
    <3>1. PICK speed \in Speed, backward \in BOOLEAN, yaw \in BOOLEAN, mode \in BOOLEAN, dir \in Wanted :
            JoystickHandler(speed, backward, yaw, dir, mode)
      BY <2>1
    <3>2. joySpeed' \in 0 .. MaxSpeed /\ joyDir' \in Wanted
      <4>1. joySpeed' = 0 \/ joySpeed' = speed BY <3>1 DEF JoystickHandler
      <4>2. joyDir' = dir \/ joyDir' = joyDir BY <3>1 DEF JoystickHandler
      <4> QED BY <4>1, <4>2 DEF Inv, TypeOK
    <3>3. {joySpeedRaw', autonomyMode', checkObstacle', newCloud'} \subseteq BOOLEAN
      BY <3>1 DEF Inv, TypeOK, JoystickHandler
    <3>4. joyAge' \in 0 .. MaxDelay + 1 BY <3>1, <1>2 DEF JoystickHandler
    <3> QED BY <3>2, <3>3, <3>4
  <2>2. CASE \E speed \in Speed : SpeedHandler(speed)
    BY <2>2, <1>2, SMT DEF Inv, TypeOK, SpeedHandler
  <2>3. CASE \E check \in BOOLEAN : CheckObstacleHandler(check)
    BY <2>3, <1>2, SMT DEF Inv, TypeOK, CheckObstacleHandler, joyVars
  <2>4. CASE CloudHandler
    BY <2>4, <1>2, SMT DEF Inv, TypeOK, CloudHandler, joyVars
  <2>5. CASE Idle
    BY <2>5, <1>2, SMT DEF Inv, TypeOK, Idle
  <2> QED BY <2>1, <2>2, <2>3, <2>4, <2>5 DEF Message
<1>4. TypeOK'
  <2>1. pc' = pc /\ pathScale' = pathScale /\ pathRange' = pathRange /\ path' = path
    BY <1>1 DEF searchVars
  <2> QED BY <1>3, <2>1 DEF Inv, TypeOK
<1>5. ScaleRestored' /\ PathIsClear' /\ LengthFollowsSpeed' /\ Searching'
      /\ relativeGoalDis' \in Nat
  BY <1>1 DEF Inv, ScaleRestored, PathIsClear, LengthFollowsSpeed, Searching, searchVars
<1> QED BY <1>4, <1>5 DEF Inv

(* A new cloud starts a search (lines 654-749): scale and range are reset, and
   what the search is bounded by holds from its first attempt on. *)
LEMMA CropInv ==
  ASSUME Inv, NEW b \in Blocked, NEW dis \in GoalDis, NEW dir \in Wanted, Crop(b, dis, dir)
  PROVE  Inv'
<1> USE LocalPlannerAssumption
<1>1. joySpeed \in 0 .. MaxSpeed /\ joySpeed' = joySpeed
  BY DEF Inv, TypeOK, Crop
<1>2. /\ StartScale \in Scales
      /\ StartRange \in MinPathRange .. MaxRange
      /\ PathRangeBySpeed => StartRange = SpeedRange
  BY <1>1, StartTyped
<1>3. /\ newCloud' = FALSE /\ blocked' = b /\ pathRange' = StartRange
      /\ pathScale' = StartScale /\ pc' = "search" /\ path' = Stay(0)
      /\ relativeGoalDis' \in Nat /\ joyDir' \in Wanted
      /\ UNCHANGED <<joySpeed, joySpeedRaw, autonomyMode, joyAge, checkObstacle>>
  BY DEF Crop, Inv, TypeOK
<1>4. SpeedRange' = SpeedRange /\ StartScale' = StartScale
  BY <1>1 DEF SpeedRange, StartScale
<1>5. StartRange \in Int /\ StartScale \in Int
  BY <1>2, SMT DEF Scales, MaxRange, Larger
<1>6. Searching'
  BY <1>2, <1>3, <1>4, <1>5, SMT DEF Searching
<1>7. TypeOK'
  <2>1. pathRange' \in -PathRangeStep .. MaxRange /\ path'.length \in 0 .. MaxRange
    BY <1>2, <1>3, SMT DEF MaxRange, Larger, Stay
  <2>2. pathScale' \in Scales \cup {PathScale} /\ pc' \in {"spin", "search"}
    BY <1>2, <1>3
  <2>3. {joySpeedRaw', autonomyMode', checkObstacle', newCloud'} \subseteq BOOLEAN
    BY <1>3 DEF Inv, TypeOK
  <2> QED BY <1>3, <2>1, <2>2, <2>3 DEF Inv, TypeOK, MaxRange
<1>8. ScaleRestored' /\ PathIsClear' /\ relativeGoalDis' \in Nat
  BY <1>3 DEF ScaleRestored, PathIsClear, Stay
<1>9. LengthFollowsSpeed'
  <2>1. (AdjacentRange * 0) \div MaxSpeed \in 0 .. AdjacentRange
    <3>1. AdjacentRange \in Nat /\ 0 \in 0 .. MaxSpeed
      BY LocalPlannerAssumption, SMT
    <3> QED BY <3>1, ShareOfSpeed, Zenon
  <2> QED BY <1>3, <2>1, SMT DEF LengthFollowsSpeed, Stay, Larger
<1> QED BY <1>6, <1>7, <1>8, <1>9 DEF Inv

(* A selected group ends the search (lines 856-895): the path is cut before
   the nearest obstacle and is no longer than the range of the attempt. *)
LEMMA FoundInv ==
  ASSUME Inv, NEW t, Found(t)
  PROVE  Inv'
<1> USE LocalPlannerAssumption
<1> DEFINE cut == Lower(pathRange, relativeGoalDis)
<1>1. pc = "search" /\ InRange
  BY DEF Found
<1>2. PICK o \in Clear \cap t :
        Done([found |-> TRUE, length |-> cut,
              clear |-> IF checkObstacle THEN blocked[pathScale][o] ELSE pathRange,
              speed |-> joySpeed])
  BY DEF Found
<1>3. /\ pathRange \in MinPathRange .. MaxRange /\ relativeGoalDis \in Nat
      /\ joySpeed \in 0 .. MaxSpeed
      /\ PathRangeBySpeed /\ PathScaleBySpeed => pathRange <= SpeedRange
  BY <1>1, SMT DEF Inv, TypeOK, Searching, InRange, MaxRange
<1>4. cut \in 0 .. MaxRange /\ cut <= pathRange /\ cut <= relativeGoalDis
  BY <1>3, SMT DEF Lower, MaxRange, Larger
<1>5. checkObstacle => cut <= blocked[pathScale][o]
  <2> SUFFICES ASSUME checkObstacle PROVE cut <= blocked[pathScale][o]
    OBVIOUS
  <2>1. o \in Scored[joyDir] /\ ~Counted(blocked[pathScale][o])
    BY <1>2 DEF Clear
  <2>2. o \in Option
    BY <2>1 DEF Inv, TypeOK
  <2>3. blocked[pathScale][o] \in Nat
    BY <1>1, <2>2 DEF Inv, Searching, Blocked
  <2> QED BY <1>3, <1>4, <2>1, <2>3, SMT DEF Counted
<1>6. PathRangeBySpeed /\ PathScaleBySpeed =>
        cut <= Larger((AdjacentRange * joySpeed) \div MaxSpeed, MinPathRange)
  <2>1. (AdjacentRange * joySpeed) \div MaxSpeed \in 0 .. AdjacentRange
    BY <1>3, ShareOfSpeed
  <2> QED BY <1>3, <1>4, <2>1, SMT DEF SpeedRange, Larger, MaxRange
<1> HIDE DEF cut
<1>7. (IF checkObstacle THEN blocked[pathScale][o] ELSE pathRange) >= cut
  BY <1>4, <1>5, SMT
<1> QED BY <1>1, <1>2, <1>4, <1>6, <1>7, DoneInv

(* An attempt without a free group shrinks scale or range (lines 944-951) and
   leaves the search within its bounds. *)
LEMMA NotFoundInv ==
  ASSUME Inv, NEW t, NotFound(t)
  PROVE  Inv'
<1> USE LocalPlannerAssumption
<1>1. /\ pc = "search" /\ InRange /\ Shrink
      /\ UNCHANGED <<pc, relativeGoalDis, blocked, path, joyVars, checkObstacle, newCloud>>
  BY DEF NotFound
<1>2. /\ pathScale' \in Scales /\ pathScale' <= pathScale
      /\ pathRange' \in -PathRangeStep .. MaxRange
      /\ PathScaleBySpeed /\ PathRangeBySpeed => pathRange' <= SpeedRange
  BY <1>1, ShrinkTyped
<1>3. TypeOK'
  BY <1>1, <1>2 DEF Inv, TypeOK, MaxRange, joyVars
<1>4. SpeedRange' = SpeedRange /\ StartScale' = StartScale
  BY <1>1 DEF SpeedRange, StartScale, joyVars
<1>5. /\ pathScale \in Scales /\ blocked \in Blocked
      /\ PathScaleBySpeed => pathScale <= StartScale
  BY <1>1 DEF Inv, Searching
<1>6. StartScale \in Int /\ pathScale \in Int /\ pathScale' \in Int
  <2>1. StartScale \in Scales
    BY StartTyped DEF Inv, TypeOK
  <2> QED BY <1>2, <1>5, <2>1, SMT DEF Scales, Larger
<1>7. PathScaleBySpeed => pathScale' <= StartScale'
  BY <1>2, <1>4, <1>5, <1>6, SMT
<1>8. Searching'
  BY <1>1, <1>2, <1>4, <1>5, <1>7 DEF Searching
<1>9. ScaleRestored' /\ PathIsClear' /\ LengthFollowsSpeed' /\ relativeGoalDis' \in Nat
  BY <1>1 DEF Inv, ScaleRestored, PathIsClear, LengthFollowsSpeed
<1> QED BY <1>3, <1>8, <1>9 DEF Inv

(* An exhausted search answers with the path of one point (lines 957-969). *)
LEMMA GiveUpInv ==
  ASSUME Inv, GiveUp
  PROVE  Inv'
<1> USE LocalPlannerAssumption
<1>1. pc = "search" /\ Done(Stay(joySpeed)) /\ joySpeed \in 0 .. MaxSpeed
  BY DEF GiveUp, Inv, TypeOK
<1>2. (AdjacentRange * joySpeed) \div MaxSpeed \in 0 .. AdjacentRange
  BY <1>1, ShareOfSpeed
<1>3. Stay(joySpeed).length = 0 /\ ~Stay(joySpeed).found /\ Stay(joySpeed).speed = joySpeed
  BY DEF Stay
<1>4. 0 <= Larger((AdjacentRange * joySpeed) \div MaxSpeed, MinPathRange) /\ 0 \in 0 .. MaxRange
  BY <1>2, SMT DEF Larger, MaxRange
<1> HIDE DEF Stay
<1> QED BY <1>1, <1>3, <1>4, DoneInv

(* Each action keeps Inv.                                                   *)
LEMMA NextInv ==
  ASSUME Inv, [Next]_vars PROVE Inv'
<1>1. CASE Message \/ Idle
  BY <1>1, HandlerInv
<1>2. CASE StartSearch
  BY <1>2, CropInv DEF StartSearch
<1>3. CASE Search
  BY <1>3, FoundInv, NotFoundInv, GiveUpInv DEF Search
<1>4. CASE UNCHANGED vars
  <2>1. /\ UNCHANGED <<joyVars, checkObstacle, newCloud, searchVars>>
    BY <1>4 DEF vars
  <2> QED BY <2>1 DEF Inv, TypeOK, ScaleRestored, PathIsClear, LengthFollowsSpeed, Searching,
             SpeedRange, StartScale, joyVars, searchVars
<1> QED BY <1>1, <1>2, <1>3, <1>4 DEF Next

(* The inductive invariant holds in every reachable state. *)
THEOREM Invariance == Spec => []Inv
<1>1. Init => Inv
  BY InitInv
<1>2. Inv /\ [Next]_vars => Inv'
  BY NextInv
<1> QED BY <1>1, <1>2, PTL DEF Spec

(* The planner's state keeps its types, whatever the products round to.     *)
THEOREM TypeCorrect == Spec => []TypeOK
<1>1. Inv => TypeOK
  BY DEF Inv
<1> QED BY <1>1, Invariance, PTL

(* Every search starts from the scale parameter.                            *)
THEOREM ScaleComesBack == Spec => []ScaleRestored
<1>1. Inv => ScaleRestored
  BY DEF Inv
<1> QED BY <1>1, Invariance, PTL

(* A published path ends before what blocks it in the cloud it answers.     *)
THEOREM ClearPaths == Spec => []PathIsClear
<1>1. Inv => PathIsClear
  BY DEF Inv
<1> QED BY <1>1, Invariance, PTL

(* A path is no longer than the speed allows, although each smaller scale   *)
(* computes the range anew: the rounded share of a smaller scale stays      *)
(* within the rounded share of the speed.                                   *)
THEOREM ShortWhenSlow == Spec => []LengthFollowsSpeed
<1>1. Inv => LengthFollowsSpeed
  BY DEF Inv
<1> QED BY <1>1, Invariance, PTL

-----------------------------------------------------------------------------
(* What is left of a search: every scale stands for more than all ranges,   *)
(* since a smaller scale may lengthen the range again.                      *)
Width == MaxRange + PathRangeStep + 1
Remaining == Width * pathScale + (pathRange + PathRangeStep)

(* Each attempt that does not end the search.                               *)
Shrinks == pc = "search" /\ pc' = "search" => Remaining' < Remaining

(* It never runs out before the search does.                                *)
LEMMA RemainingTyped ==
  ASSUME TypeOK
  PROVE  Remaining \in Nat
<1>1. pathScale \in Nat /\ pathRange + PathRangeStep \in Nat /\ Width \in Nat
  BY LocalPlannerAssumption, SMT DEF TypeOK, Scales, Width, MaxRange, Larger
<1>2. Width * pathScale \in Nat
  BY <1>1, TimesNext
<1> HIDE DEF Width
<1> QED BY <1>1, <1>2, SMT DEF Remaining

(* A smaller scale outweighs any range.                                     *)
LEMMA Outweighs ==
  ASSUME NEW a \in Nat, NEW b \in Nat, NEW m \in Nat, NEW d \in Nat,
         a + (m + d + 1) <= b, NEW p \in Int, NEW q \in Int, 0 < p, q <= m
  PROVE  a + (q + d) < b + (p + d)
  BY SMT

(* An attempt that finds nothing leaves less of the search.                 *)
LEMMA ShrinkLess ==
  ASSUME Inv, pc = "search", InRange, Shrink
  PROVE  Remaining' < Remaining
<1> USE LocalPlannerAssumption
<1>1. /\ pathScale \in Scales /\ pathScale' \in Scales
      /\ pathRange \in MinPathRange .. MaxRange /\ pathRange' \in -PathRangeStep .. MaxRange
  <2>1. pathScale' \in Scales /\ pathRange' \in -PathRangeStep .. MaxRange
    BY ShrinkTyped
  <2> QED BY <2>1, SMT DEF Inv, TypeOK, Searching, InRange, MaxRange
<1>2. pathScale \in Nat /\ pathScale' \in Nat /\ MaxRange \in Nat /\ Width \in Nat
  BY <1>1, SMT DEF Scales, Width, MaxRange, Larger
<1> DEFINE w == Width
           a == w * pathScale'
           b == w * pathScale
           c == w * (pathScale' + 1)
<1>3. a \in Nat /\ b \in Nat
  BY <1>2, TimesNext
<1>4. Remaining = b + (pathRange + PathRangeStep) /\ Remaining' = a + (pathRange' + PathRangeStep)
  BY DEF Remaining, Width, MaxRange
<1>5. CASE pathScale >= MinPathScale + PathScaleStep
  <2>1. pathScale' + 1 <= pathScale /\ pathScale' + 1 \in Nat
    BY <1>2, <1>5, SMT DEF Shrink
  <2>2. c <= b
    BY <1>2, <2>1, TimesMonotone
  <2>3. c = a + w
    BY <1>2, TimesNext
  <2>4. w = MaxRange + PathRangeStep + 1
    BY DEF Width
  <2> HIDE DEF w, a, b, c
  <2>5. a + (MaxRange + PathRangeStep + 1) <= b
    BY <2>2, <2>3, <2>4, Zenon
  <2>6. pathRange' <= MaxRange /\ 0 < pathRange /\ pathRange \in Int /\ pathRange' \in Int
        /\ PathRangeStep \in Nat
    BY <1>1, <1>2, SMT
  <2>7. MaxRange \in Nat
    BY <1>2
  <2>8. a + (pathRange' + PathRangeStep) < b + (pathRange + PathRangeStep)
    BY <1>3, <2>5, <2>6, <2>7, Outweighs
  <2> QED BY <1>4, <2>8, Zenon
<1>6. CASE ~(pathScale >= MinPathScale + PathScaleStep)
  <2>1. pathRange' = pathRange - PathRangeStep /\ pathScale' = pathScale
    BY <1>6 DEF Shrink
  <2>2. a = b
    BY <2>1
  <2> HIDE DEF w, a, b
  <2> QED BY <1>1, <1>2, <1>3, <1>4, <2>1, <2>2, SMT
<1> QED BY <1>5, <1>6

(* No sequence of smaller scales and ranges goes on for ever: what is left  *)
(* of the search is a natural number and each attempt leaves less, although *)
(* a smaller scale may lengthen the range again.                            *)
THEOREM SearchShrinks == Spec => [](Remaining \in Nat) /\ [][Shrinks]_vars
<1>1. Inv => Remaining \in Nat
  BY RemainingTyped DEF Inv
<1>2. ASSUME Inv, [Next]_vars PROVE [Shrinks]_vars
  <2> SUFFICES ASSUME Next, pc = "search", pc' = "search" PROVE Remaining' < Remaining
    BY <1>2 DEF Shrinks
  <2>1. PICK t : NotFound(t)
    BY DEF Next, Message, JoystickHandler, SpeedHandler, CheckObstacleHandler, CloudHandler,
           StartSearch, Crop, Search, Found, GiveUp, Done, Idle
  <2> QED BY <1>2, <2>1, ShrinkLess DEF NotFound
<1> QED BY <1>1, <1>2, Invariance, PTL DEF Spec

-----------------------------------------------------------------------------
(* far_planner.                                                             *)

FarFlags ==
  /\ sensed \in BOOLEAN /\ is_graph_init_ \in BOOLEAN /\ is_reset_env_ \in BOOLEAN
  /\ is_stop_update_ \in BOOLEAN /\ is_planner_running_ \in BOOLEAN
  /\ is_goal_init_ \in BOOLEAN /\ is_free_nav_goal_ \in BOOLEAN
  /\ command_is_free_nav_ \in BOOLEAN /\ is_global_path_init_ \in BOOLEAN
  /\ inView \in BOOLEAN

GraphInv ==
  /\ graph \subseteq Node /\ edge \subseteq Pairs(graph \cup {Odom})
  /\ near \subseteq graph \cup {Odom} /\ covered \subseteq graph \cup {Odom}
  /\ is_block_to_goal \subseteq graph \cup {Odom}
  /\ is_traversable \subseteq graph \cup {Odom}
  /\ goal_node_ptr_ \in (graph \cap NavPoint) \cup Place \cup {Nowhere}
  /\ is_graph_init_ => Odom \in is_traversable

VotesInv ==
  /\ edge_votes \in [Node \cup {Odom} -> Seq({0, 1})]
  /\ \A v \in Node \cup {Odom} : Len(edge_votes[v]) <= votes_size

(* The path that is followed leads to the goal of now.                      *)
PathInv ==
  /\ path_momentum_counter_ \in 0 .. momentum_thred
  /\ is_global_path_init_ /\ goal_node_ptr_ # Nowhere => recorded_path_ = goal_node_ptr_
  /\ RobotIsLed

FarInv == FarFlags /\ GraphInv /\ VotesInv /\ PathInv

-----------------------------------------------------------------------------
LEMMA NoVotesTyped ==
  /\ NoVotes \in [Node \cup {Odom} -> Seq({0, 1})]
  /\ \A v \in Node \cup {Odom} : NoVotes[v] = <<>> /\ Len(NoVotes[v]) <= votes_size
<1>1. <<>> \in Seq({0, 1}) /\ Len(<<>>) <= votes_size
  BY FarPlannerAssumption
<1> QED BY <1>1 DEF NoVotes

(* A vote is added, and the oldest one forgotten when there are too many.   *)
LEMMA VoteTyped ==
  ASSUME NEW v \in Seq({0, 1}), Len(v) <= votes_size, NEW bit \in {0, 1}
  PROVE  /\ Vote(v, bit) \in Seq({0, 1}) /\ Len(Vote(v, bit)) <= votes_size
         /\ Len(Vote(v, bit)) >= 1
         /\ Vote(v, bit)[Len(Vote(v, bit))] = bit
         /\ \E d \in {0, 1} :
              /\ Len(Vote(v, bit)) = Len(v) + 1 - d
              /\ \A i \in 1 .. Len(Vote(v, bit)) - 1 : Vote(v, bit)[i] = v[i + d]
<1> DEFINE all == Append(v, bit)
<1>1. /\ all \in Seq({0, 1}) /\ Len(all) = Len(v) + 1 /\ all[Len(v) + 1] = bit
      /\ \A i \in 1 .. Len(v) : all[i] = v[i]
      /\ Len(v) \in Nat
  OBVIOUS
<1>2. Vote(v, bit) = IF Len(all) > votes_size THEN Tail(all) ELSE all
  BY DEF Vote
<1> HIDE DEF all
<1>3. CASE Len(all) > votes_size
  <2>1. /\ all # <<>> /\ Vote(v, bit) = Tail(all)
        /\ Tail(all) \in Seq({0, 1}) /\ Len(Tail(all)) = Len(v)
        /\ \A i \in 1 .. Len(v) : Tail(all)[i] = all[i + 1]
    BY <1>1, <1>2, <1>3
  <2>2. Len(v) >= 1
    BY <1>1, <1>3, FarPlannerAssumption
  <2>3. \A i \in 1 .. Len(v) - 1 : Tail(all)[i] = v[i + 1]
    BY <1>1, <2>1
  <2>4. Tail(all)[Len(v)] = bit
    BY <1>1, <2>1, <2>2
  <2> QED BY <1>1, <2>1, <2>2, <2>3, <2>4
<1>4. CASE ~(Len(all) > votes_size)
  <2>1. Vote(v, bit) = all
    BY <1>2, <1>4
  <2> QED BY <1>1, <1>4, <2>1, FarPlannerAssumption
<1> QED BY <1>3, <1>4

LEMMA GoalVotesTyped ==
  ASSUME VotesInv, NEW seeing
  PROVE  /\ GoalVotes(seeing) \in [Node \cup {Odom} -> Seq({0, 1})]
         /\ \A v \in Node \cup {Odom} : Len(GoalVotes(seeing)[v]) <= votes_size
<1>1. <<>> \in Seq({0, 1}) /\ Len(<<>>) <= votes_size
      /\ <<1>> \in Seq({0, 1}) /\ Len(<<1>>) <= votes_size
  BY FarPlannerAssumption
<1>2. \A v \in Node \cup {Odom} :
        /\ Vote(edge_votes[v], 1) \in Seq({0, 1}) /\ Len(Vote(edge_votes[v], 1)) <= votes_size
        /\ Vote(edge_votes[v], 0) \in Seq({0, 1}) /\ Len(Vote(edge_votes[v], 0)) <= votes_size
  BY VoteTyped DEF VotesInv
<1> QED BY <1>1, <1>2 DEF GoalVotes

(* A reset leaves one vote at most.                                         *)
LEMMA ResetTyped ==
  ASSUME NEW v
  PROVE  /\ ResetPolygonVotes(v) \in Seq({0, 1}) /\ Len(ResetPolygonVotes(v)) <= votes_size
         /\ ResetPolygonVotes(v) = <<>>
            \/ ResetPolygonVotes(v) = <<0>> \/ ResetPolygonVotes(v) = <<1>>
<1>1. /\ <<>> \in Seq({0, 1}) /\ Len(<<>>) <= votes_size
      /\ <<0>> \in Seq({0, 1}) /\ Len(<<0>>) <= votes_size
      /\ <<1>> \in Seq({0, 1}) /\ Len(<<1>>) <= votes_size
  BY FarPlannerAssumption
<1>2. ResetPolygonVotes(v) = <<>> \/ ResetPolygonVotes(v) = <<0>> \/ ResetPolygonVotes(v) = <<1>>
  BY DEF ResetPolygonVotes
<1> QED BY <1>1, <1>2

(* The robot's node reaches itself.                                         *)
LEMMA OdomReaches ==
  ASSUME NEW S, NEW E, Odom \in S
  PROVE  Odom \in Reachable(S, E) /\ Reachable(S, E) \subseteq S
BY DEF Reachable

LEMMA FarInitInv == FarInit => FarInv
<1> SUFFICES ASSUME FarInit PROVE FarInv
  OBVIOUS
<1>1. FarFlags
  BY DEF FarInit, FarFlags
<1>2. GraphInv
  BY DEF FarInit, GraphInv
<1>3. VotesInv
  BY NoVotesTyped DEF FarInit, VotesInv
<1>4. PathInv
  BY FarPlannerAssumption DEF FarInit, PathInv, RobotIsLed
<1> QED BY <1>1, <1>2, <1>3, <1>4 DEF FarInv

-----------------------------------------------------------------------------
LEMMA SubscriptionsInv ==
  ASSUME FarInv, Subscriptions
  PROVE  FarInv'
<1> USE DEF FarInv
<1>0. ASSUME UNCHANGED <<is_graph_init_, is_planner_running_, graphVars, is_traversable, goalVars,
                         pathVars, waypoint>>
      PROVE  GraphInv' /\ VotesInv' /\ PathInv'
  <2>1. GraphInv'
    BY <1>0 DEF GraphInv, graphVars, goalVars
  <2>2. VotesInv'
    BY <1>0 DEF VotesInv, goalVars
  <2>3. PathInv'
    BY <1>0 DEF PathInv, RobotIsLed, goalVars, pathVars
  <2> QED BY <2>1, <2>2, <2>3
<1>1. CASE SenseCallBack
  <2>1. FarFlags'
    BY <1>1 DEF SenseCallBack, FarFlags, goalVars, pathVars, history
  <2>2. UNCHANGED <<is_graph_init_, is_planner_running_, graphVars, is_traversable, goalVars, pathVars, waypoint>>
    BY <1>1 DEF SenseCallBack
  <2> QED BY <1>0, <2>1, <2>2
<1>2. CASE ResetGraphCallBack
  <2>1. FarFlags'
    BY <1>2 DEF ResetGraphCallBack, FarFlags, goalVars, pathVars, history
  <2>2. UNCHANGED <<is_graph_init_, is_planner_running_, graphVars, is_traversable, goalVars, pathVars, waypoint>>
    BY <1>2 DEF ResetGraphCallBack
  <2> QED BY <1>0, <2>1, <2>2
<1>3. ASSUME NEW on \in BOOLEAN, UpdateCommandCallBack(on) PROVE FarInv'
  <2>1. FarFlags'
    BY <1>3 DEF UpdateCommandCallBack, FarFlags, goalVars, pathVars, history
  <2>2. UNCHANGED <<is_graph_init_, is_planner_running_, graphVars, is_traversable, goalVars, pathVars, waypoint>>
    BY <1>3 DEF UpdateCommandCallBack
  <2> QED BY <1>0, <2>1, <2>2
<1>4. ASSUME NEW on \in BOOLEAN, AttemptStatusCallBack(on) PROVE FarInv'
  <2>1. FarFlags'
    BY <1>4 DEF AttemptStatusCallBack, FarFlags, goalVars, history
  <2>2. GraphInv' /\ VotesInv'
    BY <1>4 DEF AttemptStatusCallBack, GraphInv, VotesInv, graphVars, goalVars
  <2>3. path_momentum_counter_' \in {path_momentum_counter_, momentum_thred}
    BY <1>4 DEF AttemptStatusCallBack
  <2>4. PathInv'
    BY <1>4, <2>3, FarPlannerAssumption DEF AttemptStatusCallBack, PathInv, RobotIsLed, goalVars
  <2> QED BY <2>1, <2>2, <2>4
<1>5. ASSUME NEW g \in Goals, WaypointCallBack(g) PROVE FarInv'
  <2>1. FarFlags'
    BY <1>5 DEF WaypointCallBack, UpdateGoal, FarFlags
  <2>2. GraphInv'
    BY <1>5 DEF WaypointCallBack, UpdateGoal, GraphInv, graphVars, Goals
  <2>3. VotesInv'
    BY <1>5, NoVotesTyped DEF WaypointCallBack, UpdateGoal, VotesInv
  <2>4. PathInv'
    BY <1>5, FarPlannerAssumption DEF WaypointCallBack, UpdateGoal, PathInv, RobotIsLed
  <2> QED BY <2>1, <2>2, <2>3, <2>4
<1> QED BY <1>1, <1>2, <1>3, <1>4, <1>5 DEF Subscriptions

LEMMA MainLoopInv ==
  ASSUME FarInv, MainLoop
  PROVE  FarInv'
<1> USE DEF FarInv
<1>1. CASE ResetEnvironmentAndGraph
  <2>1. FarFlags'
    BY <1>1 DEF ResetEnvironmentAndGraph, FarFlags
  <2>2. GraphInv'
    BY <1>1 DEF ResetEnvironmentAndGraph, GraphInv
  <2>3. VotesInv'
    BY <1>1, NoVotesTyped DEF ResetEnvironmentAndGraph, VotesInv
  <2>4. PathInv'
    BY <1>1, FarPlannerAssumption DEF ResetEnvironmentAndGraph, PathInv, RobotIsLed
  <2> QED BY <2>1, <2>2, <2>3, <2>4
<1>2. ASSUME NEW kept \in SUBSET graph, NEW found \in SUBSET (Node \ graph),
             NEW changed \in SUBSET (kept \ NavPoint),
             NEW joined \in SUBSET Pairs(kept \cup found \cup {Odom}),
             NEW close \in SUBSET (kept \cup found), NEW seen \in SUBSET close,
             UpdateNavGraph(kept, found, changed, joined, close, seen)
      PROVE  FarInv'
  <2>1. FarFlags'
    BY <1>2 DEF UpdateNavGraph, FarFlags, pathVars, history
  <2>2. GraphInv'
    <3>1. /\ graph' = kept \cup found /\ kept \subseteq graph /\ edge' = joined
          /\ joined \subseteq Pairs(graph' \cup {Odom})
          /\ close \subseteq graph' /\ seen \subseteq close /\ near' = close \cup found
          /\ covered' = (covered \cap kept) \cup seen \cup (found \cap NavPoint)
          /\ is_block_to_goal' = is_block_to_goal \ (graph \ kept)
          /\ graph \cap {goal_node_ptr_} \subseteq kept /\ UNCHANGED goal_node_ptr_
      BY <1>2 DEF UpdateNavGraph
    <3>2. is_traversable' = (is_traversable \ (graph \ kept)) \cup found
                            \cup (IF is_graph_init_ THEN {} ELSE {Odom})
      BY <1>2 DEF UpdateNavGraph
    <3>3. Odom \notin graph
      BY FarPlannerAssumption DEF GraphInv
    <3>4. is_traversable' \subseteq graph' \cup {Odom} /\ Odom \in is_traversable'
      BY <3>1, <3>2, <3>3 DEF GraphInv
    <3>5. goal_node_ptr_' \in (graph' \cap NavPoint) \cup Place \cup {Nowhere}
      BY <3>1 DEF GraphInv
    <3>6. near' \subseteq graph' \cup {Odom} /\ covered' \subseteq graph' \cup {Odom}
          /\ is_block_to_goal' \subseteq graph' \cup {Odom} /\ graph' \subseteq Node
      BY <3>1 DEF GraphInv
    <3> QED BY <3>1, <3>4, <3>5, <3>6 DEF GraphInv
  <2>3. VotesInv'
    <3>1. edge_votes' = [v \in Node \cup {Odom} |->
                           IF v \in graph \ kept THEN <<>>
                           ELSE IF v \in changed THEN ResetPolygonVotes(edge_votes[v])
                           ELSE edge_votes[v]]
      BY <1>2 DEF UpdateNavGraph
    <3>2. <<>> \in Seq({0, 1}) /\ Len(<<>>) <= votes_size
      BY FarPlannerAssumption
    <3>3. \A v \in Node \cup {Odom} : /\ ResetPolygonVotes(edge_votes[v]) \in Seq({0, 1})
                                      /\ Len(ResetPolygonVotes(edge_votes[v])) <= votes_size
      BY ResetTyped
    <3> QED BY <3>1, <3>2, <3>3 DEF VotesInv
  <2>4. PathInv'
    BY <1>2 DEF UpdateNavGraph, PathInv, RobotIsLed, pathVars
  <2> QED BY <2>1, <2>2, <2>3, <2>4
<1> QED BY <1>1, <1>2 DEF MainLoop

(* What a turn of planning does with goal, path and waypoint: the goal is   *)
(* reached, the path so far is followed, a new one recorded, or there is    *)
(* none and the goal is given up.                                           *)
LEMMA PathToGoalInv ==
  ASSUME FarInv, goal_node_ptr_ # Nowhere, NEW free \in BOOLEAN, NEW any \in BOOLEAN,
         NEW arrived, NEW onWay, NEW votes,
         PathToGoal([any |-> any, free |-> free], arrived, onWay, votes)
  PROVE  /\ PathInv'
         /\ is_planner_running_' \in BOOLEAN /\ is_goal_init_' \in BOOLEAN
         /\ is_free_nav_goal_' \in BOOLEAN /\ is_global_path_init_' \in BOOLEAN
         /\ \/ edge_votes' = NoVotes /\ goal_node_ptr_' = Nowhere
            \/ edge_votes' = votes /\ goal_node_ptr_' = goal_node_ptr_
<1> DEFINE reach == [any |-> any, free |-> free]
<1> USE DEF FarInv, PathInv, RobotIsLed, FarFlags
<1>1. CASE arrived /\ Arrive /\ GoalReset
  BY <1>1 DEF Arrive, GoalReset, pathVars
<1>2. CASE ~arrived /\ is_free_nav_goal_' = FreeNav(free)
  <2>1. is_free_nav_goal_' \in BOOLEAN
    BY <1>2 DEF FreeNav
  <2>2. CASE Follow /\ edge_votes' = votes
    <3>1. path_momentum_counter_' \in 0 .. momentum_thred
      BY <2>2, FarPlannerAssumption DEF Follow, MayFollow
    <3>2. recorded_path_ = goal_node_ptr_
      BY <2>2 DEF Follow, MayFollow
    <3> QED BY <2>1, <2>2, <3>1, <3>2 DEF Follow
  <2>3. CASE RecordPathInfo /\ edge_votes' = votes
    BY <2>1, <2>3, FarPlannerAssumption DEF RecordPathInfo
  <2>4. CASE Fail /\ GoalReset
    BY <2>1, <2>4 DEF Fail, GoalReset
  <2> QED BY <1>2, <2>2, <2>3, <2>4 DEF PathToGoal
<1> QED BY <1>1, <1>2 DEF PathToGoal

LEMMA PlanningInv ==
  ASSUME FarInv, NEW seeing \in SUBSET (graph \cup {Odom}), NEW inFree \in BOOLEAN,
         NEW arrived \in BOOLEAN, NEW onWay \in BOOLEAN,
         Planning(seeing, inFree, arrived, onWay)
  PROVE  FarInv'
<1> DEFINE votes == IF Internav THEN edge_votes ELSE GoalVotes(seeing)
           all == graph \cup {Odom, goal_node_ptr_}
           reachable == Reachable(all, PlanEdges(votes))
           freely == Reachable(covered \cup {Odom, goal_node_ptr_}, PlanEdges(votes))
           any == goal_node_ptr_ \in reachable
           free == inFree /\ goal_node_ptr_ \in freely
<1>1. /\ is_graph_init_ /\ goal_node_ptr_ # Nowhere
      /\ is_block_to_goal' = IF Internav THEN is_block_to_goal
                             ELSE (graph \cup {Odom}) \ Connected(votes)
      /\ is_traversable' = reachable \cap (Node \cup {Odom})
      /\ PathToGoal([any |-> any, free |-> free], arrived, onWay, votes)
      /\ inView' \in BOOLEAN
      /\ UNCHANGED <<sensed, is_graph_init_, is_reset_env_, is_stop_update_, graphVars,
                     command_is_free_nav_>>
  BY DEF Planning
<1>2. Odom \in reachable /\ reachable \subseteq all
  BY OdomReaches
<1>3. /\ votes \in [Node \cup {Odom} -> Seq({0, 1})]
      /\ \A v \in Node \cup {Odom} : Len(votes[v]) <= votes_size
  BY GoalVotesTyped DEF FarInv, VotesInv
<1>4. any \in BOOLEAN /\ free \in BOOLEAN
  OBVIOUS
<1> HIDE DEF votes, all, reachable, freely, any, free
<1>5. /\ PathInv'
      /\ is_planner_running_' \in BOOLEAN /\ is_goal_init_' \in BOOLEAN
      /\ is_free_nav_goal_' \in BOOLEAN /\ is_global_path_init_' \in BOOLEAN
      /\ \/ edge_votes' = NoVotes /\ goal_node_ptr_' = Nowhere
         \/ edge_votes' = votes /\ goal_node_ptr_' = goal_node_ptr_
  BY <1>1, <1>4, PathToGoalInv
<1>6. FarFlags'
  BY <1>1, <1>5 DEF FarInv, FarFlags
<1>7. VotesInv'
  BY <1>3, <1>5, NoVotesTyped DEF VotesInv
<1>8. GraphInv'
  <2>1. is_traversable' \subseteq graph \cup {Odom}
    <3> SUFFICES ASSUME NEW v \in is_traversable', v # Odom PROVE v \in graph
      OBVIOUS
    <3>1. v \in all /\ v \in Node
      BY <1>1, <1>2
    <3>2. v = goal_node_ptr_ => v \in graph
      BY <1>1, <3>1, FarPlannerAssumption DEF FarInv, GraphInv
    <3> QED BY <3>1, <3>2 DEF all
  <2>2. Odom \in is_traversable' /\ is_block_to_goal' \subseteq graph \cup {Odom}
    BY <1>1, <1>2 DEF FarInv, GraphInv
  <2>3. goal_node_ptr_' \in (graph \cap NavPoint) \cup Place \cup {Nowhere}
    BY <1>5 DEF FarInv, GraphInv
  <2>4. UNCHANGED <<graph, edge, near, covered, is_graph_init_>>
    BY <1>1 DEF graphVars
  <2> QED BY <2>1, <2>2, <2>3, <2>4 DEF FarInv, GraphInv
<1> QED BY <1>5, <1>6, <1>7, <1>8 DEF FarInv

LEMMA TraverseInv ==
  ASSUME FarInv, Traverse
  PROVE  FarInv'
<1>1. Odom \in Reachable(graph \cup {Odom}, edge)
      /\ Reachable(graph \cup {Odom}, edge) \subseteq graph \cup {Odom}
  BY OdomReaches
<1>2. FarFlags' /\ VotesInv' /\ PathInv'
  BY DEF Traverse, FarInv, FarFlags, VotesInv, PathInv, RobotIsLed, goalVars, pathVars, history
<1>3. GraphInv'
  BY <1>1 DEF Traverse, FarInv, GraphInv, graphVars, goalVars
<1> QED BY <1>2, <1>3 DEF FarInv

LEMMA FarNextInv == FarInv /\ [FarNext]_farVars => FarInv'
<1> SUFFICES ASSUME FarInv, [FarNext]_farVars PROVE FarInv'
  OBVIOUS
<1>1. CASE UNCHANGED farVars
  <2>1. FarFlags'
    BY <1>1 DEF farVars, FarInv, FarFlags, goalVars, pathVars, history
  <2>2. GraphInv'
    BY <1>1 DEF farVars, FarInv, GraphInv, graphVars, goalVars
  <2>3. VotesInv' /\ PathInv'
    BY <1>1 DEF farVars, FarInv, VotesInv, PathInv, RobotIsLed, goalVars, pathVars
  <2> QED BY <2>1, <2>2, <2>3 DEF FarInv
<1>2. CASE FarNext
  BY <1>2, SubscriptionsInv, MainLoopInv, PlanningInv, TraverseInv DEF FarNext, Plan
<1> QED BY <1>1, <1>2

(* Graph, votes, goal and path stay well formed and agree.                  *)
THEOREM FarInvariance == FarSpec => []FarInv
BY FarInitInv, FarNextInv, PTL DEF FarSpec

(* The robot is never sent along a path that was recorded for another goal. *)
THEOREM RobotLed == FarSpec => []RobotIsLed
<1>1. FarInv => RobotIsLed
  BY DEF FarInv, PathInv
<1> QED BY <1>1, FarInvariance, PTL

LEMMA FarTyped == FarInv => FarTypeOK
<1> SUFFICES ASSUME FarInv PROVE FarTypeOK
  OBVIOUS
<1>1. \A v \in Node \cup {Odom} : edge_votes[v] \in Seq({0, 1})
  BY DEF FarInv, VotesInv
<1> QED BY <1>1 DEF FarInv, FarFlags, GraphInv, VotesInv, PathInv, FarTypeOK

(* The state of the process is well typed: graph and goal of far_planner,   *)
(* scales and ranges of localPlanner.                                       *)
THEOREM PlannersTypeCorrect == PlannersSpec => []TypesOK
<1>1. PlannersInit => Init /\ FarInit
  BY DEF PlannersInit
<1>2. [PlannersNext]_plannersVars => [Next]_vars /\ [FarNext]_farVars
  BY DEF PlannersNext, plannersVars, localVars
<1>3. PlannersSpec => Init /\ [][Next]_vars /\ FarInit /\ [][FarNext]_farVars
  BY <1>1, <1>2, PTL DEF PlannersSpec
<1>4. TypeOK /\ FarInv => TypesOK
  BY FarTyped DEF TypesOK
<1> QED BY <1>3, <1>4, TypeCorrect, FarInvariance, PTL DEF Spec, FarSpec
-----------------------------------------------------------------------------
(* What the robot sees is joined to it, whatever was voted before.          *)

LEMMA OneVote == IsVoteTrue(<<1>>, 3)
<1>1. {i \in DOMAIN <<1>> : <<1>>[i] = 1} = {1}
  OBVIOUS
<1>2. Cardinality({1}) = 1
  BY FS_Singleton
<1>3. 1 > Len(<<1>>) \div 3
  OBVIOUS
<1> QED BY <1>1, <1>2, <1>3 DEF IsVoteTrue

LEMMA PairOfTwo ==
  ASSUME NEW S, NEW e \in Pairs(S)
  PROVE  \E x, y \in S : x # y /\ e = {x, y}
BY DEF Pairs

LEMMA JoinedReaches ==
  ASSUME NEW S, NEW E, NEW g \in S, Odom \in S, {Odom, g} \in E
  PROVE  g \in Reachable(S, E)
BY DEF Reachable

LEMMA SeenReaches ==
  ASSUME FarInv, is_graph_init_, goal_node_ptr_ # Nowhere, NEW seeing,
         Odom \in IF Internav THEN UNION {e \ {goal_node_ptr_} : e \in
                                            {d \in edge : goal_node_ptr_ \in d}}
                  ELSE seeing
  PROVE  goal_node_ptr_ \in Reachable(graph \cup {Odom, goal_node_ptr_},
                              PlanEdges(IF Internav THEN edge_votes ELSE GoalVotes(seeing)))
<1> DEFINE votes == IF Internav THEN edge_votes ELSE GoalVotes(seeing)
<1>1. {Odom, goal_node_ptr_} \in PlanEdges(votes)
  <2>1. CASE Internav
    <3>1. PICK e \in edge : goal_node_ptr_ \in e /\ Odom \in e /\ Odom # goal_node_ptr_
      BY <2>1
    <3>2. PICK x, y : e = {x, y}
      <4>1. e \in Pairs(graph \cup {Odom})
        BY DEF FarInv, GraphInv
      <4> QED BY <4>1, PairOfTwo
    <3>3. e = {Odom, goal_node_ptr_}
      BY <3>1, <3>2
    <3> QED BY <3>1, <3>3 DEF PlanEdges
  <2>2. CASE ~Internav
    <3>1. Odom \in seeing /\ Odom \in is_traversable /\ votes = GoalVotes(seeing)
      BY <2>2 DEF FarInv, GraphInv
    <3>2. IsValidConnectToGoal(Odom, seeing)
      BY <3>1 DEF IsValidConnectToGoal
    <3>3. votes[Odom] = <<1>>
      BY <3>1, <3>2 DEF GoalVotes
    <3>4. Odom \in Connected(votes)
      BY <3>3, OneVote DEF Connected
    <3> QED BY <2>2, <3>4 DEF PlanEdges
  <2> QED BY <2>1, <2>2
<1> QED BY <1>1, JoinedReaches

(* A goal in the robot's own view is not given up.                          *)
THEOREM GoalKept == FarSpec => GoalInViewKept
<1>1. ASSUME FarInv, FarNext, goal_node_ptr_ # Nowhere, goal_node_ptr_' = Nowhere,
             is_graph_init_', inView', is_autoswitch \/ ~is_free_nav_goal_'
      PROVE  waypoint'.to = goal_node_ptr_
  <2>1. ~Subscriptions /\ ~MainLoop /\ ~Traverse
    <3>1. ~SenseCallBack /\ ~ResetGraphCallBack
      BY <1>1 DEF SenseCallBack, ResetGraphCallBack, goalVars
    <3>2. \A on \in BOOLEAN : ~UpdateCommandCallBack(on) /\ ~AttemptStatusCallBack(on)
      BY <1>1 DEF UpdateCommandCallBack, AttemptStatusCallBack, goalVars
    <3>3. \A g \in Goals : ~WaypointCallBack(g)
      BY <1>1, FarPlannerAssumption DEF WaypointCallBack, UpdateGoal, Goals
    <3>4. ~MainLoop
      <4>1. ~ResetEnvironmentAndGraph
        BY <1>1 DEF ResetEnvironmentAndGraph
      <4>2. ASSUME NEW kept, NEW found, NEW changed, NEW joined, NEW close, NEW seen,
                   UpdateNavGraph(kept, found, changed, joined, close, seen)
            PROVE  FALSE
        BY <1>1, <4>2 DEF UpdateNavGraph
      <4> QED BY <4>1, <4>2 DEF MainLoop
    <3>5. ~Traverse
      BY <1>1 DEF Traverse, goalVars
    <3> QED BY <3>1, <3>2, <3>3, <3>4, <3>5 DEF Subscriptions
  <2>2. PICK seeing \in SUBSET (graph \cup {Odom}), inFree \in BOOLEAN, arrived \in BOOLEAN,
             onWay \in BOOLEAN : Planning(seeing, inFree, arrived, onWay)
    BY <1>1, <2>1 DEF FarNext, Plan
  <2> DEFINE votes == IF Internav THEN edge_votes ELSE GoalVotes(seeing)
             reachable == Reachable(graph \cup {Odom, goal_node_ptr_}, PlanEdges(votes))
             freely == Reachable(covered \cup {Odom, goal_node_ptr_}, PlanEdges(votes))
             any == goal_node_ptr_ \in reachable
             free == inFree /\ goal_node_ptr_ \in freely
             view == IF Internav THEN UNION {e \ {goal_node_ptr_} : e \in
                                             {d \in edge : goal_node_ptr_ \in d}}
                     ELSE seeing
  <2>3. /\ is_graph_init_ /\ inView' = (Odom \in view)
        /\ PathToGoal([any |-> any, free |-> free], arrived, onWay, votes)
    BY <2>2 DEF Planning
  <2>4. any
    BY <1>1, <2>3, SeenReaches
  <2>5. any \in BOOLEAN /\ free \in BOOLEAN
    OBVIOUS
  <2> HIDE DEF votes, reachable, freely, any, free, view
  <2>6. CASE arrived /\ Arrive /\ GoalReset
    BY <2>6 DEF Arrive
  <2>7. CASE /\ ~(IF is_free_nav_goal_' THEN free ELSE any) /\ ~MayFollow
             /\ is_free_nav_goal_' = FreeNav(free)
    <3>1. is_free_nav_goal_' /\ is_autoswitch /\ ~free
      BY <1>1, <2>4, <2>7
    <3>2. is_global_path_init_ /\ path_momentum_counter_ < momentum_thred
      BY <2>7, <3>1 DEF FreeNav
    <3> QED BY <2>7, <3>2 DEF MayFollow
  <2>8. ~Follow /\ ~RecordPathInfo
    BY <1>1 DEF Follow, RecordPathInfo
  <2> QED BY <2>3, <2>6, <2>7, <2>8 DEF PathToGoal
<1>2. ASSUME FarInv, [FarNext]_farVars
      PROVE  [goal_node_ptr_ # Nowhere /\ goal_node_ptr_' = Nowhere /\ is_graph_init_'
                /\ inView' /\ (is_autoswitch \/ ~is_free_nav_goal_')
              => waypoint'.to = goal_node_ptr_]_farVars
  BY <1>1, <1>2
<1> QED BY <1>2, FarInvariance, PTL DEF FarSpec, GoalInViewKept
-----------------------------------------------------------------------------
(* How long a goal that no node sees can be driven to.                      *)

(* Plans until every node's votes are outvoted, and what is half of them.   *)
Outvoted == Joining + 1
Half == votes_size - votes_size \div 2

(* The newest n votes are against.                                          *)
Against(v, n) == \A i \in 1 .. Len(v) : i > Len(v) - n => v[i] = 0

(* All but the oldest vote are; that one may be what a reset made of the    *)
(* votes when they were for the goal by half, n plans after it was seen but *)
(* for those whose votes came since.                                        *)
Renewed(v, n) == /\ \A i \in 1 .. Len(v) : i >= 2 => v[i] = 0
                 /\ n + 2 <= Half + Len(v)

(* A plan without a view either adds a vote against the goal everywhere, or *)
(* takes from the momentum; both together bound their number.  A reset      *)
(* turns votes into a single one, for the goal only while half of them are. *)
LostInv ==
  /\ lost \in Nat
  /\ Internav => lost <= path_momentum_counter_
  /\ lost <= Outvoted - 1 + path_momentum_counter_
  /\ ~Internav => \A v \in Node \cup {Odom} :
                    Against(edge_votes[v], lost) \/ Renewed(edge_votes[v], lost)

LEMMA OutvotedBound ==
  /\ Outvoted \in Nat /\ Outvoted >= 1 /\ Outvoted - 1 = Joining /\ Joining \in Nat
  /\ Half \in Nat /\ Outvoted >= Half + 1
  /\ \A n, k \in Nat : n <= votes_size /\ k >= Outvoted => n - k <= n \div 3
  /\ \A n, k \in Nat : n <= votes_size /\ n - k > n \div 2 => k + 1 <= Half
<1>1. votes_size \in Nat /\ votes_size >= 1
  BY FarPlannerAssumption
<1>2. votes_size \div 3 \in Nat /\ 3 * (votes_size \div 3) <= votes_size
      /\ votes_size < 3 * (votes_size \div 3) + 3
  BY <1>1
<1>3. votes_size \div 2 \in Nat /\ 2 * (votes_size \div 2) <= votes_size
      /\ votes_size < 2 * (votes_size \div 2) + 2
  BY <1>1
<1>4. /\ Joining \in Nat /\ Joining >= votes_size - votes_size \div 3 - 1 /\ Joining >= Half
      /\ Half \in Nat
  BY <1>1, <1>2, <1>3 DEF Joining, Half
<1>5. Outvoted \in Nat /\ Outvoted >= 1 /\ Outvoted - 1 = Joining /\ Outvoted >= Half + 1
      /\ Outvoted >= votes_size - votes_size \div 3
  BY <1>1, <1>2, <1>4 DEF Outvoted
<1>6. ASSUME NEW n \in Nat, NEW k \in Nat, n <= votes_size, k >= Outvoted
      PROVE  n - k <= n \div 3
  <2>1. n \div 3 \in Nat /\ 3 * (n \div 3) <= n /\ n < 3 * (n \div 3) + 3
    OBVIOUS
  <2> QED BY <1>1, <1>2, <1>5, <1>6, <2>1
<1>7. ASSUME NEW n \in Nat, NEW k \in Nat, n <= votes_size, n - k > n \div 2
      PROVE  k + 1 <= Half
  <2>1. n \div 2 \in Nat /\ 2 * (n \div 2) <= n /\ n < 2 * (n \div 2) + 2
    OBVIOUS
  <2> QED BY <1>1, <1>3, <1>7, <2>1 DEF Half
<1> QED BY <1>4, <1>5, <1>6, <1>7

LEMMA WithinSlack ==
  ASSUME NEW k \in Nat, k >= 1, NEW c \in Nat, NEW n \in Nat, n + 1 <= k
  PROVE  n <= k - 1 + c
OBVIOUS

LEMMA SlackGrows ==
  ASSUME NEW k \in Nat, NEW c \in Nat, NEW d \in Nat, c <= d,
         NEW n \in Nat, n <= k - 1 + c
  PROVE  n <= k - 1 + d
OBVIOUS

(* There are no more votes for the goal than places for them.               *)
LEMMA VotesFor ==
  ASSUME NEW v \in Seq({0, 1}), NEW top \in Nat,
         \A i \in 1 .. Len(v) : i > top => v[i] = 0
  PROVE  /\ Cardinality({i \in DOMAIN v : v[i] = 1}) \in Nat
         /\ Cardinality({i \in DOMAIN v : v[i] = 1}) <= top
<1> DEFINE ones == {i \in DOMAIN v : v[i] = 1}
<1>1. ones \subseteq 1 .. top
  OBVIOUS
<1>2. IsFiniteSet(1 .. top) /\ Cardinality(1 .. top) = top
  <2>1. 1 \in Int /\ top \in Int /\ (IF 1 > top THEN 0 ELSE top - 1 + 1) = top
    OBVIOUS
  <2>2. IsFiniteSet(1 .. top) /\ Cardinality(1 .. top) = IF 1 > top THEN 0 ELSE top - 1 + 1
    BY <2>1, FS_Interval
  <2> QED BY <2>1, <2>2
<1>3. Cardinality(ones) <= top
  BY <1>1, <1>2, FS_Subset
<1>4. Cardinality(ones) \in Nat
  BY <1>1, <1>2, FS_Subset, FS_CardinalityType
<1> QED BY <1>3, <1>4

(* If the newest Outvoted votes are against, they have the majority; and if *)
(* as many plans have passed since votes were reset, so have they.          *)
LEMMA NotVoted ==
  ASSUME NEW v \in Seq({0, 1}), Len(v) <= votes_size, NEW n \in Nat, n >= Outvoted,
         Against(v, n) \/ Renewed(v, n)
  PROVE  ~IsVoteTrue(v, 3)
<1> DEFINE for == Cardinality({i \in DOMAIN v : v[i] = 1})
<1>1. Len(v) \in Nat /\ Len(v) \div 3 \in Nat
  OBVIOUS
<1>2. ~(for > Len(v) \div 3) => ~IsVoteTrue(v, 3)
  BY DEF IsVoteTrue
<1>3. CASE Against(v, n)
  <2> DEFINE top == IF Len(v) >= n THEN Len(v) - n ELSE 0
  <2>1. top \in Nat /\ \A i \in 1 .. Len(v) : i > top => v[i] = 0
    BY <1>1, <1>3 DEF Against
  <2> HIDE DEF top
  <2>2. for \in Nat /\ for <= top
    BY <2>1, VotesFor
  <2>3. top <= Len(v) \div 3
    BY <1>1, OutvotedBound DEF top
  <2> HIDE DEF for
  <2> QED BY <1>1, <1>2, <2>1, <2>2, <2>3
<1>4. CASE Renewed(v, n)
  <2>1. for \in Nat /\ for <= 1
    BY <1>4, VotesFor DEF Renewed
  <2>2. Len(v) >= 3
    BY <1>1, <1>4, OutvotedBound DEF Renewed
  <2>3. Len(v) \div 3 >= 1
    BY <1>1, <2>2
  <2> HIDE DEF for
  <2> QED BY <1>1, <1>2, <2>1, <2>3
<1> QED BY <1>3, <1>4

(* A reset keeps a vote for the goal only while there is still half.        *)
LEMMA ResetVotes ==
  ASSUME NEW v \in Seq({0, 1}), Len(v) <= votes_size, NEW n \in Nat,
         Against(v, n) \/ Renewed(v, n)
  PROVE  Against(ResetPolygonVotes(v), n) \/ Renewed(ResetPolygonVotes(v), n)
<1> DEFINE new == ResetPolygonVotes(v)
           for == Cardinality({i \in DOMAIN v : v[i] = 1})
<1>1. CASE new = <<>> \/ new = <<0>>
  <2>1. \A i \in 1 .. Len(new) : new[i] = 0
    BY <1>1
  <2> QED BY <2>1 DEF Against
<1>2. CASE new = <<1>> /\ v # <<>> /\ IsVoteTrue(v, 2)
  <2>1. Len(v) \in Nat /\ Len(v) \div 2 \in Nat /\ for > Len(v) \div 2
    BY <1>2 DEF IsVoteTrue
  <2>2. n + 1 <= Half
    <3>1. CASE Against(v, n)
      <4> DEFINE top == IF Len(v) >= n THEN Len(v) - n ELSE 0
      <4>1. top \in Nat /\ \A i \in 1 .. Len(v) : i > top => v[i] = 0
        BY <2>1, <3>1 DEF Against
      <4> HIDE DEF top
      <4>2. for \in Nat /\ for <= top
        BY <4>1, VotesFor
      <4> HIDE DEF for
      <4>3. Len(v) - n > Len(v) \div 2
        BY <2>1, <4>1, <4>2 DEF top
      <4> QED BY <2>1, <4>3, OutvotedBound
    <3>2. CASE Renewed(v, n)
      <4>1. for \in Nat /\ for <= 1
        BY <3>2, VotesFor DEF Renewed
      <4> HIDE DEF for
      <4>2. Len(v) <= 1
        BY <2>1, <4>1
      <4> QED BY <2>1, <3>2, <4>2, OutvotedBound DEF Renewed
    <3> QED BY <3>1, <3>2
  <2>3. Len(<<1>>) = 1 /\ n + 2 <= Half + 1
    BY <2>2, OutvotedBound
  <2> QED BY <1>2, <2>3 DEF Renewed
<1> QED BY <1>1, <1>2 DEF ResetPolygonVotes

(* Without a view every vote is one against.                                *)
LEMMA VotesAgainst ==
  ASSUME FarInv, LostInv, ~Internav, NEW v \in Node \cup {Odom}
  PROVE  Against(GoalVotes({})[v], lost + 1) \/ Renewed(GoalVotes({})[v], lost + 1)
<1>1. GoalVotes({})[v] = IF v \notin graph \cup {Odom} \/ edge_votes[v] = <<>> THEN <<>>
                         ELSE Vote(edge_votes[v], 0)
  BY DEF GoalVotes, IsValidConnectToGoal
<1>2. CASE GoalVotes({})[v] = <<>>
  BY <1>2 DEF Against
<1>3. CASE GoalVotes({})[v] = Vote(edge_votes[v], 0)
  <2> DEFINE old == edge_votes[v]
             new == Vote(old, 0)
  <2>1. /\ old \in Seq({0, 1}) /\ Len(old) <= votes_size /\ Len(old) \in Nat
        /\ lost \in Nat
        /\ Against(old, lost) \/ Renewed(old, lost)
    BY DEF FarInv, VotesInv, LostInv
  <2>2. PICK d \in {0, 1} : /\ Len(new) = Len(old) + 1 - d
                            /\ \A i \in 1 .. Len(new) - 1 : new[i] = old[i + d]
    BY <2>1, VoteTyped
  <2>3. new[Len(new)] = 0 /\ Len(new) \in Nat
    BY <2>1, VoteTyped
  <2>4. GoalVotes({})[v] = new
    BY <1>3
  <2> HIDE DEF old, new
  <2>5. CASE Against(old, lost)
    <3> SUFFICES ASSUME NEW i \in 1 .. Len(new), i > Len(new) - (lost + 1) PROVE new[i] = 0
      BY <2>4 DEF Against
    <3>1. CASE i = Len(new)
      BY <2>3, <3>1
    <3>2. CASE i # Len(new)
      <4>1. i \in 1 .. Len(new) - 1 /\ i + d \in 1 .. Len(old) /\ i + d > Len(old) - lost
        BY <2>1, <2>2, <2>3, <3>2
      <4> QED BY <2>1, <2>2, <2>5, <4>1 DEF Against
    <3> QED BY <3>1, <3>2
  <2>6. CASE Renewed(old, lost)
    <3>1. ASSUME NEW i \in 1 .. Len(new), i + d >= 2 PROVE new[i] = 0
      <4>1. CASE i = Len(new)
        BY <2>3, <4>1
      <4>2. CASE i # Len(new)
        <5>1. i \in 1 .. Len(new) - 1 /\ i + d \in 1 .. Len(old)
          BY <2>1, <2>2, <2>3, <3>1, <4>2
        <5> QED BY <2>2, <2>6, <3>1, <5>1 DEF Renewed
      <4> QED BY <4>1, <4>2
    <3>2. CASE d = 1
      <4>1. \A i \in 1 .. Len(new) : new[i] = 0
        BY <3>1, <3>2
      <4> QED BY <2>4, <4>1 DEF Against
    <3>3. CASE d = 0
      <4>1. Half \in Nat /\ lost + 2 <= Half + Len(old) /\ Len(new) = Len(old) + 1
        BY <2>1, <2>2, <2>6, <3>3, OutvotedBound DEF Renewed
      <4>2. (lost + 1) + 2 <= Half + Len(new)
        BY <2>1, <4>1
      <4>3. \A i \in 1 .. Len(new) : i >= 2 => new[i] = 0
        BY <3>1, <3>3
      <4> QED BY <2>4, <4>2, <4>3 DEF Renewed
    <3> QED BY <3>2, <3>3
  <2> QED BY <2>1, <2>5, <2>6
<1> QED BY <1>1, <1>2, <1>3

(* What no edge joins is not reached.                                       *)
LEMMA NotJoined ==
  ASSUME NEW S, NEW E, NEW g, g # Odom, Odom \in S, \A e \in E : g \notin e
  PROVE  g \notin Reachable(S, E)
<1> SUFFICES ASSUME g \in Reachable(S, E) PROVE FALSE
  OBVIOUS
<1> DEFINE T == S \ {g}
<1>1. T \in SUBSET S /\ Odom \in T
  OBVIOUS
<1>2. \A e \in E : e \subseteq S /\ e \cap T # {} => e \subseteq T
  OBVIOUS
<1>3. g \in T
  BY <1>1, <1>2 DEF Reachable
<1> QED BY <1>3

(* Once the nodes are outvoted there is no path to a goal that is not seen. *)
LEMMA UnseenNotReached ==
  ASSUME FarInv, LostInv, goal_node_ptr_ # Nowhere,
         Internav => \A e \in edge : goal_node_ptr_ \notin e,
         ~Internav => lost + 1 >= Outvoted,
         NEW S, Odom \in S
  PROVE  goal_node_ptr_ \notin
           Reachable(S, PlanEdges(IF Internav THEN edge_votes ELSE GoalVotes({})))
<1> DEFINE votes == IF Internav THEN edge_votes ELSE GoalVotes({})
<1>1. goal_node_ptr_ # Odom
  BY FarPlannerAssumption DEF FarInv, GraphInv
<1>2. \A e \in PlanEdges(votes) : goal_node_ptr_ \notin e
  <2>1. CASE Internav
    BY <2>1 DEF PlanEdges
  <2>2. CASE ~Internav
    <3>1. Connected(votes) = {}
      <4> SUFFICES ASSUME NEW v \in Node \cup {Odom} PROVE ~IsVoteTrue(votes[v], 3)
        BY DEF Connected, FarInv, GraphInv
      <4>1. votes[v] \in Seq({0, 1}) /\ Len(votes[v]) <= votes_size
        BY <2>2, GoalVotesTyped DEF FarInv
      <4>2. Against(votes[v], lost + 1) \/ Renewed(votes[v], lost + 1)
        BY <2>2, VotesAgainst
      <4>3. lost + 1 \in Nat /\ lost + 1 >= Outvoted
        BY <2>2 DEF LostInv
      <4> HIDE DEF votes
      <4> QED BY <4>1, <4>2, <4>3, NotVoted
    <3>2. PlanEdges(votes) = edge
      BY <3>1 DEF PlanEdges
    <3>3. goal_node_ptr_ \notin graph \cup {Odom}
      BY <1>1, <2>2, FarPlannerAssumption DEF FarInv, GraphInv, Internav
    <3>4. \A e \in edge : e \subseteq graph \cup {Odom}
      BY PairOfTwo DEF FarInv, GraphInv
    <3> QED BY <3>2, <3>3, <3>4
  <2> QED BY <2>1, <2>2
<1> QED BY <1>1, <1>2, NotJoined

(* A goal that has just been seen, or given, owes nothing.                  *)
LEMMA LostNone ==
  ASSUME FarInv', lost' = 0
  PROVE  LostInv'
<1>1. path_momentum_counter_' \in Nat /\ Outvoted \in Nat /\ Outvoted >= 1
  BY FarPlannerAssumption, OutvotedBound DEF FarInv, PathInv
<1>2. ASSUME NEW v \in Node \cup {Odom} PROVE Against(edge_votes'[v], lost')
  <2>1. Len(edge_votes'[v]) \in Nat
    BY DEF FarInv, VotesInv
  <2> QED BY <2>1 DEF Against
<1>3. lost' \in Nat /\ lost' <= path_momentum_counter_'
      /\ lost' <= Outvoted - 1 + path_momentum_counter_'
  <2>1. lost' \in Nat
    OBVIOUS
  <2>2. lost' <= path_momentum_counter_'
    BY <1>1
  <2>3. lost' + 1 <= Outvoted
    BY <1>1
  <2>4. lost' <= Outvoted - 1 + path_momentum_counter_'
    BY <1>1, <2>1, <2>3, WithinSlack
  <2> QED BY <2>1, <2>2, <2>4
<1> QED BY <1>2, <1>3 DEF LostInv

LEMMA LostPlanning ==
  ASSUME FarInv, LostInv, NEW seeing \in SUBSET (graph \cup {Odom}), NEW inFree \in BOOLEAN,
         NEW arrived \in BOOLEAN, NEW onWay \in BOOLEAN,
         Planning(seeing, inFree, arrived, onWay), FarInv'
  PROVE  LostInv'
<1> DEFINE votes == IF Internav THEN edge_votes ELSE GoalVotes(seeing)
           reachable == Reachable(graph \cup {Odom, goal_node_ptr_}, PlanEdges(votes))
           freely == Reachable(covered \cup {Odom, goal_node_ptr_}, PlanEdges(votes))
           any == goal_node_ptr_ \in reachable
           free == inFree /\ goal_node_ptr_ \in freely
           view == IF Internav THEN UNION {e \ {goal_node_ptr_} : e \in
                                           {d \in edge : goal_node_ptr_ \in d}}
                   ELSE seeing
<1>1. /\ goal_node_ptr_ # Nowhere
      /\ lost' = IF goal_node_ptr_' = Nowhere \/ view # {} THEN 0 ELSE lost + 1
      /\ PathToGoal([any |-> any, free |-> free], arrived, onWay, votes)
  BY DEF Planning
<1>2. path_momentum_counter_' \in Nat /\ path_momentum_counter_ \in Nat /\ Outvoted \in Nat /\ Outvoted >= 1
  BY FarPlannerAssumption, OutvotedBound DEF FarInv, PathInv
<1>3. CASE lost' = 0
  BY <1>3, LostNone
<1>4. CASE goal_node_ptr_' # Nowhere /\ view = {}
  <2>1. lost' = lost + 1 /\ lost \in Nat
    BY <1>1, <1>4 DEF LostInv
  <2>2. ~Internav => seeing = {}
    BY <1>4
  <2>3. Internav => \A e \in edge : goal_node_ptr_ \notin e
    <3> SUFFICES ASSUME Internav, NEW e \in edge, goal_node_ptr_ \in e PROVE FALSE
      OBVIOUS
    <3>1. e \in Pairs(graph \cup {Odom})
      BY DEF FarInv, GraphInv
    <3>2. e \ {goal_node_ptr_} # {}
      BY <3>1, PairOfTwo
    <3> QED BY <1>4, <3>2
  <2>4. votes = IF Internav THEN edge_votes ELSE GoalVotes({})
    BY <2>2
  <2>5. Internav \/ lost + 1 >= Outvoted => ~any /\ ~free
    BY <1>1, <2>3, <2>4, UnseenNotReached
  <2> HIDE DEF votes, reachable, freely, any, free, view
  <2>6. /\ goal_node_ptr_' = goal_node_ptr_ /\ edge_votes' = votes
        /\ any \/ free \/ path_momentum_counter_' = path_momentum_counter_ + 1
    <3>1. ~GoalReset
      BY <1>4 DEF GoalReset
    <3>2. Follow => path_momentum_counter_' = path_momentum_counter_ + 1
                    /\ goal_node_ptr_' = goal_node_ptr_
      BY DEF Follow
    <3>3. RecordPathInfo => goal_node_ptr_' = goal_node_ptr_
      BY DEF RecordPathInfo
    <3> QED BY <1>1, <3>1, <3>2, <3>3 DEF PathToGoal
  <2>7. Internav' = Internav
    BY <2>6 DEF Internav
  <2>8. ~Internav => \A v \in Node \cup {Odom} :
                       Against(edge_votes'[v], lost') \/ Renewed(edge_votes'[v], lost')
    BY <2>1, <2>4, <2>6, VotesAgainst
  <2>9. /\ Internav => lost' <= path_momentum_counter_'
        /\ lost' <= Outvoted - 1 + path_momentum_counter_'
    <3>1. CASE Internav \/ lost + 1 >= Outvoted
      <4>1. path_momentum_counter_' = path_momentum_counter_ + 1
        BY <2>5, <2>6, <3>1
      <4>2. Internav => lost <= path_momentum_counter_
        BY DEF LostInv
      <4>3. lost <= Outvoted - 1 + path_momentum_counter_
        BY DEF LostInv
      <4> QED BY <1>2, <2>1, <4>1, <4>2, <4>3
    <3>2. CASE ~(Internav \/ lost + 1 >= Outvoted)
      <4>1. lost' \in Nat /\ lost' + 1 <= Outvoted
        BY <1>2, <2>1, <3>2
      <4>2. lost' <= Outvoted - 1 + path_momentum_counter_'
        BY <1>2, <4>1, WithinSlack
      <4> QED BY <3>2, <4>2
    <3> QED BY <3>1, <3>2
  <2> QED BY <2>1, <2>7, <2>8, <2>9 DEF LostInv
<1> QED BY <1>1, <1>3, <1>4

LEMMA LostNext == FarInv /\ FarInv' /\ LostInv /\ [FarNext]_farVars => LostInv'
<1> SUFFICES ASSUME FarInv, FarInv', LostInv, [FarNext]_farVars PROVE LostInv'
  OBVIOUS
<1>1. ASSUME UNCHANGED <<lost, path_momentum_counter_, goal_node_ptr_, edge_votes>>
      PROVE  LostInv'
  BY <1>1 DEF LostInv, Internav
<1>2. ASSUME lost' = 0 PROVE LostInv'
  BY <1>2, LostNone
<1>3. CASE UNCHANGED farVars
  BY <1>1, <1>3 DEF farVars, goalVars, pathVars, history
<1>4. CASE SenseCallBack \/ ResetGraphCallBack \/ Traverse
  BY <1>1, <1>4 DEF SenseCallBack, ResetGraphCallBack, Traverse, goalVars, pathVars, history
<1>5. ASSUME NEW on \in BOOLEAN, UpdateCommandCallBack(on) PROVE LostInv'
  BY <1>1, <1>5 DEF UpdateCommandCallBack, goalVars, pathVars, history
<1>6. ASSUME NEW on \in BOOLEAN, AttemptStatusCallBack(on) PROVE LostInv'
  <2>1. /\ UNCHANGED <<lost, goal_node_ptr_, edge_votes>>
        /\ path_momentum_counter_' \in {path_momentum_counter_, momentum_thred}
    BY <1>6 DEF AttemptStatusCallBack, goalVars, history
  <2>2. /\ path_momentum_counter_ \in Nat /\ momentum_thred \in Nat
        /\ path_momentum_counter_ <= path_momentum_counter_' /\ path_momentum_counter_' \in Nat
    BY <2>1, FarPlannerAssumption DEF FarInv, PathInv
  <2>3. lost' \in Nat /\ lost' <= Outvoted - 1 + path_momentum_counter_'
    <3>1. lost \in Nat /\ lost <= Outvoted - 1 + path_momentum_counter_ /\ Outvoted \in Nat
      BY OutvotedBound DEF LostInv
    <3>2. lost <= Outvoted - 1 + path_momentum_counter_'
      BY <2>2, <3>1, SlackGrows
    <3> QED BY <2>1, <3>1, <3>2
  <2>4. Internav' = Internav /\ (Internav => lost' <= path_momentum_counter_')
    <3>1. lost \in Nat /\ (Internav => lost <= path_momentum_counter_)
      BY DEF LostInv
    <3> QED BY <2>1, <2>2, <3>1 DEF Internav
  <2> QED BY <2>1, <2>3, <2>4 DEF LostInv
<1>7. ASSUME NEW g \in Goals, WaypointCallBack(g) PROVE LostInv'
  BY <1>2, <1>7 DEF WaypointCallBack
<1>8. CASE ResetEnvironmentAndGraph
  BY <1>2, <1>8 DEF ResetEnvironmentAndGraph
<1>9. ASSUME NEW kept \in SUBSET graph, NEW found \in SUBSET (Node \ graph),
             NEW changed \in SUBSET (kept \ NavPoint),
             NEW joined \in SUBSET Pairs(kept \cup found \cup {Odom}),
             NEW close \in SUBSET (kept \cup found), NEW seen \in SUBSET close,
             UpdateNavGraph(kept, found, changed, joined, close, seen)
      PROVE  LostInv'
  <2>1. UNCHANGED <<lost, path_momentum_counter_, goal_node_ptr_>>
    BY <1>9 DEF UpdateNavGraph, pathVars, history
  <2>2. \A v \in Node \cup {Odom} :
          edge_votes'[v] \in {<<>>, edge_votes[v], ResetPolygonVotes(edge_votes[v])}
    BY <1>9 DEF UpdateNavGraph
  <2>3. ASSUME ~Internav, NEW v \in Node \cup {Odom}
        PROVE  Against(edge_votes'[v], lost) \/ Renewed(edge_votes'[v], lost)
    <3>1. /\ edge_votes[v] \in Seq({0, 1}) /\ Len(edge_votes[v]) <= votes_size /\ lost \in Nat
          /\ Against(edge_votes[v], lost) \/ Renewed(edge_votes[v], lost)
      BY <2>3 DEF FarInv, VotesInv, LostInv
    <3>2. Against(<<>>, lost)
      BY DEF Against
    <3>3. \/ Against(ResetPolygonVotes(edge_votes[v]), lost)
          \/ Renewed(ResetPolygonVotes(edge_votes[v]), lost)
      BY <3>1, ResetVotes
    <3> QED BY <2>2, <3>1, <3>2, <3>3
  <2> QED BY <2>1, <2>3 DEF LostInv, Internav
<1>10. ASSUME NEW seeing \in SUBSET (graph \cup {Odom}), NEW inFree \in BOOLEAN,
              NEW arrived \in BOOLEAN, NEW onWay \in BOOLEAN,
              Planning(seeing, inFree, arrived, onWay)
       PROVE  LostInv'
  BY <1>10, LostPlanning
<1> QED BY <1>3, <1>4, <1>5, <1>6, <1>7, <1>8, <1>9, <1>10
       DEF FarNext, Subscriptions, MainLoop, Plan

(* A goal that no node sees any more is dropped after as many plans as it   *)
(* takes to outvote what was seen before, and then the momentum of the path *)
(* followed, for any number of votes and any momentum, whatever changes and *)
(* however often corners have their votes reset.                            *)
THEOREM LostGoal == FarSpec => []LostGoalIsDropped
<1>1. FarInit => LostInv
  <2> SUFFICES ASSUME FarInit PROVE LostInv
    OBVIOUS
  <2>1. \A v \in Node \cup {Odom} : edge_votes[v] = <<>>
    BY NoVotesTyped DEF FarInit
  <2>2. Against(<<>>, lost)
    BY DEF Against
  <2>3. lost = 0 /\ path_momentum_counter_ = 0 /\ 0 <= Outvoted - 1 + 0
    BY OutvotedBound DEF FarInit
  <2> QED BY <2>1, <2>2, <2>3 DEF LostInv
<1>2. FarInv /\ LostInv => LostGoalIsDropped
  <2> SUFFICES ASSUME FarInv, LostInv PROVE LostGoalIsDropped
    OBVIOUS
  <2>1. path_momentum_counter_ \in Nat /\ path_momentum_counter_ <= momentum_thred
    BY FarPlannerAssumption DEF FarInv, PathInv
  <2>2. Outvoted - 1 = Joining /\ Joining \in Nat /\ momentum_thred \in Nat
    BY FarPlannerAssumption, OutvotedBound
  <2> QED BY <2>1, <2>2 DEF LostInv, LostGoalIsDropped
<1> QED BY <1>1, <1>2, LostNext, FarInvariance, PTL DEF FarSpec
=============================================================================
