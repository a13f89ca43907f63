----------------------------- MODULE MCPlanners -----------------------------
(***************************************************************************)
(* The two planners on small instances.  LocalPlanner: two options, one of *)
(* them wanted to the left and both ahead; scales 1, 3/4 and 1/2 in        *)
(* quarters, ranges in metres; an option is blocked at the vehicle or at   *)
(* three metres.  FarPlanner: a node on the trajectory and a corner, one   *)
(* of them in the graph at a time, two more goals; three votes and two     *)
(* plans of momentum, so that a goal is lost with votes and momentum left, *)
(* and a reset of the corner's votes prolongs them.  They are two          *)
(* processes, of which the model shares nothing, so a behaviour explores   *)
(* one of the two: focus says which.                                       *)
(***************************************************************************)
EXTENDS LocalPlanner, FarPlanner

CONSTANTS left, right, mid, corner, here, yonder
MCOption == {left, right}
MCScored == [d \in {"left", "ahead"} |-> IF d = "left" THEN {left} ELSE {left, right}]
MCWanted == {"left", "ahead"}
MCSpeed == {0, 3, 4}
MCGoalDis == {2, 4}
MCBlockDis == {0, 3}
MCNode == {mid, corner}
MCNavPoint == {mid}
MCPlace == {here, yonder}

VARIABLE focus

localVars == vars
plannersVars == <<focus, localVars, farVars>>

(* Of the planner that is left aside one initial state is enough.          *)
PlannersInit ==
  /\ focus \in {"local", "far"} /\ Init /\ FarInit
  /\ focus = "local" => ~is_free_nav_goal_
  /\ focus = "far" =>
       joySpeed = 0 /\ joyDir = "left" /\ ~autonomyMode /\ ~checkObstacle

PlannersNext ==
  /\ UNCHANGED focus
  /\ \/ focus = "local" /\ Next /\ UNCHANGED farVars
     \/ focus = "far" /\ FarNext /\ UNCHANGED localVars

PlannersSpec ==
  /\ PlannersInit /\ [][PlannersNext]_plannersVars
  /\ WF_localVars(focus = "local" /\ StartSearch)
  /\ WF_localVars(focus = "local" /\ Search)

(* The state of both is well typed.                                        *)
TypesOK == TypeOK /\ FarTypeOK
=============================================================================
