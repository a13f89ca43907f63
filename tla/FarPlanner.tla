----------------------------- MODULE FarPlanner -----------------------------
(***************************************************************************)
(* far_planner.cpp, graph_planner.cpp: one thread runs the subscriptions   *)
(* and two timers.  MainLoop keeps the visibility graph of the navigation  *)
(* nodes, Planning joins the goal to it, looks for a path and publishes    *)
(* the waypoint that localPlanner drives to.                               *)
(*                                                                         *)
(* Positions are abstracted to what is decided with them: which nodes are  *)
(* joined, near or see the goal, whether the robot has arrived and whether *)
(* it is still on the way to its last waypoint.  A goal is a node of its   *)
(* own or the trajectory node it is close to; other nodes are corners.     *)
(***************************************************************************)
EXTENDS Integers, Sequences, FiniteSets

CONSTANTS
  Odom, Node,       \* the robot's node, the other navigation nodes
  NavPoint,         \* nodes on the robot's trajectory
  Place,            \* bound: goals that get a node of their own
  MaxNodes,         \* bound: nodes in the graph at a time
  Nowhere, Robot,   \* no goal, the robot's own position
  votes_size, momentum_thred, is_autoswitch

ASSUME FarPlannerAssumption ==
  /\ NavPoint \subseteq Node /\ Node \cap Place = {}
  /\ Odom \notin Node \cup Place /\ {Nowhere, Robot} \cap (Node \cup Place) = {}
  /\ MaxNodes \in Nat
  /\ votes_size \in Nat \ {0} /\ momentum_thred \in Nat /\ is_autoswitch \in BOOLEAN

VARIABLES
  sensed,             \* is_odom_init_ and is_cloud_init_
  is_graph_init_, is_reset_env_, is_stop_update_, is_planner_running_,
  graph, edge,        \* nodes but odom and goal, pairs of them or odom joined
  near, covered, is_traversable, is_block_to_goal,  \* sets of nodes
  edge_votes,         \* of a node with the goal, <<>> before the first
  goal_node_ptr_, is_goal_init_,
  is_free_nav_goal_, command_is_free_nav_,
  is_global_path_init_, recorded_path_,  \* the goal it leads to
  path_momentum_counter_,
  waypoint,           \* last published: where to, and for which goal
  lost,               \* history: plans since a node last saw the goal
  inView              \* history: the robot saw the goal at the last plan

graphVars == <<graph, edge, near, covered>>
goalVars == <<edge_votes, goal_node_ptr_, is_goal_init_, is_block_to_goal>>
pathVars == <<is_free_nav_goal_, is_global_path_init_, recorded_path_,
              path_momentum_counter_>>
history == <<lost, inView>>
farVars == <<sensed, is_graph_init_, is_reset_env_, is_stop_update_,
             is_planner_running_, graphVars, is_traversable, goalVars, pathVars,
             command_is_free_nav_, waypoint, history>>

Goals == NavPoint \cup Place
NoVotes == [v \in Node \cup {Odom} |-> <<>>]
Pairs(S) == {{a, b} : a, b \in S} \ {{a} : a \in S}

FarInit ==
  /\ sensed = FALSE
  /\ is_graph_init_ = FALSE /\ is_reset_env_ = FALSE /\ is_stop_update_ = FALSE
  /\ is_planner_running_ = FALSE
  /\ graph = {} /\ edge = {} /\ near = {} /\ covered = {}
  /\ is_traversable = {} /\ is_block_to_goal = {}
  /\ edge_votes = NoVotes
  /\ goal_node_ptr_ = Nowhere /\ is_goal_init_ = FALSE
  /\ is_free_nav_goal_ \in BOOLEAN /\ command_is_free_nav_ = FALSE
  /\ is_global_path_init_ = FALSE /\ recorded_path_ = Nowhere
  /\ path_momentum_counter_ = 0
  /\ waypoint = [to |-> Robot, for |-> Nowhere]
  /\ lost = 0 /\ inView = FALSE

-----------------------------------------------------------------------------
(* Subscriptions.                                                          *)

(* Odometry, then terrain with obstacles.                                  *)
SenseCallBack ==
  /\ ~sensed /\ sensed' = TRUE
  /\ UNCHANGED <<is_graph_init_, is_reset_env_, is_stop_update_, is_planner_running_,
                 graphVars, is_traversable, goalVars, pathVars, command_is_free_nav_,
                 waypoint, history>>

ResetGraphCallBack ==
  /\ is_reset_env_' = TRUE
  /\ UNCHANGED <<sensed, is_graph_init_, is_stop_update_, is_planner_running_,
                 graphVars, is_traversable, goalVars, pathVars, command_is_free_nav_,
                 waypoint, history>>

UpdateCommandCallBack(update) ==
  /\ is_stop_update_' = ~update
  /\ UNCHANGED <<sensed, is_graph_init_, is_reset_env_, is_planner_running_,
                 graphVars, is_traversable, goalVars, pathVars, command_is_free_nav_,
                 waypoint, history>>

AttemptStatusCallBack(attempt) ==
  /\ command_is_free_nav_' = ~attempt
  /\ path_momentum_counter_' = IF command_is_free_nav_ = attempt THEN momentum_thred
                               ELSE path_momentum_counter_
  /\ UNCHANGED <<sensed, is_graph_init_, is_reset_env_, is_stop_update_,
                 is_planner_running_, graphVars, is_traversable, goalVars,
                 is_free_nav_goal_, is_global_path_init_, recorded_path_, waypoint,
                 history>>

(* A goal replaces the one before it, whose node leaves the graph with its *)
(* votes.                                                                  *)
(* Mutant: the path recorded for the goal before it is kept. *)
UpdateGoalKeptPath(g) ==
  /\ goal_node_ptr_' = g /\ is_goal_init_' = TRUE
  /\ edge_votes' = NoVotes /\ is_block_to_goal' = {}
  /\ UNCHANGED <<is_global_path_init_, recorded_path_>>
  /\ is_free_nav_goal_' = command_is_free_nav_
  /\ path_momentum_counter_' = 0

UpdateGoal(g) ==
  /\ goal_node_ptr_' = g /\ is_goal_init_' = TRUE
  /\ edge_votes' = NoVotes /\ is_block_to_goal' = {}
  /\ is_global_path_init_' = FALSE /\ recorded_path_' = Nowhere
  /\ is_free_nav_goal_' = command_is_free_nav_
  /\ path_momentum_counter_' = 0

WaypointCallBack(g) ==
  /\ is_graph_init_
  /\ g \in graph \cup Place
  /\ UpdateGoal(g)
  /\ lost' = 0 /\ inView' = FALSE
  /\ UNCHANGED <<sensed, is_graph_init_, is_reset_env_, is_stop_update_,
                 is_planner_running_, graphVars, is_traversable,
                 command_is_free_nav_, waypoint>>

-----------------------------------------------------------------------------
(* MainLoop: a reset drops graph, goal and path and stops the robot.       *)
ResetEnvironmentAndGraph ==
  /\ is_reset_env_ /\ is_reset_env_' = FALSE
  /\ is_planner_running_' = FALSE /\ is_graph_init_' = FALSE
  /\ graph' = {} /\ edge' = {} /\ near' = {} /\ covered' = {}
  /\ is_traversable' = {}
  /\ goal_node_ptr_' = Nowhere /\ is_goal_init_' = FALSE
  /\ edge_votes' = NoVotes /\ is_block_to_goal' = {}
  /\ is_global_path_init_' = FALSE /\ recorded_path_' = Nowhere
  /\ is_free_nav_goal_' = FALSE /\ path_momentum_counter_' = 0
  /\ waypoint' = [to |-> Robot, for |-> Nowhere]
  /\ lost' = 0 /\ inView' = FALSE
  /\ UNCHANGED <<sensed, is_stop_update_, command_is_free_nav_>>

(* Votes: sum > floor(N / factor), 2 if they are balanced, else 3.          *)
IsVoteTrue(v, factor) == Cardinality({i \in DOMAIN v : v[i] = 1}) > Len(v) \div factor

(* Mutant: a reset asks for as many votes as the goal's connection does. *)
ResetPolygonVotesThird(v) ==
  IF v = <<>> THEN <<>> ELSE IF IsVoteTrue(v, 3) THEN <<1>> ELSE <<0>>

(* What is left of the votes of a corner with new points around it.         *)
ResetPolygonVotes(v) ==
  IF v = <<>> THEN <<>> ELSE IF IsVoteTrue(v, 2) THEN <<1>> ELSE <<0>>

(* MainLoop else: false corners but the goal leave the graph, new ones     *)
(* enter it, as reachable as if there were a path, and corners that changed *)
(* have their votes reset, unless updates are stopped.  The robot's own     *)
(* edges always follow it.                                                 *)
UpdateNavGraph(kept, found, changed, joined, close, seen) ==
  /\ ~is_reset_env_ /\ sensed
  /\ graph \cap {goal_node_ptr_} \subseteq kept
  /\ graph' = kept \cup found /\ Cardinality(graph') <= MaxNodes
  /\ is_stop_update_ =>
       /\ kept = graph /\ found = {} /\ changed = {} /\ seen = {}
       /\ \A e \in Pairs(graph) : e \in joined <=> e \in edge
  /\ edge' = joined /\ near' = close \cup found
  /\ covered' = (covered \cap kept) \cup seen \cup (found \cap NavPoint)
  /\ is_traversable' = (is_traversable \ (graph \ kept)) \cup found
                       \cup (IF is_graph_init_ THEN {} ELSE {Odom})
  /\ is_block_to_goal' = is_block_to_goal \ (graph \ kept)
  /\ edge_votes' = [v \in Node \cup {Odom} |->
                      IF v \in graph \ kept THEN <<>>
                      ELSE IF v \in changed THEN ResetPolygonVotes(edge_votes[v])
                      ELSE edge_votes[v]]
  /\ is_graph_init_' = TRUE
  /\ UNCHANGED <<sensed, is_reset_env_, is_stop_update_, is_planner_running_,
                 goal_node_ptr_, is_goal_init_, pathVars, command_is_free_nav_,
                 waypoint, history>>

-----------------------------------------------------------------------------
(* Planning.                                                               *)

(* UpdateGraphTraverability: what is joined to the robot, through S only.  *)
Reachable(S, E) ==
  {v \in S : \A T \in SUBSET S :
     (Odom \in T /\ \A e \in E : e \subseteq S /\ e \cap T # {} => e \subseteq T)
       => v \in T}

(* The votes of a node and the goal.                                        *)
Vote(v, bit) ==
  LET all == Append(v, bit) IN IF Len(all) > votes_size THEN Tail(all) ELSE all

Internav == goal_node_ptr_ \in NavPoint
IsValidConnectToGoal(v, seeing) ==
  /\ v \in seeing \cap is_traversable
  /\ v \in is_block_to_goal => v \in near \cup {Odom}

(* Mutant: what the robot sees itself is one vote among the others. *)
GoalVotesEqual(seeing) ==
  [v \in Node \cup {Odom} |->
     IF v \notin graph \cup {Odom} THEN <<>>
     ELSE IF IsValidConnectToGoal(v, seeing) THEN Vote(edge_votes[v], 1)
     ELSE IF edge_votes[v] = <<>> THEN <<>> ELSE Vote(edge_votes[v], 0)]

(* UpdateGoalNavNodeConnects: the robot's own view outvotes all before it. *)
GoalVotes(seeing) ==
  [v \in Node \cup {Odom} |->
     IF v \notin graph \cup {Odom} THEN <<>>
     ELSE IF IsValidConnectToGoal(v, seeing)
       THEN IF v = Odom THEN <<1>> ELSE Vote(edge_votes[v], 1)
     ELSE IF edge_votes[v] = <<>> THEN <<>> ELSE Vote(edge_votes[v], 0)]

Connected(votes) == {v \in graph \cup {Odom} : votes[v] # <<>> /\ IsVoteTrue(votes[v], 3)}

GoalReset ==
  /\ goal_node_ptr_' = Nowhere /\ is_goal_init_' = FALSE
  /\ edge_votes' = NoVotes

(* The edges that a plan with these votes searches.                        *)
PlanEdges(votes) ==
  edge \cup (IF Internav THEN {} ELSE {{v, goal_node_ptr_} : v \in Connected(votes)})

(* command_is_free_nav_ asks for a path that was seen to be free; with     *)
(* is_autoswitch another one will do.                                      *)
FreeNav(free) ==
  IF ~command_is_free_nav_ THEN FALSE
  ELSE IF is_autoswitch
    THEN free \/ (is_free_nav_goal_ /\ is_global_path_init_
                  /\ path_momentum_counter_ < momentum_thred)
    ELSE free \/ is_free_nav_goal_

(* The path followed so far, for momentum_thred plans at most.             *)
MayFollow == is_global_path_init_ /\ path_momentum_counter_ < momentum_thred
Follow ==
  /\ MayFollow
  /\ path_momentum_counter_' = path_momentum_counter_ + 1
  /\ waypoint' = [to |-> recorded_path_, for |-> goal_node_ptr_]
  /\ is_planner_running_' = TRUE
  /\ UNCHANGED <<is_global_path_init_, recorded_path_, goal_node_ptr_, is_goal_init_>>

RecordPathInfo ==
  /\ recorded_path_' = goal_node_ptr_ /\ is_global_path_init_' = TRUE
  /\ path_momentum_counter_' = 0
  /\ waypoint' = [to |-> goal_node_ptr_, for |-> goal_node_ptr_]
  /\ is_planner_running_' = TRUE
  /\ UNCHANGED <<goal_node_ptr_, is_goal_init_>>

Fail ==
  /\ is_planner_running_' = FALSE
  /\ waypoint' = IF is_planner_running_ THEN [to |-> Robot, for |-> goal_node_ptr_]
                 ELSE waypoint
  /\ UNCHANGED <<is_global_path_init_, recorded_path_, path_momentum_counter_>>

Arrive ==
  /\ waypoint' = [to |-> goal_node_ptr_, for |-> goal_node_ptr_]
  /\ is_planner_running_' = TRUE
  /\ UNCHANGED pathVars

(* PathToGoal and what is published of it.  onWay: too early to turn away  *)
(* from the last waypoint.                                                 *)
PathToGoal(reach, arrived, onWay, votes) ==
  \/ arrived /\ Arrive /\ GoalReset
  \/ /\ ~arrived
     /\ is_free_nav_goal_' = FreeNav(reach.free)
     /\ LET path == IF is_free_nav_goal_' THEN reach.free ELSE reach.any IN
        \/ (path => onWay) /\ Follow /\ edge_votes' = votes
        \/ path /\ (MayFollow => ~onWay) /\ RecordPathInfo /\ edge_votes' = votes
        \/ ~path /\ ~MayFollow /\ Fail /\ GoalReset

(* Who sees the goal, whether it lies in free space.                       *)
Planning(seeing, inFree, arrived, onWay) ==
  LET votes == IF Internav THEN edge_votes ELSE GoalVotes(seeing)
      all == graph \cup {Odom, goal_node_ptr_}
      reachable == Reachable(all, PlanEdges(votes))
      freely == Reachable(covered \cup {Odom, goal_node_ptr_}, PlanEdges(votes))
      view == IF Internav THEN UNION {e \ {goal_node_ptr_} : e \in
                                      {d \in edge : goal_node_ptr_ \in d}}
              ELSE seeing
  IN /\ is_graph_init_ /\ goal_node_ptr_ # Nowhere /\ is_goal_init_
     /\ is_block_to_goal' = IF Internav THEN is_block_to_goal
                            ELSE (graph \cup {Odom}) \ Connected(votes)
     /\ is_traversable' = reachable \cap (Node \cup {Odom})
     /\ PathToGoal([any |-> goal_node_ptr_ \in reachable,
                    free |-> inFree /\ goal_node_ptr_ \in freely],
                   arrived, onWay, votes)
     /\ lost' = IF goal_node_ptr_' = Nowhere \/ view # {} THEN 0 ELSE lost + 1
     /\ inView' = (Odom \in view)
     /\ UNCHANGED <<sensed, is_graph_init_, is_reset_env_, is_stop_update_, graphVars,
                    command_is_free_nav_>>

(* Without a goal only the reachable nodes are updated.                    *)
Traverse ==
  /\ is_graph_init_ /\ goal_node_ptr_ = Nowhere
  /\ is_traversable' = Reachable(graph \cup {Odom}, edge)
  /\ UNCHANGED <<sensed, is_graph_init_, is_reset_env_, is_stop_update_,
                 is_planner_running_, graphVars, goalVars, pathVars,
                 command_is_free_nav_, waypoint, history>>

Subscriptions ==
  \/ SenseCallBack \/ ResetGraphCallBack
  \/ \E on \in BOOLEAN : UpdateCommandCallBack(on) \/ AttemptStatusCallBack(on)
  \/ \E g \in Goals : WaypointCallBack(g)

MainLoop ==
  \/ ResetEnvironmentAndGraph
  \/ \E kept \in SUBSET graph, found \in SUBSET (Node \ graph) :
       \E changed \in SUBSET (kept \ NavPoint), close \in SUBSET (kept \cup found),
          joined \in SUBSET Pairs(kept \cup found \cup {Odom}) :
         \E seen \in SUBSET close :
           UpdateNavGraph(kept, found, changed, joined, close, seen)

Plan ==
  \/ \E seeing \in SUBSET (graph \cup {Odom}), inFree, arrived, onWay \in BOOLEAN :
       Planning(seeing, inFree, arrived, onWay)
  \/ Traverse

FarNext == Subscriptions \/ MainLoop \/ Plan

FarSpec == FarInit /\ [][FarNext]_farVars

-----------------------------------------------------------------------------
FarTypeOK ==
  /\ {sensed, is_graph_init_, is_reset_env_, is_stop_update_, is_planner_running_,
      is_goal_init_, is_free_nav_goal_, command_is_free_nav_, is_global_path_init_,
      inView} \subseteq BOOLEAN
  /\ graph \subseteq Node /\ edge \subseteq Pairs(graph \cup {Odom})
  /\ near \cup covered \cup is_block_to_goal \cup is_traversable
       \subseteq graph \cup {Odom}
  /\ \A v \in Node \cup {Odom} :
       edge_votes[v] \in Seq({0, 1}) /\ Len(edge_votes[v]) <= votes_size
  /\ goal_node_ptr_ \in (graph \cap NavPoint) \cup Place \cup {Nowhere}
  /\ path_momentum_counter_ \in 0 .. momentum_thred

(* Plans that votes still join a goal which no node sees: until what was    *)
(* seen is no third of the votes any more; or while it is the half of them, *)
(* so that a reset renews it, and once more.                                *)
Joining ==
  LET third == votes_size - votes_size \div 3 - 1
      half == votes_size - votes_size \div 2
  IN IF third > half THEN third ELSE half

(* A goal that no node of the graph sees any more is not driven to for      *)
(* long: the votes that still join it are outvoted, and then the recorded   *)
(* path is followed momentum_thred times, whatever modes, nodes, votes and  *)
(* updates change in between.                                               *)
LostGoalIsDropped == lost <= Joining + momentum_thred

(* The robot is only ever sent towards the goal it was given last, never    *)
(* along a path recorded for another, or to where it stands; and it has     *)
(* been told to stop there when no plan is running.                         *)
RobotIsLed ==
  /\ waypoint.to \in {waypoint.for, Robot}
  /\ ~is_planner_running_ => waypoint.to = Robot

(* A goal in the robot's own view is not given up, whatever was voted       *)
(* before, unless only paths seen to be free are asked for.                 *)
GoalInViewKept ==
  [][goal_node_ptr_ # Nowhere /\ goal_node_ptr_' = Nowhere /\ is_graph_init_'
     /\ inView' /\ (is_autoswitch \/ ~is_free_nav_goal_')
       => waypoint'.to = goal_node_ptr_]_farVars
=============================================================================
