----------------------------- MODULE RslidarNode -----------------------------
(***************************************************************************)
(* The rslidar_sdk node: main() and its SIGINT handler                     *)
(* (node/rslidar_sdk_node.cpp), NodeManager (src/manager/node_manager.cpp) *)
(* and one SourceDriver (src/source/source_driver.hpp) with the two cloud  *)
(* queues between rs_driver's handle thread and the publishing thread.     *)
(*                                                                         *)
(* rs_driver itself is LidarDriver; here its handle thread only fills and  *)
(* splits clouds while the driver is started.  Both cloud queues have one  *)
(* producer and one consumer and are never cleared, so each is the FIFO    *)
(* that SyncQueue implements.                                              *)
(***************************************************************************)
EXTENDS Integers, Sequences, Functions

CONSTANTS Limit,       \* entries a cloud queue holds
          Cloud,       \* point cloud objects (numbers)
          NoCloud,     \* the empty shared_ptr
          MaxSplit,    \* bound: frames split off
          MaxSignal    \* bound: SIGINTs sent

ASSUME RslidarNodeAssumption ==
  Limit \in Nat \ {0} /\ Cloud \subseteq Nat /\ MaxSplit \in Nat /\ MaxSignal \in Nat

VARIABLES
  main,        \* where main() is
  signals,     \* SIGINTs delivered so far
  driver_ptr_, \* "none", "started" or "stopped": LidarDriver, and its handle thread
  splitting,   \* "decode" or "get": the handle thread within splitFrame()
  current_cloud_,            \* point_cloud_, the decoder's current cloud
  points,                    \* points[c]: 0, or the frame whose points c holds
  point_cloud_seq_,          \* frames split so far
  point_cloud_queue_, free_point_cloud_queue_,
  process,     \* point_cloud_process_thread_: pc and the cloud it sends
  joinable,    \* point_cloud_process_thread_.joinable()
  to_exit_process_,
  published    \* history: the frames sent, in order

cloudVars == <<current_cloud_, points, point_cloud_seq_, point_cloud_queue_>>
nodeVars == <<main, signals, driver_ptr_, splitting, cloudVars, free_point_cloud_queue_,
          process, joinable, to_exit_process_, published>>

NodeInit ==
  /\ main = "boot"
  /\ signals = 0
  /\ driver_ptr_ = "none"
  /\ splitting = "decode"
  /\ current_cloud_ = NoCloud
  /\ points = [c \in Cloud |-> 0]
  /\ point_cloud_seq_ = 0
  /\ point_cloud_queue_ = <<>>
  /\ free_point_cloud_queue_ = <<>>
  /\ process = [pc |-> "none", msg |-> NoCloud]
  /\ joinable = FALSE
  /\ to_exit_process_ = FALSE
  /\ published = <<>>

ReferencedClouds == Range(point_cloud_queue_) \cup Range(free_point_cloud_queue_)
                \cup {current_cloud_, process.msg}
NewCloud(c) == c \in Cloud \ ReferencedClouds /\ \A d \in Cloud \ ReferencedClouds : c <= d

(* getPointCloud(), of SourceDriver and then of LidarDriverImpl: recycle a *)
(* cloud or make one, without points.                                      *)
GetPointCloud ==
  \/ /\ free_point_cloud_queue_ # <<>>
     /\ current_cloud_' = Head(free_point_cloud_queue_)
     /\ free_point_cloud_queue_' = Tail(free_point_cloud_queue_)
     /\ points' = [points EXCEPT ![Head(free_point_cloud_queue_)] = 0]
  \/ /\ free_point_cloud_queue_ = <<>>
     /\ \E c \in Cloud :
          NewCloud(c) /\ current_cloud_' = c /\ points' = [points EXCEPT ![c] = 0]
     /\ UNCHANGED free_point_cloud_queue_
-----------------------------------------------------------------------------
(* NodeManager::init() and SourceDriver::init(): the publishing thread     *)
(* starts before the driver takes its first cloud.                         *)
MainInit ==
  /\ main = "boot"
  /\ main' = "initialised"
  /\ GetPointCloud
  /\ process' = [pc |-> "top", msg |-> NoCloud]
  /\ joinable' = TRUE
  /\ UNCHANGED <<signals, driver_ptr_, splitting, point_cloud_seq_, point_cloud_queue_,
                 to_exit_process_, published>>

MainStart ==
  /\ main = "initialised"
  /\ main' = "running"
  /\ driver_ptr_' = "started"
  /\ UNCHANGED <<signals, splitting, cloudVars, free_point_cloud_queue_, process, joinable,
                 to_exit_process_, published>>

(* g_cv.wait(lck): from here on a notification wakes main.                 *)
MainWait ==
  /\ main = "running"
  /\ main' = "waiting"
  /\ UNCHANGED <<signals, driver_ptr_, splitting, cloudVars, free_point_cloud_queue_, process, joinable,
                 to_exit_process_, published>>

(* sigHandler(): notify_all() wakes main only if it waits already.         *)
SigInt ==
  /\ main \in {"boot", "initialised", "running", "waiting"}
  /\ signals < MaxSignal
  /\ signals' = signals + 1
  /\ main' = IF main = "waiting" THEN "stopDriver" ELSE main
  /\ UNCHANGED <<driver_ptr_, splitting, cloudVars, free_point_cloud_queue_, process, joinable,
                 to_exit_process_, published>>

(* A condition variable may wake without a notification, and main() has no *)
(* predicate to wait again on.                                             *)
SpuriousWake ==
  /\ main = "waiting"
  /\ main' = "stopDriver"
  /\ UNCHANGED <<signals, driver_ptr_, splitting, cloudVars, free_point_cloud_queue_, process, joinable,
                 to_exit_process_, published>>

(* SourceDriver::stop(), from ~NodeManager and again from ~SourceDriver.   *)
(* The first half stops the driver, whose threads end between two packets: *)
(* LidarDriverImpl::stop() returns at once when it is stopped already.     *)
StopDriver ==
  /\ main \in {"stopDriver", "destroyDriver"}
  /\ driver_ptr_ = "started" => splitting = "decode"
  /\ driver_ptr_' = "stopped"
  /\ points' = IF driver_ptr_ = "started" THEN [points EXCEPT ![current_cloud_] = 0] ELSE points
  /\ to_exit_process_' = TRUE
  /\ main' = IF main = "stopDriver" THEN "join" ELSE "joinAgain"
  /\ UNCHANGED <<signals, splitting, current_cloud_, point_cloud_seq_, point_cloud_queue_,
                 free_point_cloud_queue_, process, joinable, published>>

(* The second half joins the publishing thread.                            *)
Join ==
  /\ main \in {"join", "joinAgain"}
  /\ joinable
  /\ process.pc = "none"
  /\ joinable' = FALSE
  /\ main' = IF main = "join" THEN "destroyDriver" ELSE "returned"
  /\ UNCHANGED <<signals, driver_ptr_, splitting, cloudVars, free_point_cloud_queue_, process,
                 to_exit_process_, published>>

(* std::thread::join() of a thread that is not joinable throws, and the    *)
(* destructor lets nothing escape: std::terminate().                       *)
JoinThrows ==
  /\ main \in {"join", "joinAgain"}
  /\ ~joinable
  /\ main' = "terminated"
  /\ UNCHANGED <<signals, driver_ptr_, splitting, cloudVars, free_point_cloud_queue_, process, joinable,
                 to_exit_process_, published>>
-----------------------------------------------------------------------------
(* The handle thread: a packet's points go to the current cloud ...        *)
AddPoints ==
  /\ driver_ptr_ = "started"
  /\ splitting = "decode"
  /\ points[current_cloud_] = 0
  /\ points' = [points EXCEPT ![current_cloud_] = point_cloud_seq_ + 1]
  /\ UNCHANGED <<main, signals, driver_ptr_, splitting, current_cloud_, point_cloud_seq_,
                 point_cloud_queue_, free_point_cloud_queue_, process, joinable,
                 to_exit_process_, published>>

(* ... and splitFrame() puts a cloud that has points.  putPointCloud()     *)
(* ignores that the queue may be full: then the cloud is lost.             *)
SplitPut ==
  /\ driver_ptr_ = "started"
  /\ splitting = "decode"
  /\ points[current_cloud_] # 0
  /\ point_cloud_seq_ < MaxSplit
  /\ point_cloud_seq_' = point_cloud_seq_ + 1
  /\ point_cloud_queue_' = IF Len(point_cloud_queue_) < Limit
                           THEN Append(point_cloud_queue_, current_cloud_)
                           ELSE point_cloud_queue_
  /\ splitting' = "get"
  /\ UNCHANGED <<main, signals, driver_ptr_, current_cloud_, points, free_point_cloud_queue_,
                 process, joinable, to_exit_process_, published>>

SplitGetSame ==   \* mutant: splitFrame() goes on with the cloud it has just put
  /\ splitting = "get"
  /\ points' = [points EXCEPT ![current_cloud_] = 0]
  /\ splitting' = "decode"
  /\ UNCHANGED <<main, signals, driver_ptr_, current_cloud_, point_cloud_seq_, point_cloud_queue_,
                 free_point_cloud_queue_, process, joinable, to_exit_process_, published>>

SplitGet ==
  /\ splitting = "get"
  /\ GetPointCloud
  /\ splitting' = "decode"
  /\ UNCHANGED <<main, signals, driver_ptr_, point_cloud_seq_, point_cloud_queue_, process,
                 joinable, to_exit_process_, published>>
-----------------------------------------------------------------------------
(* processPointCloud(), until main has gone.                               *)
Alive == main \notin {"returned", "terminated"}

ProcessTop ==
  /\ Alive /\ process.pc = "top"
  /\ process' = [process EXCEPT !.pc = IF to_exit_process_ THEN "none" ELSE "wait"]
  /\ UNCHANGED <<main, signals, driver_ptr_, splitting, cloudVars, free_point_cloud_queue_,
                 joinable, to_exit_process_, published>>

ProcessTimeoutEnds ==   \* mutant: "break" for "continue" when popWait() times out
  /\ Alive /\ process.pc = "wait"
  /\ point_cloud_queue_ = <<>>
  /\ process' = [process EXCEPT !.pc = "none"]
  /\ UNCHANGED <<main, signals, driver_ptr_, splitting, cloudVars, free_point_cloud_queue_,
                 joinable, to_exit_process_, published>>

ProcessTimeout ==
  /\ Alive /\ process.pc = "wait"
  /\ point_cloud_queue_ = <<>>
  /\ process' = [process EXCEPT !.pc = "top"]
  /\ UNCHANGED <<main, signals, driver_ptr_, splitting, cloudVars, free_point_cloud_queue_,
                 joinable, to_exit_process_, published>>

ProcessPopFreed ==   \* mutant: the cloud is recycled before it is sent
  /\ Alive /\ process.pc = "wait"
  /\ point_cloud_queue_ # <<>>
  /\ process' = [pc |-> "send", msg |-> Head(point_cloud_queue_)]
  /\ point_cloud_queue_' = Tail(point_cloud_queue_)
  /\ free_point_cloud_queue_' = Append(free_point_cloud_queue_, Head(point_cloud_queue_))
  /\ UNCHANGED <<main, signals, driver_ptr_, splitting, current_cloud_, points, point_cloud_seq_,
                 joinable, to_exit_process_, published>>

ProcessPop ==
  /\ Alive /\ process.pc = "wait"
  /\ point_cloud_queue_ # <<>>
  /\ process' = [pc |-> "send", msg |-> Head(point_cloud_queue_)]
  /\ point_cloud_queue_' = Tail(point_cloud_queue_)
  /\ UNCHANGED <<main, signals, driver_ptr_, splitting, current_cloud_, points, point_cloud_seq_,
                 free_point_cloud_queue_, joinable, to_exit_process_, published>>

(* sendPointCloud() converts and publishes the cloud's points ...          *)
ProcessSend ==
  /\ Alive /\ process.pc = "send"
  /\ published' = Append(published, points[process.msg])
  /\ process' = [process EXCEPT !.pc = "free"]
  /\ UNCHANGED <<main, signals, driver_ptr_, splitting, cloudVars, free_point_cloud_queue_,
                 joinable, to_exit_process_>>

(* ... and only then is the cloud free, if the free queue has room.        *)
ProcessFree ==
  /\ Alive /\ process.pc = "free"
  /\ free_point_cloud_queue_' = IF Len(free_point_cloud_queue_) < Limit
                                THEN Append(free_point_cloud_queue_, process.msg)
                                ELSE free_point_cloud_queue_
  /\ process' = [pc |-> "top", msg |-> NoCloud]
  /\ UNCHANGED <<main, signals, driver_ptr_, splitting, cloudVars, joinable, to_exit_process_, published>>
-----------------------------------------------------------------------------
MainStep    == MainInit \/ MainStart \/ MainWait \/ StopDriver \/ Join \/ JoinThrows
FillStep  == AddPoints \/ SplitPut \/ SplitGet
ProcessStep == ProcessTop \/ ProcessTimeout \/ ProcessPop \/ ProcessSend \/ ProcessFree

NodeNext == MainStep \/ SigInt \/ SpuriousWake \/ FillStep \/ ProcessStep

(* Threads are scheduled.  Nothing obliges the user to send a signal, the  *)
(* condition variable to wake spuriously or the lidar to send points.      *)
NodeFairness == WF_nodeVars(MainStep) /\ WF_nodeVars(SplitGet) /\ WF_nodeVars(ProcessStep)

NodeSpec == NodeInit /\ [][NodeNext]_nodeVars
FairNodeSpec == NodeSpec /\ NodeFairness
-----------------------------------------------------------------------------
NodeTypeOK ==
  /\ main \in {"boot", "initialised", "running", "waiting", "stopDriver", "join",
               "destroyDriver", "joinAgain", "returned", "terminated"}
  /\ signals \in 0 .. MaxSignal
  /\ driver_ptr_ \in {"none", "started", "stopped"}
  /\ splitting \in {"decode", "get"}
  /\ current_cloud_ \in Cloud \cup {NoCloud}
  /\ points \in [Cloud -> 0 .. MaxSplit + 1]
  /\ point_cloud_seq_ \in 0 .. MaxSplit
  /\ point_cloud_queue_ \in Seq(Cloud) /\ Len(point_cloud_queue_) <= Limit
  /\ free_point_cloud_queue_ \in Seq(Cloud) /\ Len(free_point_cloud_queue_) <= Limit
  /\ process \in [pc : {"none", "top", "wait", "send", "free"}, msg : Cloud \cup {NoCloud}]
  /\ joinable \in BOOLEAN /\ to_exit_process_ \in BOOLEAN
  /\ published \in Seq(0 .. MaxSplit + 1)

(* Clouds are published whole and in order: each message carries the       *)
(* points of one frame, none is published twice, empty or out of turn,     *)
(* although the objects are recycled through two queues and may be lost.   *)
PublishedInOrder ==
  /\ 0 \notin Range(published)
  /\ \A i, j \in DOMAIN published : i < j => published[i] < published[j]

(* A cloud has one owner at a time: the decoder, the queue of full clouds, *)
(* the publishing thread or the queue of free ones.                        *)
CloudExclusive ==
  LET decoding == IF splitting = "decode" THEN <<current_cloud_>> ELSE <<>>
      sending  == IF process.pc \in {"send", "free"} THEN <<process.msg>> ELSE <<>>
      owned    == decoding \o point_cloud_queue_ \o sending \o free_point_cloud_queue_
  IN  \A i, j \in DOMAIN owned : i # j => owned[i] # owned[j]

(* A queued cloud is published unless the node is being stopped.           *)
QueuedFrame(f) == \E c \in Range(point_cloud_queue_) : points[c] = f
QueuedIsPublished ==
  \A f \in 1 .. MaxSplit : QueuedFrame(f) ~> (f \in Range(published) \/ to_exit_process_)

(* What rs_driver's CHANGELOG says: "Fix the problem with repeated stop    *)
(* and start of driver".  A second stop() does no harm.                    *)
RepeatedStopHarmless == main # "terminated"
=============================================================================
