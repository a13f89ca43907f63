# TLA+ models of the ZBNav navigation stack

This directory specifies the parts of the repository whose behaviour depends on
order, threads, time and bounded resources. Every definition is translated from
the sources; `PROJECT.json` maps each one to the lines it stands for. TLC checks
small instances, TLAPS proves the central results for every value of the
constants.

    tlc -config Rslidar.cfg MCRslidar.tla     # any run: see "Runs"
    tlapm IkdTreeProofs.tla                   # any *Proofs module

## 1. The system

`src/README.md` describes a pipeline of ROS 2 nodes for a robot that maps,
plans and drives:

    RoboSense lidar -> rslidar_sdk -> rs_converter -> super_lio -+
                                                                 +-> /state_estimation, /registered_scan
    Odin sensor     -> odin_ros_driver --------------------------+            |
                                                                              v
             far_planner -> /way_point -> cmu_planner: terrain_analysis, localPlanner
                                                                              |
                                                                   /path      v
                                                     cmu_planner: pathFollower -> /cmd_vel

LI_init runs beforehand, to calibrate the lidar against the IMU.

Nodes interact by topics only: a message may be lost (best-effort topics),
delayed, or arrive between any two others. Inside a node there are two styles.
The drivers (rslidar_sdk, odin_ros_driver) and LI_init's map (ikd-Tree) are
multi-threaded C++ with atomics, plain flags, mutexes, condition variables,
counters and object pools. The estimator and the planners are single-threaded
executors or spin loops, where the difficulty is state that is carried from one
callback to the next.

### 1.1 Inventory

**rs_driver: SyncQueue** (`rs_driver/utility/sync_queue.hpp`). State: `buffer_`,
the atomic indices `head_` and `tail_`. Operations: `push`, `pop`, `popWait`,
`popBatch`, `clear`, `size`. Used by the packet queue, the free-packet queue and
the two cloud queues. Hard: lock-free, one producer and one consumer, every
access interleaves; indices wrap; `clear()` writes the other side's index.
Correct if: it is an atomic bounded FIFO; no slot is written while it is read;
nothing stays in it for ever.

**rs_driver: LidarDriverImpl and InputSock**
(`driver/lidar_driver_impl.hpp`, `driver/input/unix/input_sock_select.hpp`).
State: packet queue, free queue, packet buffers, current cloud, start/exit
flags. Threads: the caller (`init`, `start`, `stop`), the receive thread, the
handling thread. Hard: buffers passed between threads by reference count,
overflow handled by clearing the other thread's queue, plain `bool` exit flags,
restart. Correct if: every buffer has one owner, packets are decoded in order
and once, queued packets are decoded, `stop()` returns.

**rs_driver: decoders** (`driver/decoder/`). State: the split strategy (last
angle; blocks counted; packet numbers with their safe range), the cloud, the
time of its first point, whether DIFOP angles are there, blocks per frame.
Operations: a MSOP packet, a DIFOP packet. Hard: packets lost, overtaking each
other and repeated around the end of a frame; blocks per frame that change; a
cloud that overflows. Correct if: a cloud is a frame and a frame is a cloud.

**rslidar_sdk: SourceDriver, NodeManager, main**
(`src/source/source_driver.hpp`, `src/manager/node_manager.cpp`,
`node/rslidar_sdk_node.cpp`). State: free and full cloud queues, the publishing
thread, the `joinable` state of its handle, main's condition variable. Hard:
clouds recycled between decoder and publisher, SIGINT at any moment, `stop()`
called from two destructors. Correct if: clouds are published whole, in order,
once; shutdown ends.

**rslidar_sdk: ROS sources, offline inputs; rs_converter.** Conversions and
file readers that keep nothing between messages.

**super_lio** (`super_lio/src/ros/ROSWrapper.cpp`, `src/lio/super_lio.cpp`,
`ESKF.cpp`). State: IMU and lidar buffers and their last stamps,
`lidar_pushed_`, the current measure group, the state function
(`stateWaitKFInit`, `stateWaitMapInit`, `stateProcess`), the filter's clocks,
the propagated states. Operations: IMU handler, lidar handler, 2 ms timer.
Hard: two clocks that may be reset, loss, delay, and an undistortion that walks
a vector of states. Correct if: each scan is processed with exactly the samples
of its window; every new point of a scan finds the states around it; the timer
catches up. Beside it:
OctVoxMap (an LRU list of voxels), relocation mode, map files.

**odin_ros_driver** (`src/host_sdk_sample.cpp`, `include/host_sdk_sample.h`).
State: connection flags, device handle, IMU queue with mutex and condition
variable, IMU thread, parameter-monitor thread, map transfer flag, image and
cloud queues. Threads: the SDK's device and data callbacks, the IMU thread, the
monitor, main, detached transfer threads. Hard: attach and detach at any time,
failure at every stage of an attachment, threads started and joined across
callbacks, time-stamp pairing of two queues that overflow. Correct if: no
thread is started over a joinable one, threads follow the connection, samples
go out in their own connection (at most one does not), pairs are rendered once.
The depth, overlay and reprojection nodes and the registered-scan adapter keep
nothing, or one pose, between messages.

**cmu_planner: localPlanner**. State: joystick and speed inputs, obstacle-check
switch, the newest cloud, `pathScale`, `pathRange`. Operations: eight handlers
and a loop that answers each cloud. Hard: a search with two nested shrinking
parameters, one of them a global that must be restored. Correct if: paths end
before obstacles, get shorter when slow, and the search ends.

**cmu_planner: pathFollower**. State: speed wanted, safety stop, path, view of
it, slow-down and stop timers, driving direction, vehicle speed, publishing
counter. Operations: five handlers and a 100 Hz loop. Hard: a ramp with changing
target, direction switching, a stop that only every n-th turn publishes.
Correct if: stops arrive, speed changes gently, the vehicle reaches what is
asked and comes to rest.

**cmu_planner: others**. terrain_analysis (a rolling grid of voxels),
waypoint_example, vehicle_simulator; loam_interface, sensor_scan_generation and
visualization_tools relay messages.

**far_planner** (`far_planner.cpp`, `graph_planner.cpp`, `dynamic_graph.cpp`).
State: the visibility graph, the goal's node, the votes of each node on whether
it sees the goal, the planning mode, the recorded path and its momentum.
Operations: goal, reset, joystick, command and mode callbacks; a graph timer and
a planning timer. Hard: votes of earlier plans and paths of earlier goals
outlive what they were about; two modes that share them; a reset at any time.
Correct if: the robot is led to the goal given last and to no other, a goal that
is lost is given up soon, and one in view is not. Contours and maps are
geometry; boundary_handler and graph_decoder read files.

**LI_init: ikd-Tree** (`ikd_Tree.cpp`). State: the tree, the pointer to the
subtree to be rebuilt, the operation log and its flag, two mutexes, the search
counter. Threads: the rebuild thread, the mapping thread with its parallel
searches. Hard: a subtree is replaced while it is searched and inserted into.
Correct if: no search is in a tree that is flattened or exchanged, none that was
counted in one that is deleted, and the exchange neither loses nor revives a
point. The rest of LI_init is
calibration arithmetic.

**supports**: Livox SDK and driver, third-party code, left aside.

## 2. Modules

| module | models | state and actions |
|---|---|---|
| `BoundedFifo` | what SyncQueue promises | the queue as a sequence; `Enqueue`, `Refuse`, `Call`, `Dequeue` |
| `SyncQueue` | `sync_queue.hpp` | the ring and each thread's place and locals; one action per atomic load or store and per slot access |
| `LidarDriver` | driver, socket input | built on `PktQueue == INSTANCE SyncQueue`; caller, receive and handling thread |
| `Decoder` | split strategies, DIFOP gate, cloud overflow and stamps | a mechanical lidar by angle or by blocks, the MEMS lidars RSM1 and RSM2; `Msop`, `MemsMsop`, `Difop`, `Refuse` |
| `RslidarNode` | SourceDriver, NodeManager, main | main's place, cloud queues, publishing thread, signals |
| `SuperLio` | front end of super_lio | buffers, group, state function, filter clocks; `ImuSample`, `LidarScan`, `Process` |
| `OdinHost` | connection life cycle | one place per thread; each read or write of a flag another thread uses is a step |
| `PairQueue` | `try_process_pair` | two queues, main's place, what it looked at |
| `LocalPlanner` | `localPlanner.cpp` | handlers; one action per iteration of the search |
| `FarPlanner` | the goal's side of far_planner | one action per callback and per timer; nodes by name, what they see chosen freely |
| `PathFollower` | `pathFollower.cpp` | handlers; one action per turn of the loop |
| `IkdTree` | rebuild thread, searches, `Add_Points` | the places of all three; the mutexes, the counter, the log |
| `MCRslidar`, `MCOdinHost`, `MCPlanners` | several components on one instance | see below |
| other `MC*` | instances for TLC | bounded sets for the constants, nothing else |
| `*Proofs` | theorems | section 5 |

How they are composed. `LidarDriver` uses the steps of `SyncQueue` for the
packet queue, because its producer also calls `clear()` on it; for the
free-packet queue, and in `RslidarNode` for both cloud queues, nobody calls
`clear()`, so the FIFO that theorem `Refinement` justifies stands for the ring.
`Decoder` takes any sequence of packets the driver may hand it, lost and
reordered, and `RslidarNode` any moment at which a cloud is full.

Components of one process (or two planners) whose models share no variable are
checked by one run, each on its own: `MCRslidar`, `MCOdinHost` and `MCPlanners`
have a variable `focus` that says which component a behaviour explores while the
others stay where they began. States of components add instead of multiplying,
and nothing is missed, since no action of one reads a variable of another.

Grain of atomicity. In the lock-free queue a step is one access to shared
memory. In the other threaded modules a step is a stretch of code between two
accesses another thread can observe; a critical section is one step where its
mutex protects all it touches. In the single-threaded nodes a step is a whole
callback or loop turn, as the executor runs it.

Abstractions. A packet is its arrival number in the driver and its time of
sending in the decoder; a cloud is the frame it holds, or its size and the frames
it has points of; an IMU sample its stamp or its connection; a scan the stamps of
its first and last point. Speeds, ranges and scales are counted in the steps by
which the code changes them. pathFollower's geometry is the *view* of the path
(is the look-ahead point ahead, in front, back or behind; is it near; what share
of full speed the distance to the end leaves); localPlanner's cloud is a
function from scale and option to the distance at which the option is blocked,
chosen freely for each cloud; far_planner's geometry is which nodes are joined,
near, covered, and see the goal, chosen freely for each turn of a timer. A tree
of ikd-Tree is the set of arriving points it holds, and a point its distance
from the middle of the downsampling box it is in.

## 3. Runs

| run | checks | bounds, and why they are enough |
|---|---|---|
| `sync_queue` | `SlotExclusive`, `ImplementsFifo` (refinement of `BoundedFifo`), `Drains` | 4 slots: both indices wrap and the ring is full, empty and in between at every position; batches of 2 split what waits. Two values tell entries apart. No bound on the number of operations |
| `rslidar` | driver: `HandledInOrder`, `BufferExclusive`, `QueuedIsHandled`, `StopReturns`; node: `PublishedInOrder`, `CloudExclusive`, `QueuedIsPublished`; decoder: `CloudsAreFrames` | driver: a ring of 3, 4 datagrams, 2 sessions: the ring overflows, buffers recycle, a session ends with packets queued; a batch receives one datagram (`VLEN`). Node: queues of 2 entries and 5 frames, so that both fill and clouds are recycled; one SIGINT at any moment. Decoder: turns of five azimuths split at the fourth with two blocks in a packet, so that a gap may hold the split angle, the end of the turn, or both; by number, six blocks in a cloud or thirteen, which overflow it; frames of ten packets with a safe range of three, a packet lost and a packet overtaken, two frames and the begin of a third |
| `lidar_clear` | violation of `ClearEmpties` | one session, 5 datagrams |
| `rslidar_stop` | violation of `RepeatedStopHarmless` | one frame, one SIGINT |
| `decoder_loss` | violation of `SlightLossTolerated` | frames of seven packets, one lost |
| `super_lio` | `PushedIsHead`, `NoneLeftBehind`, `NewPointsMatched`, `CatchesUp` | stamps 1 to 4, gaps up to 3, scans up to 2 long, two scans waiting, one clock reset per sensor: scans that touch, overlap, follow with gaps, lack samples or go back, and stamps repeated after a reset; four scan ends take the filter through both initialisations to two scans processed |
| `odin` | host: `NoTerminate`, `ThreadsFollowConnection`, `AtMostOneStale`, `SamplesGoOut`; pairing: `PopIsSafe`, `MatchesAreRendered` | a second device while one is attached, two periods of connection, an IMU queue of 1 that overflows, 3 samples, detachments reported between data callbacks and during one; pair queues of 2, stamps to 5, matches one apart: an overflow between the look and the removal, on either side |
| `odin_stop` | violation of `StopReturns` | one connection, one sample |
| `planners` | localPlanner: `PathIsClear`, `SearchEnds`; far_planner: `LostGoalIsDropped`, `RobotIsLed`, `GoalInViewKept` | two options, three scales, four ranges, three speeds, every cloud that blocks an option at 0, at 3 or not; a node on the trajectory and a corner, one in the graph at a time (`MaxNodes`; `Odom`, which is always there, is the second that votes), two places for goals, three votes, two plans of momentum: votes and momentum that outlive a goal and meet the next one, and a corner whose votes are reset while they count |
| `path_follower` | `StopObeyed`, `GentleSteps`, `GoesAsAsked`, `ComesToRest` | 3 steps of speed, fractions of 1/2, views that go ahead, turn round, slow down and end; one turn skipped between commands |
| `ikd_tree` | `SearchesExcluded`, `ExchangeIsFaithful`, `RebuildEnds` | two points of one box and one of another, two searches at once, three insertions: an operation logged before, during and after the copy, a replacement among them, and a log with two entries |
| `ikd_logger` | violation of `LoggerStartsEmpty` | the same |

Each passing run also checks its type invariant, which includes the bounds on
queues, votes and indices (`TypesOK` is that of all the components of the run).
`MaxPacket`, `MaxSession`, `MaxSplit`, `MaxSignal`, `MaxTime`, `MaxScans`,
`MaxReset`, `MaxConnections`, `MaxSamples`, `MaxSaves`, `MaxStamp`, `MaxLost`,
`MaxLate`, `LastTime`, `MaxAdds`, `MaxNodes` and `Place` cap what the environment
does and appear in the guards of environment actions only (`MaxNodes` in what a turn of
the graph's timer may find); the configurations that end
because a cap is reached switch the deadlock check off. `sync_queue`,
`path_follower`, `planners` and `ikd_tree` keep it on.

Conditions in the properties, and what happens without them:

- `HandledInOrder` and `BufferExclusive` are stated under `Quiet`: no `clear()`
  met a `popBatch()`. Otherwise: finding `lidar_clear`.
- `NoneLeftBehind` is stated while no sensor clock has been reset (`Steady`);
  `PushedIsHead`, `NewPointsMatched` and `CatchesUp` hold with resets, too. A
  reset of one clock clears the buffer of that sensor only, so the two cannot
  agree, and nothing in the code says they do.
- `NewPointsMatched` is about the points of a scan that are later than the end
  of the scan before. A scan may begin earlier, and its other points may find
  no pair of states (section 6).
- `AtMostOneStale` allows one sample of an earlier connection, ahead of all
  others, where the SDK reports a detachment during a data callback
  (`CallbacksOverlap`; the run has it TRUE). The SDK is closed; where it delivers
  a detachment between two callbacks only, none is allowed. See section 6.
  All of `OdinHost` assumes that it reports devices one at a time (the device
  callback has function-level statics it does not lock) and delivers IMU samples
  from one thread.
- `CloudsAreFrames` is stated while nothing `rough` happened: a packet that
  comes after the last of its frame, one with a higher number than an RSM1
  knows, a cloud that overflowed or, by angle, a gap with both the split angle
  and the end of the turn in it (`Unseen`; section 6). That no frame is cut in
  two holds by angle and for an RSM2 even then; an RSM1 does cut them (finding
  `decoder_loss`). The assumptions on the constants say what the strategies are
  made for: less than a turn, or fewer than `RANGE` packets, are lost or late in
  a row, as otherwise two frames may meet in a cloud while the number is still
  small; a frame is longer than three times `RANGE` (630 packets to 10 in the
  code), and fits into a cloud (`FrameFits`).
- `ExchangeIsFaithful` is stated for a turn that found the logger empty
  (otherwise: finding `ikd_logger`) and in which no operation was `unlogged`
  (section 6).
- `SearchesExcluded` says of the discarded tree only that no counted search is
  in it: an uncounted one, or its look at the box of a discarded node, may be
  (section 6).
- `LostGoalIsDropped` bounds the number of plans by `Joining + momentum_thred`,
  which is reached: the votes that still join the goal are outvoted, and then
  the recorded path is followed until its momentum is spent. `Joining` is
  `votes_size - votes_size \div 3 - 1` by the votes alone. A corner with new
  points around it has its votes reset to one vote, for the goal if more than
  half of them were; that joins the goal again, for up to
  `votes_size - votes_size \div 2` plans since it was seen. With three votes,
  as the configuration files have it, this is one plan more.

For every property of a passing run `PROJECT.json` lists a mutant: a plausible
bug in the code that it describes, defined in the module above the definition
it replaces, under which TLC finds the property violated.

## 4. Fairness

Weak fairness is given to what the operating system or a timer schedules.
Threads of the drivers run on whenever they can (the polling waits of `select`,
200 us, 500 ms, `popWait`, and so on, all time out); the spin loops and timers
of the planners and of super_lio turn. No fairness for datagrams, points,
messages, joystick, goals, SIGINT, attachments, calls of `start` and `stop`,
errors, spurious wake-ups and the end of a map transfer. In `SyncQueue` the
consumer keeps calling `popBatch`, as `processPacket()` does; the producer need
neither push again nor finish a push it has begun (fairness is on the consumer's
steps only), so that entries wait behind a producer that has stopped.

Strong fairness is used in `IkdTree` only, for the rebuild thread's two waits:
for the request (`TakeRequest`) and for the searches to leave
(`WaitForSearches`). The code polls both every microsecond, while the searches
pause for the milliseconds of every scan in which points are added; without the
assumption every poll could miss every pause. The mapping thread joins its
searches and finishes what it adds, but need not take another scan.

## 5. Proofs

Proved by TLAPS for every value of the constants that meets the named
assumptions of the module. They are: at least two slots and a positive batch
(`SyncQueueAssumption`, `LidarDriverAssumption`), queues of at least one entry
(`RslidarNodeAssumption`, `PairQueueAssumption`, `OdinHostAssumption`), the
bounded loss of section 3 (`DecoderAssumption`, `FrameFits`), a positive number
of samples to average (`SuperLioAssumption`), the ranges and signs the launch
files give (`LocalPlannerAssumption`, `PathFollowerAssumption`,
`FarPlannerAssumption`), a finite number of searches (`IkdTreeAssumption`). The
bounds on the environment (section 3) are constants like the others: the
theorems hold for any number of packets, sessions, scans, resets, signals and
so on.

Every invariant and every action property a run checks is stated by a theorem.

*SyncQueueProofs.* `Invariance` proves the inductive invariant
`IInv == TypeOK /\ ProducerInv /\ ConsumerInv`. The type invariant alone is not
inductive: a push needs to know that the slot it claimed is still free although
`head_` has moved since, a pop that the entries it counted are still there
although `tail_` has. `ProducerInv` says that a producer that is past its test
leaves the ring at least one slot below full, and that the slot it has written
holds its value; `ConsumerInv` says that `head_` is where the consumer's copy
of it is, that what it counted is at most what is there, and that its batch is
a prefix of the contents. From it follow `TypeCorrect`, `SlotExclusion`,
`EntriesAreSet` (a consumer that was told of entries gets no empty one; proved
only), and `Refinement`: `Spec => Fifo!FifoSpec`, where the contents are the
slots from `head_` to `tail_`. A push takes effect at its store of `tail_`, a
pop at its store of `head_`, every other step is a stutter or the refusal of a
full queue. The modular arithmetic of the indices is kept in lemmas.

*LidarDriverProofs.* The driver's packet queue is `SyncQueue` but for `clear()`,
so its proof is built on `SyncQueueProofs`: `Ring == INSTANCE SyncQueueProofs`
makes the ring's invariant `IInv` and the lemmas of its refinement available
for `pkt_queue_`. `DriverInv` has two layers. `Basic` holds whatever happens:
the types, and which place of the receive thread, the handling thread and the
caller goes with which place in the ring (`BasicInvariance`). As long as no
`clear()` has met a `popBatch()` (`Quiet`), it also has `RingKept` (the ring is
in `IInv`, or it is being cleared with no consumer in it), `Owners` (what is on
its way to the decoder, the free queue and the pool of the receive thread have
no buffer twice and none in common), and `Order` (what was decoded came before
what is on its way, and that before what is in hand). Since each step of the
ring refines a step of a sequence, the second half is about sequences: a push
appends, a pop takes a prefix, a `clear()` empties. From it follow
`TypeCorrect`, `DecodedInOrder`, `OneBufferOwner`, and `NoCrash` (the handling
thread meets no empty pointer; proved only).

*RslidarProofs.* For the node, `OneOwner`, `InOrder` and `NodeTypeCorrect`.
`NodeInv` takes the owners of a cloud two by two (free queue, decoder, full
queue, publisher): no object occurs twice in a queue, in both queues, or in one
while a thread holds it. Beside it, the order: what is published comes before
what is being sent, that before what is queued, and that before what is being
filled. Each depends on the other: an object with two owners would be refilled
in the queue.

For the decoder, `CloudsWhole` and `DecoderTypeCorrect`. `DecoderInv` has one
part for each way to split. By angle (`AngleKept`): the strategy remembers the
azimuth of the block decoded last, and the cloud begun is of its turn. By number
(`NumKept`): a cloud has no more blocks than were counted. For the MEMS lidars
(`MemsKept`): the number remembered is that of a packet around the newest one and
of its frame (`PrevKnown`); an RSM2's cloud has room for all packets that may
still come (`NoneMissed`, where `Missing` counts them), and an RSM1 that knows
the highest number has handed on its cloud with it (`HighestKnown`). A packet of
a mechanical lidar has several blocks, and what it does is a recursive function
of them: `BlocksReach` is an induction over the blocks for one invariant, drawn
from the least element of a set of numbers (`LeastElement`), and `AngleBlock`
and `NumBlock` are its step. That a turn begins in a gap exactly when `ByAngle`
says so, or is `Unseen`, is modular arithmetic (`AngleSplits`).

For the process as a whole, `RslidarImplementsDriver`, `RslidarImplementsNode`
and `RslidarImplementsDecoder` say that the composed specification the run
checks implements each part's: `LidarTypesCorrect` and `LidarProcessCorrect`
carry the results of the parts over.

*SuperLioProofs.* `PushedScan` and `NothingLeftBehind` follow from `BufferInv`.
The second needs that the buffer is in order and lies between the last scan and
the last sample received (`Waiting`), while no clock has been reset. That
`sync_measure()` stops at the right sample is about the last index of a prefix;
it is found by counting. `LioInv` adds the state machine and the filter.
`Counting` says that no state has counted further than it may, so that the group
that completes `kf_init()` has a sample and `TypeCorrect` follows. `Behind`
says that the filter, once it is initialized, is never past the end of the last
scan, resets or not. So the first of the states a scan propagates is earlier
than every new point, and by the least element of the states that are not
earlier than the point (`Between`) the point is after the last state or between
two: `PointsMatched`. What a group does to the clock and to the states is a
recursion over its samples (`StatesReach`, by induction as above).

*OdinHostProofs.* `NoTermination` and `ThreadsFollow` follow from an invariant
that ties each thread to its flag (`ImuFlag`, `MonitorFlag`) and the flags to the
place of the device callback (`ConnectedInv`): they disagree while a thread is
being joined and nowhere else. `StaleOnlyFirst` adds `FreshInv`:
unless a loss is just being handled, what is brought, queued or taken out belongs
to the current connection, but for one sample whose callback a loss has
overtaken; that sample is ahead of all others wherever it is. It holds for both
values of `CallbacksOverlap`. For the pairing, `PopSafety` and `PairsMoveForward` (no
image and no cloud is rendered twice; proved only) rest on the queues being in
order (`Ordered`) and on an overflow putting only newer messages in front of
what was looked at (`LookedAt`).

*PathFollowerProofs.* The invariant joins to the types three facts: a one-way
vehicle has never turned round and no speed is negative (`OneWay`); a stop in
force since more turns than are skipped between two commands has been commanded
(`StopUnderWay`); the vehicle's speed is within the turns since the last command
of what that command said (`SpeedNearCommand`). From it follow `TypeCorrect`,
`OneWayForward`, `SafetyStop`, `Gentle` and `NoReversal`. The only nonlinear part
is that joystick share times slow-down fractions stays within the maximum;
it is a lemma. Two more theorems are what is safety in the liveness properties:
`RestInTurns` and `SpeedInTurns` bound the turns of the loop to rest, or to the
speed wanted, and every turn lowers them while messages leave them alone
(`TurnsToRest`, `TurnsToSpeed`; the second counts the wait to turn round first).
`OneWayForward` is about `TwoWayDrive = FALSE` and is proved
only; the run has a two-way vehicle.

*PlannersProofs.* For localPlanner, `Inv` adds to the safety properties what holds during a
search: scale and range are at most those it started with (`Searching`). From it
follow `TypeCorrect`, `ClearPaths`, and two results that are proved only:
`ScaleComesBack` (however a search ends, `pathScale` is restored) and
`ShortWhenSlow` (a path is never longer than the speed's share of the range). A
smaller scale computes the range from the adjacent range again, so that the
bound by speed needs quotients and products of naturals: a few lemmas.
`SearchShrinks` gives the search a measure, a natural number that each attempt
lowers (`Remaining`): a scale weighs more than all ranges, since a smaller scale
may lengthen the range again. It is what `SearchEnds` rests on.

For far_planner, `RobotLed` needs that a path to be followed was recorded for
the goal of now (`PathInv`), through every reset and change of mode. `LostGoal`
needs the votes: `LostInv` says that a plan without a view either adds a vote
against the goal to every node or takes from the momentum, so that the last
`lost` votes of a node are all against it (`Against`), or all but its oldest are
and that one is what a reset made of the votes before, early enough that half of
them were for the goal (`Renewed`; `ResetVotes`, `VotesAgainst`).
`OutvotedBound` and `NotVoted` say how many outvote the rest. `GoalKept` is an action property:
the goal the robot sees is joined to it in the very plan, so that the graph
search finds it.

*IkdTreeProofs.* `TreeInv` has four parts. `TurnInv`: the rebuild flag, the
working mutex and the pointer follow the place of the rebuild thread.
`SearchInv`: searches run only while the mapping thread waits for them, and then
nobody asks for a rebuild; so a search that is not counted, or has a pointer to
the old tree, is one for which the exchange is over (`Settled`), and a counted
one is in the present tree.
`CounterInv`: the counter is the number of searches counted, or -1 and then there
is none. `LogInv`: from the copy to the exchange, replaying the log on the copy
gives the tree. `Exclusion` and `Faithful` follow. The replay is defined without
recursion (a point is there if an operation adds it, or it was there, and no
later one deletes its box), and two lemmas say that appending an operation does
it last (`ReplayedAppend`) and that the first may be done first and forgotten
(`ReplayedHead`).

`LidarTypesCorrect`, `LidarProcessCorrect`, `ProcessTypeCorrect` and
`PlannersTypeCorrect` are about the composed specifications the runs check; the
theorems about one component are about its own specification, of which the
composed one is a special case.

Only model-checked: liveness (`Drains`, `QueuedIsHandled`, `StopReturns`,
`QueuedIsPublished`, `GoesAsAsked`, `ComesToRest`, `SearchEnds`, `CatchesUp`,
`SamplesGoOut`, `MatchesAreRendered`, `RebuildEnds`), which the prover does not
handle under fairness.

## 6. Findings

Each is the counterexample of a run.

- `lidar_clear`: `packetPut()` answers an overflow with `pkt_queue_.clear()`.
  A `popBatch()` in progress stores its own `head_` afterwards, which puts
  `head_` beyond `tail_`: the ring reports stale entries as new. The
  documentation of the error code says the queue is cleared.
- `rslidar_stop`: `SourceDriver::stop()` runs in `~NodeManager` and again in
  `~SourceDriver`; the second `join()` throws out of a destructor and ends the
  program by `std::terminate`.
- `decoder_loss`: DecoderRSM1 also splits after the packet with the highest
  number so far. If the last packet of the first frame is lost, that number is
  too low, and the next frame is cut before its last packet. The documentation
  says that slight loss is tolerated.
- `odin_stop`: `stop_imu_thread()` clears its flag and notifies without the
  mutex the IMU thread waits with; between the thread's predicate and its sleep
  both are missed and the detach callback joins for ever.
- `ikd_logger`: `multi_thread_rebuild()` leaves the mutex before it clears
  `rebuild_flag`; an operation in between logs itself for a rebuild that is
  over, and the next rebuild, of another subtree, finds it. The code prints
  "ERROR!!!" then, and goes on.

Observed while modelling, without a run of their own:

- rslidar. Packets left in `pkt_queue_` by `stop()` are decoded into the next
  session's cloud (`lidar_driver_impl.hpp:309`). `rslidar_sdk_node.cpp:132`: main
  waits without a predicate; a SIGINT between the installation of the handler
  and the wait is lost (the model has the step: `SigInt` before `MainWait`).
  `ERRCODE_ZEROPOINTS` is documented (`06_error_code_intro.md:65`), but
  `splitFrame()` skips an empty cloud without a word. With `ts_first_point` the
  first cloud after a start is stamped 0, as no split has set its time.
  `split_strategy.hpp:59-64`: the angle before is taken back by a turn when the
  new one is smaller, so that a gap which holds both the split angle and the end
  of the turn is not seen as a split, and two turns meet in a cloud (`Unseen`).
  `19_about_splitting_frame.md:19-24` splits wherever the split angle is
  crossed. It takes a `split_angle` that is closer to 360 degrees than the gap:
  a fraction of a degree between blocks, more where packets are lost. The
  default, 0, is the end of the turn and is not affected; a `split_angle` of 360
  would never split.
- odin. `host_sdk_sample.cpp:957`: `deviceConnected` is tested at the top of the
  data callback and the sample queued at its end (`accepted` is the connection
  of the test). A detachment reported in between clears the queue first, and the
  sample is published in the next connection: with `CallbacksOverlap = TRUE` TLC
  refutes that a published sample is always of the current connection.
  `AtMostOneStale` is what remains. `:1369`: a
  connection attempt that times out says "Exiting program." and sets a flag
  nothing reads. `:1977`: the services test the handle for null; it is not null
  from `lidar_create_device` on, before the device is open.
  `host_sdk_sample.h:427`: `try_process_pair` removes the message that is at the
  front when it removes, which after an overflow is not the one it compared.
- far_planner. The branch of automatic mode switching at
  `graph_planner.cpp:241-251` cannot be taken: lines 188-194 have cleared
  `is_free_nav_goal_` by then; nor can the one for a graph of one node (158).
  `UpdateGoal` (326-336) marks every successively nearer node on the trajectory
  as the goal, and `GoalReset` clears only the last. A node that is not
  traversable at the first plan of a goal stays blocked to it and, when it is
  far, is not looked at again until the next goal (130-140, 114-122). The
  recorded path may hold nodes that have been removed, for as many plans as the
  momentum lasts. `dynamic_graph.h:376-388`: the reset of a corner's votes asks
  for half of them where the connection to the goal asks for a third.
- ikd-Tree. `Add_Points` (440-443) deletes by range and then adds; on its way
  back the deletion may ask for a rebuild of the whole tree
  (`Rebuild_Ptr = &Root_Node`), and the addition that follows compares subtrees
  with the pointer, not the root: it takes no mutex and is not logged
  (`unlogged`). Line 401: a range search of the whole tree takes no mutex and is
  in no counter. 945: `Search` reads the boxes of both children before it is
  counted (`SearchLook`); TLC has behaviours where the exchange comes first and
  the box is that of a node `delete_tree_nodes` (295) is freeing. 367, 949 and
  1089 compare `*Rebuild_Ptr` with the child's pointer without a mutex: if the
  exchange comes between the two loads they differ, and the search goes on
  uncounted, in the old tree if the pointer was loaded before (`SearchCheck`;
  TLC has it there at 295). `Rebuild_Ptr` itself is tested and followed; a build
  that loads it twice may find null the second time, which the model leaves out
  as the build's -O3 merges the loads. 274: the new root is read although
  flattening may have found no point, for which a box deletion is needed that
  nothing calls.
- terrain_analysis. When the grid rolls (`terrainAnalysis.cpp:281`), clouds
  move with it while their counters and update times stay with the cell.
- waypoint_example. `waypointExample.cpp:239`: at the last waypoint the node
  waits for ever, so that it publishes nothing more, also when the vehicle drifts
  away from it.
- super_lio. `super_lio.cpp:390-407`: a point that is not later than the
  first of the propagated states has no pair of states. Without a sample in the
  group there is one state, and `match_iter_n` is the end of the vector,
  which is read; with samples the point is extrapolated backwards, or divided
  by a time of zero. It takes a scan that begins at or before the end of the one
  before: the handler accepts any (`ROSWrapper.cpp`), and the drivers give one
  when they stamp by the host's clock (`use_lidar_clock: false`, the default;
  `decoder_RSBP.hpp:257-260` subtracts the packet's duration). Without the
  condition on new points TLC refutes `NewPointsMatched`. `ROSWrapper.cpp:358`:
  stamps of before and after a reset of one sensor's clock may meet in a group.
  `super_lio.cpp:313`: with a save interval of zero the map of the
  run is not written.

## 7. What is not modelled, and why

- Numerical content (poses, filter matrices, point coordinates, contours, the
  balance of trees): outside what TLC checks. It is abstracted to what is decided
  with it, and components that are nothing else (Manifold, LI_init, the
  projections of odin_ros_driver, terrain_analysis, far_planner's contours) are
  left out. This is most of the repository's code; with the vendored containers,
  the plotting header and the drivers' tables it is why the map covers a small
  share of all lines.
- ROS itself, the Odin SDK and the kernel's sockets appear through what the code
  expects of them. Descriptors, file output and logging are left out.
- The SIGINT handler of odin_ros_driver runs in whichever thread the signal
  finds, on top of whatever that thread holds; what its joins do next to those
  of the detach callback is not defined by this code.
- Within modelled components: pcap and raw inputs, packet sources and the IMU
  parsing path of rslidar_sdk (off in the build); relocation mode and map
  saving of super_lio; the lifecycle of far_planner's other nodes, static
  environments (`is_static_env`); operations of ikd-Tree the mapping does not
  call (box insertion and deletion, radius search).
- OctVoxMap, the scan adapter, waypoint_example and the simulator are
  sequential and small; a test reaches what they do.

What would come next: the composition of `LocalPlanner` and `PathFollower` over
`/path`; a measure that decreases behind `CatchesUp`; boundedness of what waits in `super_lio` between two groups.
