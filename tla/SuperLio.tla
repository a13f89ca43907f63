------------------------------ MODULE SuperLio ------------------------------
(***************************************************************************)
(* Super-LIO's front end: ROSWrapper's sensor buffers and sync_measure(),  *)
(* SuperLIO's start-up and processing states, and the time bookkeeping of  *)
(* the filter (ESKF), which decides what each IMU sample is integrated     *)
(* over.  One executor thread runs the IMU handler, the lidar handler and  *)
(* the 2 ms timer's process(), in any order.                               *)
(*                                                                         *)
(* A sample is its stamp, a scan the stamps of its first and last point;   *)
(* poses, points and the map are left out.                                 *)
(***************************************************************************)
EXTENDS Integers, Sequences, FiniteSets

CONSTANTS
  ImuForInit,   \* samples kf_init() averages (50)
  MapFrames,    \* map_init() is done beyond this many frames (3)
  MaxAhead,     \* the longest dt the forward Predict() accepts (0.2 s)
  MaxTime,      \* bound: the last stamp
  MaxImuGap,    \* bound: stamps between two samples
  MaxScanTime,  \* bound: the length of a scan
  MaxScans,     \* bound: lidar_buffer_
  MaxReset      \* bound: how often each sensor's clock starts again

ASSUME SuperLioAssumption ==
  /\ ImuForInit \in Nat \ {0} /\ MapFrames \in Nat /\ MaxAhead \in Nat
  /\ MaxTime \in Nat /\ MaxImuGap \in Nat /\ MaxScanTime \in Nat
  /\ MaxScans \in Nat /\ MaxReset \in Nat

Time == 1 .. MaxTime
Scan == {s \in [start : Time, end : Time] :
           s.start <= s.end /\ s.end <= s.start + MaxScanTime}
NoScan == [start |-> 0, end |-> 0]

VARIABLES
  imu_buffer_, lidar_buffer_,
  last_timestamp_imu_, last_timestamp_lidar_,
  lidar_pushed_,
  measures_,          \* lidar, imu: what process() works on
  state_fn_,
  imu_cout, frame_num_,
  kf,                 \* the filter's clocks
  propagate_states_,  \* the times of the states of the last scan
  scanned,            \* environment: the end of the last scan sent
  resets              \* environment: clock resets of each sensor

bufferVars == <<imu_buffer_, lidar_buffer_, last_timestamp_imu_,
                last_timestamp_lidar_, lidar_pushed_, measures_>>
lioVars == <<state_fn_, imu_cout, frame_num_, propagate_states_>>
vars == <<bufferVars, lioVars, kf, scanned, resets>>

Init ==
  /\ imu_buffer_ = <<>>
  /\ lidar_buffer_ = <<>>
  /\ last_timestamp_imu_ = -1
  /\ last_timestamp_lidar_ = -1
  /\ lidar_pushed_ = FALSE
  /\ measures_ = [lidar |-> NoScan, imu |-> <<>>]
  /\ state_fn_ = "stateWaitKFInit"
  /\ imu_cout = 0
  /\ frame_num_ = 0
  /\ kf = [init_ |-> FALSE, current_time_ |-> 0, last_imu_time_ |-> -1,
           last_obs_time_ |-> 0, current_obs_time_ |-> 0, forward_time_ |-> -1]
  /\ propagate_states_ = <<>>
  /\ scanned = 0
  /\ resets = [imu |-> 0, lidar |-> 0]

-----------------------------------------------------------------------------
(* The filter.                                                              *)

(* Predict(imu, ...) of the IMU-rate odometry: runs ahead of the filter     *)
(* from forward_time_, and waits for the next update when it is too old.    *)
Forward(k, t) ==
  LET dt == t - k.forward_time_
      accepted == k.forward_time_ < 0 \/ dt \in 0 .. MaxAhead
  IN  IF k.init_ /\ accepted THEN [k EXCEPT !.forward_time_ = t] ELSE k

(* Predict(imu) of the filter: a sample not after the last observation is   *)
(* only remembered.                                                         *)
Predict(k, t) ==
  LET known == k.last_imu_time_ < 0 \/ t <= k.last_obs_time_
      beyond == ~(k.last_imu_time_ < k.last_obs_time_) /\ t > k.current_obs_time_
      now == IF beyond THEN k.current_obs_time_ ELSE t
  IN  IF known THEN [k EXCEPT !.last_imu_time_ = t]
      ELSE [k EXCEPT !.current_time_ = now, !.last_imu_time_ = t]

(* UpdateObserve(), whose Update() re-anchors the IMU-rate odometry.        *)
Update(k) == [k EXCEPT !.forward_time_ = k.current_obs_time_,
                       !.last_obs_time_ = k.current_obs_time_]

-----------------------------------------------------------------------------
(* The handlers.                                                            *)

ImuHandler(t) ==
  /\ imu_buffer_' = IF t < last_timestamp_imu_ THEN <<t>> ELSE Append(imu_buffer_, t)
  /\ last_timestamp_imu_' = t
  /\ kf' = IF t < last_timestamp_imu_ THEN kf ELSE Forward(kf, t)
  /\ UNCHANGED <<lidar_buffer_, last_timestamp_lidar_, lidar_pushed_, measures_,
                 lioVars, scanned>>

LidarHandler(s) ==
  /\ lidar_buffer_' = Append(lidar_buffer_, s)
  /\ scanned' = s.end
  /\ UNCHANGED <<imu_buffer_, last_timestamp_imu_, last_timestamp_lidar_,
                 lidar_pushed_, measures_, lioVars, kf>>

(* The sensors: stamps that grow, unless a clock starts again or a stamp is *)
(* repeated.  Messages lost on the way are gaps.                            *)
ImuSample ==
  \/ /\ \E t \in Time :
          /\ last_timestamp_imu_ < t
          /\ last_timestamp_imu_ > 0 => t <= last_timestamp_imu_ + MaxImuGap
          /\ ImuHandler(t)
     /\ UNCHANGED resets
  \/ /\ resets.imu < MaxReset
     /\ \E t \in Time : t <= last_timestamp_imu_ /\ ImuHandler(t)
     /\ resets' = [resets EXCEPT !.imu = @ + 1]

(* A scan may touch or overlap the one before; every scan is accepted.  One *)
(* that does not end later than the last is a reset, too.                   *)
LidarScan ==
  /\ Len(lidar_buffer_) < MaxScans
  /\ \/ /\ \E s \in Scan : s.end > scanned /\ LidarHandler(s)
        /\ UNCHANGED resets
     \/ /\ resets.lidar < MaxReset
        /\ \E s \in Scan : s.end <= scanned /\ LidarHandler(s)
        /\ resets' = [resets EXCEPT !.lidar = @ + 1]

-----------------------------------------------------------------------------
(* sync_measure(): the scan at the head with the samples up to its end.     *)

Measured == IF lidar_pushed_ THEN measures_.lidar ELSE Head(lidar_buffer_)

(* Mutant: the last sample is left for the next scan.                       *)
TakenOneLess(end) ==
  LET n == Cardinality({i \in DOMAIN imu_buffer_ : imu_buffer_[i] <= end})
  IN  IF n = 0 THEN 0 ELSE n - 1

(* The loop looks at the time of the sample it took last: it takes none if  *)
(* the first is not before the end, and stops at one on the end.            *)
Taken(end) ==
  LET n == Len(imu_buffer_)
      before == {i \in 1 .. n : \A j \in 1 .. i : imu_buffer_[j] < end}
      count == IF before = {} THEN 0 ELSE CHOOSE i \in before : \A j \in before : j <= i
  IN  IF count \in 1 .. n - 1 /\ imu_buffer_[count + 1] = end THEN count + 1 ELSE count

DropLate ==
  /\ last_timestamp_lidar_ > Measured.end
  /\ measures_' = [measures_ EXCEPT !.lidar = Measured]
  /\ lidar_buffer_' = Tail(lidar_buffer_)
  /\ lidar_pushed_' = FALSE
  /\ UNCHANGED <<imu_buffer_, last_timestamp_imu_, last_timestamp_lidar_, lioVars, kf>>

Wait ==
  /\ ~(last_timestamp_lidar_ > Measured.end)
  /\ last_timestamp_imu_ < Measured.end
  /\ measures_' = [measures_ EXCEPT !.lidar = Measured]
  /\ lidar_pushed_' = TRUE
  /\ UNCHANGED <<imu_buffer_, lidar_buffer_, last_timestamp_imu_,
                 last_timestamp_lidar_, lioVars, kf>>

(* Mutants: lidar_pushed_ is not reset; a sample past the end is waited     *)
(* for.                                                                     *)
SyncPushed ==
  LET end == Measured.end
      n == Taken(end)
  IN  /\ ~(last_timestamp_lidar_ > end)
      /\ ~(last_timestamp_imu_ < end)
      /\ measures_' = [lidar |-> Measured, imu |-> SubSeq(imu_buffer_, 1, n)]
      /\ imu_buffer_' = SubSeq(imu_buffer_, n + 1, Len(imu_buffer_))
      /\ last_timestamp_lidar_' = end
      /\ lidar_buffer_' = Tail(lidar_buffer_)
      /\ lidar_pushed_' = TRUE
      /\ UNCHANGED last_timestamp_imu_

SyncBeyond ==
  LET end == Measured.end
      n == Taken(end)
  IN  /\ ~(last_timestamp_lidar_ > end)
      /\ last_timestamp_imu_ > end
      /\ measures_' = [lidar |-> Measured, imu |-> SubSeq(imu_buffer_, 1, n)]
      /\ imu_buffer_' = SubSeq(imu_buffer_, n + 1, Len(imu_buffer_))
      /\ last_timestamp_lidar_' = end
      /\ lidar_buffer_' = Tail(lidar_buffer_)
      /\ lidar_pushed_' = FALSE
      /\ UNCHANGED last_timestamp_imu_

Sync ==
  LET end == Measured.end
      n == Taken(end)
  IN  /\ ~(last_timestamp_lidar_ > end)
      /\ ~(last_timestamp_imu_ < end)
      /\ measures_' = [lidar |-> Measured, imu |-> SubSeq(imu_buffer_, 1, n)]
      /\ imu_buffer_' = SubSeq(imu_buffer_, n + 1, Len(imu_buffer_))
      /\ last_timestamp_lidar_' = end
      /\ lidar_buffer_' = Tail(lidar_buffer_)
      /\ lidar_pushed_' = FALSE
      /\ UNCHANGED last_timestamp_imu_

-----------------------------------------------------------------------------
(* The states of SuperLIO, on the group sync_measure() returned.            *)

(* Mutant: the filter starts at the latest sample received.                 *)
StateWaitKFInitLatest ==
  LET imu == measures_'.imu
      done == imu_cout + Len(imu) >= ImuForInit
  IN  /\ state_fn_ = "stateWaitKFInit"
      /\ imu_cout' = IF done THEN ImuForInit ELSE imu_cout + Len(imu)
      /\ IF done
         THEN /\ kf' = [kf EXCEPT !.last_imu_time_ = imu[Len(imu)],
                                  !.current_time_ = last_timestamp_imu_]
              /\ state_fn_' = "stateWaitMapInit"
         ELSE UNCHANGED <<kf, state_fn_>>
      /\ UNCHANGED <<frame_num_, propagate_states_>>

(* kf_init(): the filter starts at the last sample averaged.                *)
StateWaitKFInit ==
  LET imu == measures_'.imu
      done == imu_cout + Len(imu) >= ImuForInit
  IN  /\ state_fn_ = "stateWaitKFInit"
      /\ imu_cout' = IF done THEN ImuForInit ELSE imu_cout + Len(imu)
      /\ IF done
         THEN /\ kf' = [kf EXCEPT !.last_imu_time_ = imu[Len(imu)],
                                  !.current_time_ = imu[Len(imu)]]
              /\ state_fn_' = "stateWaitMapInit"
         ELSE UNCHANGED <<kf, state_fn_>>
      /\ UNCHANGED <<frame_num_, propagate_states_>>

(* Mutant: the frame that completes the map is not noticed in time.         *)
StateWaitMapInitMissed ==
  LET done == frame_num_ = MapFrames + 1
  IN  /\ state_fn_ = "stateWaitMapInit"
      /\ frame_num_' = frame_num_ + 1
      /\ kf' = [kf EXCEPT !.last_obs_time_ = measures_'.lidar.end, !.init_ = done]
      /\ state_fn_' = IF done THEN "stateProcess" ELSE state_fn_
      /\ UNCHANGED <<imu_cout, propagate_states_>>

(* map_init()                                                               *)
StateWaitMapInit ==
  LET done == frame_num_ + 1 > MapFrames
  IN  /\ state_fn_ = "stateWaitMapInit"
      /\ frame_num_' = frame_num_ + 1
      /\ kf' = [kf EXCEPT !.last_obs_time_ = measures_'.lidar.end, !.init_ = done]
      /\ state_fn_' = IF done THEN "stateProcess" ELSE state_fn_
      /\ UNCHANGED <<imu_cout, propagate_states_>>

(* Propagation_Undistort() integrates the samples one after the other;      *)
(* Observe() and UpdateMap() end at the scan's end.  frame_num_ goes on     *)
(* counting, here and in Observe(), but nothing reads it any more.          *)
StateProcess ==
  LET imu == measures_'.imu
      started == [kf EXCEPT !.current_obs_time_ = measures_'.lidar.end]
      state[i \in 0 .. Len(imu)] ==
        IF i = 0 THEN started ELSE Predict(state[i - 1], imu[i])
  IN  /\ state_fn_ = "stateProcess"
      /\ propagate_states_' = [i \in 1 .. Len(imu) + 1 |-> state[i - 1].current_time_]
      /\ kf' = Update(state[Len(imu)])
      /\ UNCHANGED <<state_fn_, imu_cout, frame_num_>>

Process ==
  /\ lidar_buffer_ # <<>> /\ imu_buffer_ # <<>>
  /\ \/ DropLate
     \/ Wait
     \/ Sync /\ (StateWaitKFInit \/ StateWaitMapInit \/ StateProcess)
  /\ UNCHANGED <<scanned, resets>>

Next == ImuSample \/ LidarScan \/ Process

Spec == Init /\ [][Next]_vars
(* The timer fires every 2 ms.  A sensor owes nothing.                      *)
FairSpec == Spec /\ WF_vars(Process)

-----------------------------------------------------------------------------
TypeOK ==
  /\ imu_buffer_ \in Seq(Time)
  /\ lidar_buffer_ \in Seq(Scan)
  /\ last_timestamp_imu_ \in Time \cup {-1}
  /\ last_timestamp_lidar_ \in Time \cup {-1}
  /\ lidar_pushed_ \in BOOLEAN
  /\ measures_.lidar \in Scan \cup {NoScan} /\ measures_.imu \in Seq(Time)
  /\ state_fn_ \in {"stateWaitKFInit", "stateWaitMapInit", "stateProcess"}
  /\ imu_cout \in 0 .. ImuForInit
  /\ frame_num_ \in 0 .. MapFrames + 1
  /\ kf \in [init_ : BOOLEAN, current_time_ : 0 .. MaxTime,
             last_imu_time_ : -1 .. MaxTime, last_obs_time_ : 0 .. MaxTime,
             current_obs_time_ : 0 .. MaxTime, forward_time_ : -1 .. MaxTime]
  /\ propagate_states_ \in Seq(0 .. MaxTime)

Steady == resets = [imu |-> 0, lidar |-> 0]

(* measures_.lidar outlives the call that put it there: while lidar_pushed_ *)
(* it is the scan still at the head of lidar_buffer_.                       *)
PushedIsHead ==
  lidar_pushed_ => lidar_buffer_ # <<>> /\ measures_.lidar = Head(lidar_buffer_)

(* While the clocks run on, no buffered sample is older than the last scan: *)
(* dropping late scans and waiting for samples never leaves one behind.     *)
NoneLeftBehind ==
  Steady => \A i \in DOMAIN imu_buffer_ :
              /\ imu_buffer_[i] >= last_timestamp_lidar_
              /\ i > 1 => imu_buffer_[i - 1] < imu_buffer_[i]

(* A point of time q is left as it is after the last state, and lies        *)
(* between two states, later than the first of them, before it.             *)
Matched(q, states) ==
  \/ q > states[Len(states)]
  \/ \E i \in 1 .. Len(states) - 1 : states[i] < q /\ q <= states[i + 1]

(* The undistortion finds the states of every point later than the end of   *)
(* the scan before, whatever samples are missing, late or reset: for these  *)
(* it neither reads past the states nor divides by a time of zero.  A scan  *)
(* that overlaps the one before has other points, too.                      *)
NewPointsMatched ==
  [][lidar_buffer_ # <<>> /\ Sync /\ StateProcess =>
       \A q \in measures_'.lidar.start .. measures_'.lidar.end :
         q > last_timestamp_lidar_ => Matched(q, propagate_states_')]_vars

(* process() works off the scans whose end the IMU clock has reached, and   *)
(* is left waiting only for samples or scans.                               *)
Ready == /\ lidar_buffer_ # <<>> /\ imu_buffer_ # <<>>
         /\ last_timestamp_imu_ >= Head(lidar_buffer_).end
CatchesUp == Ready ~> ~Ready
=============================================================================
