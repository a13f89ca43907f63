------------------------------ MODULE OdinHost ------------------------------
(***************************************************************************)
(* host_sdk_sample.cpp: the Odin driver between its closed SDK and ROS.    *)
(*                                                                         *)
(* Threads: dev, in which the SDK reports that a device comes or goes      *)
(* (lidar_device_callback); data, in which it delivers samples             *)
(* (lidar_data_callback); the IMU thread, which publishes queued samples;  *)
(* the parameter monitor; main, with its services and its command file;    *)
(* and the detached threads that save a map.                               *)
(*                                                                         *)
(* A sample is abstracted to the connection it arrived in.                 *)
(***************************************************************************)
EXTENDS Integers, Sequences

CONSTANTS
  IMU_QUEUE_MAX_SIZE,
  CallbacksOverlap,   \* the SDK may report a detachment during a data callback
  SecondDevice,       \* the SDK may report another device while one is attached
  MaxConnections,     \* bound: periods in which devices attach
  MaxSamples,         \* bound: samples delivered
  MaxSaves            \* bound: save_map commands

ASSUME OdinHostAssumption ==
  /\ IMU_QUEUE_MAX_SIZE \in Nat \ {0}
  /\ CallbacksOverlap \in BOOLEAN /\ SecondDevice \in BOOLEAN
  /\ MaxConnections \in Nat /\ MaxSamples \in Nat /\ MaxSaves \in Nat

VARIABLES
  program,          \* "runs", "exited", or "terminated" by std::terminate
  attached,         \* devices the SDK has reported and not taken back
  odinDevice,       \* "null", or the handle's device is "created" or "open"
  deviceConnected, deviceDisconnected, g_connection_timeout,
  dev,              \* where lidar_device_callback is, "idle" outside it
  data,             \* where lidar_data_callback is
  accepted,         \* the connection its sample was let in by, 0 if there is none
  g_imu_thread_running,
  imu,              \* where the IMU thread is; "none" once joined, "ended" before
  imu_sample,       \* the sample it publishes
  g_imu_queue,
  g_param_monitor_running,
  monitor,          \* where the monitor is, as imu
  main,             \* where main is
  g_map_transfer_in_progress,
  transfers,        \* threads in lidar_save_map
  connection,       \* the period of connection: one more than detachments
  samples, saves    \* how many there were

linkVars == <<attached, odinDevice, deviceConnected, deviceDisconnected,
              g_connection_timeout, connection>>
deviceVars == <<linkVars, dev>>
dataVars == <<data, accepted, samples>>
imuVars == <<g_imu_thread_running, imu, imu_sample, g_imu_queue>>
monitorVars == <<g_param_monitor_running, monitor>>
mainVars == <<main, g_map_transfer_in_progress, transfers, saves>>
vars == <<program, deviceVars, dataVars, imuVars, monitorVars, mainVars>>

Init ==
  /\ program = "runs"
  /\ attached = 0
  /\ odinDevice = "null"
  /\ deviceConnected = FALSE /\ deviceDisconnected = FALSE
  /\ g_connection_timeout = FALSE
  /\ dev = "idle"
  /\ data = "idle" /\ accepted = 0
  /\ g_imu_thread_running = FALSE /\ imu = "none" /\ imu_sample = 0
  /\ g_imu_queue = <<>>
  /\ g_param_monitor_running = FALSE /\ monitor = "none"
  /\ main = "wait"
  /\ g_map_transfer_in_progress = FALSE /\ transfers = 0
  /\ connection = 1 /\ samples = 0 /\ saves = 0

-----------------------------------------------------------------------------
(* lidar_device_callback(device, true).  Nothing moves once the program has  *)
(* ended.                                                                   *)

(* exit(1): on a USB 2.0 port, firmware too old, or already streaming.      *)
Exit ==
  /\ program = "runs"
  /\ dev \in {"attach", "open"}
  /\ program' = "exited"
  /\ UNCHANGED <<deviceVars, dataVars, imuVars, monitorVars, mainVars>>

Attach ==
  /\ program = "runs"
  /\ dev = "idle"
  /\ connection <= MaxConnections
  /\ attached = 0 \/ (SecondDevice /\ attached = 1)
  /\ attached' = attached + 1
  /\ dev' = "attach"
  /\ UNCHANGED <<program, odinDevice, deviceConnected, deviceDisconnected,
                 g_connection_timeout, connection, dataVars, imuVars, monitorVars, mainVars>>

(* A step of the callback that calls the SDK and leaves the handle at       *)
(* device.                                                                  *)
DeviceStep(from, device, to) ==
  /\ program = "runs"
  /\ dev = from
  /\ odinDevice' = device
  /\ dev' = to
  /\ UNCHANGED <<program, attached, deviceConnected, deviceDisconnected,
                 g_connection_timeout, connection, dataVars, imuVars, monitorVars, mainVars>>

Create ==
  \/ DeviceStep("attach", "created", "created")
  \/ DeviceStep("attach", "null", "idle")

(* More than a minute after the port was checked: the device is given up.   *)
ConnectionTimeout ==
  /\ program = "runs"
  /\ dev = "created"
  /\ odinDevice' = "null"
  /\ g_connection_timeout' = TRUE
  /\ dev' = "idle"
  /\ UNCHANGED <<program, attached, deviceConnected, deviceDisconnected, connection,
                 dataVars, imuVars, monitorVars, mainVars>>

InTime == DeviceStep("created", odinDevice, "open")

Open ==
  \/ DeviceStep("open", "open", "setup")
  \/ DeviceStep("open", "null", "idle")

(* Calibration file, depth parameter, mode, map, callback and stream.  Only *)
(* after a refused depth parameter the handle is kept.                      *)
Setup ==
  \/ DeviceStep("setup", "open", "connect")
  \/ DeviceStep("setup", "null", "idle")
  \/ DeviceStep("setup", "open", "idle")

SetConnected ==
  /\ program = "runs"
  /\ \/ dev = "connect" /\ dev' = "connected"
        /\ deviceConnected' = TRUE /\ UNCHANGED deviceDisconnected
     \/ dev = "connected" /\ dev' = "startImu"
        /\ deviceDisconnected' = FALSE /\ UNCHANGED deviceConnected
  /\ UNCHANGED <<program, attached, odinDevice, g_connection_timeout, connection, dataVars,
                 imuVars, monitorVars, mainVars>>

(* start_imu_thread(); an IMU thread that is not running has been joined.   *)
StartImu ==
  /\ program = "runs"
  /\ dev = "startImu"
  /\ IF g_imu_thread_running THEN UNCHANGED <<g_imu_thread_running, imu>>
     ELSE /\ imu \in {"none", "ended"}
          /\ g_imu_thread_running' = TRUE
          /\ imu' = "check"
  /\ dev' = "startMonitor"
  /\ UNCHANGED <<program, linkVars, dataVars, imu_sample, g_imu_queue,
                 monitorVars, mainVars>>

(* Mutant: the old monitor is not joined. *)
NoOldMonitor ==
  /\ program = "runs"
  /\ dev = "startMonitor"
  /\ dev' = "createMonitor"
  /\ UNCHANGED <<program, linkVars, dataVars, imuVars, monitorVars, mainVars>>

(* A monitor that has not been joined is stopped and joined first.          *)
StopOldMonitor ==
  /\ program = "runs"
  /\ dev = "startMonitor"
  /\ IF monitor = "none"
     THEN dev' = "createMonitor" /\ UNCHANGED g_param_monitor_running
     ELSE dev' = "rejoinMonitor" /\ g_param_monitor_running' = FALSE
  /\ UNCHANGED <<program, linkVars, dataVars, imuVars, monitor, mainVars>>

JoinMonitor ==
  /\ program = "runs"
  /\ \/ dev = "rejoinMonitor" /\ dev' = "createMonitor"
     \/ dev = "joinMonitor" /\ dev' = "clearAll"
  /\ monitor \in {"none", "ended"}
  /\ monitor' = "none"
  /\ UNCHANGED <<program, linkVars, dataVars, imuVars,
                 g_param_monitor_running, mainVars>>

(* Assigning to a joinable std::thread terminates the program.              *)
CreateMonitor ==
  /\ program = "runs"
  /\ dev = "createMonitor"
  /\ program' = IF monitor = "none" THEN "runs" ELSE "terminated"
  /\ g_param_monitor_running' = TRUE
  /\ monitor' = "check"
  /\ dev' = "idle"
  /\ UNCHANGED <<linkVars, dataVars, imuVars, mainVars>>

-----------------------------------------------------------------------------
(* lidar_device_callback(device, false).  The handle is kept.               *)

Detach ==
  /\ program = "runs"
  /\ dev = "idle" /\ attached > 0
  /\ CallbacksOverlap \/ data = "idle"
  /\ attached' = attached - 1
  /\ connection' = connection + 1
  /\ deviceConnected' = FALSE
  /\ dev' = "detached"
  /\ UNCHANGED <<program, odinDevice, deviceDisconnected, g_connection_timeout,
                 dataVars, imuVars, monitorVars, mainVars>>

(* Mutant: the threads are left to notice the lost device by themselves. *)
SetDisconnectedOnly ==
  /\ program = "runs"
  /\ dev = "detached"
  /\ deviceDisconnected' = TRUE
  /\ dev' = "clearAll"
  /\ UNCHANGED <<program, attached, odinDevice, deviceConnected, g_connection_timeout,
                 connection, dataVars, imuVars, monitorVars, mainVars>>

SetDisconnected ==
  /\ program = "runs"
  /\ dev = "detached"
  /\ deviceDisconnected' = TRUE
  /\ dev' = "stopImu"
  /\ UNCHANGED <<program, attached, odinDevice, deviceConnected, g_connection_timeout,
                 connection, dataVars, imuVars, monitorVars, mainVars>>

(* stop_imu_thread(): flag, notification, join, and the rest of the queue.  *)
(* The flag is set without g_imu_queue_mutex.                               *)
StopImu ==
  /\ program = "runs"
  /\ dev = "stopImu"
  /\ g_imu_thread_running' = FALSE
  /\ dev' = IF g_imu_thread_running THEN "notifyImu" ELSE "stopMonitor"
  /\ UNCHANGED <<program, linkVars, dataVars, imu, imu_sample, g_imu_queue,
                 monitorVars, mainVars>>

Notified == IF imu = "asleep" THEN "lock" ELSE imu

NotifyImu ==
  /\ program = "runs"
  /\ dev = "notifyImu"
  /\ imu' = Notified
  /\ dev' = "joinImu"
  /\ UNCHANGED <<program, linkVars, dataVars, g_imu_thread_running,
                 imu_sample, g_imu_queue, monitorVars, mainVars>>

(* Mutant: the queue is not cleared. *)
ClearedNot == g_imu_queue

Cleared == <<>>

JoinImu ==
  /\ program = "runs"
  /\ dev = "joinImu"
  /\ imu \in {"none", "ended"}
  /\ imu' = "none"
  /\ g_imu_queue' = Cleared
  /\ dev' = "stopMonitor"
  /\ UNCHANGED <<program, linkVars, dataVars, g_imu_thread_running, imu_sample,
                 monitorVars, mainVars>>

StopMonitor ==
  /\ program = "runs"
  /\ dev = "stopMonitor"
  /\ g_param_monitor_running' = FALSE
  /\ dev' = "joinMonitor"
  /\ UNCHANGED <<program, linkVars, dataVars, imuVars, monitor, mainVars>>

(* clear_all_queues().                                                      *)
ClearAll ==
  /\ program = "runs"
  /\ dev = "clearAll"
  /\ g_imu_queue' = Cleared
  /\ dev' = "idle"
  /\ UNCHANGED <<program, linkVars, dataVars, g_imu_thread_running, imu,
                 imu_sample, monitorVars, mainVars>>

-----------------------------------------------------------------------------
(* lidar_data_callback() for an IMU sample, ignored while not connected;    *)
(* it does not look at deviceConnected again before it queues the sample.   *)
(* Other types of data are published at once and leave no state here.       *)

CheckConnected ==
  /\ program = "runs"
  /\ data = "idle" /\ samples < MaxSamples
  /\ samples' = samples + 1
  /\ IF deviceConnected THEN data' = "push" /\ accepted' = connection
     ELSE UNCHANGED <<data, accepted>>
  /\ UNCHANGED <<program, deviceVars, imuVars, monitorVars, mainVars>>

(* Mutant: samples are queued without the mutex. *)
MutexUnused == TRUE

(* The IMU thread holds g_imu_queue_mutex until it sleeps or has taken a    *)
(* sample.                                                                  *)
MutexFree == imu \notin {"test", "sleep"}

(* The oldest sample is dropped if the queue is full.                       *)
Pushed(queue, sample) ==
  Append(IF Len(queue) >= IMU_QUEUE_MAX_SIZE THEN Tail(queue) ELSE queue, sample)

Push ==
  /\ program = "runs"
  /\ data = "push" /\ MutexFree
  /\ g_imu_queue' = Pushed(g_imu_queue, accepted)
  /\ accepted' = 0
  /\ data' = "notify"
  /\ UNCHANGED <<program, deviceVars, samples, g_imu_thread_running, imu, imu_sample,
                 monitorVars, mainVars>>

NotifyOne ==
  /\ program = "runs"
  /\ data = "notify"
  /\ imu' = Notified
  /\ data' = "idle"
  /\ UNCHANGED <<program, deviceVars, accepted, samples, g_imu_thread_running, imu_sample,
                 g_imu_queue, monitorVars, mainVars>>

-----------------------------------------------------------------------------
(* imu_thread_routine().                                                    *)

ImuStep(from, to) ==
  /\ program = "runs"
  /\ imu = from
  /\ imu' = to
  /\ UNCHANGED <<program, deviceVars, dataVars, g_imu_thread_running, imu_sample,
                 g_imu_queue, monitorVars, mainVars>>

ImuCheck == ImuStep("check", IF g_imu_thread_running THEN "lock" ELSE "ended")

(* The predicate of the wait is read under the mutex; between a false one   *)
(* and the sleep nothing keeps the flag from changing.                      *)
ImuLock == ImuStep("lock", "test")

ImuWait ==
  /\ g_imu_queue = <<>> /\ g_imu_thread_running
  /\ ImuStep("test", "sleep")

ImuSleep == ImuStep("sleep", "asleep")

(* A condition variable may wake without a notification.                    *)
ImuSpurious == ImuStep("asleep", "lock")

ImuEnd ==
  /\ ~g_imu_thread_running
  /\ ImuStep("test", "ended")

(* A sample is taken under the mutex and published without it; then flag    *)
(* and queue are looked at again.                                           *)
ImuTake ==
  /\ program = "runs"
  /\ imu = "test" /\ g_imu_thread_running /\ g_imu_queue # <<>>
  /\ imu_sample' = Head(g_imu_queue)
  /\ g_imu_queue' = Tail(g_imu_queue)
  /\ imu' = "publish"
  /\ UNCHANGED <<program, deviceVars, dataVars, g_imu_thread_running, monitorVars, mainVars>>

ImuPublish ==
  /\ program = "runs"
  /\ imu = "publish"
  /\ imu_sample' = 0
  /\ imu' = "check"
  /\ UNCHANGED <<program, deviceVars, dataVars, g_imu_thread_running, g_imu_queue,
                 monitorVars, mainVars>>

-----------------------------------------------------------------------------
(* custom_parameter_monitor().                                              *)
MonitorCheck ==
  /\ program = "runs"
  /\ monitor = "check"
  /\ ~(g_param_monitor_running /\ deviceConnected)
  /\ monitor' = "ended"
  /\ UNCHANGED <<program, deviceVars, dataVars, imuVars, g_param_monitor_running, mainVars>>

-----------------------------------------------------------------------------
(* main(): waits for the first connection, then turns at 10 Hz.             *)

MainStep(from, to) ==
  /\ program = "runs"
  /\ main = from
  /\ main' = to
  /\ UNCHANGED <<program, deviceVars, dataVars, imuVars, monitorVars,
                 g_map_transfer_in_progress, transfers, saves>>

MainStarts == deviceConnected /\ MainStep("wait", "loop")

(* One of the four AE/AWB services, served whether connected or not; it     *)
(* answers -100 if the handle is null, else calls the SDK with it.          *)
ServiceCall == odinDevice # "null" /\ MainStep("loop", "service")
ServiceReturn == MainStep("service", "loop")

(* process_command_file(), which only a connected device lets through.      *)
CommandCheck ==
  /\ ~deviceDisconnected /\ deviceConnected /\ odinDevice # "null"
  /\ MainStep("loop", "command")

(* A save_map during a transfer is refused; other parameters are set.       *)
CommandOther == MainStep("command", "loop")

SaveMap ==
  /\ program = "runs"
  /\ main = "command" /\ saves < MaxSaves
  /\ ~g_map_transfer_in_progress
  /\ g_map_transfer_in_progress' = TRUE
  /\ transfers' = transfers + 1
  /\ saves' = saves + 1
  /\ main' = "loop"
  /\ UNCHANGED <<program, deviceVars, dataVars, imuVars, monitorVars>>

TransferEnds ==
  /\ program = "runs"
  /\ transfers > 0
  /\ transfers' = transfers - 1
  /\ g_map_transfer_in_progress' = FALSE
  /\ UNCHANGED <<program, deviceVars, dataVars, imuVars, monitorVars, main, saves>>

-----------------------------------------------------------------------------
Device == \/ Exit \/ Create \/ ConnectionTimeout \/ InTime \/ Open \/ Setup
          \/ SetConnected \/ StartImu \/ StopOldMonitor \/ CreateMonitor
          \/ SetDisconnected \/ StopImu \/ NotifyImu \/ JoinImu
          \/ StopMonitor \/ JoinMonitor \/ ClearAll
Deliver == Push \/ NotifyOne
ImuThread == \/ ImuCheck \/ ImuLock \/ ImuWait \/ ImuSleep \/ ImuEnd
             \/ ImuTake \/ ImuPublish
Main == MainStarts \/ ServiceCall \/ ServiceReturn \/ CommandCheck \/ CommandOther \/ SaveMap

Next ==
  \/ Attach \/ Detach \/ Device
  \/ CheckConnected \/ Deliver
  \/ ImuThread \/ ImuSpurious
  \/ MonitorCheck
  \/ Main \/ TransferEnds

Spec == Init /\ [][Next]_vars

(* Every thread runs on; devices, samples, commands and spurious wake-ups   *)
(* come as they please.                                                     *)
FairSpec ==
  /\ Spec
  /\ WF_vars(Device)
  /\ WF_vars(Deliver)
  /\ WF_vars(ImuThread)
  /\ WF_vars(MonitorCheck)

-----------------------------------------------------------------------------
TypeOK ==
  /\ program \in {"runs", "exited", "terminated"}
  /\ attached \in 0 .. 2 /\ odinDevice \in {"null", "created", "open"}
  /\ {deviceConnected, deviceDisconnected, g_connection_timeout, g_imu_thread_running,
      g_param_monitor_running, g_map_transfer_in_progress} \subseteq BOOLEAN
  /\ data \in {"idle", "push", "notify"} /\ accepted \in 0 .. MaxConnections + 2
  /\ imu \in {"none", "check", "lock", "test", "sleep", "asleep", "publish", "ended"}
  /\ monitor \in {"none", "check", "ended"}
  /\ main \in {"wait", "loop", "service", "command"}
  /\ g_imu_queue \in Seq(1 .. MaxConnections + 2) /\ Len(g_imu_queue) <= IMU_QUEUE_MAX_SIZE
  /\ transfers \in Nat

(* However devices come and go, no thread is started over one that has not  *)
(* been joined, which would end the program.                                *)
NoTerminate == program # "terminated"

(* Between two device callbacks the IMU thread and the monitor are there    *)
(* exactly while a device is connected; no thread outlives its connection.  *)
ThreadsFollowConnection ==
  dev = "idle" => /\ (imu # "none") = deviceConnected
                  /\ (monitor # "none") = deviceConnected

(* The samples between the data callback and the publication, oldest first. *)
OnTheWay ==
  (IF imu = "publish" THEN <<imu_sample>> ELSE <<>>) \o g_imu_queue
    \o (IF data = "push" THEN <<accepted>> ELSE <<>>)

(* The queues that a detachment clears carry no samples into the next       *)
(* connection.  If the SDK reports the detachment while a sample is between *)
(* the look at deviceConnected and the queue, that sample alone gets there, *)
(* ahead of all others; if it does not, none does.                          *)
AtMostOneStale ==
  deviceConnected =>
    \A i \in 1 .. Len(OnTheWay) :
      OnTheWay[i] # connection => CallbacksOverlap /\ i = 1

(* While connected, queued samples go out: no notification is lost between  *)
(* the data callback and the IMU thread.                                    *)
SamplesGoOut ==
  (g_imu_queue # <<>> /\ deviceConnected) ~>
    (g_imu_queue = <<>> \/ ~deviceConnected \/ program # "runs")

(* stop_imu_thread() returns, so that the detach callback ends and a device *)
(* can come back.                                                           *)
StopReturns == (dev = "joinImu") ~> (dev # "joinImu" \/ program # "runs")

=============================================================================
