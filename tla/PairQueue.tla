------------------------------ MODULE PairQueue ------------------------------
(***************************************************************************)
(* host_sdk_sample.h: images and point clouds wait in two bounded queues   *)
(* until main() matches them by time stamp (try_process_pair) to render    *)
(* coloured clouds.  SDK threads fill the queues; main looks at both       *)
(* fronts, and removes them, in critical sections of their own.            *)
(*                                                                         *)
(* A message is its stamp.  Each queue is filled by one thread, in order.  *)
(***************************************************************************)
EXTENDS Integers, Sequences

CONSTANTS
  MaxQueueSize,     \* 10 in the code
  MAX_TIME_DIFF,
  MaxStamp          \* bound: the last stamp

ASSUME PairQueueAssumption ==
  /\ MaxQueueSize \in Nat \ {0} /\ MAX_TIME_DIFF \in Nat /\ MaxStamp \in Nat

VARIABLES
  queue,       \* queue["rgb"] and queue["pcd"], oldest first
  last,        \* the last stamp queued in each
  pairing,     \* where try_process_pair is: "idle", "look", "compare", "drop", "remove"
  front,       \* the messages main() looked at
  processed    \* the last pair processed

pairVars == <<queue, last, pairing, front, processed>>

Sensor == {"rgb", "pcd"}
Nothing == [k \in Sensor |-> 0]

PairInit ==
  /\ queue = [k \in Sensor |-> <<>>]
  /\ last = Nothing
  /\ pairing = "idle"
  /\ front = Nothing
  /\ processed = Nothing

-----------------------------------------------------------------------------
(* A full queue drops its oldest message first.                             *)
Room(q) == IF Len(q) >= MaxQueueSize THEN Tail(q) ELSE q

(* Mutant: the queue is bounded after the push, with one message too many. *)
ArriveLate(k, t) ==
  /\ t > last[k]
  /\ queue' = [queue EXCEPT ![k] = Append(IF Len(@) > MaxQueueSize THEN Tail(@) ELSE @, t)]
  /\ last' = [last EXCEPT ![k] = t]
  /\ UNCHANGED <<pairing, front, processed>>

(* Mutant: a message that finds the queue full empties it. *)
ArriveFlush(k, t) ==
  /\ t > last[k]
  /\ queue' = [queue EXCEPT ![k] = IF Len(@) >= MaxQueueSize THEN <<>> ELSE Append(@, t)]
  /\ last' = [last EXCEPT ![k] = t]
  /\ UNCHANGED <<pairing, front, processed>>

(* publishRgb or publishIntensityCloud, with sendcloudrender set.           *)
Arrive(k, t) ==
  /\ t > last[k]
  /\ queue' = [queue EXCEPT ![k] = Append(Room(@), t)]
  /\ last' = [last EXCEPT ![k] = t]
  /\ UNCHANGED <<pairing, front, processed>>

-----------------------------------------------------------------------------
(* try_process_pair(), once per turn of main's loop.                        *)
Call == /\ pairing = "idle" /\ pairing' = "look"
        /\ UNCHANGED <<queue, last, front, processed>>

Look ==
  /\ pairing = "look"
  /\ IF \A k \in Sensor : queue[k] # <<>>
     THEN front' = [k \in Sensor |-> Head(queue[k])] /\ pairing' = "compare"
     ELSE front' = Nothing /\ pairing' = "idle"
  /\ UNCHANGED <<queue, last, processed>>

(* Mutant: the difference of unsigned stamps wraps around. *)
ApartUnsigned == LET d == front["rgb"] - front["pcd"] IN d > MAX_TIME_DIFF \/ d < 0

Apart == LET d == front["rgb"] - front["pcd"] IN d > MAX_TIME_DIFF \/ -d > MAX_TIME_DIFF

Compare ==
  /\ pairing = "compare"
  /\ pairing' = IF Apart THEN "drop" ELSE "remove"
  /\ UNCHANGED <<queue, last, front, processed>>

(* The older of the two goes: the front of its queue, whatever that is now. *)
Drop ==
  /\ pairing = "drop"
  /\ LET k == IF front["rgb"] > front["pcd"] THEN "pcd" ELSE "rgb"
     IN queue' = [queue EXCEPT ![k] = Tail(@)]
  /\ pairing' = "look"
  /\ UNCHANGED <<last, front, processed>>

(* Both fronts go, and the pair looked at is processed.                     *)
Remove ==
  /\ pairing = "remove"
  /\ queue' = [k \in Sensor |-> Tail(queue[k])]
  /\ processed' = front
  /\ pairing' = "look"
  /\ UNCHANGED <<last, front>>

-----------------------------------------------------------------------------
Pairing == Call \/ Look \/ Compare \/ Drop \/ Remove
PairNext == Pairing \/ \E k \in Sensor, t \in 1 .. MaxStamp : Arrive(k, t)

PairSpec == PairInit /\ [][PairNext]_pairVars
(* main() calls at 10 Hz.                                                   *)
FairPairSpec == PairSpec /\ WF_pairVars(Pairing)

-----------------------------------------------------------------------------
PairTypeOK ==
  /\ \A k \in Sensor : queue[k] \in Seq(1 .. MaxStamp) /\ Len(queue[k]) <= MaxQueueSize
  /\ last \in [Sensor -> 0 .. MaxStamp] /\ front \in [Sensor -> 0 .. MaxStamp]
  /\ pairing \in {"idle", "look", "compare", "drop", "remove"}

(* Between look and removal the SDK threads may replace what was looked at, *)
(* but never leave a queue empty: pop_front is not called on an empty deque. *)
PopIsSafe == pairing \in {"compare", "drop", "remove"} => \A k \in Sensor : queue[k] # <<>>

(* No image and no cloud is rendered twice: pairs only move forward.        *)
PairsAdvance == [][processed' # processed => \A k \in Sensor : processed'[k] > processed[k]]_pairVars

(* What can be rendered is: an image and a cloud within MAX_TIME_DIFF that  *)
(* are alone in their queues are processed unless newer ones come first.    *)
MatchesAreRendered ==
  \A t, u \in 1 .. MaxStamp :
    t - u <= MAX_TIME_DIFF /\ u - t <= MAX_TIME_DIFF =>
      ((queue["rgb"] = <<t>> /\ queue["pcd"] = <<u>>) ~>
        \/ processed["rgb"] = t /\ processed["pcd"] = u
        \/ last["rgb"] > t \/ last["pcd"] > u)

=============================================================================
