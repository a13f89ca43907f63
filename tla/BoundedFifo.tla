----------------------------- MODULE BoundedFifo -----------------------------
(***************************************************************************)
(* What SyncQueue promises to its one producer and its one consumer: a     *)
(* first-in first-out queue of at most Limit entries, every operation of   *)
(* which takes effect at one instant.                                      *)
(*                                                                         *)
(* push() appends or is refused, and it is refused only when the queue is  *)
(* full.  pop(), popWait() and popBatch() hand over a prefix of the queue. *)
(* clear() is not part of the promise: SyncQueue.tla says when it can be   *)
(* called, LidarDriver.tla where it is called.                             *)
(***************************************************************************)
EXTENDS Integers, Sequences

CONSTANTS Value,   \* what the queue carries
          Limit    \* the most entries it holds at a time, a positive number

VARIABLES queue,     \* the entries, oldest first
          pushed,    \* how the last push() ended: "none", "ok" or "full"
          returned   \* what the consumer got from its last call

fifoVars == <<queue, pushed, returned>>

FifoInit == queue = <<>> /\ pushed = "none" /\ returned = <<>>

Enqueue(v) ==
  /\ Len(queue) < Limit
  /\ queue' = Append(queue, v)
  /\ pushed' = "ok"
  /\ UNCHANGED returned

Refuse ==
  /\ Len(queue) = Limit
  /\ pushed' = "full"
  /\ UNCHANGED <<queue, returned>>

(* The consumer enters a new call and forgets what the last one returned.  *)
Call ==
  /\ returned' = <<>>
  /\ UNCHANGED <<queue, pushed>>

Dequeue(n) ==
  /\ n \in 1 .. Len(queue)
  /\ returned' = SubSeq(queue, 1, n)
  /\ queue' = SubSeq(queue, n + 1, Len(queue))
  /\ UNCHANGED pushed

FifoNext ==
  \/ \E v \in Value : Enqueue(v)
  \/ Refuse
  \/ Call
  \/ \E n \in 1 .. Limit : Dequeue(n)

FifoSpec == FifoInit /\ [][FifoNext]_fifoVars
=============================================================================
