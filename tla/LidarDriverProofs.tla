------------------------- MODULE LidarDriverProofs -------------------------
(***************************************************************************)
(* Proofs about LidarDriver, for rings, batches, pools and buffers of any  *)
(* number: the types of the three threads, that a buffer has one owner at  *)
(* a time and that packets are decoded in the order of their arrival, as   *)
(* long as no clear() meets a popBatch().                                  *)
(*                                                                         *)
(* Then pkt_queue_ is SyncQueue with its invariant, except while the       *)
(* receiving thread clears it, and the refinement shown in SyncQueueProofs *)
(* lets each step of the ring be seen as what it does to a sequence.       *)
(***************************************************************************)
EXTENDS LidarDriver, SequenceTheorems, TLAPS

Ring == INSTANCE SyncQueueProofs WITH Value <- Buffer, NoValue <- NoBuffer

(* The receiving thread has packets of the last recvmmsg() still to push.  *)
InHand == recv.pc \in {"push", "pushing", "clear", "clearing"}

(* Where the threads are, together with the ring's users and stop().       *)
Threads ==
  /\ recv.pc = "pushing" <=> producer.pc \in {"write", "publish"}
  /\ recv.pc = "clearing" <=> producer.pc \in {"clearHead", "clearTail"}
  /\ recv.pc = "pushing" => producer.value = recv.pkt_pool[recv.k]
  /\ handle.pc = "pop" <=> consumer.pc # "idle"
  /\ consumer.pc # "idle" => consumer.op = "popBatch"
  /\ ~driver.start_flag_ => driver.pc = "idle" /\ recv.pc = "none" /\ handle.pc = "none"
  /\ driver.pc = "joinHandle" => recv.pc = "none"
  /\ InHand => recv.k <= recv.n /\ \A j \in recv.k .. VLEN : recv.pkt_pool[j] # NoBuffer
  /\ handle.pc \in {"top", "wait", "pop"} => handle.i = 1
  /\ handle.pc \in {"decode", "release"} => handle.i <= Len(returned)
  /\ handle.pc = "release" => returned[handle.i] # NoBuffer

(* While nobody disturbs a batch the ring is as SyncQueue keeps it, or is  *)
(* being cleared with no consumer in it.                                   *)
RingKept ==
  IF recv.pc = "clearing"
  THEN /\ consumer.pc = "idle" /\ consumer.batch = <<>>
       /\ producer.pc = "clearTail" => head_ = 0
       /\ producer.pc = "clearHead" => tail_ = 0
  ELSE Ring!IInv

(* The packets on their way to the decoder, the next one first: the rest   *)
(* of the batch and what the queue holds, which a clear() gives up.        *)
Queue == IF recv.pc = "clearing" THEN <<>> ELSE PktQueue!Contents
OnTheirWay == Unhandled \o Queue

Distinct(q) == \A i, j \in DOMAIN q : i < j => q[i] # q[j]
Apart(q, r) == \A i \in DOMAIN q, j \in DOMAIN r : q[i] # r[j]
Without(q, b) == \A i \in DOMAIN q : q[i] # b

Owners ==
  /\ OnTheirWay \in Seq(Buffer)
  /\ Distinct(free_pkt_queue_) /\ Apart(OnTheirWay, free_pkt_queue_)
  /\ \A j, k \in Pool : j < k /\ recv.pkt_pool[j] # NoBuffer => recv.pkt_pool[j] # recv.pkt_pool[k]
  /\ \A k \in Pool : recv.pkt_pool[k] # NoBuffer =>
       Without(OnTheirWay, recv.pkt_pool[k]) /\ Without(free_pkt_queue_, recv.pkt_pool[k])

(* Everything up to Settled has been pushed, skipped or dropped; the rest  *)
(* is in hand.                                                             *)
Settled == IF InHand THEN arrived - recv.n + recv.k - 1 ELSE arrived

(* What has been decoded comes before what is on its way, in order ...     *)
Past ==
  /\ \A i, j \in DOMAIN handled : i < j => handled[i] < handled[j]
  /\ \A i, j \in DOMAIN OnTheirWay : i < j => content[OnTheirWay[i]] < content[OnTheirWay[j]]
  /\ \A i \in DOMAIN handled, j \in DOMAIN OnTheirWay :
       (handle.pc = "release" => j > 1) => handled[i] < content[OnTheirWay[j]]
  /\ \A i \in DOMAIN handled : handled[i] <= Settled
  /\ \A j \in DOMAIN OnTheirWay : content[OnTheirWay[j]] <= Settled

(* ... and that before what is in hand.                                    *)
Ahead ==
  InHand => /\ recv.n <= arrived
            /\ \A j \in recv.k .. recv.n : content[recv.pkt_pool[j]] = arrived - recv.n + j

Order == Past /\ Ahead

Basic == TypeOK /\ Threads
DriverInv == Basic /\ (Quiet => RingKept /\ Owners /\ Order)

-----------------------------------------------------------------------------
(* The types and the places of the threads, which no clear() disturbs.     *)

(* Nobody runs at first, and the ring is empty.                            *)
LEMMA InitBasic == Init => Basic
<1> SUFFICES ASSUME Init PROVE Basic OBVIOUS
<1>1. TypeOK
  <2>1. PktQueue!TypeOK
    BY LidarDriverAssumption
       DEF Init, PktQueue!Init, PktQueue!TypeOK, PktQueue!Slot, PktQueue!ProducerIdle, PktQueue!ConsumerIdle
  <2> QED
    BY <2>1, LidarDriverAssumption DEF Init, TypeOK, RecvStopped, EmptyPool, Pool
<1>2. Threads
  BY DEF Init, PktQueue!Init, Threads, InHand, RecvStopped, PktQueue!ProducerIdle, PktQueue!ConsumerIdle
<1> QED BY <1>1, <1>2 DEF Basic

(* An unchanged ring keeps its types.                                      *)
LEMMA RingTypesKept ==
  ASSUME PktQueue!TypeOK, UNCHANGED queueVars PROVE PktQueue!TypeOK'
BY DEF queueVars, PktQueue!TypeOK

(* What % Capacity gives is a place of the ring.                           *)
LEMMA InSlot == ASSUME NEW n \in Nat PROVE n % Capacity \in PktQueue!Slot
BY LidarDriverAssumption DEF PktQueue!Slot

(* start() finds both threads ended, stop() joins them one after the       *)
(* other.                                                                  *)
LEMMA CallerBasic ==
  ASSUME Basic, CallerStep PROVE Basic'
<1>1. PktQueue!TypeOK'
  BY RingTypesKept DEF Basic, TypeOK, CallerStep, DriverInit, DriverStart, StopInput, StopHandle, StopClear
<1>2. TypeOK'
  <2>1. CASE DriverInit BY <1>1, <2>1 DEF DriverInit, Basic, TypeOK
  <2>2. CASE DriverStart
    <3>1. recv' = [pc |-> "select", pkt_pool |-> EmptyPool, k |-> 1, n |-> 0]
      BY <2>2 DEF DriverStart, RecvStopped
    <3>2. EmptyPool \in [Pool -> Buffer \cup {NoBuffer}] /\ 1 \in Pool /\ 0 \in 0 .. VLEN
      BY LidarDriverAssumption DEF EmptyPool, Pool
    <3>3. recv' \in [pc : {"none", "select", "refill", "push", "pushing", "clear", "clearing"},
                     pkt_pool : [Pool -> Buffer \cup {NoBuffer}], k : Pool, n : 0 .. VLEN]
      BY <3>1, <3>2
    <3>4. driver.session + 1 \in 0 .. MaxSession
      <4>1. driver.session \in 0 .. MaxSession BY DEF Basic, TypeOK
      <4>2. driver.session < MaxSession BY <2>2 DEF DriverStart
      <4> QED BY <4>1, <4>2, LidarDriverAssumption
    <3>5. driver' \in [pc : {"idle", "joinRecv", "joinHandle"}, init_flag_ : BOOLEAN,
                       start_flag_ : BOOLEAN, to_exit_recv_ : BOOLEAN,
                       to_exit_handle_ : BOOLEAN, session : 0 .. MaxSession]
      BY <2>2, <3>4 DEF DriverStart, Basic, TypeOK
    <3>6. handle' \in [pc : {"none", "top", "wait", "pop", "decode", "release", "crashed"}, i : Nat \ {0}]
      BY <2>2 DEF DriverStart
    <3>7. UNCHANGED <<free_pkt_queue_, content, arrived, point_cloud_, handled, clears>>
      BY <2>2 DEF DriverStart
    <3> QED BY <1>1, <3>3, <3>5, <3>6, <3>7 DEF Basic, TypeOK
  <2>3. CASE StopInput BY <1>1, <2>3 DEF StopInput, Basic, TypeOK
  <2>4. CASE StopHandle BY <1>1, <2>4 DEF StopHandle, Basic, TypeOK
  <2>5. CASE StopClear BY <1>1, <2>5 DEF StopClear, Basic, TypeOK
  <2> QED BY <2>1, <2>2, <2>3, <2>4, <2>5 DEF CallerStep
<1>3. Threads'
  <2> USE DEF Basic, TypeOK, Threads, InHand, queueVars
  <2>1. CASE DriverInit BY <2>1 DEF DriverInit
  <2>2. CASE DriverStart BY <2>2 DEF DriverStart, RecvStopped
  <2>3. CASE StopInput BY <2>3 DEF StopInput
  <2>4. CASE StopHandle BY <2>4 DEF StopHandle
  <2>5. CASE StopClear BY <2>5 DEF StopClear
  <2> QED BY <2>1, <2>2, <2>3, <2>4, <2>5 DEF CallerStep
<1> QED BY <1>2, <1>3 DEF Basic

(* The next packet in hand.                                                *)
LEMMA AfterPacketTypes ==
  ASSUME NEW r, r \in [pc : {"none", "select", "refill", "push", "pushing", "clear", "clearing"},
                       pkt_pool : [Pool -> Buffer \cup {NoBuffer}], k : Pool, n : 0 .. VLEN],
         r.k <= r.n
  PROVE  /\ AfterPacket(r) \in
              [pc : {"select", "push"}, pkt_pool : [Pool -> Buffer \cup {NoBuffer}], k : Pool, n : 0 .. VLEN]
         /\ AfterPacket(r).pkt_pool = r.pkt_pool
         /\ AfterPacket(r).pc = "push" => AfterPacket(r).k = r.k + 1 /\ AfterPacket(r).n = r.n /\ r.k < r.n
         /\ AfterPacket(r).pc = "select" => r.k = r.n /\ AfterPacket(r).n = 0
<1>1. VLEN \in Nat /\ r.k \in 1 .. VLEN /\ r.n \in 0 .. VLEN BY LidarDriverAssumption DEF Pool
<1>2. r.k # r.n => r.k + 1 \in Pool BY <1>1 DEF Pool
<1>3. 1 \in Pool /\ 0 \in 0 .. VLEN BY <1>1 DEF Pool
<1>4. CASE r.k = r.n BY <1>1, <1>3, <1>4 DEF AfterPacket
<1>5. CASE r.k # r.n
  <2>1. AfterPacket(r) = [r EXCEPT !.pc = "push", !.k = r.k + 1] BY <1>5 DEF AfterPacket
  <2>2. r.k + 1 \in Pool BY <1>2, <1>5
  <2>3. r.k < r.n BY <1>1, <1>5
  <2>4. /\ AfterPacket(r).pc = "push" /\ AfterPacket(r).k = r.k + 1 /\ AfterPacket(r).n = r.n
        /\ AfterPacket(r).pkt_pool = r.pkt_pool
    BY <2>1
  <2>5. AfterPacket(r) \in [pc : {"select", "push"}, pkt_pool : [Pool -> Buffer \cup {NoBuffer}],
                            k : Pool, n : 0 .. VLEN]
    BY <2>1, <2>2
  <2> QED BY <2>3, <2>4, <2>5
<1> QED BY <1>4, <1>5

(* The handling thread keeps the types: what it decodes and recycles is a  *)
(* buffer, or it stops there.                                              *)
LEMMA HandleTypesKept ==
  ASSUME Basic, HandleStep
  PROVE  TypeOK'
<1>0. /\ returned \in Seq(Buffer \cup {NoBuffer})
      /\ free_pkt_queue_ \in Seq(Buffer) /\ Len(free_pkt_queue_) < Capacity
      /\ content \in [Buffer -> 0 .. MaxPacket]
      /\ handle.i \in Nat \ {0}
      /\ head_ \in PktQueue!Slot /\ tail_ \in PktQueue!Slot
      /\ buffer_ \in [PktQueue!Slot -> Buffer \cup {NoBuffer}]
      /\ consumer \in [pc : {"idle", "loadHead", "loadTail", "copy"}, op : {"pop", "popBatch"},
                       head : PktQueue!Slot, count : Nat, batch : Seq(Buffer \cup {NoBuffer})]
  BY DEF Basic, TypeOK, PktQueue!TypeOK
<1>1. CASE HandleTop
  BY <1>1, RingTypesKept DEF HandleTop, Basic, TypeOK
<1>2. CASE PopTimeout
  BY <1>2, RingTypesKept DEF PopTimeout, Basic, TypeOK
<1>3. CASE PopBegin
  <2>1. PktQueue!TypeOK'
    <3>1. 0 \in PktQueue!Slot BY LidarDriverAssumption DEF PktQueue!Slot
    <3>2. consumer' = [pc |-> "loadHead", op |-> "popBatch", head |-> 0, count |-> 0, batch |-> <<>>]
          /\ returned' = <<>> /\ UNCHANGED <<buffer_, head_, tail_, producer, pushed>>
      BY <1>3 DEF PopBegin, PktQueue!BatchTest, PktQueue!ConsumerIdle, PktQueue!ring, PktQueue!prodVars
    <3> QED BY <3>1, <3>2 DEF PktQueue!TypeOK, Basic, TypeOK
  <2> QED BY <1>3, <2>1 DEF PopBegin, Basic, TypeOK
<1>4. CASE PopGoOn
  <2>1. PktQueue!TypeOK'
    <3>0. PktQueue!Distance(consumer.head, tail_) \in Nat
      <4>1. consumer.head \in 0 .. Capacity - 1 /\ tail_ \in 0 .. Capacity - 1 BY <1>0 DEF PktQueue!Slot
      <4> QED BY <4>1, LidarDriverAssumption DEF PktQueue!Distance
    <3> USE DEF PktQueue!TypeOK, PktQueue!ring, PktQueue!prodVars, Basic, TypeOK
    <3>1. CASE PktQueue!BatchLoadHead BY <3>1 DEF PktQueue!BatchLoadHead
    <3>2. CASE PktQueue!LoadTail
      <4>1. PktQueue!Distance(consumer.head, tail_) \in Nat
        BY <3>0
      <4>2. PktQueue!Smaller(IF consumer.op = "pop" THEN 1 ELSE MaxCount,
                             PktQueue!Distance(consumer.head, tail_)) \in Nat
        BY <4>1, LidarDriverAssumption DEF PktQueue!Smaller
      <4> QED BY <3>2, <4>2 DEF PktQueue!LoadTail
    <3>3. CASE PktQueue!CopyEntry
      <4>1. PktQueue!CopyIndex \in PktQueue!Slot
        <5>1. consumer.head \in Nat BY <1>0, LidarDriverAssumption DEF PktQueue!Slot
        <5>2. Len(consumer.batch) \in Nat BY <1>0
        <5>3. consumer.head + Len(consumer.batch) \in Nat BY <5>1, <5>2
        <5> QED BY <5>3, InSlot DEF PktQueue!CopyIndex
      <4>2. buffer_[PktQueue!CopyIndex] \in Buffer \cup {NoBuffer} BY <1>0, <4>1
      <4>3. consumer' = [consumer EXCEPT !.batch = Append(@, buffer_[PktQueue!CopyIndex])]
            /\ UNCHANGED <<buffer_, head_, tail_, producer, pushed, returned>>
        BY <3>3 DEF PktQueue!CopyEntry
      <4>4. Append(consumer.batch, buffer_[PktQueue!CopyIndex]) \in Seq(Buffer \cup {NoBuffer})
        BY <1>0, <4>2
      <4> DEFINE batch == Append(consumer.batch, buffer_[PktQueue!CopyIndex])
      <4>5. consumer' = [consumer EXCEPT !.batch = batch] BY <4>3
      <4>6. batch \in Seq(Buffer \cup {NoBuffer}) BY <4>4
      <4> HIDE DEF batch
      <4>7. consumer' \in [pc : {"idle", "loadHead", "loadTail", "copy"}, op : {"pop", "popBatch"},
                           head : PktQueue!Slot, count : Nat, batch : Seq(Buffer \cup {NoBuffer})]
        BY <1>0, <4>5, <4>6
      <4> QED BY <4>3, <4>7
    <3> QED BY <1>4, <3>1, <3>2, <3>3 DEF PopGoOn
  <2>2. UNCHANGED <<free_pkt_queue_, content, arrived, recv, handle, point_cloud_, driver, handled, clears>>
    BY <1>4 DEF PopGoOn
  <2> QED BY <2>1, <2>2 DEF Basic, TypeOK
<1>5. CASE PopEnd
  <2>1. PktQueue!TypeOK'
    <3>1. (consumer.head + consumer.count) % Capacity \in PktQueue!Slot
      <4>1. consumer.head \in PktQueue!Slot /\ consumer.count \in Nat BY <1>0
      <4>2. consumer.head + consumer.count \in Nat BY <4>1 DEF PktQueue!Slot
      <4> QED BY <4>2, InSlot
    <3>2. PktQueue!ConsumerIdle
            \in [pc : {"idle", "loadHead", "loadTail", "copy"}, op : {"pop", "popBatch"},
                 head : PktQueue!Slot, count : Nat, batch : Seq(Buffer \cup {NoBuffer})]
      BY LidarDriverAssumption DEF PktQueue!ConsumerIdle, PktQueue!Slot
    <3> QED BY <1>5, <3>1, <3>2 DEF PopEnd, PktQueue!Commit, PktQueue!TypeOK, PktQueue!prodVars, Basic, TypeOK
  <2> QED BY <1>5, <2>1 DEF PopEnd, Basic, TypeOK
<1>6. CASE Decode
  <2>1. PktQueue!TypeOK' BY <1>6, RingTypesKept DEF Decode, Basic, TypeOK
  <2>2. handle.i \in 1 .. Len(returned)
    BY <1>0, <1>6 DEF Decode, Basic, Threads
  <2>3. returned[handle.i] \in Buffer \cup {NoBuffer} BY <1>0, <2>2
  <2> DEFINE c == content[returned[handle.i]]
  <2>4. CASE returned[handle.i] = NoBuffer
    BY <1>6, <2>1, <2>4 DEF Decode, Basic, TypeOK
  <2>5. CASE returned[handle.i] # NoBuffer
    <3>1. c \in 0 .. MaxPacket BY <1>0, <2>3, <2>5
    <3> HIDE DEF c
    <3>2. handled' = Append(handled, c) /\ handle' = [handle EXCEPT !.pc = "release"]
      BY <1>6, <2>5 DEF Decode, c
    <3>3. \E split \in BOOLEAN : point_cloud_' = (IF split THEN {} ELSE point_cloud_) \cup {c}
      BY <1>6, <2>5 DEF Decode, c
    <3>4. handled' \in Seq(0 .. MaxPacket) BY <3>1, <3>2 DEF Basic, TypeOK
    <3>5. point_cloud_' \subseteq 0 .. MaxPacket BY <3>1, <3>3 DEF Basic, TypeOK
    <3>6. UNCHANGED <<free_pkt_queue_, content, arrived, recv, driver, clears>> BY <1>6 DEF Decode
    <3> QED BY <2>1, <3>2, <3>4, <3>5, <3>6 DEF Basic, TypeOK
  <2> QED BY <2>4, <2>5
<1>7. CASE Release
  <2>1. PktQueue!TypeOK' BY <1>7, RingTypesKept DEF Release, Basic, TypeOK
  <2>2. handle.i \in 1 .. Len(returned) /\ returned[handle.i] # NoBuffer
    BY <1>0, <1>7 DEF Release, Basic, Threads
  <2>3. returned[handle.i] \in Buffer BY <1>0, <2>2
  <2>4. free_pkt_queue_' \in Seq(Buffer) /\ Len(free_pkt_queue_') < Capacity
    BY <1>0, <1>7, <2>3, LidarDriverAssumption DEF Release
  <2>5. handle' \in [pc : {"top", "decode"}, i : Nat \ {0}]
    BY <1>0, <1>7 DEF Release
  <2>6. UNCHANGED <<content, arrived, recv, point_cloud_, driver, handled, clears>> BY <1>7 DEF Release
  <2> QED BY <2>1, <2>4, <2>5, <2>6 DEF Basic, TypeOK
<1> QED BY <1>1, <1>2, <1>3, <1>4, <1>5, <1>6, <1>7 DEF HandleStep

(* The handling thread stays within its batch, and in popBatch() as long   *)
(* as the ring's consumer is.                                              *)
LEMMA HandleThreads ==
  ASSUME Basic, HandleStep
  PROVE  Threads'
<1>0. /\ returned \in Seq(Buffer \cup {NoBuffer}) /\ Len(returned) \in Nat
      /\ handle.i \in Nat \ {0}
      /\ consumer.pc \in {"idle", "loadHead", "loadTail", "copy"}
  BY DEF Basic, TypeOK, PktQueue!TypeOK
<1> USE DEF Threads, InHand, Basic
<1>1. CASE HandleTop
  BY <1>1 DEF HandleTop, queueVars
<1>2. CASE PopTimeout
  BY <1>2 DEF PopTimeout, queueVars, TypeOK
<1>3. CASE PopBegin
  BY <1>3 DEF PopBegin, PktQueue!BatchTest, PktQueue!ConsumerIdle, PktQueue!ring, PktQueue!prodVars, TypeOK
<1>4. CASE PopGoOn
  <2>1. /\ consumer'.pc # "idle" /\ consumer'.op = consumer.op /\ consumer.pc # "idle"
        /\ UNCHANGED <<producer, returned>>
    <3>1. consumer \in [pc : {"idle", "loadHead", "loadTail", "copy"}, op : {"pop", "popBatch"},
                        head : PktQueue!Slot, count : Nat, batch : Seq(Buffer \cup {NoBuffer})]
      BY DEF TypeOK, PktQueue!TypeOK
    <3>2. CASE PktQueue!BatchLoadHead BY <3>1, <3>2 DEF PktQueue!BatchLoadHead, PktQueue!prodVars
    <3>3. CASE PktQueue!LoadTail BY <3>1, <3>3 DEF PktQueue!LoadTail, PktQueue!prodVars
    <3>4. CASE PktQueue!CopyEntry BY <3>1, <3>4 DEF PktQueue!CopyEntry, PktQueue!prodVars
    <3> QED BY <1>4, <3>2, <3>3, <3>4 DEF PopGoOn
  <2>2. handle.pc = "pop" /\ UNCHANGED <<recv, handle, driver>> BY <1>4 DEF PopGoOn
  <2> QED BY <2>1, <2>2
<1>5. CASE PopEnd
  <2>1. consumer' = PktQueue!ConsumerIdle /\ returned' = consumer.batch
    BY <1>5 DEF PopEnd, PktQueue!Commit
  <2>2. handle' = [handle EXCEPT !.pc = IF returned' = <<>> THEN "top" ELSE "decode"]
    BY <1>5 DEF PopEnd
  <2>3. handle.i = 1 BY <1>5 DEF PopEnd
  <2>4. UNCHANGED <<producer, recv, driver>>
    BY <1>5 DEF PopEnd, PktQueue!Commit, PktQueue!prodVars
  <2>5. handle'.i = 1 /\ handle'.pc = (IF returned' = <<>> THEN "top" ELSE "decode")
    BY <2>2, <2>3 DEF TypeOK
  <2>6. returned' \in Seq(Buffer \cup {NoBuffer}) /\ (returned' # <<>> => 1 <= Len(returned'))
    <3>1. consumer.batch \in Seq(Buffer \cup {NoBuffer}) BY DEF TypeOK, PktQueue!TypeOK
    <3> QED BY <2>1, <3>1
  <2>7. handle.pc = "pop" BY <1>5 DEF PopEnd
  <2> QED BY <2>1, <2>4, <2>5, <2>6, <2>7 DEF PktQueue!ConsumerIdle
<1>6. CASE Decode
  BY <1>0, <1>6 DEF Decode, queueVars, TypeOK
<1>7. CASE Release
  BY <1>0, <1>7 DEF Release, queueVars, TypeOK
<1> QED BY <1>1, <1>2, <1>3, <1>4, <1>5, <1>6, <1>7 DEF HandleStep

(* The types of the receiving thread's own state.                          *)
PcOfRecv == {"none", "select", "refill", "push", "pushing", "clear", "clearing"}
RecvTypes == [pc : PcOfRecv, pkt_pool : [Pool -> Buffer \cup {NoBuffer}], k : Pool, n : 0 .. VLEN]

(* The receiving thread keeps the types: it fills and empties places of    *)
(* its pool.                                                               *)
LEMMA RecvTypesKept ==
  ASSUME Basic, RecvStep
  PROVE  TypeOK'
<1>0. /\ recv \in RecvTypes /\ 1 \in Pool /\ VLEN \in Nat
      /\ clears \in [count : Nat, since : Nat, overlap : BOOLEAN]
      /\ Popping \in BOOLEAN
  BY LidarDriverAssumption DEF Basic, TypeOK, RecvTypes, PcOfRecv, Pool, Popping
<1>1. ASSUME PktQueue!TypeOK', recv' \in RecvTypes, clears' \in [count : Nat, since : Nat, overlap : BOOLEAN],
             UNCHANGED <<free_pkt_queue_, content, arrived, handle, point_cloud_, driver, handled>>
      PROVE  TypeOK'
  BY <1>1 DEF Basic, TypeOK, RecvTypes, PcOfRecv
<1>2. ASSUME UNCHANGED <<queueVars, clears>>, recv' \in RecvTypes,
             UNCHANGED <<free_pkt_queue_, content, arrived, handle, point_cloud_, driver, handled>>
      PROVE  TypeOK'
  BY <1>0, <1>1, <1>2, RingTypesKept DEF Basic, TypeOK
<1>3. RecvStopped \in RecvTypes
  <2>1. EmptyPool \in [Pool -> Buffer \cup {NoBuffer}] BY DEF EmptyPool
  <2> QED BY <1>0, <2>1 DEF RecvStopped, RecvTypes, PcOfRecv
<1>4. ASSUME NEW r \in RecvTypes, r.k <= r.n PROVE AfterPacket(r) \in RecvTypes
  BY <1>4, AfterPacketTypes DEF RecvTypes, PcOfRecv
<1>5. InHand => recv.k <= recv.n BY DEF Basic, Threads
<1>6. [recv EXCEPT !.pkt_pool[recv.k] = NoBuffer] \in RecvTypes BY <1>0 DEF RecvTypes
<1>10. CASE RecvExit BY <1>2, <1>3, <1>10 DEF RecvExit
<1>11. CASE RecvError BY <1>2, <1>3, <1>11 DEF RecvError
<1>12. CASE RecvSelect
  <2>1. recv' \in RecvTypes BY <1>0, <1>12 DEF RecvSelect, RecvTypes, PcOfRecv
  <2> QED BY <1>2, <1>12, <2>1 DEF RecvSelect
<1>13. CASE RecvNothing
  <2>1. recv' \in RecvTypes BY <1>0, <1>13 DEF RecvNothing, RecvTypes, PcOfRecv
  <2> QED BY <1>2, <1>13, <2>1 DEF RecvNothing
<1>14. CASE SkipShort
  <2>1. recv' \in RecvTypes BY <1>0, <1>4, <1>5, <1>14 DEF SkipShort, InHand
  <2> QED BY <1>2, <1>14, <2>1 DEF SkipShort
<1>15. ASSUME NEW k \in Pool, PacketGet(k) PROVE TypeOK'
  <2>1. PICK b \in Buffer : recv' = [recv EXCEPT !.pkt_pool[k] = b]
    BY <1>15 DEF PacketGet, Basic, TypeOK
  <2>2. recv' \in RecvTypes BY <1>0, <2>1 DEF RecvTypes
  <2>3. free_pkt_queue_' \in Seq(Buffer) /\ Len(free_pkt_queue_') < Capacity
    <3>1. free_pkt_queue_ \in Seq(Buffer) /\ Len(free_pkt_queue_) < Capacity BY DEF Basic, TypeOK
    <3>2. \/ free_pkt_queue_' = free_pkt_queue_
          \/ free_pkt_queue_ # <<>> /\ free_pkt_queue_' = Tail(free_pkt_queue_)
      BY <1>15 DEF PacketGet
    <3> QED BY <3>1, <3>2, LidarDriverAssumption
  <2>4. PktQueue!TypeOK' BY <1>15, RingTypesKept DEF PacketGet, Basic, TypeOK
  <2>5. UNCHANGED <<content, arrived, handle, point_cloud_, driver, handled, clears>> BY <1>15 DEF PacketGet
  <2> QED BY <2>2, <2>3, <2>4, <2>5 DEF Basic, TypeOK, RecvTypes, PcOfRecv
<1>16. ASSUME NEW n \in Pool, RecvDatagrams(n) PROVE TypeOK'
  <2>1. recv' \in RecvTypes
    <3>1. recv' = [recv EXCEPT !.pc = "push", !.k = 1, !.n = n] BY <1>16 DEF RecvDatagrams
    <3>2. n \in 0 .. VLEN BY <1>0 DEF Pool
    <3> QED BY <1>0, <3>1, <3>2 DEF RecvTypes, PcOfRecv
  <2>2. arrived' = arrived + n /\ arrived' \in 0 .. MaxPacket /\ n \in Nat /\ arrived \in Nat
    <3>1. n \in Nat BY <1>0 DEF Pool
    <3>2. arrived \in 0 .. MaxPacket BY DEF Basic, TypeOK
    <3>3. arrived' = arrived + n /\ arrived + n <= MaxPacket BY <1>16 DEF RecvDatagrams
    <3> QED BY <3>1, <3>2, <3>3, LidarDriverAssumption
  <2>3. content' \in [Buffer -> 0 .. MaxPacket]
    <3>1. ASSUME NEW b \in Buffer, \E k \in 1 .. n : recv.pkt_pool[k] = b
          PROVE  arrived + (CHOOSE k \in 1 .. n : recv.pkt_pool[k] = b) \in 0 .. MaxPacket
      <4> DEFINE c == CHOOSE k \in 1 .. n : recv.pkt_pool[k] = b
      <4>1. c \in 1 .. n BY <3>1
      <4> HIDE DEF c
      <4>2. arrived + c \in 0 .. MaxPacket BY <2>2, <4>1, LidarDriverAssumption
      <4> QED BY <4>2 DEF c
    <3>2. \A b \in Buffer : content[b] \in 0 .. MaxPacket BY DEF Basic, TypeOK
    <3> QED BY <1>16, <3>1, <3>2 DEF RecvDatagrams
  <2>4. PktQueue!TypeOK' BY <1>16, RingTypesKept DEF RecvDatagrams, Basic, TypeOK
  <2>5. UNCHANGED <<free_pkt_queue_, handle, point_cloud_, driver, handled, clears>> BY <1>16 DEF RecvDatagrams
  <2> QED BY <2>1, <2>2, <2>3, <2>4, <2>5 DEF Basic, TypeOK, RecvTypes, PcOfRecv
<1>17. CASE PutClaim
  <2>1. recv.k \in Pool /\ recv.pkt_pool[recv.k] \in Buffer \cup {NoBuffer} BY <1>0 DEF RecvTypes
  <2>2. PktQueue!TypeOK'
    BY <1>17, <2>1 DEF PutClaim, PktQueue!PushClaim, PktQueue!ring, PktQueue!consVars, PktQueue!TypeOK, Basic, TypeOK
  <2>3. recv' \in RecvTypes BY <1>0, <1>17 DEF PutClaim, RecvTypes, PcOfRecv
  <2> QED BY <1>0, <1>1, <1>17, <2>2, <2>3 DEF PutClaim
<1>18. CASE PutWrite
  <2>2. PktQueue!TypeOK'
    <3>1. /\ buffer_ \in [PktQueue!Slot -> Buffer \cup {NoBuffer}]
          /\ producer \in [pc : {"idle", "write", "publish", "clearHead", "clearTail"},
                           value : Buffer \cup {NoBuffer}]
      BY DEF PktQueue!TypeOK, Basic, TypeOK
    <3>2. /\ buffer_' = [buffer_ EXCEPT ![tail_] = producer.value]
          /\ producer' = [producer EXCEPT !.pc = "publish"]
          /\ UNCHANGED <<head_, tail_, pushed, consumer, returned>>
      BY <1>18 DEF PutWrite, PktQueue!PushWrite, PktQueue!consVars
    <3>3. buffer_' \in [PktQueue!Slot -> Buffer \cup {NoBuffer}] BY <3>1, <3>2
    <3>4. producer' \in [pc : {"idle", "write", "publish", "clearHead", "clearTail"},
                         value : Buffer \cup {NoBuffer}]
      BY <3>1, <3>2
    <3> QED BY <3>2, <3>3, <3>4 DEF PktQueue!TypeOK, Basic, TypeOK
  <2> QED BY <1>0, <1>1, <1>18, <2>2 DEF PutWrite
<1>19. CASE PutPublish
  <2>1. PktQueue!Next_(tail_) \in PktQueue!Slot
    BY LidarDriverAssumption DEF PktQueue!Next_, PktQueue!Slot, Basic, TypeOK, PktQueue!TypeOK
  <2>2. PktQueue!TypeOK'
    BY <1>19, <2>1 DEF PutPublish, PktQueue!PushPublish, PktQueue!ProducerIdle, PktQueue!consVars,
       PktQueue!TypeOK, Basic, TypeOK
  <2>3. recv' \in RecvTypes
    <3>1. recv.k <= recv.n BY <1>5, <1>19 DEF PutPublish, InHand
    <3> QED BY <1>0, <1>4, <1>6, <1>19, <3>1 DEF PutPublish, RecvTypes
  <2>4. clears' \in [count : Nat, since : Nat, overlap : BOOLEAN]
    BY <1>0, <1>19 DEF PutPublish
  <2> QED BY <1>1, <1>19, <2>2, <2>3, <2>4 DEF PutPublish
<1>20. CASE PutOverflow
  <2>1. recv' \in RecvTypes BY <1>0, <1>20 DEF PutOverflow, RecvTypes, PcOfRecv
  <2>2. PktQueue!TypeOK'
    BY <1>20 DEF PutOverflow, PktQueue!PushRefused, PktQueue!ring, PktQueue!consVars, PktQueue!TypeOK, Basic, TypeOK
  <2> QED BY <1>0, <1>1, <1>20, <2>1, <2>2 DEF PutOverflow
<1>21. CASE PutClearFirst
  <2>0. 0 \in PktQueue!Slot BY LidarDriverAssumption DEF PktQueue!Slot
  <2>1. recv' \in RecvTypes BY <1>0, <1>21 DEF PutClearFirst, RecvTypes, PcOfRecv
  <2>2. PktQueue!TypeOK'
    <3>1. producer \in [pc : {"idle", "write", "publish", "clearHead", "clearTail"},
                        value : Buffer \cup {NoBuffer}]
      BY DEF PktQueue!TypeOK, Basic, TypeOK
    <3>2. /\ producer' \in {[producer EXCEPT !.pc = "clearTail"], [producer EXCEPT !.pc = "clearHead"]}
          /\ head_' \in {head_, 0} /\ tail_' \in {tail_, 0}
          /\ UNCHANGED <<buffer_, pushed, consumer, returned>>
      BY <1>21 DEF PutClearFirst, PktQueue!ClearFirst, PktQueue!consVars
    <3>3. producer' \in [pc : {"idle", "write", "publish", "clearHead", "clearTail"},
                         value : Buffer \cup {NoBuffer}]
      BY <3>1, <3>2
    <3> QED BY <2>0, <3>2, <3>3 DEF PktQueue!TypeOK, Basic, TypeOK
  <2>3. clears' \in [count : Nat, since : Nat, overlap : BOOLEAN]
    BY <1>0, <1>21 DEF PutClearFirst
  <2> QED BY <1>1, <1>21, <2>1, <2>2, <2>3 DEF PutClearFirst
<1>22. CASE PutClearSecond
  <2>0. 0 \in PktQueue!Slot BY LidarDriverAssumption DEF PktQueue!Slot
  <2>2. PktQueue!TypeOK'
    BY <1>22, <2>0 DEF PutClearSecond, PktQueue!ClearSecond, PktQueue!ProducerIdle, PktQueue!consVars,
       PktQueue!TypeOK, Basic, TypeOK
  <2>3. recv' \in RecvTypes
    <3>1. recv.k <= recv.n BY <1>5, <1>22 DEF PutClearSecond, InHand
    <3> QED BY <1>0, <1>4, <1>6, <1>22, <3>1 DEF PutClearSecond, RecvTypes
  <2>4. clears' \in [count : Nat, since : Nat, overlap : BOOLEAN]
    BY <1>0, <1>22 DEF PutClearSecond
  <2> QED BY <1>1, <1>22, <2>2, <2>3, <2>4 DEF PutClearSecond
<1> QED
  BY <1>10, <1>11, <1>12, <1>13, <1>14, <1>15, <1>16, <1>17, <1>18, <1>19, <1>20, <1>21, <1>22
     DEF RecvStep, RecvWork

(* After a packet, those of recvmmsg() still to come are in the pool.      *)
LEMMA AfterPacketThreads ==
  ASSUME NEW r \in RecvTypes, r.k <= r.n, \A j \in r.k + 1 .. VLEN : r.pkt_pool[j] # NoBuffer,
         recv' = AfterPacket(r)
  PROVE  /\ recv'.pc \in {"select", "push"} /\ recv'.pkt_pool = r.pkt_pool
         /\ InHand' => recv'.k = r.k + 1 /\ recv'.n = r.n /\ recv'.k <= recv'.n
         /\ InHand' => \A j \in recv'.k .. VLEN : recv'.pkt_pool[j] # NoBuffer
         /\ ~InHand' => r.k = r.n
<1>1. VLEN \in Nat /\ r.k \in 1 .. VLEN /\ r.n \in 0 .. VLEN BY LidarDriverAssumption DEF Pool, RecvTypes
<1>2. /\ recv'.pc \in {"select", "push"} /\ recv'.pkt_pool = r.pkt_pool
      /\ recv'.pc = "push" => recv'.k = r.k + 1 /\ recv'.n = r.n /\ r.k < r.n
      /\ recv'.pc = "select" => r.k = r.n
  BY AfterPacketTypes DEF RecvTypes, PcOfRecv
<1> QED BY <1>1, <1>2 DEF InHand

(* The receiving thread is in push() or clear() as long as the ring's      *)
(* producer is.                                                            *)
LEMMA RecvThreads ==
  ASSUME Basic, RecvStep
  PROVE  Threads'
<1>0. /\ recv \in RecvTypes /\ VLEN \in Nat /\ recv.k \in 1 .. VLEN
      /\ InHand => recv.k <= recv.n /\ \A j \in recv.k .. VLEN : recv.pkt_pool[j] # NoBuffer
      /\ producer.pc \in {"idle", "write", "publish", "clearHead", "clearTail"}
  BY LidarDriverAssumption DEF Basic, TypeOK, Threads, RecvTypes, PcOfRecv, Pool, PktQueue!TypeOK
<1>1. ASSUME UNCHANGED <<handle, driver, returned>>, consumer' = consumer, recv.pc # "none",
             (recv'.pc = "pushing" <=> producer'.pc \in {"write", "publish"}),
             (recv'.pc = "clearing" <=> producer'.pc \in {"clearHead", "clearTail"}),
             (recv'.pc = "pushing" => producer'.value = recv'.pkt_pool[recv'.k]),
             (InHand' => recv'.k <= recv'.n /\ \A j \in recv'.k .. VLEN : recv'.pkt_pool[j] # NoBuffer)
      PROVE  Threads'
  BY <1>1 DEF Threads, Basic
<1>2. ASSUME NEW r \in RecvTypes, r = [recv EXCEPT !.pkt_pool[recv.k] = NoBuffer], InHand, recv' = AfterPacket(r)
      PROVE  /\ recv'.pc \in {"select", "push"}
             /\ InHand' => recv'.k <= recv'.n /\ \A j \in recv'.k .. VLEN : recv'.pkt_pool[j] # NoBuffer
  <2>1. r.k = recv.k /\ r.n = recv.n /\ \A j \in recv.k + 1 .. VLEN : r.pkt_pool[j] = recv.pkt_pool[j]
    BY <1>0, <1>2 DEF RecvTypes, Pool
  <2>2. \A j \in recv.k + 1 .. VLEN : r.pkt_pool[j] # NoBuffer BY <1>0, <1>2, <2>1
  <2> QED BY <1>0, <1>2, <2>1, <2>2, AfterPacketThreads
<1>3. [recv EXCEPT !.pkt_pool[recv.k] = NoBuffer] \in RecvTypes BY <1>0 DEF RecvTypes
<1>4. RecvStopped.pc = "none" BY DEF RecvStopped
<1>10. CASE RecvExit \/ RecvError
  <2>1. /\ recv' = RecvStopped /\ recv.pc = "select" /\ UNCHANGED <<producer, consumer, returned, handle, driver>>
    BY <1>10 DEF RecvExit, RecvError, queueVars
  <2> QED BY <1>0, <1>1, <1>4, <2>1 DEF Threads, Basic, InHand
<1>12. CASE RecvSelect \/ RecvNothing
  <2>1. /\ recv'.pc \in {"refill", "select"} /\ recv.pc \in {"select", "refill"}
        /\ UNCHANGED <<producer, consumer, returned, handle, driver>>
    BY <1>0, <1>12 DEF RecvSelect, RecvNothing, queueVars, RecvTypes
  <2> QED BY <1>0, <1>1, <2>1 DEF Threads, Basic, InHand
<1>14. CASE SkipShort
  <2>1. recv.pc = "push" /\ recv' = AfterPacket(recv) /\ UNCHANGED <<producer, consumer, returned, handle, driver>>
    BY <1>14 DEF SkipShort, queueVars
  <2>2. InHand BY <2>1 DEF InHand
  <2>3. \A j \in recv.k + 1 .. VLEN : recv.pkt_pool[j] # NoBuffer BY <1>0, <2>2
  <2>4. /\ recv'.pc \in {"select", "push"}
        /\ InHand' => recv'.k <= recv'.n /\ \A j \in recv'.k .. VLEN : recv'.pkt_pool[j] # NoBuffer
    BY <1>0, <2>1, <2>2, <2>3, AfterPacketThreads
  <2> QED BY <1>1, <2>1, <2>4 DEF Threads, Basic
<1>15. ASSUME NEW k \in Pool, PacketGet(k) PROVE Threads'
  <2>1. recv.pc = "refill" /\ UNCHANGED <<producer, consumer, returned, handle, driver>>
    BY <1>15 DEF PacketGet, queueVars
  <2>2. recv'.pc = "refill" BY <1>0, <1>15 DEF PacketGet, RecvTypes
  <2> QED BY <1>1, <2>1, <2>2 DEF Threads, Basic, InHand
<1>16. ASSUME NEW n \in Pool, RecvDatagrams(n) PROVE Threads'
  <2>1. /\ recv.pc = "refill" /\ recv' = [recv EXCEPT !.pc = "push", !.k = 1, !.n = n]
        /\ \A k \in Pool : recv.pkt_pool[k] # NoBuffer
        /\ UNCHANGED <<producer, consumer, returned, handle, driver>>
    BY <1>16 DEF RecvDatagrams, queueVars
  <2>2. recv'.pc = "push" /\ recv'.k = 1 /\ recv'.n = n /\ recv'.pkt_pool = recv.pkt_pool
    BY <1>0, <2>1 DEF RecvTypes
  <2>3. 1 <= n BY <1>0 DEF Pool
  <2> QED BY <1>0, <1>1, <2>1, <2>2, <2>3 DEF Threads, Basic, Pool
<1>17. CASE PutClaim
  <2>1. /\ recv.pc = "push" /\ recv' = [recv EXCEPT !.pc = "pushing"]
        /\ producer' = [pc |-> "write", value |-> recv.pkt_pool[recv.k]]
        /\ UNCHANGED <<consumer, returned, handle, driver>>
    BY <1>17 DEF PutClaim, PktQueue!PushClaim, PktQueue!consVars
  <2>2. recv'.pc = "pushing" /\ recv'.k = recv.k /\ recv'.n = recv.n /\ recv'.pkt_pool = recv.pkt_pool
    BY <1>0, <2>1 DEF RecvTypes
  <2> QED BY <1>0, <1>1, <2>1, <2>2 DEF InHand
<1>18. CASE PutWrite
  <2>1. /\ recv.pc = "pushing" /\ recv' = recv /\ producer'.pc = "publish" /\ producer'.value = producer.value
        /\ UNCHANGED <<consumer, returned, handle, driver>>
    BY <1>18 DEF PutWrite, PktQueue!PushWrite, PktQueue!consVars, Basic, TypeOK, PktQueue!TypeOK
  <2> QED BY <1>0, <1>1, <2>1 DEF InHand, Threads, Basic
<1>19. CASE PutPublish
  <2>1. /\ recv.pc = "pushing" /\ recv' = AfterPacket([recv EXCEPT !.pkt_pool[recv.k] = NoBuffer])
        /\ producer'.pc = "idle" /\ UNCHANGED <<consumer, returned, handle, driver>>
    BY <1>19 DEF PutPublish, PktQueue!PushPublish, PktQueue!consVars, PktQueue!ProducerIdle
  <2>2. InHand BY <2>1 DEF InHand
  <2> QED BY <1>1, <1>2, <1>3, <2>1, <2>2
<1>20. CASE PutOverflow
  <2>1. /\ recv.pc = "push" /\ recv' = [recv EXCEPT !.pc = "clear"]
        /\ UNCHANGED <<producer, consumer, returned, handle, driver>>
    BY <1>20 DEF PutOverflow, PktQueue!PushRefused, PktQueue!consVars
  <2>2. recv'.pc = "clear" /\ recv'.k = recv.k /\ recv'.n = recv.n /\ recv'.pkt_pool = recv.pkt_pool
    BY <1>0, <2>1 DEF RecvTypes
  <2> QED BY <1>0, <1>1, <2>1, <2>2 DEF InHand, Threads, Basic
<1>21. CASE PutClearFirst
  <2>1. /\ recv.pc = "clear" /\ recv' = [recv EXCEPT !.pc = "clearing"]
        /\ producer'.pc \in {"clearHead", "clearTail"}
        /\ UNCHANGED <<consumer, returned, handle, driver>>
    BY <1>21 DEF PutClearFirst, PktQueue!ClearFirst, PktQueue!consVars, Basic, TypeOK, PktQueue!TypeOK
  <2>2. recv'.pc = "clearing" /\ recv'.k = recv.k /\ recv'.n = recv.n /\ recv'.pkt_pool = recv.pkt_pool
    BY <1>0, <2>1 DEF RecvTypes
  <2> QED BY <1>0, <1>1, <2>1, <2>2 DEF InHand
<1>22. CASE PutClearSecond
  <2>1. /\ recv.pc = "clearing" /\ recv' = AfterPacket([recv EXCEPT !.pkt_pool[recv.k] = NoBuffer])
        /\ producer'.pc = "idle" /\ UNCHANGED <<consumer, returned, handle, driver>>
    BY <1>22 DEF PutClearSecond, PktQueue!ClearSecond, PktQueue!consVars, PktQueue!ProducerIdle
  <2>2. InHand BY <2>1 DEF InHand
  <2> QED BY <1>1, <1>2, <1>3, <2>1, <2>2
<1> QED
  BY <1>10, <1>12, <1>14, <1>15, <1>16, <1>17, <1>18, <1>19, <1>20, <1>21, <1>22
     DEF RecvStep, RecvWork

(* The types and the places of the threads hold in every state.            *)
LEMMA BasicKept ==
  ASSUME Basic, [Next]_vars
  PROVE  Basic'
<1>1. CASE CallerStep BY <1>1, CallerBasic
<1>2. CASE RecvStep BY <1>2, RecvTypesKept, RecvThreads DEF Basic
<1>3. CASE HandleStep BY <1>3, HandleTypesKept, HandleThreads DEF Basic
<1>4. CASE UNCHANGED vars
  <2>1. PktQueue!TypeOK' BY <1>4, RingTypesKept DEF vars, Basic, TypeOK
  <2>2. TypeOK' BY <1>4, <2>1 DEF vars, Basic, TypeOK
  <2> QED BY <1>4, <2>2 DEF vars, queueVars, Basic, Threads, InHand
<1> QED BY <1>1, <1>2, <1>3, <1>4 DEF Next

(* In every state of the driver the variables have their types and the     *)
(* threads are where the others expect them, clear() or not.               *)
THEOREM BasicInvariance == Spec => []Basic
BY InitBasic, BasicKept, PTL DEF Spec

-----------------------------------------------------------------------------
(* What the steps of the threads do to the ring and to what it holds.      *)

(* The packet queue is a ring as SyncQueue assumes one.                    *)
LEMMA RingAssumption == Ring!SyncQueueAssumption
BY LidarDriverAssumption DEF Ring!SyncQueueAssumption

(* The driver's queue, and its steps, are those the theorems about        *)
(* SyncQueue speak of.                                                     *)
RingIsSame == PktQueue!Contents = Ring!Contents /\ (PktQueue!TypeOK <=> Ring!TypeOK)

(* Two instances of one module, with the same contents.                    *)
LEMMA SameRingState == RingIsSame
<1>1. PktQueue!Contents = Ring!Contents
  BY DEF PktQueue!Contents, Ring!Contents, PktQueue!Size, Ring!Size, PktQueue!Distance, Ring!Distance
<1>2. PktQueue!TypeOK <=> Ring!TypeOK
  BY DEF PktQueue!TypeOK, Ring!TypeOK, PktQueue!Slot, Ring!Slot
<1> QED BY <1>1, <1>2 DEF RingIsSame

(* The same in the next state.                                             *)
LEMMA SameRingNext == RingIsSame'
BY SameRingState, PTL

(* The steps of push() and popBatch() are those of SyncQueue.              *)
LEMMA SameRing ==
  /\ \A v \in Buffer : PktQueue!PushClaim(v) => Ring!PushClaim(v)
  /\ PktQueue!PushRefused => Ring!PushRefused
  /\ PktQueue!PushWrite => Ring!PushWrite
  /\ PktQueue!PushPublish => Ring!PushPublish
  /\ PktQueue!BatchTest => Ring!BatchTest
  /\ PktQueue!BatchLoadHead => Ring!BatchLoadHead
  /\ PktQueue!LoadTail => Ring!LoadTail
  /\ PktQueue!CopyEntry => Ring!CopyEntry
  /\ PktQueue!Commit => Ring!Commit
<1> USE DEF PktQueue!ring, Ring!ring, PktQueue!prodVars, Ring!prodVars, PktQueue!consVars, Ring!consVars,
            PktQueue!ProducerIdle, Ring!ProducerIdle, PktQueue!ConsumerIdle, Ring!ConsumerIdle,
            PktQueue!Next_, Ring!Next_
<1>3. \A v \in Buffer : PktQueue!PushClaim(v) => Ring!PushClaim(v)
  BY DEF PktQueue!PushClaim, Ring!PushClaim
<1>4. PktQueue!PushRefused => Ring!PushRefused BY DEF PktQueue!PushRefused, Ring!PushRefused
<1>5. PktQueue!PushWrite => Ring!PushWrite BY DEF PktQueue!PushWrite, Ring!PushWrite
<1>6. PktQueue!PushPublish => Ring!PushPublish BY DEF PktQueue!PushPublish, Ring!PushPublish
<1>7. PktQueue!BatchTest => Ring!BatchTest BY DEF PktQueue!BatchTest, Ring!BatchTest
<1>8. PktQueue!BatchLoadHead => Ring!BatchLoadHead BY DEF PktQueue!BatchLoadHead, Ring!BatchLoadHead
<1>9. PktQueue!LoadTail => Ring!LoadTail
  BY DEF PktQueue!LoadTail, Ring!LoadTail, PktQueue!Distance, Ring!Distance, PktQueue!Smaller, Ring!Smaller
<1>10. PktQueue!CopyEntry => Ring!CopyEntry
  BY DEF PktQueue!CopyEntry, Ring!CopyEntry, PktQueue!CopyIndex, Ring!CopyIndex
<1>11. PktQueue!Commit => Ring!Commit BY DEF PktQueue!Commit, Ring!Commit
<1> QED BY <1>3, <1>4, <1>5, <1>6, <1>7, <1>8, <1>9, <1>10, <1>11

(* The queue holds buffers, those the slots of its ring refer to.          *)
LEMMA ContentsTyped ==
  ASSUME Ring!IInv
  PROVE  PktQueue!Contents \in Seq(Buffer) /\ \A i \in DOMAIN PktQueue!Contents : PktQueue!Contents[i] \in Range(buffer_)
<1>1. Ring!Contents \in Seq(Buffer) /\ Len(Ring!Contents) = Ring!Size
      /\ \A i \in 1 .. Ring!Size : Ring!Contents[i] = Ring!Entry(i - 1)
  BY RingAssumption, Ring!ContentsFacts DEF Ring!ContentsDescribed
<1>2. ASSUME NEW i \in 1 .. Ring!Size PROVE Ring!Entry(i - 1) \in Range(buffer_)
  <2>1. Ring!Size \in Ring!Slot /\ \A n \in 0 .. Ring!Size - 1 : (head_ + n) % Capacity \in Ring!Slot \ {tail_}
    BY RingAssumption, Ring!RingFacts
  <2>2. i - 1 \in 0 .. Ring!Size - 1 BY <2>1 DEF Ring!Slot
  <2>3. (head_ + (i - 1)) % Capacity \in Ring!Slot BY <2>1, <2>2
  <2>4. DOMAIN buffer_ = Ring!Slot BY DEF Ring!IInv, Ring!TypeOK
  <2> QED BY <2>3, <2>4 DEF Ring!Entry, Range
<1> QED BY <1>1, <1>2, SameRingState DEF RingIsSame

(* An unchanged ring holds what it held.                                   *)
LEMMA ContentsKept ==
  ASSUME UNCHANGED <<buffer_, head_, tail_>> PROVE PktQueue!Contents' = PktQueue!Contents
BY DEF PktQueue!Contents, PktQueue!Size, PktQueue!Distance

(* push() up to its last store, and popBatch() before it.                  *)
LEMMA RingGoesOn ==
  ASSUME Basic, Ring!IInv,
         \/ (\E v \in Buffer : PktQueue!PushClaim(v)) \/ PktQueue!PushRefused \/ PktQueue!PushWrite
         \/ PktQueue!BatchTest \/ PktQueue!BatchLoadHead \/ PktQueue!LoadTail \/ PktQueue!CopyEntry
  PROVE  Ring!IInv' /\ PktQueue!Contents' = PktQueue!Contents
<1>1. CASE PktQueue!PushWrite
  <2>1. Ring!PushWrite BY <1>1, SameRing
  <2>2. Ring!IInv' BY <2>1, RingAssumption, Ring!ProducerStepIInv DEF Ring!ProducerStep
  <2>3. Ring!Size' = Ring!Size BY <2>1 DEF Ring!PushWrite, Ring!Size, Ring!Distance
  <2>4. \A n \in 0 .. Ring!Size - 1 : Ring!Entry(n)' = Ring!Entry(n)
    <3>1. \A n \in 0 .. Ring!Size - 1 : (head_ + n) % Capacity \in Ring!Slot \ {tail_}
      BY RingAssumption, Ring!RingFacts
    <3>2. buffer_' = [buffer_ EXCEPT ![tail_] = producer.value] /\ head_' = head_ BY <2>1 DEF Ring!PushWrite
    <3>3. DOMAIN buffer_ = Ring!Slot BY DEF Ring!IInv, Ring!TypeOK
    <3> QED BY <3>1, <3>2, <3>3 DEF Ring!Entry
  <2> QED BY <2>2, <2>3, <2>4, RingAssumption, Ring!SameContents, SameRingState, SameRingNext DEF RingIsSame
<1>2. CASE (\E v \in Buffer : PktQueue!PushClaim(v)) \/ PktQueue!PushRefused
  <2>1. Ring!ProducerStep BY <1>2, SameRing DEF Ring!ProducerStep
  <2>2. UNCHANGED <<buffer_, head_, tail_>> BY <1>2 DEF PktQueue!PushClaim, PktQueue!PushRefused, PktQueue!ring
  <2> QED BY <2>1, <2>2, RingAssumption, Ring!ProducerStepIInv, ContentsKept
<1>3. CASE PktQueue!BatchTest \/ PktQueue!BatchLoadHead \/ PktQueue!LoadTail \/ PktQueue!CopyEntry
  <2>1. Ring!ConsumerStep BY <1>3, SameRing DEF Ring!ConsumerStep, Ring!PopStep
  <2>2. UNCHANGED <<buffer_, head_, tail_>>
    BY <1>3 DEF PktQueue!BatchTest, PktQueue!BatchLoadHead, PktQueue!LoadTail, PktQueue!CopyEntry, PktQueue!ring
  <2> QED BY <2>1, <2>2, RingAssumption, Ring!ConsumerStepIInv, ContentsKept
<1> QED BY <1>1, <1>2, <1>3

(* The last store of push() adds the packet, that of popBatch() takes the  *)
(* batch away.                                                             *)
LEMMA RingPush ==
  ASSUME Ring!IInv, PktQueue!PushPublish
  PROVE  Ring!IInv' /\ PktQueue!Contents' = Append(PktQueue!Contents, producer.value)
<1>1. Ring!PushPublish BY SameRing
<1>2. Ring!IInv' BY <1>1, RingAssumption, Ring!ProducerStepIInv DEF Ring!ProducerStep
<1>3. Ring!Fifo!Enqueue(producer.value) BY <1>1, <1>2, RingAssumption, Ring!PublishEnqueues
<1> QED BY <1>2, <1>3, SameRingState, SameRingNext DEF RingIsSame, Ring!Fifo!Enqueue

(* popBatch() returns the first packets of the queue, and takes them away. *)
LEMMA RingPop ==
  ASSUME Ring!IInv, PktQueue!Commit
  PROVE  /\ Ring!IInv'
         /\ \E n \in 1 .. Len(PktQueue!Contents) :
              /\ returned' = SubSeq(PktQueue!Contents, 1, n)
              /\ PktQueue!Contents' = SubSeq(PktQueue!Contents, n + 1, Len(PktQueue!Contents))
<1>1. Ring!Commit BY SameRing
<1>2. Ring!IInv' BY <1>1, RingAssumption, Ring!ConsumerStepIInv DEF Ring!ConsumerStep, Ring!PopStep
<1>3. Ring!Fifo!Dequeue(consumer.count) BY <1>1, <1>2, RingAssumption, Ring!CommitDequeues
<1>4. consumer.count \in 1 .. Ring!Size BY <1>1 DEF Ring!Commit, Ring!IInv, Ring!ConsumerInv
<1>5. Len(Ring!Contents) = Ring!Size BY RingAssumption, Ring!ContentsFacts DEF Ring!ContentsDescribed
<1> QED BY <1>2, <1>3, <1>4, <1>5, SameRingState, SameRingNext DEF RingIsSame, Ring!Fifo!Dequeue

(* Sequences, joined and split.                                            *)
LEMMA JoinParts ==
  ASSUME NEW S, NEW q \in Seq(S), NEW n \in 1 .. Len(q)
  PROVE  SubSeq(q, 1, n) \o SubSeq(q, n + 1, Len(q)) = q
BY ConcatAdjacentSubSeq, SubSeqFull

(* The first element and the rest of a part of q followed by r.            *)
LEMMA DropFirst ==
  ASSUME NEW S, NEW q \in Seq(S), NEW r \in Seq(S), NEW i \in 1 .. Len(q)
  PROVE  /\ SubSeq(q, i, Len(q)) \o r # <<>>
         /\ Head(SubSeq(q, i, Len(q)) \o r) = q[i]
         /\ Tail(SubSeq(q, i, Len(q)) \o r) = SubSeq(q, i + 1, Len(q)) \o r
         /\ i = Len(q) => SubSeq(q, i + 1, Len(q)) \o r = r
<1> DEFINE s == SubSeq(q, i, Len(q)) t == SubSeq(q, i + 1, Len(q)) n == Len(q) - i + 1
<1>1. s \in Seq(S) /\ t \in Seq(S) /\ Len(s) = n /\ Len(t) = n - 1 /\ n \in Nat \ {0} /\ i \in Nat /\ Len(q) \in Nat
  OBVIOUS
<1>2. \A j \in 1 .. n : s[j] = q[i + j - 1] BY <1>1
<1>3. \A j \in 1 .. n - 1 : t[j] = q[i + j] BY <1>1
<1> HIDE DEF n
<1>4. s[1] = q[i]
  <2>1. 1 \in 1 .. n /\ i + 1 - 1 = i BY <1>1
  <2> QED BY <1>2, <2>1
<1>5. \A j \in 1 .. n - 1 : t[j] = s[j + 1]
  <2> TAKE j \in 1 .. n - 1
  <2>1. j + 1 \in 1 .. n /\ i + (j + 1) - 1 = i + j BY <1>1
  <2> QED BY <1>2, <1>3, <2>1
<1> HIDE DEF s, t
<1>6. s \o r \in Seq(S) /\ Len(s \o r) = n + Len(r) /\ s \o r # <<>> /\ Head(s \o r) = s[1]
  <2>1. s \o r \in Seq(S) /\ Len(s \o r) = n + Len(r) /\ (s \o r)[1] = s[1] BY <1>1
  <2>2. Len(s \o r) # 0 BY <1>1, <2>1
  <2>3. s \o r # <<>> BY <2>2
  <2> QED BY <2>1, <2>3
<1>7. Tail(s \o r) \in Seq(S) /\ Len(Tail(s \o r)) = n - 1 + Len(r) BY <1>1, <1>6
<1>8. t \o r \in Seq(S) /\ Len(t \o r) = n - 1 + Len(r) BY <1>1
<1>9. ASSUME NEW j \in 1 .. n - 1 + Len(r) PROVE Tail(s \o r)[j] = (t \o r)[j]
  <2>1. Tail(s \o r)[j] = (s \o r)[j + 1] BY <1>1, <1>6
  <2>2. CASE j <= n - 1 BY <1>1, <1>5, <2>1, <2>2
  <2>3. CASE j > n - 1
    <3>1. (s \o r)[j + 1] = r[j + 1 - n] BY <1>1, <2>3
    <3>2. (t \o r)[j] = r[j - (n - 1)] BY <1>1, <2>3
    <3>3. j + 1 - n = j - (n - 1) BY <1>1
    <3> QED BY <2>1, <3>1, <3>2, <3>3
  <2> QED BY <1>1, <2>2, <2>3
<1>10. Tail(s \o r) = t \o r BY <1>7, <1>8, <1>9, SeqEqual
<1>11. i = Len(q) => t \o r = r
  <2>1. i = Len(q) => Len(t) = 0 BY <1>1 DEF n
  <2>2. Len(t) = 0 => t = <<>> BY <1>1
  <2> QED BY <2>1, <2>2
<1> QED BY <1>4, <1>6, <1>10, <1>11 DEF s, t

(* Appending to the second of two joined sequences.                        *)
LEMMA JoinAppend ==
  ASSUME NEW S, NEW q \in Seq(S), NEW r \in Seq(S), NEW x \in S
  PROVE  q \o Append(r, x) = Append(q \o r, x)
<1>1. q \o Append(r, x) \in Seq(S) /\ Append(q \o r, x) \in Seq(S)
      /\ Len(q \o Append(r, x)) = Len(q) + Len(r) + 1 /\ Len(Append(q \o r, x)) = Len(q) + Len(r) + 1
  OBVIOUS
<1>2. ASSUME NEW i \in 1 .. Len(q) + Len(r) + 1 PROVE (q \o Append(r, x))[i] = Append(q \o r, x)[i]
  <2>1. CASE i <= Len(q) BY <2>1
  <2>2. CASE i > Len(q) /\ i <= Len(q) + Len(r) BY <2>2
  <2>3. CASE i = Len(q) + Len(r) + 1
    <3>1. (q \o Append(r, x))[i] = Append(r, x)[i - Len(q)] /\ i - Len(q) = Len(r) + 1 BY <2>3
    <3> QED BY <2>3, <3>1
  <2> QED BY <2>1, <2>2, <2>3
<1> QED BY <1>1, <1>2, SeqEqual

-----------------------------------------------------------------------------
(* The packets on their way, step by step.                                 *)

(* That a clear() met a popBatch() is not forgotten.                       *)
LEMMA QuietBefore ==
  ASSUME Basic, [Next]_vars, Quiet' PROVE Quiet
<1> USE DEF Quiet, vars, Basic, TypeOK
<1>1. CASE CallerStep BY <1>1 DEF CallerStep, DriverInit, DriverStart, StopInput, StopHandle, StopClear
<1>2. CASE RecvStep
  <2>1. CASE PutPublish BY <2>1 DEF PutPublish
  <2>2. CASE PutClearFirst BY <2>2 DEF PutClearFirst, Popping
  <2>3. CASE PutClearSecond BY <2>3 DEF PutClearSecond, Popping
  <2>4. CASE RecvExit \/ RecvError \/ RecvSelect \/ RecvNothing \/ SkipShort
    BY <2>4 DEF RecvSelect, RecvError, RecvExit, RecvNothing, SkipShort
  <2>5. CASE (\E k \in Pool : PacketGet(k)) \/ (\E n \in Pool : RecvDatagrams(n))
    BY <2>5 DEF PacketGet, RecvDatagrams
  <2>6. CASE PutClaim \/ PutWrite \/ PutOverflow BY <2>6 DEF PutClaim, PutWrite, PutOverflow
  <2> QED BY <1>2, <2>1, <2>2, <2>3, <2>4, <2>5, <2>6 DEF RecvStep, RecvWork
<1>3. CASE HandleStep
  BY <1>3 DEF HandleStep, HandleTop, PopTimeout, PopBegin, PopGoOn, PopEnd, Decode, Release
<1>4. CASE UNCHANGED vars BY <1>4
<1> QED BY <1>1, <1>2, <1>3, <1>4 DEF Next

(* A step that leaves the ring and the rest of the batch alone.            *)
LEMMA WayKept ==
  ASSUME RingKept, UNCHANGED queueVars, recv.pc # "clearing", recv'.pc # "clearing",
         Unhandled' = Unhandled
  PROVE  RingKept' /\ OnTheirWay' = OnTheirWay
<1>1. Ring!IInv' BY RingAssumption, Ring!StutterIInv DEF RingKept, queueVars, Ring!vars
<1>2. PktQueue!Contents' = PktQueue!Contents BY ContentsKept DEF queueVars
<1> QED BY <1>1, <1>2 DEF RingKept, OnTheirWay, Queue

(* The same while the queue is being cleared.                              *)
LEMMA WayKeptClearing ==
  ASSUME RingKept, UNCHANGED queueVars, recv.pc = "clearing", recv' = recv, Unhandled' = Unhandled
  PROVE  RingKept' /\ OnTheirWay' = OnTheirWay
BY DEF RingKept, OnTheirWay, Queue, queueVars

(* A step that leaves the receiving thread alone as well.                  *)
LEMMA WayKeptEither ==
  ASSUME RingKept, UNCHANGED queueVars, recv' = recv, Unhandled' = Unhandled
  PROVE  RingKept' /\ OnTheirWay' = OnTheirWay
BY WayKept, WayKeptClearing

(* The caller leaves the packets on their way.                             *)
LEMMA CallerWay ==
  ASSUME Basic, RingKept, CallerStep
  PROVE  RingKept' /\ OnTheirWay' = OnTheirWay
<1>1. UNCHANGED queueVars
  BY DEF CallerStep, DriverInit, DriverStart, StopInput, StopHandle, StopClear
<1>2. CASE DriverStart
  <2>1. recv.pc = "none" /\ handle.pc = "none" BY <1>2 DEF DriverStart, Basic, Threads
  <2>2. recv'.pc = "select" BY <1>2 DEF DriverStart, RecvStopped
  <2>3. handle'.pc = "top" BY <1>2 DEF DriverStart
  <2>4. Unhandled' = Unhandled BY <2>1, <2>3 DEF Unhandled
  <2> QED BY <1>1, <2>1, <2>2, <2>4, WayKept
<1>3. CASE DriverInit \/ StopInput \/ StopHandle \/ StopClear
  <2>1. UNCHANGED <<recv, handle, returned>>
    BY <1>3 DEF DriverInit, StopInput, StopHandle, StopClear, queueVars
  <2>2. Unhandled' = Unhandled BY <2>1 DEF Unhandled
  <2> QED BY <1>1, <2>1, <2>2, WayKeptEither
<1> QED BY <1>2, <1>3 DEF CallerStep

(* What the batch still holds, and its first packet.                       *)
LEMMA BatchFirst ==
  ASSUME Basic, RingKept, OnTheirWay \in Seq(Buffer), handle.pc \in {"decode", "release"}
  PROVE  /\ OnTheirWay # <<>> /\ returned[handle.i] = OnTheirWay[1] /\ returned[handle.i] \in Buffer
         /\ handle.i \in 1 .. Len(returned)
         /\ Tail(OnTheirWay) = SubSeq(returned, handle.i + 1, Len(returned)) \o Queue
         /\ handle.i = Len(returned) => Tail(OnTheirWay) = Queue
<1>1. returned \in Seq(Buffer \cup {NoBuffer}) /\ handle.i \in 1 .. Len(returned)
  BY DEF Basic, TypeOK, Threads, PktQueue!TypeOK
<1>2. Queue \in Seq(Buffer \cup {NoBuffer})
  <2>1. CASE recv.pc = "clearing" BY <2>1 DEF Queue
  <2>2. CASE recv.pc # "clearing"
    <3>1. PktQueue!Contents \in Seq(Buffer) BY <2>2, ContentsTyped DEF RingKept
    <3> QED BY <2>2, <3>1 DEF Queue
  <2> QED BY <2>1, <2>2
<1>3. OnTheirWay = SubSeq(returned, handle.i, Len(returned)) \o Queue BY DEF OnTheirWay, Unhandled
<1>4. /\ OnTheirWay # <<>> /\ Head(OnTheirWay) = returned[handle.i]
      /\ Tail(OnTheirWay) = SubSeq(returned, handle.i + 1, Len(returned)) \o Queue
      /\ handle.i = Len(returned) => Tail(OnTheirWay) = Queue
  <2> DEFINE S == Buffer \cup {NoBuffer}
  <2>1. returned \in Seq(S) /\ Queue \in Seq(S) BY <1>1, <1>2
  <2> HIDE DEF S
  <2>2. /\ SubSeq(returned, handle.i, Len(returned)) \o Queue # <<>>
        /\ Head(SubSeq(returned, handle.i, Len(returned)) \o Queue) = returned[handle.i]
        /\ Tail(SubSeq(returned, handle.i, Len(returned)) \o Queue)
             = SubSeq(returned, handle.i + 1, Len(returned)) \o Queue
        /\ handle.i = Len(returned)
             => SubSeq(returned, handle.i + 1, Len(returned)) \o Queue = Queue
    <3>1. handle.i \in 1 .. Len(returned) BY <1>1
    <3> QED BY <2>1, <3>1, DropFirst
  <2> QED BY <1>3, <2>2
<1>5. Head(OnTheirWay) \in Buffer /\ Head(OnTheirWay) = OnTheirWay[1] BY <1>4
<1> QED BY <1>1, <1>4, <1>5

(* popBatch() moves packets from the queue to the batch, and Release takes *)
(* the first one off.                                                      *)
LEMMA HandleWay ==
  ASSUME Basic, Quiet', RingKept, OnTheirWay \in Seq(Buffer), HandleStep
  PROVE  RingKept' /\ OnTheirWay' = IF Release THEN Tail(OnTheirWay) ELSE OnTheirWay
<1>1. CASE HandleTop \/ PopTimeout
  <2>1. /\ UNCHANGED queueVars /\ recv' = recv /\ handle.pc \in {"top", "wait"}
        /\ handle'.pc \in {"none", "wait", "top"}
    BY <1>1 DEF HandleTop, PopTimeout, Basic, TypeOK
  <2>2. Unhandled' = Unhandled BY <2>1 DEF Unhandled
  <2> QED BY <2>1, <2>2, WayKeptEither DEF Release
<1>2. CASE PopBegin
  <2>1. recv.pc # "clearing" /\ recv' = recv
    BY <1>2 DEF PopBegin, Quiet, Basic, TypeOK
  <2>2. Ring!IInv BY <2>1 DEF RingKept
  <2>3. Ring!IInv' /\ PktQueue!Contents' = PktQueue!Contents BY <1>2, <2>2, RingGoesOn DEF PopBegin
  <2>4. handle.pc = "wait" /\ handle'.pc = "pop" BY <1>2 DEF PopBegin, Basic, TypeOK
  <2> QED BY <2>1, <2>3, <2>4 DEF RingKept, OnTheirWay, Queue, Unhandled, Release
<1>3. CASE PopGoOn
  <2>1. handle.pc = "pop" /\ UNCHANGED <<recv, handle>> BY <1>3 DEF PopGoOn
  <2>2. recv.pc # "clearing" /\ Ring!IInv BY <2>1 DEF RingKept, Basic, Threads
  <2>3. Ring!IInv' /\ PktQueue!Contents' = PktQueue!Contents BY <1>3, <2>2, RingGoesOn DEF PopGoOn
  <2> QED BY <2>1, <2>2, <2>3 DEF RingKept, OnTheirWay, Queue, Unhandled, Release
<1>4. CASE PopEnd
  <2>1. handle.pc = "pop" /\ handle.i = 1 /\ recv' = recv BY <1>4 DEF PopEnd, Basic, Threads
  <2>2. recv.pc # "clearing" /\ Ring!IInv BY <2>1 DEF RingKept, Basic, Threads
  <2> DEFINE q == PktQueue!Contents
  <2>3. q \in Seq(Buffer) BY <2>2, ContentsTyped
  <2>4. Ring!IInv' /\ \E n \in 1 .. Len(q) : returned' = SubSeq(q, 1, n) /\ q' = SubSeq(q, n + 1, Len(q))
    BY <1>4, <2>2, RingPop DEF PopEnd
  <2>5. PICK n \in 1 .. Len(q) : returned' = SubSeq(q, 1, n) /\ q' = SubSeq(q, n + 1, Len(q))
    BY <2>4
  <2>6. OnTheirWay = q
    BY <2>1, <2>2, <2>3 DEF OnTheirWay, Unhandled, Queue
  <2>7. handle'.pc = "decode" /\ handle'.i = 1 /\ Unhandled' = returned'
    <3>1. returned' \in Seq(Buffer) /\ Len(returned') = n /\ n \in Nat \ {0} BY <2>3, <2>5
    <3>2. returned' # <<>> BY <3>1
    <3>3. handle'.pc = "decode" /\ handle'.i = 1 BY <1>4, <2>1, <3>2 DEF PopEnd, Basic, TypeOK
    <3>4. SubSeq(returned', 1, Len(returned')) = returned' BY <3>1, SubSeqFull
    <3> QED BY <3>3, <3>4 DEF Unhandled
  <2>8. OnTheirWay' = SubSeq(q, 1, n) \o SubSeq(q, n + 1, Len(q))
    BY <2>1, <2>2, <2>5, <2>7 DEF OnTheirWay, Queue
  <2>9. SubSeq(q, 1, n) \o SubSeq(q, n + 1, Len(q)) = q BY <2>3, JoinParts
  <2> QED BY <2>1, <2>2, <2>4, <2>6, <2>8, <2>9 DEF RingKept, Release
<1>5. CASE Decode
  <2>1. handle.pc = "decode" /\ UNCHANGED queueVars /\ recv' = recv BY <1>5 DEF Decode
  <2>2. returned[handle.i] # NoBuffer BY <2>1, BatchFirst, LidarDriverAssumption
  <2>3. handle'.pc = "release" /\ handle'.i = handle.i BY <1>5, <2>2 DEF Decode, Basic, TypeOK
  <2>4. Unhandled' = Unhandled BY <2>1, <2>3 DEF Unhandled, queueVars
  <2> QED BY <2>1, <2>4, WayKeptEither DEF Release
<1>6. CASE Release
  <2>1. handle.pc = "release" /\ UNCHANGED queueVars /\ recv' = recv BY <1>6 DEF Release
  <2>2. /\ handle.i \in 1 .. Len(returned)
        /\ Tail(OnTheirWay) = SubSeq(returned, handle.i + 1, Len(returned)) \o Queue
        /\ handle.i = Len(returned) => Tail(OnTheirWay) = Queue
    BY <2>1, BatchFirst
  <2>3. RingKept' /\ Queue' = Queue
    <3>1. CASE recv.pc = "clearing" BY <2>1, <3>1 DEF RingKept, Queue, queueVars
    <3>2. CASE recv.pc # "clearing"
      <4>1. Ring!IInv' BY <2>1, <3>2, RingAssumption, Ring!StutterIInv DEF RingKept, queueVars, Ring!vars
      <4>2. PktQueue!Contents' = PktQueue!Contents BY <2>1, ContentsKept DEF queueVars
      <4> QED BY <2>1, <3>2, <4>1, <4>2 DEF RingKept, Queue
    <3> QED BY <3>1, <3>2
  <2>4. CASE handle.i = Len(returned)
    <3>1. handle'.pc = "top" BY <1>6, <2>4 DEF Release
    <3>2. Unhandled' = <<>> BY <3>1 DEF Unhandled
    <3>3. \E S : Queue \in Seq(S)
      <4>1. CASE recv.pc = "clearing"
        <5>1. <<>> \in Seq(Buffer) OBVIOUS
        <5> QED BY <4>1, <5>1 DEF Queue
      <4>2. CASE recv.pc # "clearing"
        <5>1. PktQueue!Contents \in Seq(Buffer) BY <4>2, ContentsTyped DEF RingKept
        <5> QED BY <4>2, <5>1 DEF Queue
      <4> QED BY <4>1, <4>2
    <3>4. <<>> \o Queue = Queue BY <3>3
    <3> QED BY <1>6, <2>2, <2>3, <2>4, <3>2, <3>4 DEF OnTheirWay
  <2>5. CASE handle.i # Len(returned)
    <3>1. handle' = [pc |-> "decode", i |-> handle.i + 1] BY <1>6, <2>5 DEF Release
    <3>2. Unhandled' = SubSeq(returned, handle.i + 1, Len(returned)) BY <2>1, <3>1 DEF Unhandled, queueVars
    <3> QED BY <1>6, <2>2, <2>3, <3>2 DEF OnTheirWay
  <2> QED BY <2>4, <2>5
<1> QED BY <1>1, <1>2, <1>3, <1>4, <1>5, <1>6 DEF HandleStep

(* The receiving thread: everything but the end of push() and clear().     *)
LEMMA RecvWay ==
  ASSUME Basic, RingKept, RecvStep, ~PutPublish, ~PutClearFirst, ~PutClearSecond
  PROVE  RingKept' /\ OnTheirWay' = OnTheirWay
<1>0. recv \in RecvTypes /\ 1 \in Pool BY LidarDriverAssumption DEF Basic, TypeOK, RecvTypes, PcOfRecv, Pool
<1>1. ASSUME UNCHANGED <<queueVars, handle>>, recv.pc # "clearing", recv'.pc # "clearing"
      PROVE  RingKept' /\ OnTheirWay' = OnTheirWay
  <2>1. Unhandled' = Unhandled BY <1>1 DEF Unhandled, queueVars
  <2> QED BY <1>1, <2>1, WayKept
<1>2. CASE RecvExit \/ RecvError
  BY <1>1, <1>2 DEF RecvExit, RecvError, RecvStopped
<1>3. CASE RecvSelect \/ RecvNothing
  BY <1>0, <1>1, <1>3 DEF RecvSelect, RecvNothing, RecvTypes
<1>4. CASE SkipShort
  <2>1. recv'.pc # "clearing" /\ recv.pc = "push"
    BY <1>0, <1>4 DEF SkipShort, AfterPacket, RecvTypes
  <2> QED BY <1>1, <1>4, <2>1 DEF SkipShort
<1>5. ASSUME NEW k \in Pool, PacketGet(k) PROVE RingKept' /\ OnTheirWay' = OnTheirWay
  <2>1. recv'.pc = "refill" /\ recv.pc = "refill" BY <1>0, <1>5 DEF PacketGet, RecvTypes
  <2> QED BY <1>1, <1>5, <2>1 DEF PacketGet
<1>6. ASSUME NEW n \in Pool, RecvDatagrams(n) PROVE RingKept' /\ OnTheirWay' = OnTheirWay
  <2>1. recv'.pc = "push" /\ recv.pc = "refill" BY <1>0, <1>6 DEF RecvDatagrams, RecvTypes
  <2> QED BY <1>1, <1>6, <2>1 DEF RecvDatagrams
<1>7. CASE PutClaim \/ PutWrite \/ PutOverflow
  <2>1. /\ recv.pc \in {"push", "pushing"} /\ recv'.pc \in {"pushing", "clear"}
        /\ UNCHANGED <<handle, returned>>
    BY <1>0, <1>7 DEF PutClaim, PutWrite, PutOverflow, RecvTypes, PktQueue!PushClaim, PktQueue!PushWrite,
       PktQueue!PushRefused, PktQueue!consVars
  <2>2. Ring!IInv BY <2>1 DEF RingKept
  <2>3. recv.pkt_pool[recv.k] \in Buffer
    <3>1. recv.k \in recv.k .. VLEN BY <1>0, LidarDriverAssumption DEF RecvTypes, Pool
    <3>2. recv.pkt_pool[recv.k] # NoBuffer BY <2>1, <3>1 DEF Basic, Threads, InHand
    <3> QED BY <1>0, <3>2 DEF RecvTypes
  <2>4. (\E v \in Buffer : PktQueue!PushClaim(v)) \/ PktQueue!PushRefused \/ PktQueue!PushWrite
    BY <1>7, <2>3 DEF PutClaim, PutWrite, PutOverflow
  <2>5. Ring!IInv' /\ PktQueue!Contents' = PktQueue!Contents BY <2>2, <2>4, RingGoesOn
  <2> QED BY <2>1, <2>5 DEF RingKept, OnTheirWay, Queue, Unhandled
<1> QED BY <1>2, <1>3, <1>4, <1>5, <1>6, <1>7 DEF RecvStep, RecvWork

(* What is left of the batch.                                              *)
LEMMA UnhandledTyped ==
  ASSUME Basic PROVE Unhandled \in Seq(Buffer \cup {NoBuffer})
<1>1. returned \in Seq(Buffer \cup {NoBuffer}) /\ handle.i \in Nat \ {0} BY DEF Basic, TypeOK, PktQueue!TypeOK
<1> QED BY <1>1 DEF Unhandled

(* push() adds the packet at recv.k at the end.                            *)
LEMMA PublishWay ==
  ASSUME Basic, RingKept, PutPublish
  PROVE  RingKept' /\ OnTheirWay' = Append(OnTheirWay, recv.pkt_pool[recv.k]) /\ recv.pkt_pool[recv.k] \in Buffer
<1>0. recv \in RecvTypes /\ 1 \in Pool BY LidarDriverAssumption DEF Basic, TypeOK, RecvTypes, PcOfRecv, Pool
<1>1. /\ recv.pc = "pushing" /\ PktQueue!PushPublish /\ UNCHANGED <<handle, returned>>
      /\ recv' = AfterPacket([recv EXCEPT !.pkt_pool[recv.k] = NoBuffer])
  BY DEF PutPublish, PktQueue!PushPublish, PktQueue!consVars
<1>2. recv'.pc # "clearing" BY <1>0, <1>1 DEF AfterPacket, RecvTypes
<1>3. producer.value = recv.pkt_pool[recv.k] BY <1>1 DEF Basic, Threads
<1>4. recv.pkt_pool[recv.k] \in Buffer
  <2>1. recv.k \in recv.k .. VLEN BY <1>0, LidarDriverAssumption DEF RecvTypes, Pool
  <2>2. recv.pkt_pool[recv.k] # NoBuffer BY <1>1, <2>1 DEF Basic, Threads, InHand
  <2> QED BY <1>0, <2>2 DEF RecvTypes
<1>5. Ring!IInv BY <1>1 DEF RingKept
<1>6. Ring!IInv' /\ PktQueue!Contents' = Append(PktQueue!Contents, recv.pkt_pool[recv.k])
  BY <1>1, <1>3, <1>5, RingPush
<1>7. Unhandled' = Unhandled BY <1>1 DEF Unhandled
<1>8. PktQueue!Contents \in Seq(Buffer \cup {NoBuffer})
  <2>1. PktQueue!Contents \in Seq(Buffer) BY <1>5, ContentsTyped
  <2> QED BY <2>1
<1>9. Unhandled \o Append(PktQueue!Contents, recv.pkt_pool[recv.k])
        = Append(Unhandled \o PktQueue!Contents, recv.pkt_pool[recv.k])
  BY <1>4, <1>8, UnhandledTyped, JoinAppend
<1> QED BY <1>1, <1>2, <1>4, <1>6, <1>7, <1>9 DEF RingKept, OnTheirWay, Queue

(* clear() gives up what the queue holds; the ring is SyncQueue's again,   *)
(* and empty, after its second store.                                      *)
LEMMA ClearWay ==
  ASSUME Basic, Quiet', RingKept, PutClearFirst
  PROVE  /\ RingKept' /\ OnTheirWay' \in Seq(Buffer \cup {NoBuffer})
         /\ OnTheirWay \in Seq(Buffer) => OnTheirWay' \in Seq(Buffer)
         /\ \A i \in DOMAIN OnTheirWay' : i \in DOMAIN OnTheirWay /\ OnTheirWay'[i] = OnTheirWay[i]
<1>0. recv \in RecvTypes BY LidarDriverAssumption DEF Basic, TypeOK, RecvTypes, PcOfRecv, Pool
<1>1. recv.pc = "clear" /\ recv'.pc = "clearing" /\ UNCHANGED <<handle, returned, consumer>>
  BY <1>0 DEF PutClearFirst, PktQueue!ClearFirst, PktQueue!consVars, RecvTypes
<1>2. ~Popping BY DEF PutClearFirst, Quiet, Basic, TypeOK, Popping
<1>3. consumer.pc = "idle" /\ consumer.batch = <<>>
  BY <1>1, <1>2 DEF Popping, RingKept, Ring!IInv, Ring!ConsumerInv
<1>4. (producer'.pc = "clearTail" => head_' = 0) /\ (producer'.pc = "clearHead" => tail_' = 0)
  BY DEF PutClearFirst, PktQueue!ClearFirst, Basic, TypeOK, PktQueue!TypeOK
<1>5. OnTheirWay' = Unhandled
  <2>1. Unhandled' = Unhandled BY <1>1 DEF Unhandled
  <2>2. Unhandled \o <<>> = Unhandled BY UnhandledTyped
  <2> QED BY <1>1, <2>1, <2>2 DEF OnTheirWay, Queue
<1>6. OnTheirWay = Unhandled \o PktQueue!Contents /\ PktQueue!Contents \in Seq(Buffer)
  BY <1>1, ContentsTyped DEF OnTheirWay, Queue, RingKept
<1> DEFINE S == Buffer \cup {NoBuffer}  u == Unhandled  q == PktQueue!Contents
<1>7. u \in Seq(S) /\ q \in Seq(S) BY <1>6, UnhandledTyped
<1> HIDE DEF u, q
<1>8. /\ DOMAIN u = 1 .. Len(u) /\ DOMAIN (u \o q) = 1 .. Len(u) + Len(q)
      /\ \A i \in 1 .. Len(u) : (u \o q)[i] = u[i] /\ Len(u) \in Nat /\ Len(q) \in Nat
  BY <1>7
<1>9. \A i \in DOMAIN u : i \in DOMAIN (u \o q) /\ (u \o q)[i] = u[i] BY <1>8
<1>10. u \o q \in Seq(Buffer) => u \in Seq(Buffer)
  <2> SUFFICES ASSUME u \o q \in Seq(Buffer) PROVE u \in Seq(Buffer) OBVIOUS
  <2>1. \A i \in 1 .. Len(u) : u[i] \in Buffer
    <3>1. \A i \in DOMAIN (u \o q) : (u \o q)[i] \in Buffer BY ElementOfSeq
    <3> QED BY <1>8, <1>9, <3>1
  <2> QED BY <1>7, <2>1, IsASeq
<1>11. RingKept' BY <1>1, <1>3, <1>4 DEF RingKept
<1> QED BY <1>5, <1>6, <1>7, <1>9, <1>10, <1>11 DEF u, q

(* After clear()'s second store the ring is as it was created.             *)
LEMMA ClearedWay ==
  ASSUME Basic, Basic', RingKept, PutClearSecond
  PROVE  RingKept' /\ OnTheirWay' = OnTheirWay
<1>0. recv \in RecvTypes BY LidarDriverAssumption DEF Basic, TypeOK, RecvTypes, PcOfRecv, Pool
<1>1. /\ recv.pc = "clearing" /\ UNCHANGED <<handle, returned, consumer, buffer_>>
      /\ recv' = AfterPacket([recv EXCEPT !.pkt_pool[recv.k] = NoBuffer])
      /\ producer' = Ring!ProducerIdle
  BY DEF PutClearSecond, PktQueue!ClearSecond, PktQueue!consVars, PktQueue!ProducerIdle, Ring!ProducerIdle
<1>2. recv'.pc # "clearing" BY <1>0, <1>1 DEF AfterPacket, RecvTypes
<1>3. head_' = 0 /\ tail_' = 0
  BY <1>1 DEF PutClearSecond, PktQueue!ClearSecond, RingKept
<1>4. Ring!Size' = 0 BY <1>3, LidarDriverAssumption DEF Ring!Size, Ring!Distance
<1>5. Ring!TypeOK' BY SameRingNext DEF RingIsSame, Basic, TypeOK
<1>6. Ring!ProducerInv' BY <1>1, <1>4 DEF Ring!ProducerInv, Ring!ProducerIdle
<1>7. Ring!ConsumerInv' BY <1>1 DEF RingKept, Ring!ConsumerInv
<1>8. Ring!IInv' BY <1>5, <1>6, <1>7 DEF Ring!IInv
<1>9. PktQueue!Contents' = <<>>
  <2>1. PktQueue!Size' = 0 BY <1>3, LidarDriverAssumption DEF PktQueue!Size, PktQueue!Distance
  <2> QED BY <2>1 DEF PktQueue!Contents
<1>10. Unhandled' = Unhandled BY <1>1 DEF Unhandled
<1> QED BY <1>1, <1>2, <1>8, <1>9, <1>10 DEF RingKept, OnTheirWay, Queue

-----------------------------------------------------------------------------
(* One owner for each buffer.                                              *)

(* Buffers may leave the pool, and the end of the queue.                   *)
LEMMA OwnersLeft ==
  ASSUME Owners, OnTheirWay' \in Seq(Buffer),
         \A i \in DOMAIN OnTheirWay' : i \in DOMAIN OnTheirWay /\ OnTheirWay'[i] = OnTheirWay[i],
         free_pkt_queue_' = free_pkt_queue_,
         \A k \in Pool : recv'.pkt_pool[k] \in {NoBuffer, recv.pkt_pool[k]}
  PROVE  Owners'
<1>1. Distinct(free_pkt_queue_)' /\ Apart(OnTheirWay, free_pkt_queue_)'
  BY DEF Owners, Distinct, Apart
<1>2. \A j, k \in Pool : j < k /\ recv'.pkt_pool[j] # NoBuffer => recv'.pkt_pool[j] # recv'.pkt_pool[k]
  BY DEF Owners
<1>3. \A k \in Pool : recv'.pkt_pool[k] # NoBuffer =>
        Without(OnTheirWay, recv.pkt_pool[k])' /\ Without(free_pkt_queue_, recv.pkt_pool[k])'
  BY DEF Owners, Without
<1> QED BY <1>1, <1>2, <1>3 DEF Owners

(* A step of another thread, or one that gives no buffer away.             *)
LEMMA OwnersSame ==
  ASSUME Owners, OnTheirWay' = OnTheirWay, free_pkt_queue_' = free_pkt_queue_,
         \A k \in Pool : recv'.pkt_pool[k] \in {NoBuffer, recv.pkt_pool[k]}
  PROVE  Owners'
<1>1. OnTheirWay' \in Seq(Buffer) BY DEF Owners
<1> QED BY <1>1, OwnersLeft

(* packetGet() takes a buffer nobody else has.                             *)
LEMMA OwnersGet ==
  ASSUME Owners, OnTheirWay' = OnTheirWay, free_pkt_queue_' \in Seq(Buffer),
         Distinct(free_pkt_queue_)',
         \A i \in DOMAIN free_pkt_queue_' : \E j \in DOMAIN free_pkt_queue_ : free_pkt_queue_'[i] = free_pkt_queue_[j],
         NEW k \in Pool, NEW b \in Buffer,
         recv.pkt_pool \in [Pool -> Buffer \cup {NoBuffer}],
         recv'.pkt_pool = [recv.pkt_pool EXCEPT ![k] = b],
         Without(OnTheirWay, b), Without(free_pkt_queue_', b),
         \A j \in Pool : recv.pkt_pool[j] # b
  PROVE  Owners'
<1>0. Pool \subseteq Int BY LidarDriverAssumption DEF Pool
<1>1. \A j \in Pool : recv'.pkt_pool[j] = IF j = k THEN b ELSE recv.pkt_pool[j] OBVIOUS
<1>2. Apart(OnTheirWay, free_pkt_queue_)' BY DEF Owners, Apart
<1>3. \A i, j \in Pool : i < j /\ recv'.pkt_pool[i] # NoBuffer => recv'.pkt_pool[i] # recv'.pkt_pool[j]
  BY <1>0, <1>1 DEF Owners
<1>4. ASSUME NEW j \in Pool, recv'.pkt_pool[j] # NoBuffer
      PROVE  Without(OnTheirWay, recv.pkt_pool[j])' /\ Without(free_pkt_queue_, recv.pkt_pool[j])'
  <2>1. CASE j = k BY <1>1, <2>1 DEF Without
  <2>2. CASE j # k BY <1>1, <1>4, <2>2 DEF Owners, Without
  <2> QED BY <2>1, <2>2
<1>5. OnTheirWay' \in Seq(Buffer) BY DEF Owners
<1> QED BY <1>2, <1>3, <1>4, <1>5 DEF Owners

(* packetGet(): what was in the free queue, or is referenced nowhere,      *)
(* belongs to nobody else.                                                 *)
LEMMA OwnersPacketGet ==
  ASSUME Basic, RingKept, Owners, NEW k \in Pool, PacketGet(k), OnTheirWay' = OnTheirWay
  PROVE  Owners'
<1>0. /\ recv \in RecvTypes /\ free_pkt_queue_ \in Seq(Buffer) /\ recv.pc = "refill"
      /\ recv.pkt_pool[k] = NoBuffer
  BY DEF Basic, TypeOK, RecvTypes, PcOfRecv, PacketGet
<1>1. recv.pkt_pool \in [Pool -> Buffer \cup {NoBuffer}] BY <1>0 DEF RecvTypes
<1>2. CASE free_pkt_queue_ # <<>>
  <2> DEFINE f == free_pkt_queue_ b == Head(f)
  <2>1. recv' = [recv EXCEPT !.pkt_pool[k] = b] /\ f' = Tail(f) BY <1>2 DEF PacketGet
  <2>2. recv'.pkt_pool = [recv.pkt_pool EXCEPT ![k] = b] BY <1>0, <2>1 DEF RecvTypes
  <2>3. /\ b \in Buffer /\ b = f[1] /\ 1 \in DOMAIN f /\ f' \in Seq(Buffer)
        /\ Len(f) \in Nat \ {0} /\ Len(f') = Len(f) - 1
        /\ \A i \in 1 .. Len(f) - 1 : f'[i] = f[i + 1]
    BY <1>0, <1>2, <2>1
  <2>4. DOMAIN f' = 1 .. Len(f) - 1 /\ DOMAIN f = 1 .. Len(f) BY <1>0, <2>3
  <2>5. \A i \in DOMAIN f' : f'[i] = f[i + 1] /\ i + 1 \in DOMAIN f BY <2>3, <2>4
  <2>6. Distinct(f)'
    <3>1. \A i, j \in DOMAIN f' : i < j => i + 1 < j + 1 BY <2>4
    <3> QED BY <2>5, <3>1 DEF Owners, Distinct
  <2>7. Without(f', b)
    <3>1. \A i \in DOMAIN f' : 1 < i + 1 BY <2>4
    <3> QED BY <2>3, <2>5, <3>1 DEF Owners, Distinct, Without
  <2>8. Without(OnTheirWay, b) BY <2>3 DEF Owners, Apart, Without
  <2>9. \A j \in Pool : recv.pkt_pool[j] # b
    <3>1. \A j \in Pool : recv.pkt_pool[j] # NoBuffer => recv.pkt_pool[j] # b
      BY <2>3 DEF Owners, Without
    <3> QED BY <2>3, <3>1, LidarDriverAssumption
  <2>10. \A i \in DOMAIN f' : \E j \in DOMAIN f : f'[i] = f[j] BY <2>5
  <2> QED BY <1>1, <2>2, <2>3, <2>6, <2>7, <2>8, <2>9, <2>10, OwnersGet
<1>3. CASE free_pkt_queue_ = <<>>
  <2>1. PICK b \in Buffer : NewBuffer(b) /\ recv' = [recv EXCEPT !.pkt_pool[k] = b] BY <1>3 DEF PacketGet
  <2>2. recv'.pkt_pool = [recv.pkt_pool EXCEPT ![k] = b] BY <1>0, <2>1 DEF RecvTypes
  <2>3. /\ b \notin Range(buffer_) /\ b \notin Range(recv.pkt_pool) /\ b \notin Range(returned)
    BY <2>1 DEF NewBuffer, Referenced
  <2>4. \A j \in Pool : recv.pkt_pool[j] # b BY <1>1, <2>3 DEF Range
  <2>5. free_pkt_queue_' = <<>> /\ DOMAIN <<>> = {} BY <1>3 DEF PacketGet
  <2>6. Distinct(free_pkt_queue_)' /\ Without(free_pkt_queue_', b) /\ free_pkt_queue_' \in Seq(Buffer)
        /\ \A i \in DOMAIN free_pkt_queue_' : \E j \in DOMAIN free_pkt_queue_ : free_pkt_queue_'[i] = free_pkt_queue_[j]
    BY <2>5 DEF Distinct, Without
  <2>7. Without(OnTheirWay, b)
    <3> DEFINE u == Unhandled  q == PktQueue!Contents
    <3>1. OnTheirWay = u \o q BY <1>0 DEF OnTheirWay, Queue
    <3>2. q \in Seq(Buffer) /\ \A i \in DOMAIN q : q[i] # b
      BY <1>0, <2>3, ContentsTyped DEF RingKept
    <3>3. u \in Seq(Buffer \cup {NoBuffer}) BY UnhandledTyped
    <3>4. \A i \in DOMAIN u : u[i] # b
      <4>1. returned \in Seq(Buffer \cup {NoBuffer}) /\ handle.i \in Nat \ {0}
        BY DEF Basic, TypeOK, PktQueue!TypeOK
      <4>2. \A i \in DOMAIN returned : returned[i] # b BY <2>3 DEF Range
      <4>3. CASE handle.pc \in {"decode", "release"}
        <5>1. u = SubSeq(returned, handle.i, Len(returned)) BY <4>3 DEF Unhandled
        <5>2. \A i \in 1 .. Len(returned) - handle.i + 1 :
                u[i] = returned[handle.i + i - 1] /\ handle.i + i - 1 \in 1 .. Len(returned)
          BY <4>1, <5>1
        <5>3. DOMAIN u = 1 .. Len(returned) - handle.i + 1 BY <4>1, <5>1
        <5>4. DOMAIN returned = 1 .. Len(returned) BY <4>1
        <5> QED BY <4>2, <5>2, <5>3, <5>4
      <4>4. CASE handle.pc \notin {"decode", "release"}
        <5>1. u = <<>> BY <4>4 DEF Unhandled
        <5> QED BY <5>1
      <4> QED BY <4>3, <4>4
    <3> HIDE DEF u, q
    <3>5. q \in Seq(Buffer \cup {NoBuffer}) BY <3>2
    <3>6. \A i \in DOMAIN (u \o q) : (u \o q)[i] # b
      <4> TAKE i \in DOMAIN (u \o q)
      <4>1. i \in 1 .. Len(u) + Len(q) /\ Len(u) \in Nat /\ Len(q) \in Nat BY <3>3, <3>5
      <4>2. CASE i <= Len(u)
        <5>1. (u \o q)[i] = u[i] /\ i \in DOMAIN u BY <3>3, <3>5, <4>1, <4>2
        <5> QED BY <3>4, <5>1
      <4>3. CASE i > Len(u)
        <5>1. (u \o q)[i] = q[i - Len(u)] /\ i - Len(u) \in DOMAIN q BY <3>3, <3>5, <4>1, <4>3
        <5> QED BY <3>2, <5>1
      <4> QED BY <4>1, <4>2, <4>3
    <3> QED BY <3>1, <3>6 DEF Without
  <2> QED BY <1>1, <2>2, <2>4, <2>6, <2>7, OwnersGet
<1> QED BY <1>2, <1>3

(* push() takes the buffer from the pool to the queue.                     *)
LEMMA OwnersPublish ==
  ASSUME Basic, Owners, PutPublish, recv.pkt_pool[recv.k] \in Buffer,
         OnTheirWay' = Append(OnTheirWay, recv.pkt_pool[recv.k])
  PROVE  Owners'
<1> DEFINE W == OnTheirWay  b == recv.pkt_pool[recv.k]
<1>0. recv \in RecvTypes /\ recv.k \in Pool /\ Pool \subseteq Int /\ recv.k <= recv.n
  BY LidarDriverAssumption DEF Basic, TypeOK, RecvTypes, PcOfRecv, Pool, PutPublish, Threads, InHand
<1>1. free_pkt_queue_' = free_pkt_queue_ /\ recv' = AfterPacket([recv EXCEPT !.pkt_pool[recv.k] = NoBuffer])
  BY DEF PutPublish
<1>2. recv'.pkt_pool = [recv.pkt_pool EXCEPT ![recv.k] = NoBuffer]
  BY <1>0, <1>1 DEF AfterPacket, RecvTypes
<1>3. /\ recv.pkt_pool \in [Pool -> Buffer \cup {NoBuffer}]
      /\ \A j \in Pool : recv'.pkt_pool[j] = IF j = recv.k THEN NoBuffer ELSE recv.pkt_pool[j]
  BY <1>0, <1>2 DEF RecvTypes
<1>4. b # NoBuffer BY LidarDriverAssumption
<1>5. \A j \in Pool : recv'.pkt_pool[j] # NoBuffer => recv'.pkt_pool[j] # b
  <2>1. \A j \in Pool : j < recv.k /\ recv.pkt_pool[j] # NoBuffer => recv.pkt_pool[j] # b BY <1>0 DEF Owners
  <2>2. \A j \in Pool : recv.k < j => b # recv.pkt_pool[j] BY <1>0, <1>4 DEF Owners
  <2>3. \A j \in Pool : j = recv.k \/ j < recv.k \/ recv.k < j
    <3> TAKE j \in Pool
    <3>1. j \in Int /\ recv.k \in Int BY <1>0
    <3> QED BY <3>1
  <2> HIDE DEF b
  <2> QED BY <1>3, <2>1, <2>2, <2>3
<1> HIDE DEF b
<1>6. W \in Seq(Buffer) /\ b \in Buffer BY DEF Owners, b
<1>7. W' \in Seq(Buffer) /\ \A i \in DOMAIN W' : W'[i] = b \/ (i \in DOMAIN W /\ W'[i] = W[i])
  <2>1. W' = Append(W, b) BY DEF b
  <2> HIDE DEF W
  <2>2. Append(W, b) \in Seq(Buffer) /\ \A i \in DOMAIN Append(W, b) : Append(W, b)[i] = b \/ (i \in DOMAIN W /\ Append(W, b)[i] = W[i])
    BY <1>6
  <2> QED BY <2>1, <2>2
<1>8. Without(free_pkt_queue_, b) BY <1>0, <1>4 DEF Owners, b
<1>9. Apart(OnTheirWay, free_pkt_queue_)' BY <1>1, <1>7, <1>8 DEF Owners, Apart, Without
<1>10. Distinct(free_pkt_queue_)' BY <1>1 DEF Owners, Distinct
<1>11. \A i, j \in Pool : i < j /\ recv'.pkt_pool[i] # NoBuffer => recv'.pkt_pool[i] # recv'.pkt_pool[j]
  BY <1>3 DEF Owners
<1>12. ASSUME NEW j \in Pool, recv'.pkt_pool[j] # NoBuffer
       PROVE  Without(OnTheirWay, recv.pkt_pool[j])' /\ Without(free_pkt_queue_, recv.pkt_pool[j])'
  <2>1. recv'.pkt_pool[j] = recv.pkt_pool[j] /\ recv.pkt_pool[j] # b BY <1>3, <1>5, <1>12
  <2>2. Without(OnTheirWay, recv.pkt_pool[j]) /\ Without(free_pkt_queue_, recv.pkt_pool[j])
    BY <1>12, <2>1 DEF Owners
  <2> QED BY <1>1, <1>7, <2>1, <2>2 DEF Without
<1> QED BY <1>7, <1>9, <1>10, <1>11, <1>12 DEF Owners

(* A decoded packet's buffer goes to the free queue.                       *)
LEMMA OwnersRelease ==
  ASSUME Basic, RingKept, Owners, Past, Release, OnTheirWay' = Tail(OnTheirWay)
  PROVE  Owners'
<1> DEFINE W == OnTheirWay  f == free_pkt_queue_ b == W[1]
<1>1. W # <<>> /\ returned[handle.i] = b /\ W \in Seq(Buffer) /\ f \in Seq(Buffer)
  BY BatchFirst DEF Owners, Release, Basic, TypeOK
<1>2. recv' = recv /\ (f' = Append(f, b) \/ f' = f) BY <1>1 DEF Release
<1>3. \A j \in DOMAIN W : 1 < j => W[j] # b
  <2>1. \A j \in DOMAIN W : content[W[j]] \in Int
    <3>1. \A j \in DOMAIN W : W[j] \in Buffer BY <1>1, ElementOfSeq
    <3> QED BY <3>1 DEF Basic, TypeOK
  <2>2. 1 \in DOMAIN W BY <1>1
  <2>3. \A j \in DOMAIN W : 1 < j => content[b] < content[W[j]] BY <2>2 DEF Past
  <2> QED BY <2>1, <2>3
<1>4. W' = Tail(W) OBVIOUS
<1>5. Without(f, b)
  <2>1. 1 \in DOMAIN W BY <1>1
  <2> QED BY <2>1 DEF Owners, Apart, Without
<1>6. \A k \in Pool : recv.pkt_pool[k] # NoBuffer => recv.pkt_pool[k] # b
  <2>1. 1 \in DOMAIN W BY <1>1
  <2> QED BY <2>1 DEF Owners, Without
<1>7. /\ \A i, j \in DOMAIN f : i < j => f[i] # f[j]
      /\ \A i \in DOMAIN W, j \in DOMAIN f : W[i] # f[j]
  BY DEF Owners, Distinct, Apart
<1>8. \A k \in Pool : recv.pkt_pool[k] # NoBuffer =>
        (\A i \in DOMAIN W : W[i] # recv.pkt_pool[k]) /\ (\A i \in DOMAIN f : f[i] # recv.pkt_pool[k])
  BY DEF Owners, Without
<1>9. W' \in Seq(Buffer) /\ \A i \in DOMAIN W' : i + 1 \in DOMAIN W /\ W'[i] = W[i + 1] /\ W'[i] # b
  <2>1. Tail(W) \in Seq(Buffer) /\ \A i \in DOMAIN Tail(W) : i + 1 \in DOMAIN W /\ Tail(W)[i] = W[i + 1] /\ 1 < i + 1
    BY <1>1
  <2> QED BY <1>3, <1>4, <2>1
<1>10. /\ f' \in Seq(Buffer)
       /\ \A i \in DOMAIN f' : f'[i] = b \/ (i \in DOMAIN f /\ f'[i] = f[i])
       /\ \A i, j \in DOMAIN f' : i < j => i \in DOMAIN f /\ f'[i] = f[i]
  <2>1. b \in Buffer BY <1>1
  <2>2. /\ Append(f, b) \in Seq(Buffer)
        /\ \A i \in DOMAIN Append(f, b) : Append(f, b)[i] = b \/ (i \in DOMAIN f /\ Append(f, b)[i] = f[i])
        /\ \A i, j \in DOMAIN Append(f, b) : i < j => i \in DOMAIN f /\ Append(f, b)[i] = f[i]
    BY <1>1, <2>1
  <2> QED BY <1>1, <1>2, <2>2
<1>11. Distinct(f)' BY <1>5, <1>7, <1>10 DEF Distinct, Without
<1>12. Apart(W, f)' BY <1>7, <1>9, <1>10 DEF Apart
<1>13. ASSUME NEW k \in Pool, recv.pkt_pool[k] # NoBuffer
       PROVE  Without(W, recv.pkt_pool[k])' /\ Without(f, recv.pkt_pool[k])'
  BY <1>2, <1>6, <1>8, <1>9, <1>10, <1>13 DEF Without
<1>14. \A i, j \in Pool : i < j /\ recv.pkt_pool[i] # NoBuffer => recv.pkt_pool[i] # recv.pkt_pool[j]
  BY DEF Owners
<1> QED BY <1>2, <1>9, <1>11, <1>12, <1>13, <1>14 DEF Owners

-----------------------------------------------------------------------------
(* The order of the packets.                                               *)

(* The numbers the order compares are integers.                            *)
LEMMA OrderTypes ==
  ASSUME Basic
  PROVE  /\ Settled \in Int /\ arrived \in Nat
         /\ \A i \in DOMAIN handled : handled[i] \in Int
         /\ \A b \in Buffer : content[b] \in Int
<1>1. recv \in RecvTypes /\ Pool \subseteq Int /\ arrived \in Nat /\ VLEN \in Nat
  BY LidarDriverAssumption DEF Basic, TypeOK, RecvTypes, PcOfRecv, Pool
<1>2. Settled \in Int
  <2>1. recv.k \in Pool /\ recv.n \in 0 .. VLEN BY <1>1 DEF RecvTypes
  <2>2. recv.k \in Int BY <1>1, <2>1
  <2>3. recv.n \in Int BY <1>1, <2>1
  <2> QED BY <1>1, <2>2, <2>3 DEF Settled
<1>3. \A i \in DOMAIN handled : handled[i] \in Int
  <2>1. handled \in Seq(0 .. MaxPacket) BY DEF Basic, TypeOK
  <2>2. DOMAIN handled = 1 .. Len(handled) BY <2>1
  <2>3. \A i \in 1 .. Len(handled) : handled[i] \in 0 .. MaxPacket BY <2>1, ElementOfSeq
  <2> QED BY <2>2, <2>3
<1>4. \A b \in Buffer : content[b] \in Int BY DEF Basic, TypeOK
<1> QED BY <1>1, <1>2, <1>3, <1>4

(* A step that decodes nothing, adds no packet and may drop the last ones. *)
LEMMA PastKept ==
  ASSUME Basic, Basic', Past, OnTheirWay \in Seq(Buffer), OnTheirWay' \in Seq(Buffer),
         \A i \in DOMAIN OnTheirWay' :
           i \in DOMAIN OnTheirWay /\ content'[OnTheirWay'[i]] = content[OnTheirWay[i]],
         handled' = handled, handle.pc = "release" => handle'.pc = "release",
         Settled <= Settled'
  PROVE  Past'
<1>1. \A i \in DOMAIN OnTheirWay : content[OnTheirWay[i]] \in Int
  <2>1. \A i \in DOMAIN OnTheirWay : OnTheirWay[i] \in Buffer BY ElementOfSeq
  <2> QED BY <2>1, OrderTypes
<1>2. Settled \in Int /\ Settled' \in Int /\ \A i \in DOMAIN handled : handled[i] \in Int
  <2>1. Settled' \in Int
    <3>1. recv' \in RecvTypes' /\ arrived' \in Nat /\ Pool \subseteq Int /\ VLEN \in Nat
      BY LidarDriverAssumption DEF Basic, TypeOK, RecvTypes, PcOfRecv, Pool
    <3> QED BY <3>1 DEF Settled, RecvTypes
  <2> QED BY <2>1, OrderTypes
<1>3. \A i, j \in DOMAIN handled' : i < j => handled'[i] < handled'[j] BY DEF Past
<1>4. \A i, j \in DOMAIN OnTheirWay' : i < j => content'[OnTheirWay'[i]] < content'[OnTheirWay'[j]]
  BY DEF Past
<1>5. \A i \in DOMAIN handled', j \in DOMAIN OnTheirWay' :
        (handle'.pc = "release" => j > 1) => handled'[i] < content'[OnTheirWay'[j]]
  BY DEF Past
<1>6. \A i \in DOMAIN handled' : handled'[i] <= Settled' BY <1>2 DEF Past
<1>7. \A j \in DOMAIN OnTheirWay' : content'[OnTheirWay'[j]] <= Settled' BY <1>1, <1>2 DEF Past
<1> QED BY <1>3, <1>4, <1>5, <1>6, <1>7 DEF Past

(* A step that leaves the packets on their way.                            *)
LEMMA PastSame ==
  ASSUME Basic, Basic', Past, OnTheirWay \in Seq(Buffer), OnTheirWay' = OnTheirWay,
         content' = content, handled' = handled, handle.pc = "release" => handle'.pc = "release",
         Settled <= Settled'
  PROVE  Past'
<1>1. \A i \in DOMAIN OnTheirWay' :
        i \in DOMAIN OnTheirWay /\ content'[OnTheirWay'[i]] = content[OnTheirWay[i]]
  OBVIOUS
<1> QED BY <1>1, PastKept

(* The packet at recv.k is done with, the next one is in hand.             *)
LEMMA NextInHand ==
  ASSUME Basic, Ahead, InHand, NEW r \in RecvTypes, r.k = recv.k, r.n = recv.n,
         \A j \in recv.k + 1 .. VLEN : r.pkt_pool[j] = recv.pkt_pool[j],
         recv' = AfterPacket(r), UNCHANGED <<arrived, content>>
  PROVE  /\ Settled' = Settled + 1 /\ Ahead'
         /\ content[recv.pkt_pool[recv.k]] = Settled + 1
<1>0. /\ recv \in RecvTypes /\ VLEN \in Nat /\ recv.k \in 1 .. VLEN /\ recv.n \in 0 .. VLEN /\ arrived \in Nat
      /\ recv.k <= recv.n /\ recv.n <= arrived
      /\ \A j \in recv.k .. VLEN : recv.pkt_pool[j] # NoBuffer
      /\ \A j \in recv.k .. recv.n : content[recv.pkt_pool[j]] = arrived - recv.n + j
  BY LidarDriverAssumption DEF Basic, TypeOK, RecvTypes, PcOfRecv, Pool, Threads, Ahead
<1>1. \A j \in recv.k + 1 .. VLEN : r.pkt_pool[j] # NoBuffer BY <1>0
<1>2. /\ recv'.pc \in {"select", "push"} /\ recv'.pkt_pool = r.pkt_pool
      /\ InHand' => recv'.k = r.k + 1 /\ recv'.n = r.n /\ recv'.k <= recv'.n
      /\ ~InHand' => r.k = r.n
  <2>1. r.k <= r.n /\ \A j \in r.k + 1 .. VLEN : r.pkt_pool[j] # NoBuffer BY <1>0, <1>1
  <2> QED BY <2>1, AfterPacketThreads
<1>3. Settled = arrived - recv.n + recv.k - 1 BY DEF Settled
<1>4. Settled' = Settled + 1
  <2>1. CASE InHand'
    <3>1. Settled' = arrived - recv.n + (recv.k + 1) - 1 BY <1>2, <2>1 DEF Settled
    <3> QED BY <1>0, <1>3, <3>1
  <2>2. CASE ~InHand'
    <3>1. Settled' = arrived /\ recv.k = recv.n BY <1>2, <2>2 DEF Settled
    <3> QED BY <1>0, <1>3, <3>1
  <2> QED BY <2>1, <2>2
<1>5. content[recv.pkt_pool[recv.k]] = Settled + 1
  <2>1. recv.k \in recv.k .. recv.n BY <1>0
  <2>2. content[recv.pkt_pool[recv.k]] = arrived - recv.n + recv.k BY <1>0, <2>1
  <2> QED BY <1>0, <1>3, <2>2
<1>6. Ahead'
  <2> SUFFICES ASSUME InHand' PROVE recv'.n <= arrived' /\ \A j \in recv'.k .. recv'.n :
                                      content'[recv'.pkt_pool[j]] = arrived' - recv'.n + j
    BY DEF Ahead
  <2>1. recv'.k = recv.k + 1 /\ recv'.n = recv.n BY <1>2
  <2>2. \A j \in recv.k + 1 .. recv.n : j \in recv.k + 1 .. VLEN /\ j \in recv.k .. recv.n BY <1>0
  <2>3. \A j \in recv.k + 1 .. recv.n : recv'.pkt_pool[j] = recv.pkt_pool[j] BY <1>2, <2>2
  <2> QED BY <1>0, <2>1, <2>2, <2>3
<1> QED BY <1>4, <1>5, <1>6

(* A pushed packet is later than all on their way.                         *)
LEMMA OrderPublish ==
  ASSUME Basic, Basic', Owners, Order, PutPublish, recv.pkt_pool[recv.k] \in Buffer,
         OnTheirWay' = Append(OnTheirWay, recv.pkt_pool[recv.k])
  PROVE  Order'
<1> DEFINE W == OnTheirWay  b == recv.pkt_pool[recv.k]  r == [recv EXCEPT !.pkt_pool[recv.k] = NoBuffer]
<1>0. recv \in RecvTypes /\ recv.k \in Pool /\ Pool \subseteq Int /\ InHand
  BY LidarDriverAssumption DEF Basic, TypeOK, RecvTypes, PcOfRecv, Pool, PutPublish, InHand
<1>1. /\ recv' = AfterPacket(r) /\ UNCHANGED <<arrived, content, handle, handled>>
  BY DEF PutPublish
<1>2. r \in RecvTypes /\ r.k = recv.k /\ r.n = recv.n /\ \A j \in recv.k + 1 .. VLEN : r.pkt_pool[j] = recv.pkt_pool[j]
  <2>1. r \in RecvTypes BY <1>0 DEF RecvTypes
  <2>2. r.k = recv.k /\ r.n = recv.n /\ r.pkt_pool = [recv.pkt_pool EXCEPT ![recv.k] = NoBuffer]
    BY <1>0 DEF RecvTypes
  <2>3. \A j \in recv.k + 1 .. VLEN : j \in Pool /\ j # recv.k BY <1>0, LidarDriverAssumption DEF Pool
  <2>4. recv.pkt_pool \in [Pool -> Buffer \cup {NoBuffer}] BY <1>0 DEF RecvTypes
  <2> HIDE DEF r
  <2> QED BY <2>1, <2>2, <2>3, <2>4
<1> HIDE DEF r
<1>3. Settled' = Settled + 1 /\ Ahead' /\ content[b] = Settled + 1
  BY <1>0, <1>1, <1>2, NextInHand DEF Order
<1> HIDE DEF b
<1>4. W \in Seq(Buffer) /\ b \in Buffer BY DEF Owners, b
<1>5. W' = Append(W, b) BY DEF b
<1> DEFINE V == Append(W, b)
<1>6. /\ DOMAIN V = 1 .. Len(W) + 1 /\ DOMAIN W = 1 .. Len(W) /\ Len(W) \in Nat
      /\ V[Len(W) + 1] = b /\ \A i \in DOMAIN W : V[i] = W[i]
  <2> HIDE DEF W
  <2> QED BY <1>4
<1> HIDE DEF V
<1>7. Settled \in Int /\ (\A i \in DOMAIN handled : handled[i] \in Int)
      /\ \A i \in DOMAIN W : content[W[i]] \in Int
  <2>1. \A i \in DOMAIN W : W[i] \in Buffer BY <1>4, ElementOfSeq
  <2> QED BY <2>1, OrderTypes
<1>8. \A i \in DOMAIN V : (i \in DOMAIN W /\ V[i] = W[i]) \/ (i = Len(W) + 1 /\ content[V[i]] = Settled + 1)
  BY <1>3, <1>6
<1>9. \A i \in DOMAIN W : content[W[i]] <= Settled BY DEF Order, Past
<1>10. \A i, j \in DOMAIN V : i < j => content[V[i]] < content[V[j]]
  <2> SUFFICES ASSUME NEW i \in DOMAIN V, NEW j \in DOMAIN V, i < j PROVE content[V[i]] < content[V[j]]
    OBVIOUS
  <2>1. i \in DOMAIN W /\ V[i] = W[i] BY <1>6
  <2>2. CASE j \in DOMAIN W
    <3>1. V[j] = W[j] BY <1>6, <2>2
    <3> QED BY <2>1, <2>2, <3>1 DEF Order, Past
  <2>3. CASE j = Len(W) + 1
    <3>1. content[V[j]] = Settled + 1 BY <1>3, <1>6, <2>3
    <3> QED BY <1>7, <1>9, <2>1, <3>1
  <2> QED BY <1>8, <2>2, <2>3
<1>11. \A i \in DOMAIN handled, j \in DOMAIN V :
        (handle.pc = "release" => j > 1) => handled[i] < content[V[j]]
  <2> SUFFICES ASSUME NEW i \in DOMAIN handled, NEW j \in DOMAIN V, handle.pc = "release" => j > 1
               PROVE  handled[i] < content[V[j]]
    OBVIOUS
  <2>1. CASE j \in DOMAIN W /\ V[j] = W[j] BY <2>1 DEF Order, Past
  <2>2. CASE content[V[j]] = Settled + 1
    <3>1. handled[i] <= Settled BY DEF Order, Past
    <3> QED BY <1>7, <2>2, <3>1
  <2> QED BY <1>8, <2>1, <2>2
<1>12. \A j \in DOMAIN V : content[V[j]] <= Settled + 1 BY <1>7, <1>8, <1>9
<1>13. \A i \in DOMAIN handled : handled[i] <= Settled + 1 BY <1>7 DEF Order, Past
<1>14. \A i, j \in DOMAIN handled : i < j => handled[i] < handled[j] BY DEF Order, Past
<1>15. W' = V BY <1>5 DEF V
<1>16. Past' BY <1>1, <1>3, <1>10, <1>11, <1>12, <1>13, <1>14, <1>15 DEF Past
<1> QED BY <1>3, <1>16 DEF Order

(* recvmmsg() numbers the packets in hand after all the others, and leaves *)
(* those on their way as they are.                                         *)
LEMMA OrderDatagrams ==
  ASSUME Basic, Basic', Owners, Order, NEW n \in Pool, RecvDatagrams(n), OnTheirWay' = OnTheirWay
  PROVE  Order'
<1> DEFINE p == recv.pkt_pool  W == OnTheirWay
<1>0. /\ recv \in RecvTypes /\ Pool = 1 .. VLEN /\ VLEN \in Nat /\ n \in 1 .. VLEN /\ arrived \in Nat
      /\ W \in Seq(Buffer) /\ p \in [Pool -> Buffer \cup {NoBuffer}]
  <2>1. recv \in RecvTypes /\ arrived \in Nat BY LidarDriverAssumption DEF Basic, TypeOK, RecvTypes, PcOfRecv
  <2>2. Pool = 1 .. VLEN /\ VLEN \in Nat /\ n \in 1 .. VLEN BY LidarDriverAssumption DEF Pool
  <2>3. W \in Seq(Buffer) BY DEF Owners
  <2> QED BY <2>1, <2>2, <2>3 DEF RecvTypes
<1>1. /\ recv.pc = "refill" /\ \A k \in Pool : p[k] # NoBuffer
      /\ recv' = [recv EXCEPT !.pc = "push", !.k = 1, !.n = n] /\ arrived' = arrived + n
      /\ content' = [b \in Buffer |-> IF \E k \in 1 .. n : p[k] = b
                                      THEN arrived + (CHOOSE k \in 1 .. n : p[k] = b) ELSE content[b]]
      /\ UNCHANGED <<handle, handled>>
  BY DEF RecvDatagrams
<1>2. recv'.pc = "push" /\ recv'.k = 1 /\ recv'.n = n /\ recv'.pkt_pool = p BY <1>0, <1>1 DEF RecvTypes
<1>3. Settled = arrived /\ Settled' = arrived
  <2>1. Settled = arrived BY <1>1 DEF Settled, InHand
  <2>2. Settled' = (arrived + n) - n + 1 - 1 BY <1>1, <1>2 DEF Settled, InHand
  <2> QED BY <1>0, <2>1, <2>2
<1>4. \A i \in DOMAIN W : W[i] \in Buffer /\ content'[W[i]] = content[W[i]]
  <2> TAKE i \in DOMAIN W
  <2>1. W[i] \in Buffer BY <1>0, ElementOfSeq
  <2>2. \A k \in Pool : p[k] # W[i] BY <1>1 DEF Owners, Without
  <2>3. \A k \in 1 .. n : p[k] # W[i] BY <1>0, <2>2
  <2> QED BY <1>1, <2>1, <2>3
<1>5. Past'
  <2>1. Settled <= Settled' BY <1>0, <1>3
  <2> QED BY <1>0, <1>1, <1>4, <2>1, PastKept DEF Order
<1>6. \A j \in 1 .. n : content'[p[j]] = arrived + j
  <2> TAKE j \in 1 .. n
  <2>1. j \in Pool /\ p[j] \in Buffer BY <1>0, <1>1
  <2> DEFINE c == CHOOSE k \in 1 .. n : p[k] = p[j]
  <2>2. c \in 1 .. n /\ p[c] = p[j] OBVIOUS
  <2>3. content'[p[j]] = arrived + c BY <1>1, <2>1
  <2> HIDE DEF c
  <2>4. c \in Pool BY <1>0, <2>2
  <2>5. c = j BY <1>0, <1>1, <2>1, <2>2, <2>4 DEF Owners
  <2> QED BY <2>3, <2>5
<1>7. Ahead'
  <2>1. \A j \in 1 .. n : arrived + j = (arrived + n) - n + j BY <1>0
  <2>2. n <= arrived + n BY <1>0
  <2> QED BY <1>1, <1>2, <1>6, <2>1, <2>2 DEF Ahead
<1> QED BY <1>5, <1>7 DEF Order

(* The packet decoded is the first one on its way.                         *)
LEMMA OrderDecode ==
  ASSUME Basic, Basic', RingKept, Owners, Order, Decode, OnTheirWay' = OnTheirWay
  PROVE  Order'
<1> DEFINE W == OnTheirWay  c == content[W[1]]
<1>1. /\ W # <<>> /\ returned[handle.i] = W[1] /\ W[1] \in Buffer /\ W \in Seq(Buffer) /\ handle.pc = "decode"
  BY BatchFirst DEF Owners, Decode
<1>2. /\ handled' = Append(handled, c) /\ handle' = [handle EXCEPT !.pc = "release"]
      /\ UNCHANGED <<content, arrived, recv>>
  BY <1>1, LidarDriverAssumption DEF Decode
<1>3. handle'.pc = "release" BY <1>2 DEF Basic, TypeOK
<1>4. Ahead' /\ Settled' = Settled BY <1>2 DEF Order, Ahead, Settled, InHand
<1>5. /\ 1 \in DOMAIN W /\ DOMAIN W \subseteq Nat \ {0}
      /\ Settled \in Int /\ (\A i \in DOMAIN handled : handled[i] \in Int)
      /\ \A i \in DOMAIN W : content[W[i]] \in Int
  <2>1. \A i \in DOMAIN W : W[i] \in Buffer BY <1>1, ElementOfSeq
  <2>2. 1 \in DOMAIN W /\ DOMAIN W \subseteq Nat \ {0} BY <1>1
  <2> QED BY <2>1, <2>2, OrderTypes
<1>6. /\ c \in Int /\ c <= Settled
      /\ \A j \in DOMAIN W : j > 1 => c < content[W[j]]
      /\ \A i \in DOMAIN handled : handled[i] < c
      /\ \A i \in DOMAIN handled, j \in DOMAIN W : handled[i] < content[W[j]]
  <2>1. c \in Int /\ c <= Settled BY <1>5 DEF Order, Past
  <2>2. \A j \in DOMAIN W : j > 1 => c < content[W[j]] BY <1>5 DEF Order, Past
  <2>3. \A i \in DOMAIN handled, j \in DOMAIN W : handled[i] < content[W[j]] BY <1>1 DEF Order, Past
  <2> QED BY <1>5, <2>1, <2>2, <2>3
<1> HIDE DEF c
<1> DEFINE h == Append(handled, c)
<1>7. /\ DOMAIN h = 1 .. Len(handled) + 1 /\ Len(handled) \in Nat
      /\ DOMAIN handled = 1 .. Len(handled)
      /\ h[Len(handled) + 1] = c /\ \A i \in DOMAIN handled : h[i] = handled[i]
  <2>1. handled \in Seq(0 .. MaxPacket) BY DEF Basic, TypeOK
  <2>2. c \in 0 .. MaxPacket BY <1>1 DEF c, Basic, TypeOK
  <2> QED BY <2>1, <2>2
<1> HIDE DEF h
<1>8. \A i \in DOMAIN h : (i \in DOMAIN handled /\ h[i] = handled[i]) \/ (i = Len(handled) + 1 /\ h[i] = c)
  BY <1>7
<1>9. \A i, j \in DOMAIN h : i < j => h[i] < h[j]
  <2> SUFFICES ASSUME NEW i \in DOMAIN h, NEW j \in DOMAIN h, i < j PROVE h[i] < h[j] OBVIOUS
  <2>1. i \in DOMAIN handled /\ h[i] = handled[i] BY <1>7
  <2>2. CASE j \in DOMAIN handled
    <3>1. h[j] = handled[j] BY <1>7, <2>2
    <3> QED BY <2>1, <2>2, <3>1 DEF Order, Past
  <2>3. CASE h[j] = c BY <1>6, <2>1, <2>3
  <2> QED BY <1>8, <2>2, <2>3
<1>10. \A i \in DOMAIN h, j \in DOMAIN W : j > 1 => h[i] < content[W[j]] BY <1>6, <1>8
<1>11. \A i \in DOMAIN h : h[i] <= Settled
  <2>1. \A i \in DOMAIN handled : handled[i] <= Settled BY DEF Order, Past
  <2> QED BY <1>6, <1>8, <2>1
<1>12. \A i, j \in DOMAIN W : i < j => content[W[i]] < content[W[j]] BY DEF Order, Past
<1>13. \A j \in DOMAIN W : content[W[j]] <= Settled BY DEF Order, Past
<1>14. handled' = h BY <1>2 DEF h
<1>15. Past' BY <1>2, <1>3, <1>4, <1>9, <1>10, <1>11, <1>12, <1>13, <1>14 DEF Past
<1> QED BY <1>4, <1>15 DEF Order

(* A released packet has been decoded; the others come after it.           *)
LEMMA OrderRelease ==
  ASSUME Basic, Owners, Order, Release, OnTheirWay' = Tail(OnTheirWay), OnTheirWay # <<>>
  PROVE  Order'
<1> DEFINE W == OnTheirWay
<1>1. UNCHANGED <<content, arrived, recv, handled>> /\ handle.pc = "release" /\ handle'.pc \in {"top", "decode"}
  BY DEF Release
<1>2. Ahead' /\ Settled' = Settled BY <1>1 DEF Order, Ahead, Settled, InHand
<1>3. W \in Seq(Buffer) BY DEF Owners
<1>4. \A i \in DOMAIN Tail(W) : i + 1 \in DOMAIN W /\ Tail(W)[i] = W[i + 1] /\ i + 1 > 1 /\ i \in Int
  <2> HIDE DEF W
  <2> QED BY <1>3
<1>5. W' = Tail(W) OBVIOUS
<1>6. \A i, j \in DOMAIN W' : i < j => i + 1 < j + 1 BY <1>4, <1>5
<1>7. \A i, j \in DOMAIN W' : i < j => content[W'[i]] < content[W'[j]] BY <1>4, <1>5, <1>6 DEF Order, Past
<1>8. \A i \in DOMAIN handled, j \in DOMAIN W' : handled[i] < content[W'[j]] BY <1>4, <1>5 DEF Order, Past
<1>9. \A j \in DOMAIN W' : content[W'[j]] <= Settled BY <1>4, <1>5 DEF Order, Past
<1>10. /\ \A i, j \in DOMAIN handled : i < j => handled[i] < handled[j]
       /\ \A i \in DOMAIN handled : handled[i] <= Settled
  BY DEF Order, Past
<1>11. Past' BY <1>1, <1>2, <1>7, <1>8, <1>9, <1>10 DEF Past
<1> QED BY <1>2, <1>11 DEF Order

-----------------------------------------------------------------------------
(* The invariant, and what it says.                                        *)

(* Nothing is owned or decoded at first.                                   *)
LEMMA InitDriverInv == Init => DriverInv
<1> SUFFICES ASSUME Init PROVE DriverInv OBVIOUS
<1>1. Basic BY InitBasic
<1>2. recv.pc = "none" /\ handle.pc = "none" /\ recv.pkt_pool = EmptyPool BY DEF Init, RecvStopped
<1>3. Ring!IInv
  <2>1. Ring!Init
    BY DEF Init, PktQueue!Init, Ring!Init, PktQueue!Slot, Ring!Slot, PktQueue!ProducerIdle, Ring!ProducerIdle,
       PktQueue!ConsumerIdle, Ring!ConsumerIdle
  <2> QED BY <2>1, RingAssumption, Ring!InitIInv
<1>4. RingKept BY <1>2, <1>3 DEF RingKept
<1>5. OnTheirWay = <<>>
  <2>1. PktQueue!Contents = <<>>
    <3>1. PktQueue!Size = 0 BY LidarDriverAssumption DEF Init, PktQueue!Init, PktQueue!Size, PktQueue!Distance
    <3> QED BY <3>1 DEF PktQueue!Contents
  <2>2. <<>> \o <<>> = <<>> OBVIOUS
  <2> QED BY <1>2, <2>1, <2>2 DEF OnTheirWay, Unhandled, Queue
<1>6. DOMAIN <<>> = {} /\ <<>> \in Seq(Buffer) OBVIOUS
<1>7. Owners
  <2>1. free_pkt_queue_ = <<>> BY DEF Init
  <2>2. \A k \in Pool : recv.pkt_pool[k] = NoBuffer BY <1>2 DEF EmptyPool
  <2> QED BY <1>5, <1>6, <2>1, <2>2 DEF Owners, Distinct, Apart
<1>8. Order
  <2>1. handled = <<>> BY DEF Init
  <2>2. ~InHand BY <1>2 DEF InHand
  <2> QED BY <1>5, <1>6, <2>1, <2>2 DEF Order, Past, Ahead
<1> QED BY <1>1, <1>4, <1>7, <1>8 DEF DriverInv

(* The caller's steps change neither who owns a buffer nor the order.      *)
LEMMA CallerInv ==
  ASSUME Basic, Basic', RingKept, Owners, Order, CallerStep
  PROVE  RingKept' /\ Owners' /\ Order'
<1>1. RingKept' /\ OnTheirWay' = OnTheirWay BY CallerWay
<1>2. UNCHANGED <<free_pkt_queue_, content, arrived, handled>>
  BY DEF CallerStep, DriverInit, DriverStart, StopInput, StopHandle, StopClear
<1>3. \/ recv' = recv /\ handle' = handle
      \/ ~InHand /\ ~InHand' /\ recv'.pkt_pool = EmptyPool /\ handle.pc = "none"
  <2>1. CASE DriverStart
    <3>1. recv.pc = "none" /\ handle.pc = "none" BY <2>1 DEF DriverStart, Basic, Threads
    <3>2. recv'.pc = "select" /\ recv'.pkt_pool = EmptyPool BY <2>1 DEF DriverStart, RecvStopped
    <3> QED BY <3>1, <3>2 DEF InHand
  <2>2. CASE DriverInit \/ StopInput \/ StopHandle \/ StopClear
    BY <2>2 DEF DriverInit, StopInput, StopHandle, StopClear
  <2> QED BY <2>1, <2>2 DEF CallerStep
<1>4. Owners'
  <2>1. \A k \in Pool : recv'.pkt_pool[k] \in {NoBuffer, recv.pkt_pool[k]} BY <1>3 DEF EmptyPool
  <2> QED BY <1>1, <1>2, <2>1, OwnersSame
<1>5. Ahead' /\ Settled' = Settled /\ (handle.pc = "release" => handle'.pc = "release")
  BY <1>2, <1>3 DEF Order, Ahead, Settled, InHand
<1>6. Settled <= Settled' BY <1>5, OrderTypes
<1>7. Past' BY <1>1, <1>2, <1>5, <1>6, PastSame DEF Owners, Order
<1> QED BY <1>1, <1>4, <1>5, <1>7 DEF Order

(* The handling thread's.                                                  *)
LEMMA HandleInv ==
  ASSUME Basic, Basic', Quiet', RingKept, Owners, Order, HandleStep
  PROVE  RingKept' /\ Owners' /\ Order'
<1>1. RingKept' /\ OnTheirWay' = IF Release THEN Tail(OnTheirWay) ELSE OnTheirWay
  BY HandleWay DEF Owners
<1>2. CASE Release
  <2>1. OnTheirWay' = Tail(OnTheirWay) /\ OnTheirWay # <<>>
    BY <1>1, <1>2, BatchFirst DEF Release, Owners
  <2> QED BY <1>1, <1>2, <2>1, OwnersRelease, OrderRelease DEF Order
<1>3. CASE ~Release
  <2>1. OnTheirWay' = OnTheirWay BY <1>1, <1>3
  <2>2. UNCHANGED <<free_pkt_queue_, content, arrived, recv>>
    BY <1>3 DEF HandleStep, HandleTop, PopTimeout, PopBegin, PopGoOn, PopEnd, Decode
  <2>3. Owners' BY <2>1, <2>2, OwnersSame
  <2>4. CASE Decode BY <1>1, <2>1, <2>3, <2>4, OrderDecode
  <2>5. CASE ~Decode
    <3>1. handled' = handled /\ handle.pc # "release"
      BY <1>3, <2>5 DEF HandleStep, HandleTop, PopTimeout, PopBegin, PopGoOn, PopEnd
    <3>2. Ahead' /\ Settled' = Settled BY <2>2 DEF Order, Ahead, Settled, InHand
    <3>3. Settled <= Settled' BY <3>2, OrderTypes
    <3>4. Past' BY <2>1, <2>2, <3>1, <3>3, PastSame DEF Owners, Order
    <3> QED BY <1>1, <2>3, <3>2, <3>4 DEF Order
  <2> QED BY <2>4, <2>5
<1> QED BY <1>2, <1>3

(* The receiving thread's, but for the end of push() and clear().          *)
LEMMA RecvInvOthers ==
  ASSUME Basic, Basic', RingKept, Owners, Order, RecvStep,
         ~PutPublish, ~PutClearFirst, ~PutClearSecond
  PROVE  RingKept' /\ Owners' /\ Order'
<1>0. recv \in RecvTypes BY DEF Basic, TypeOK, RecvTypes, PcOfRecv
<1>1. RingKept' /\ OnTheirWay' = OnTheirWay BY RecvWay
<1>2. ASSUME UNCHANGED <<free_pkt_queue_, content, arrived, handle, handled>>, Ahead', Settled <= Settled',
             \A k \in Pool : recv'.pkt_pool[k] \in {NoBuffer, recv.pkt_pool[k]}
      PROVE  RingKept' /\ Owners' /\ Order'
  <2>1. Owners' BY <1>1, <1>2, OwnersSame
  <2>2. Past' BY <1>1, <1>2, PastSame DEF Owners, Order
  <2> QED BY <1>1, <1>2, <2>1, <2>2 DEF Order
<1>3. ASSUME ~InHand, ~InHand', UNCHANGED arrived PROVE Ahead' /\ Settled <= Settled'
  <2>1. Ahead' BY <1>3 DEF Ahead
  <2>2. Settled' = Settled BY <1>3 DEF Settled
  <2> QED BY <2>1, <2>2, OrderTypes
<1>4. CASE RecvExit \/ RecvError
  <2>1. recv.pc = "select" /\ recv'.pc = "none" /\ recv'.pkt_pool = EmptyPool
        /\ UNCHANGED <<free_pkt_queue_, content, arrived, handle, handled>>
    BY <1>4 DEF RecvExit, RecvError, RecvStopped
  <2>2. \A k \in Pool : recv'.pkt_pool[k] \in {NoBuffer, recv.pkt_pool[k]} BY <2>1 DEF EmptyPool
  <2>3. ~InHand /\ ~InHand' BY <2>1 DEF InHand
  <2> QED BY <1>2, <1>3, <2>1, <2>2, <2>3
<1>5. CASE RecvSelect \/ RecvNothing
  <2>1. recv.pc \in {"select", "refill"} /\ recv'.pc \in {"select", "refill"} /\ recv'.pkt_pool = recv.pkt_pool
        /\ UNCHANGED <<free_pkt_queue_, content, arrived, handle, handled>>
    BY <1>0, <1>5 DEF RecvSelect, RecvNothing, RecvTypes
  <2>2. ~InHand /\ ~InHand' BY <2>1 DEF InHand
  <2> QED BY <1>2, <1>3, <2>1, <2>2
<1>6. CASE SkipShort
  <2>1. recv.pc = "push" /\ recv' = AfterPacket(recv)
        /\ UNCHANGED <<free_pkt_queue_, content, arrived, handle, handled>>
    BY <1>6 DEF SkipShort
  <2>2. InHand BY <2>1 DEF InHand
  <2>3. Settled' = Settled + 1 /\ Ahead' BY <1>0, <2>1, <2>2, NextInHand DEF Order
  <2>4. recv'.pkt_pool = recv.pkt_pool BY <1>0, <2>1 DEF AfterPacket, RecvTypes
  <2>5. Settled <= Settled' BY <2>3, OrderTypes
  <2> QED BY <1>2, <2>1, <2>3, <2>4, <2>5
<1>7. ASSUME NEW k \in Pool, PacketGet(k) PROVE RingKept' /\ Owners' /\ Order'
  <2>1. recv.pc = "refill" /\ UNCHANGED <<content, arrived, handle, handled>> BY <1>7 DEF PacketGet
  <2>2. recv'.pc = "refill" BY <1>0, <1>7 DEF PacketGet, RecvTypes
  <2>3. Ahead' /\ Settled <= Settled' BY <1>3, <2>1, <2>2 DEF InHand
  <2>4. Past' BY <1>1, <2>1, <2>3, PastSame DEF Owners, Order
  <2>5. Owners' BY <1>1, <1>7, OwnersPacketGet
  <2> QED BY <1>1, <2>3, <2>4, <2>5 DEF Order
<1>8. ASSUME NEW n \in Pool, RecvDatagrams(n) PROVE RingKept' /\ Owners' /\ Order'
  <2>1. recv'.pkt_pool = recv.pkt_pool /\ free_pkt_queue_' = free_pkt_queue_
    BY <1>0, <1>8 DEF RecvDatagrams, RecvTypes
  <2>2. Owners' BY <1>1, <2>1, OwnersSame
  <2> QED BY <1>1, <1>8, <2>2, OrderDatagrams
<1>9. CASE PutClaim \/ PutWrite \/ PutOverflow
  <2>1. /\ recv.pc \in {"push", "pushing"} /\ recv'.pc \in {"pushing", "clear"}
        /\ recv'.pkt_pool = recv.pkt_pool /\ recv'.k = recv.k /\ recv'.n = recv.n
        /\ UNCHANGED <<free_pkt_queue_, content, arrived, handle, handled>>
    BY <1>0, <1>9 DEF PutClaim, PutWrite, PutOverflow, RecvTypes
  <2>2. Ahead' /\ Settled' = Settled BY <2>1 DEF Order, Ahead, Settled, InHand
  <2>3. Settled <= Settled' BY <2>2, OrderTypes
  <2> QED BY <1>2, <2>1, <2>2, <2>3
<1> QED BY <1>4, <1>5, <1>6, <1>7, <1>8, <1>9 DEF RecvStep, RecvWork

(* A packet leaves the thread's hands: it is in the queue, or dropped with *)
(* all the queue held.                                                     *)
LEMMA RecvInvPut ==
  ASSUME Basic, Basic', Quiet', RingKept, Owners, Order, PutPublish \/ PutClearFirst \/ PutClearSecond
  PROVE  RingKept' /\ Owners' /\ Order'
<1>0. recv \in RecvTypes BY DEF Basic, TypeOK, RecvTypes, PcOfRecv
<1>1. CASE PutPublish
  <2>1. RingKept' /\ OnTheirWay' = Append(OnTheirWay, recv.pkt_pool[recv.k]) /\ recv.pkt_pool[recv.k] \in Buffer
    BY <1>1, PublishWay
  <2> QED BY <1>1, <2>1, OwnersPublish, OrderPublish
<1>2. CASE PutClearFirst
  <2>1. /\ recv.pc = "clear" /\ recv'.pc = "clearing" /\ recv'.pkt_pool = recv.pkt_pool
        /\ recv'.k = recv.k /\ recv'.n = recv.n
        /\ UNCHANGED <<free_pkt_queue_, content, arrived, handle, handled>>
    BY <1>0, <1>2 DEF PutClearFirst, RecvTypes
  <2>2. /\ RingKept' /\ OnTheirWay' \in Seq(Buffer)
        /\ \A i \in DOMAIN OnTheirWay' : i \in DOMAIN OnTheirWay /\ OnTheirWay'[i] = OnTheirWay[i]
    BY <1>2, ClearWay DEF Owners
  <2>3. Owners' BY <2>1, <2>2, OwnersLeft
  <2>4. Ahead' /\ Settled' = Settled BY <2>1 DEF Order, Ahead, Settled, InHand
  <2>5. Settled <= Settled' BY <2>4, OrderTypes
  <2>6. Past'
    <3>1. OnTheirWay \in Seq(Buffer) BY DEF Owners
    <3> QED BY <2>1, <2>2, <2>5, <3>1, PastKept DEF Order
  <2> QED BY <2>2, <2>3, <2>4, <2>6 DEF Order
<1>3. CASE PutClearSecond
  <2> DEFINE r == [recv EXCEPT !.pkt_pool[recv.k] = NoBuffer]
  <2>1. /\ recv.pc = "clearing" /\ recv' = AfterPacket(r)
        /\ UNCHANGED <<free_pkt_queue_, content, arrived, handle, handled>>
    BY <1>3 DEF PutClearSecond
  <2>2. /\ r \in RecvTypes /\ r.k = recv.k /\ r.n = recv.n
        /\ r.pkt_pool = [recv.pkt_pool EXCEPT ![recv.k] = NoBuffer]
        /\ recv.pkt_pool \in [Pool -> Buffer \cup {NoBuffer}] /\ recv.k \in Pool
    BY <1>0 DEF RecvTypes
  <2> HIDE DEF r
  <2>3. \A j \in recv.k + 1 .. VLEN : r.pkt_pool[j] = recv.pkt_pool[j]
    <3>1. \A j \in recv.k + 1 .. VLEN : j \in Pool /\ j # recv.k BY <2>2, LidarDriverAssumption DEF Pool
    <3> QED BY <2>2, <3>1
  <2>4. InHand BY <2>1 DEF InHand
  <2>5. Settled' = Settled + 1 /\ Ahead' BY <2>1, <2>2, <2>3, <2>4, NextInHand DEF Order
  <2>6. recv'.pkt_pool = r.pkt_pool BY <2>1, <2>2 DEF AfterPacket, RecvTypes
  <2>7. RingKept' /\ OnTheirWay' = OnTheirWay BY <1>3, ClearedWay
  <2>8. Owners'
    <3>1. \A k \in Pool : recv'.pkt_pool[k] \in {NoBuffer, recv.pkt_pool[k]} BY <2>2, <2>6
    <3> QED BY <2>1, <2>7, <3>1, OwnersSame
  <2>9. Settled <= Settled' BY <2>5, OrderTypes
  <2>10. Past' BY <2>1, <2>7, <2>9, PastSame DEF Owners, Order
  <2> QED BY <2>5, <2>7, <2>8, <2>10 DEF Order
<1> QED BY <1>1, <1>2, <1>3

(* Every step of the three threads keeps the invariant.                    *)
LEMMA DriverInvKept ==
  ASSUME DriverInv, [Next]_vars
  PROVE  DriverInv'
<1>1. Basic /\ Basic' BY BasicKept DEF DriverInv
<1>2. SUFFICES ASSUME Quiet' PROVE RingKept' /\ Owners' /\ Order' BY <1>1 DEF DriverInv
<1>3. RingKept /\ Owners /\ Order BY <1>1, <1>2, QuietBefore DEF DriverInv
<1>4. CASE CallerStep BY <1>1, <1>3, <1>4, CallerInv
<1>5. CASE RecvStep
  <2>1. CASE PutPublish \/ PutClearFirst \/ PutClearSecond BY <1>1, <1>2, <1>3, <2>1, RecvInvPut
  <2>2. CASE ~PutPublish /\ ~PutClearFirst /\ ~PutClearSecond BY <1>1, <1>3, <1>5, <2>2, RecvInvOthers
  <2> QED BY <2>1, <2>2
<1>6. CASE HandleStep BY <1>1, <1>2, <1>3, <1>6, HandleInv
<1>7. CASE UNCHANGED vars
  <2>1. UNCHANGED <<queueVars, recv, handle, free_pkt_queue_, content, arrived, handled>> BY <1>7 DEF vars
  <2>2. Unhandled' = Unhandled BY <2>1 DEF Unhandled, queueVars
  <2>3. RingKept' /\ OnTheirWay' = OnTheirWay BY <1>3, <2>1, <2>2, WayKeptEither
  <2>4. Owners' BY <1>3, <2>1, <2>3, OwnersSame
  <2>5. Ahead' /\ Settled' = Settled BY <1>3, <2>1 DEF Order, Ahead, Settled, InHand
  <2>6. Settled <= Settled' BY <1>1, <2>5, OrderTypes
  <2>7. Past' BY <1>1, <1>3, <2>1, <2>3, <2>6, PastSame DEF Owners, Order
  <2> QED BY <2>3, <2>4, <2>5, <2>7 DEF Order
<1> QED BY <1>4, <1>5, <1>6, <1>7 DEF Next

(* The invariant of the driver: while no clear() has met a popBatch(), the *)
(* ring is a FIFO, a buffer has one owner and packets keep their order.    *)
THEOREM DriverInvariance == Spec => []DriverInv
BY InitDriverInv, DriverInvKept, PTL DEF Spec

(* All variables keep their types, the place of every thread is one the    *)
(* others expect.                                                          *)
THEOREM TypeCorrect == Spec => []TypeOK
<1>1. Basic => TypeOK BY DEF Basic
<1> QED BY <1>1, BasicInvariance, PTL

(* processPacket() decodes packets in the order of their arrival, and none *)
(* twice, unless a clear() met a popBatch().                               *)
THEOREM DecodedInOrder == Spec => []HandledInOrder
<1>1. DriverInv => HandledInOrder BY DEF DriverInv, HandledInOrder, Order, Past
<1> QED BY <1>1, DriverInvariance, PTL

(* A pool of m places, some of them empty, and two sequences of what is in *)
(* neither of the others.                                                  *)
SetsApart(T, empty, m, p, w, f) ==
  /\ m \in Nat /\ p \in Seq(T) /\ w \in Seq(T) /\ f \in Seq(T) /\ Len(p) = m
  /\ Without(w, empty) /\ Without(f, empty)
  /\ \A j, k \in 1 .. m : j < k /\ p[j] # empty => p[j] # p[k]
  /\ \A k \in 1 .. m : p[k] # empty => Without(w, p[k]) /\ Without(f, p[k])
  /\ Distinct(w) /\ Distinct(f) /\ Apart(w, f)

OnlyEmptyTwice(q, empty, m) ==
  \A i, j \in DOMAIN q : i < j /\ q[i] = q[j] => q[i] = empty /\ j <= m

(* Joined, they hold nothing twice but empty places.                       *)
LEMMA JoinOwned ==
  ASSUME NEW T, NEW o, NEW m, NEW p, NEW w, NEW f, SetsApart(T, o, m, p, w, f)
  PROVE  OnlyEmptyTwice(p \o w \o f, o, m)
<1> USE DEF SetsApart
<1> DEFINE owned == p \o w \o f  n == m + Len(w)
<1>1. /\ DOMAIN owned = 1 .. n + Len(f) /\ n \in Nat /\ Len(w) \in Nat /\ Len(f) \in Nat
      /\ \A i \in 1 .. m : owned[i] = p[i]
      /\ \A i \in m + 1 .. n : owned[i] = w[i - m] /\ i - m \in DOMAIN w /\ w[i - m] # o
      /\ \A i \in n + 1 .. n + Len(f) : owned[i] = f[i - n] /\ i - n \in DOMAIN f /\ f[i - n] # o
  <2> DEFINE v == p \o w
  <2>2. Len(w) \in Nat /\ Len(f) \in Nat /\ DOMAIN w = 1 .. Len(w) /\ DOMAIN f = 1 .. Len(f) OBVIOUS
  <2>1. v \in Seq(T) /\ Len(v) = n /\ n \in Nat /\ \A i \in 1 .. n : v[i] = IF i <= m THEN p[i] ELSE w[i - m]
    <3>1. /\ p \o w \in Seq(T) /\ Len(p \o w) = Len(p) + Len(w)
          /\ \A i \in 1 .. Len(p) + Len(w) : (p \o w)[i] = IF i <= Len(p) THEN p[i] ELSE w[i - Len(p)]
      BY ConcatProperties
    <3> QED BY <2>2, <3>1
  <2> HIDE DEF v
  <2>3. /\ v \o f \in Seq(T) /\ Len(v \o f) = Len(v) + Len(f)
        /\ \A i \in 1 .. Len(v) + Len(f) : (v \o f)[i] = IF i <= Len(v) THEN v[i] ELSE f[i - Len(v)]
    <3>1. v \in Seq(T) BY <2>1
    <3> QED BY <3>1, ConcatProperties
  <2>4. /\ DOMAIN owned = 1 .. n + Len(f) /\ owned = v \o f
        /\ \A i \in 1 .. n + Len(f) : owned[i] = IF i <= n THEN v[i] ELSE f[i - n]
    BY <2>1, <2>3 DEF v
  <2> HIDE DEF owned
  <2>5. \A i \in 1 .. m : owned[i] = p[i] BY <2>1, <2>2, <2>4
  <2>6. \A i \in m + 1 .. n : owned[i] = w[i - m] /\ i - m \in DOMAIN w BY <2>1, <2>2, <2>4
  <2> HIDE DEF n
  <2>7. \A i \in n + 1 .. n + Len(f) : owned[i] = f[i - n] /\ i - n \in DOMAIN f
    <3> TAKE i \in n + 1 .. n + Len(f)
    <3>1. i \in 1 .. n + Len(f) /\ ~(i <= n) /\ i - n \in 1 .. Len(f) BY <2>1, <2>2
    <3> QED BY <2>2, <2>4, <3>1
  <2>8. (\A i \in DOMAIN w : w[i] # o) /\ \A i \in DOMAIN f : f[i] # o BY DEF Without
  <2> QED BY <2>1, <2>2, <2>4, <2>5, <2>6, <2>7, <2>8
<1> SUFFICES ASSUME NEW i \in DOMAIN owned, NEW j \in DOMAIN owned, i < j, owned[i] = owned[j]
             PROVE  owned[i] = o /\ j <= m
  BY DEF OnlyEmptyTwice
<1> HIDE DEF owned, n
<1>2. i \in Nat /\ j \in Nat /\ (i \in 1 .. m \/ i \in m + 1 .. n \/ i \in n + 1 .. n + Len(f))
      /\ (j \in 1 .. m \/ j \in m + 1 .. n \/ j \in n + 1 .. n + Len(f))
  BY <1>1
<1>3. CASE i \in 1 .. m
  <2>1. CASE j \in 1 .. m BY <1>1, <1>3, <2>1
  <2>2. CASE j \in m + 1 .. n BY <1>1, <1>3, <2>2 DEF Without
  <2>3. CASE j \in n + 1 .. n + Len(f) BY <1>1, <1>3, <2>3 DEF Without
  <2> QED BY <1>2, <2>1, <2>2, <2>3
<1>4. CASE i \in m + 1 .. n
  <2>1. j \in m + 1 .. n \/ j \in n + 1 .. n + Len(f) BY <1>1, <1>2, <1>4
  <2>2. CASE j \in m + 1 .. n
    <3>1. i - m < j - m BY <1>2, <1>4, <2>2
    <3> QED BY <1>1, <1>4, <2>2, <3>1 DEF Distinct
  <2>3. CASE j \in n + 1 .. n + Len(f) BY <1>1, <1>4, <2>3 DEF Apart
  <2> QED BY <2>1, <2>2, <2>3
<1>5. CASE i \in n + 1 .. n + Len(f)
  <2>1. j \in n + 1 .. n + Len(f) BY <1>1, <1>2, <1>5
  <2>2. i - n < j - n BY <1>1, <1>2, <1>5, <2>1
  <2> QED BY <1>1, <1>5, <2>1, <2>2 DEF Distinct
<1> QED BY <1>2, <1>3, <1>4, <1>5

(* A buffer has one owner, unless a clear() met a popBatch().              *)
THEOREM OneBufferOwner == Spec => []BufferExclusive
<1>1. DriverInv => BufferExclusive
  <2> SUFFICES ASSUME DriverInv, Quiet, recv.pc # "clearing"
               PROVE  LET owned == recv.pkt_pool \o Unhandled \o PktQueue!Contents \o free_pkt_queue_
                      IN  \A i, j \in DOMAIN owned :
                            i < j /\ owned[i] = owned[j] => owned[i] = NoBuffer /\ j <= VLEN
    BY DEF BufferExclusive
  <2> DEFINE p == recv.pkt_pool  W == OnTheirWay  f == free_pkt_queue_
  <2>1. Basic /\ RingKept /\ Owners /\ Order BY DEF DriverInv
  <2> DEFINE T == Buffer \cup {NoBuffer}
  <2>2. /\ p \in Seq(T) /\ Len(p) = VLEN /\ VLEN \in Nat /\ Pool = 1 .. VLEN
        /\ NoBuffer \notin Buffer
    <3>1. p \in [1 .. VLEN -> Buffer \cup {NoBuffer}] /\ VLEN \in Nat
      BY <2>1, LidarDriverAssumption DEF Basic, TypeOK, Pool
    <3> HIDE DEF p
    <3> QED BY <3>1, LidarDriverAssumption DEF Pool
  <2>3. W \in Seq(Buffer) /\ f \in Seq(Buffer) BY <2>1 DEF Owners, Basic, TypeOK
  <2>8. /\ W \in Seq(T) /\ f \in Seq(T) /\ Without(W, NoBuffer) /\ Without(f, NoBuffer)
    <3> HIDE DEF W, f
    <3>1. (\A i \in DOMAIN W : W[i] \in Buffer) /\ \A i \in DOMAIN f : f[i] \in Buffer BY <2>3
    <3> QED BY <2>2, <2>3, <3>1 DEF Without
  <2>4. Distinct(W)
    <3>1. \A i \in DOMAIN W : content[W[i]] \in Int
      <4>1. \A i \in DOMAIN W : W[i] \in Buffer BY <2>3
      <4> QED BY <2>1, <4>1, OrderTypes
    <3>2. \A i, j \in DOMAIN W : i < j => content[W[i]] < content[W[j]] BY <2>1 DEF Order, Past
    <3> HIDE DEF W
    <3> QED BY <3>1, <3>2 DEF Distinct
  <2>5. /\ Distinct(f) /\ Apart(W, f)
        /\ \A j, k \in 1 .. VLEN : j < k /\ p[j] # NoBuffer => p[j] # p[k]
        /\ \A k \in 1 .. VLEN : p[k] # NoBuffer => Without(W, p[k]) /\ Without(f, p[k])
    BY <2>1, <2>2 DEF Owners
  <2>6. p \o Unhandled \o PktQueue!Contents \o f = p \o W \o f
    <3>1. PktQueue!Contents \in Seq(T)
      <4>1. PktQueue!Contents \in Seq(Buffer) BY <2>1, ContentsTyped DEF RingKept
      <4> QED BY <4>1
    <3>2. Unhandled \in Seq(T) BY <2>1, UnhandledTyped
    <3> HIDE DEF T, p
    <3>3. (p \o Unhandled) \o PktQueue!Contents = p \o (Unhandled \o PktQueue!Contents)
      BY <2>2, <3>1, <3>2, ConcatAssociative
    <3> QED BY <3>3 DEF OnTheirWay, Queue
  <2> HIDE DEF p, W, f, T
  <2>7. SetsApart(T, NoBuffer, VLEN, p, W, f) BY <2>2, <2>4, <2>5, <2>8 DEF SetsApart
  <2>9. OnlyEmptyTwice(p \o W \o f, NoBuffer, VLEN) BY <2>7, JoinOwned
  <2> QED BY <2>6, <2>9 DEF p, f, OnlyEmptyTwice
<1> QED BY <1>1, DriverInvariance, PTL

(* handle_thread_ dereferences an empty shared_ptr only after such a       *)
(* meeting.                                                                *)
NeverCrashes == Quiet => handle.pc # "crashed"

(* processPacket() meets no empty shared_ptr unless a clear() met a        *)
(* popBatch().                                                             *)
THEOREM NoCrash == Spec => []NeverCrashes
<1>1. Init => NeverCrashes BY DEF Init, NeverCrashes
<1>2. ASSUME NeverCrashes, DriverInv, [Next]_vars PROVE NeverCrashes'
  <2> SUFFICES ASSUME Quiet' PROVE handle'.pc # "crashed" BY DEF NeverCrashes
  <2>1. Basic /\ RingKept /\ Owners /\ handle.pc # "crashed"
    BY <1>2, QuietBefore DEF DriverInv, NeverCrashes
  <2>2. CASE CallerStep
    BY <2>1, <2>2 DEF CallerStep, DriverInit, DriverStart, StopInput, StopHandle, StopClear
  <2>3. CASE RecvStep
    <3>1. CASE (\E k \in Pool : PacketGet(k)) \/ (\E n \in Pool : RecvDatagrams(n))
      BY <2>1, <3>1 DEF PacketGet, RecvDatagrams
    <3>2. CASE RecvSelect \/ RecvError \/ RecvExit \/ RecvNothing \/ SkipShort
      BY <2>1, <3>2 DEF RecvSelect, RecvError, RecvExit, RecvNothing, SkipShort
    <3>3. CASE PutClaim \/ PutWrite \/ PutPublish \/ PutOverflow \/ PutClearFirst \/ PutClearSecond
      BY <2>1, <3>3 DEF PutClaim, PutWrite, PutPublish, PutOverflow, PutClearFirst, PutClearSecond
    <3> QED BY <2>3, <3>1, <3>2, <3>3 DEF RecvStep, RecvWork
  <2>4. CASE HandleStep
    <3>1. CASE Decode
      <4>1. returned[handle.i] # NoBuffer
        BY <2>1, <3>1, BatchFirst, LidarDriverAssumption DEF Owners, Decode
      <4> QED BY <2>1, <3>1, <4>1 DEF Decode, Basic, TypeOK
    <3>2. CASE HandleTop \/ PopTimeout \/ PopBegin \/ PopGoOn \/ PopEnd \/ Release
      BY <2>1, <3>2 DEF HandleTop, PopTimeout, PopBegin, PopGoOn, PopEnd, Release, Basic, TypeOK
    <3> QED BY <2>4, <3>1, <3>2 DEF HandleStep
  <2>5. CASE UNCHANGED vars BY <2>1, <2>5 DEF vars
  <2> QED BY <1>2, <2>2, <2>3, <2>4, <2>5 DEF Next
<1> QED BY <1>1, <1>2, DriverInvariance, PTL DEF Spec
=============================================================================
