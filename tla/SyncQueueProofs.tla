--------------------------- MODULE SyncQueueProofs ---------------------------
(***************************************************************************)
(* SyncQueue for every Capacity >= 2, every batch limit and every set of   *)
(* values: its invariants, and that it implements BoundedFifo.             *)
(***************************************************************************)
EXTENDS SyncQueue, SequenceTheorems, TLAPS

(* Ring indices never need more than one subtraction to be reduced.        *)
LEMMA ModWrap ==
  ASSUME NEW x \in Nat, x < 2 * Capacity
  PROVE  x % Capacity = IF x < Capacity THEN x ELSE x - Capacity
  BY SyncQueueAssumption

(* The step of a ring index.                                               *)
LEMMA NextSlot ==
  ASSUME NEW i \in Slot
  PROVE  /\ Next_(i) \in Slot
         /\ Next_(i) = IF i + 1 = Capacity THEN 0 ELSE i + 1
  <1>1. i + 1 \in Nat /\ i + 1 < 2 * Capacity
    BY SyncQueueAssumption DEF Slot
  <1>2. QED
    BY <1>1, ModWrap, SyncQueueAssumption DEF Next_, Slot

(* Going n slots on from i, for an n the ring can hold.                    *)
LEMMA SlotAhead ==
  ASSUME NEW i \in Slot, NEW n \in Slot
  PROVE  /\ (i + n) % Capacity \in Slot
         /\ (i + n) % Capacity = IF i + n < Capacity THEN i + n ELSE i + n - Capacity
  <1>1. i + n \in Nat /\ i + n < 2 * Capacity
    BY SyncQueueAssumption DEF Slot
  <1>2. QED
    BY <1>1, ModWrap, SyncQueueAssumption DEF Slot

(* How far head_ and tail_ are apart, before and after either moves.       *)
LEMMA DistanceFacts ==
  ASSUME NEW h \in Slot, NEW t \in Slot
  PROVE  /\ Distance(h, t) \in Slot
         /\ Distance(h, t) = 0 <=> h = t
         /\ Distance(h, t) = Capacity - 1 <=> Next_(t) = h
         /\ Next_(t) # h => Distance(h, Next_(t)) = Distance(h, t) + 1
         /\ (h + Distance(h, t)) % Capacity = t
         /\ \A n \in 0 .. Distance(h, t) :
              Distance((h + n) % Capacity, t) = Distance(h, t) - n
         /\ \A n \in 0 .. Distance(h, t) - 1 : (h + n) % Capacity # t
  <1>1. Distance(h, t) \in Slot
    BY SyncQueueAssumption DEF Distance, Slot
  <1>2. Next_(t) \in Slot /\ Next_(t) = IF t + 1 = Capacity THEN 0 ELSE t + 1
    BY NextSlot
  <1>3. ASSUME NEW n \in 0 .. Distance(h, t)
        PROVE  (h + n) % Capacity = IF h + n < Capacity THEN h + n ELSE h + n - Capacity
    BY <1>1, SlotAhead, SyncQueueAssumption DEF Slot
  <1>4. /\ Distance(h, t) = 0 <=> h = t
        /\ Distance(h, t) = Capacity - 1 <=> Next_(t) = h
        /\ Next_(t) # h => Distance(h, Next_(t)) = Distance(h, t) + 1
    BY <1>2, SyncQueueAssumption DEF Distance, Slot
  <1>5. (h + Distance(h, t)) % Capacity = t
    <2>1. Distance(h, t) \in 0 .. Distance(h, t)
      BY <1>1 DEF Slot
    <2>2. QED
      BY <1>3, <2>1, SyncQueueAssumption DEF Distance, Slot
  <1>6. ASSUME NEW n \in 0 .. Distance(h, t)
        PROVE  Distance((h + n) % Capacity, t) = Distance(h, t) - n
    <2> DEFINE m == (h + n) % Capacity
    <2>1. n \in Nat /\ m = IF h + n < Capacity THEN h + n ELSE h + n - Capacity
      BY <1>1, <1>3, SyncQueueAssumption DEF Slot
    <2> HIDE DEF m
    <2>2. Distance(m, t) = Distance(h, t) - n
      BY <2>1, SyncQueueAssumption DEF Distance, Slot
    <2>3. QED
      BY <2>2 DEF m
  <1>7. ASSUME NEW n \in 0 .. Distance(h, t) - 1
        PROVE  (h + n) % Capacity # t
    BY <1>1, <1>3, SyncQueueAssumption DEF Distance, Slot
  <1>8. QED
    BY <1>1, <1>4, <1>5, <1>6, <1>7
-----------------------------------------------------------------------------
(* Ring entry n, counted from head_.                                       *)
Entry(n) == buffer_[(head_ + n) % Capacity]

(* The producer holds a free slot until it publishes it, and every slot    *)
(* between head_ and tail_ holds a pushed value.                           *)
ProducerInv ==
  /\ producer.pc \in {"idle", "write", "publish"}
  /\ producer.pc # "idle" => Next_(tail_) # head_ /\ producer.value \in Value
  /\ producer.pc = "publish" => buffer_[tail_] = producer.value
  /\ \A n \in 0 .. Size - 1 : Entry(n) \in Value

(* What the consumer has loaded still describes the ring.                  *)
ConsumerInv ==
  /\ consumer.pc \in {"loadTail", "copy"} => consumer.head = head_
  /\ consumer.pc = "loadHead" => head_ # tail_
  /\ consumer.pc = "loadTail" /\ consumer.op = "popBatch" => head_ # tail_
  /\ consumer.pc # "copy" => consumer.batch = <<>>
  /\ consumer.pc = "copy" =>
       /\ consumer.count \in 1 .. Size
       /\ Len(consumer.batch) <= consumer.count
       /\ \A k \in 1 .. Len(consumer.batch) : consumer.batch[k] = Entry(k - 1)

IInv == TypeOK /\ ProducerInv /\ ConsumerInv

(* The queue starts empty with both threads idle. *)
LEMMA InitIInv == Init => IInv
  <1> SUFFICES ASSUME Init PROVE IInv
    OBVIOUS
  <1>1. Size = 0 /\ 0 \in Slot
    BY SyncQueueAssumption DEF Init, Size, Distance, Slot
  <1>2. TypeOK
    BY <1>1 DEF Init, TypeOK, ProducerIdle, ConsumerIdle
  <1>3. ProducerInv /\ ConsumerInv
    BY <1>1 DEF Init, ProducerInv, ConsumerInv, ProducerIdle, ConsumerIdle
  <1>4. QED
    BY <1>2, <1>3 DEF IInv

(* No action but Commit moves head_, and none but PushPublish moves tail_: *)
(* facts about the ring in a state that satisfies IInv.                    *)
LEMMA RingFacts ==
  ASSUME IInv
  PROVE  /\ Size \in Slot
         /\ Size = 0 <=> head_ = tail_
         /\ Size = Capacity - 1 <=> Next_(tail_) = head_
         /\ (head_ + Size) % Capacity = tail_
         /\ \A n \in 0 .. Size - 1 : (head_ + n) % Capacity \in Slot \ {tail_}
  <1>1. head_ \in Slot /\ tail_ \in Slot
    BY DEF IInv, TypeOK
  <1>2. \A n \in 0 .. Size - 1 : n \in Slot
    BY <1>1, DistanceFacts, SyncQueueAssumption DEF Size, Slot
  <1>3. \A n \in 0 .. Size - 1 : (head_ + n) % Capacity \in Slot
    BY <1>1, <1>2, SlotAhead
  <1>4. QED
    BY <1>1, <1>3, DistanceFacts DEF Size

(* No step of push() breaks the invariant. *)
LEMMA ProducerStepIInv ==
  ASSUME IInv, ProducerStep
  PROVE  IInv'
  <1> USE SyncQueueAssumption DEF IInv
  <1>1. ASSUME NEW v \in Value, PushClaim(v)
        PROVE  IInv'
    <2>1. TypeOK'
      BY <1>1 DEF PushClaim, TypeOK, ring, consVars
    <2>2. ProducerInv'
      BY <1>1 DEF PushClaim, ProducerInv, ring, Size, Entry, Distance
    <2>3. ConsumerInv'
      BY <1>1 DEF PushClaim, ConsumerInv, ring, consVars, Size, Entry, Distance
    <2>4. QED
      BY <2>1, <2>2, <2>3
  <1>2. CASE PushRefused
    <2>1. TypeOK'
      BY <1>2 DEF PushRefused, TypeOK, ring, consVars
    <2>2. ProducerInv' /\ ConsumerInv'
      BY <1>2 DEF PushRefused, ProducerInv, ConsumerInv, ring, consVars, Size, Entry, Distance
    <2>3. QED
      BY <2>1, <2>2
  <1>3. CASE PushWrite
    <2>1. TypeOK'
      BY <1>3 DEF PushWrite, TypeOK, consVars
    <2>2. Size' = Size /\ \A n \in 0 .. Size - 1 : Entry(n)' = Entry(n)
      BY <1>3, RingFacts DEF PushWrite, TypeOK, Size, Entry, Distance
    <2>3. ProducerInv'
      <3>1. buffer_'[tail_] = producer.value
        BY <1>3 DEF PushWrite, TypeOK
      <3>2. QED
        BY <1>3, <2>2, <3>1 DEF PushWrite, ProducerInv, Next_
    <2>4. ConsumerInv'
      <3>1. CASE consumer.pc = "copy"
        <4>1. ASSUME NEW k \in 1 .. Len(consumer.batch)
              PROVE  k - 1 \in 0 .. Size - 1
          BY <3>1, RingFacts DEF ConsumerInv, TypeOK, Slot
        <4>2. QED
          BY <1>3, <2>2, <3>1, <4>1 DEF PushWrite, ConsumerInv, consVars
      <3>2. CASE consumer.pc # "copy"
        BY <1>3, <3>2 DEF PushWrite, ConsumerInv, consVars
      <3>3. QED
        BY <3>1, <3>2
    <2>5. QED
      BY <2>1, <2>3, <2>4
  <1>4. CASE PushPublish
    <2>1. tail_' \in Slot /\ head_ \in Slot /\ tail_ \in Slot
      BY <1>4, NextSlot DEF PushPublish, TypeOK
    <2>2. TypeOK'
      BY <1>4, <2>1 DEF PushPublish, TypeOK, consVars, ProducerIdle
    <2>3. Next_(tail_) # head_
      BY <1>4 DEF PushPublish, ProducerInv
    <2>4. Size' = Size + 1
      BY <1>4, <2>1, <2>3, DistanceFacts DEF PushPublish, Size
    <2>5. \A n \in 0 .. Size : Entry(n)' = Entry(n)
      BY <1>4 DEF PushPublish, Entry
    <2>6. Entry(Size) \in Value
      BY <1>4, RingFacts DEF PushPublish, ProducerInv, Entry
    <2>7. ProducerInv'
      <3>1. ASSUME NEW n \in 0 .. Size' - 1
            PROVE  Entry(n)' \in Value
        BY <2>4, <2>5, <2>6, RingFacts DEF ProducerInv, Slot
      <3>2. QED
        BY <1>4, <3>1 DEF PushPublish, ProducerInv, ProducerIdle
    <2>8. ConsumerInv'
      <3>1. head_ # tail_ => head_ # tail_'
        BY <2>3, <1>4 DEF PushPublish
      <3>2. CASE consumer.pc = "copy"
        <4>1. ASSUME NEW k \in 1 .. Len(consumer.batch)
              PROVE  k - 1 \in 0 .. Size
          BY <3>2, RingFacts DEF ConsumerInv, TypeOK, Slot
        <4>2. consumer.count \in 1 .. Size'
          BY <2>4, <3>2, RingFacts DEF ConsumerInv, Slot
        <4>3. QED
          BY <1>4, <2>5, <3>2, <4>1, <4>2 DEF PushPublish, ConsumerInv, consVars
      <3>3. CASE consumer.pc # "copy"
        BY <1>4, <3>1, <3>3 DEF PushPublish, ConsumerInv, consVars
      <3>4. QED
        BY <3>2, <3>3
    <2>9. QED
      BY <2>2, <2>7, <2>8
  <1>5. QED
    BY <1>1, <1>2, <1>3, <1>4 DEF ProducerStep

(* No step of popBatch() breaks the invariant. *)
LEMMA ConsumerStepIInv ==
  ASSUME IInv, ConsumerStep
  PROVE  IInv'
  <1> USE SyncQueueAssumption DEF IInv
  <1>1. CASE PopLoadHead \/ BatchTest \/ BatchLoadHead \/ PopEmpty
    <2> USE DEF PopLoadHead, BatchTest, BatchLoadHead, PopEmpty
    <2>1. /\ consumer'.pc \in {"idle", "loadHead", "loadTail"}
          /\ consumer'.op \in {"pop", "popBatch"}
          /\ consumer'.head = IF consumer'.pc = "loadTail" THEN head_ ELSE 0
          /\ consumer'.pc = "loadHead" => head_ # tail_
          /\ consumer'.pc = "loadTail" /\ consumer'.op = "popBatch" => head_ # tail_
          /\ consumer'.count \in Nat
          /\ consumer'.batch = <<>>
          /\ consumer' = [pc |-> consumer'.pc, op |-> consumer'.op, head |-> consumer'.head,
                          count |-> consumer'.count, batch |-> consumer'.batch]
      <3>1. CASE PopLoadHead
        BY <3>1 DEF ConsumerIdle
      <3>2. CASE BatchTest
        BY <3>2 DEF ConsumerIdle
      <3>3. CASE BatchLoadHead
        BY <3>3 DEF ConsumerInv, TypeOK
      <3>4. CASE PopEmpty
        BY <3>4 DEF ConsumerIdle
      <3>5. QED
        BY <1>1, <3>1, <3>2, <3>3, <3>4
    <2>2. /\ UNCHANGED <<ring, prodVars>>
          /\ returned' \in Seq(Value \cup {NoValue})
      <3>1. returned' = <<>> \/ returned' = returned
        BY <1>1
      <3>2. returned \in Seq(Value \cup {NoValue}) /\ <<>> \in Seq(Value \cup {NoValue})
        BY DEF TypeOK
      <3>3. UNCHANGED <<ring, prodVars>>
        BY <1>1
      <3>4. QED
        BY <3>1, <3>2, <3>3
    <2>3. TypeOK'
      <3>1. /\ consumer'.pc \in {"idle", "loadHead", "loadTail", "copy"}
            /\ consumer'.head \in Slot
            /\ consumer'.batch \in Seq(Value \cup {NoValue})
        BY <2>1 DEF TypeOK, Slot
      <3>2. consumer' \in [pc : {"idle", "loadHead", "loadTail", "copy"}, op : {"pop", "popBatch"},
                           head : Slot, count : Nat, batch : Seq(Value \cup {NoValue})]
        BY <2>1, <3>1
      <3>3. QED
        BY <2>2, <3>2 DEF TypeOK, ring, prodVars
    <2>4. ProducerInv'
      BY <2>2 DEF ProducerInv, ring, prodVars, Size, Entry, Distance
    <2>5. ConsumerInv'
      BY <2>1, <2>2 DEF ConsumerInv, ring
    <2>6. QED
      BY <2>3, <2>4, <2>5
  <1>2. CASE LoadTail
    <2>1. consumer.head = head_ /\ head_ # tail_
      BY <1>2 DEF LoadTail, ConsumerInv, TypeOK
    <2>2. /\ Size \in 1 .. Capacity - 1
          /\ consumer' = [consumer EXCEPT !.pc = "copy", !.count = consumer'.count]
          /\ consumer'.count \in 1 .. Size
      <3>1. Size \in 1 .. Capacity - 1
        BY <2>1, RingFacts DEF Slot
      <3>2. consumer' = [consumer EXCEPT !.pc = "copy",
                           !.count = Smaller(IF consumer.op = "pop" THEN 1 ELSE MaxCount, Size)]
        BY <1>2, <2>1 DEF LoadTail, Size
      <3>3. Smaller(IF consumer.op = "pop" THEN 1 ELSE MaxCount, Size) \in 1 .. Size
        BY <3>1 DEF Smaller
      <3>4. QED
        BY <3>1, <3>2, <3>3 DEF TypeOK
    <2>3. TypeOK'
      <3>1. consumer'.count \in Nat
        BY <2>2
      <3>2. QED
        BY <1>2, <2>2, <3>1 DEF LoadTail, TypeOK, ring, prodVars
    <2>4. ProducerInv'
      BY <1>2 DEF LoadTail, ProducerInv, ring, prodVars, Size, Entry, Distance
    <2>5. consumer.batch = <<>>
      BY <1>2 DEF LoadTail, ConsumerInv
    <2>6. ConsumerInv'
      <3>1. Size' = Size /\ head_' = head_
        BY <1>2 DEF LoadTail, ring, Size
      <3>2. consumer'.pc = "copy" /\ consumer'.head = head_ /\ consumer'.batch = <<>>
        BY <2>1, <2>2, <2>5 DEF TypeOK
      <3>3. QED
        BY <2>2, <3>1, <3>2 DEF ConsumerInv
    <2>7. QED
      BY <2>3, <2>4, <2>6
  <1>3. CASE CopyEntry
    <2> DEFINE m == Len(consumer.batch)
    <2>1. /\ consumer.pc = "copy" /\ consumer.head = head_
          /\ m \in 0 .. Size - 1 /\ m < consumer.count /\ consumer.count \in 1 .. Size
          /\ consumer.batch \in Seq(Value \cup {NoValue})
      BY <1>3, RingFacts DEF CopyEntry, ConsumerInv, TypeOK, Slot
    <2>2. buffer_[CopyIndex] = Entry(m) /\ Entry(m) \in Value
      BY <1>3, <2>1 DEF CopyIndex, Entry, ProducerInv
    <2>3. consumer' = [consumer EXCEPT !.batch = Append(@, Entry(m))]
      BY <1>3, <2>2 DEF CopyEntry
    <2>4. TypeOK'
      <3> HIDE DEF m
      <3>1. Append(consumer.batch, Entry(m)) \in Seq(Value \cup {NoValue})
        BY <2>1, <2>2
      <3>2. QED
        BY <1>3, <2>3, <3>1 DEF CopyEntry, TypeOK, ring, prodVars
    <2>5. ProducerInv'
      BY <1>3 DEF CopyEntry, ProducerInv, ring, prodVars, Size, Entry, Distance
    <2>6. /\ consumer'.pc = "copy" /\ consumer'.head = head_ /\ consumer'.count = consumer.count
          /\ consumer'.batch = Append(consumer.batch, Entry(m))
      BY <2>1, <2>3 DEF TypeOK
    <2>7. \A n : Entry(n)' = Entry(n)
      BY <1>3 DEF CopyEntry, ring, Entry
    <2>8. Len(consumer'.batch) = m + 1
      BY <2>1, <2>6
    <2>9. ASSUME NEW k \in 1 .. m + 1
          PROVE  consumer'.batch[k] = Entry(k - 1)
      BY <2>1, <2>6 DEF ConsumerInv
    <2>10. Size' = Size /\ head_' = head_
      BY <1>3 DEF CopyEntry, ring, Size
    <2>11. ConsumerInv'
      <3> HIDE DEF m
      <3>1. \A k \in 1 .. Len(consumer'.batch) : consumer'.batch[k] = Entry(k - 1)'
        BY <2>7, <2>8, <2>9
      <3>2. QED
        BY <2>1, <2>6, <2>8, <2>10, <3>1 DEF ConsumerInv
    <2>12. QED
      BY <2>4, <2>5, <2>11
  <1>4. CASE Commit
    <2>1. /\ consumer.head = head_ /\ consumer.count \in 1 .. Size
          /\ head_' = (head_ + consumer.count) % Capacity
          /\ head_ \in Slot /\ tail_ \in Slot
      BY <1>4 DEF Commit, ConsumerInv, TypeOK
    <2>2. consumer.count \in Slot /\ consumer.count \in 0 .. Size /\ head_' \in Slot
      <3>1. consumer.count \in Slot /\ consumer.count \in 0 .. Size
        BY <2>1, RingFacts DEF Slot
      <3>2. QED
        BY <2>1, <3>1, SlotAhead
    <2>3. Size' = Size - consumer.count
      <3>1. consumer.count \in 0 .. Distance(head_, tail_)
        BY <2>2 DEF Size
      <3>2. Distance((head_ + consumer.count) % Capacity, tail_) = Distance(head_, tail_) - consumer.count
        BY <2>1, <3>1, DistanceFacts
      <3>3. QED
        BY <1>4, <2>1, <3>2 DEF Commit, Size
    <2>4. ASSUME NEW n \in 0 .. Size' - 1
          PROVE  Entry(n)' = Entry(consumer.count + n)
      <3>1. /\ n \in Slot /\ consumer.count \in Slot /\ consumer.count + n \in Slot
            /\ consumer.count + n \in 0 .. Size - 1
        BY <2>1, <2>3, RingFacts DEF Slot
      <3>2. (head_' + n) % Capacity = (head_ + (consumer.count + n)) % Capacity
        <4>1. head_' = IF head_ + consumer.count < Capacity THEN head_ + consumer.count
                       ELSE head_ + consumer.count - Capacity
          BY <2>1, <2>2, SlotAhead
        <4>2. (head_' + n) % Capacity = IF head_' + n < Capacity THEN head_' + n ELSE head_' + n - Capacity
          BY <2>2, <3>1, SlotAhead
        <4>3. (head_ + (consumer.count + n)) % Capacity
                = IF head_ + (consumer.count + n) < Capacity THEN head_ + (consumer.count + n)
                  ELSE head_ + (consumer.count + n) - Capacity
          BY <2>1, <3>1, SlotAhead
        <4>4. /\ head_ \in 0 .. Capacity - 1 /\ n \in 0 .. Capacity - 1
              /\ consumer.count \in 0 .. Capacity - 1 /\ Capacity \in Nat
          BY <2>1, <2>2, <3>1 DEF Slot
        <4>5. QED
          BY <4>1, <4>2, <4>3, <4>4
      <3>3. QED
        BY <1>4, <3>2 DEF Commit, Entry
    <2>5. TypeOK'
      BY <1>4, <2>2 DEF Commit, TypeOK, prodVars, ConsumerIdle, Slot
    <2>6. Next_(tail_) # head_ => Next_(tail_) # head_'
      <3>1. Next_(tail_) = head_' => Size' = Capacity - 1
        BY <1>4, <2>1, <2>2, DistanceFacts DEF Commit, Size
      <3>2. QED
        BY <2>1, <2>3, <3>1, RingFacts DEF Slot
    <2>7. ProducerInv'
      <3>1. \A n \in 0 .. Size' - 1 : Entry(n)' \in Value
        BY <2>1, <2>3, <2>4, RingFacts DEF ProducerInv, Slot
      <3>2. QED
        BY <1>4, <2>6, <3>1 DEF Commit, ProducerInv, prodVars
    <2>8. ConsumerInv'
      BY <1>4 DEF Commit, ConsumerInv, ConsumerIdle
    <2>9. QED
      BY <2>5, <2>7, <2>8
  <1>5. QED
    BY <1>1, <1>2, <1>3, <1>4 DEF ConsumerStep, PopStep

(* A step that changes nothing keeps the invariant. *)
LEMMA StutterIInv ==
  ASSUME IInv, UNCHANGED vars
  PROVE  IInv'
  BY DEF vars, IInv, TypeOK, ProducerInv, ConsumerInv, Size, Distance, Entry

(* The inductive invariant holds of every behaviour of the two threads.    *)
THEOREM Invariance == Spec => []IInv
  <1>1. IInv /\ [Next]_vars => IInv'
    BY ProducerStepIInv, ConsumerStepIInv, StutterIInv DEF Next
  <1>2. QED
    BY InitIInv, <1>1, PTL DEF Spec
-----------------------------------------------------------------------------
(* The type invariant of the ring and of both threads' locals.             *)
THEOREM TypeCorrect == Spec => []TypeOK
  BY Invariance, PTL DEF IInv

(* push() never writes a slot popBatch() has still to copy.                *)
THEOREM SlotExclusion == Spec => []SlotExclusive
  <1>1. ASSUME IInv, producer.pc = "write", consumer.pc = "copy",
               NEW k \in Len(consumer.batch) .. consumer.count - 1
        PROVE  (consumer.head + k) % Capacity # tail_
    <2>1. consumer.head = head_ /\ consumer.count \in 1 .. Size /\ Len(consumer.batch) \in Nat
      BY <1>1 DEF IInv, ConsumerInv, TypeOK
    <2>2. k \in 0 .. Size - 1
      BY <1>1, <2>1, RingFacts DEF Slot
    <2>3. QED
      BY <1>1, <2>1, <2>2, RingFacts
  <1>2. IInv => SlotExclusive
    BY <1>1 DEF SlotExclusive
  <1>3. QED
    BY <1>2, Invariance, PTL

(* popBatch() and pop() never hand over an empty shared_ptr.               *)
THEOREM EntriesAreSet == Spec => []NoEmptyEntry
  <1>1. ASSUME IInv, NEW k \in 1 .. Len(consumer.batch)
        PROVE  consumer.batch[k] \in Value
    <2>1. consumer.pc = "copy"
      BY <1>1 DEF IInv, ConsumerInv
    <2>2. k \in Nat /\ consumer.count \in 1 .. Size /\ Len(consumer.batch) <= consumer.count
      BY <1>1, <2>1 DEF IInv, ConsumerInv
    <2>3. Size \in Nat /\ Len(consumer.batch) \in Nat
      BY <1>1, RingFacts DEF Slot, IInv, TypeOK
    <2>4. k - 1 \in 0 .. Size - 1
      BY <1>1, <2>2, <2>3
    <2>5. consumer.batch[k] = Entry(k - 1)
      BY <1>1, <2>1 DEF IInv, ConsumerInv
    <2>6. QED
      BY <1>1, <2>4, <2>5 DEF IInv, ProducerInv
  <1>2. IInv => NoEmptyEntry
    <2> SUFFICES ASSUME IInv PROVE NoEmptyEntry
      OBVIOUS
    <2>1. DOMAIN consumer.batch = 1 .. Len(consumer.batch)
      BY DEF IInv, TypeOK
    <2>2. QED
      BY <1>1, <2>1, SyncQueueAssumption DEF NoEmptyEntry, Taken
  <1>3. QED
    BY <1>2, Invariance, PTL
-----------------------------------------------------------------------------
(* The refinement: Contents is the abstract queue.                         *)
ContentsDescribed ==
  /\ Contents \in Seq(Value)
  /\ Len(Contents) = Size
  /\ \A i \in 1 .. Size : Contents[i] = Entry(i - 1)

(* The abstract contents are a sequence of values whose n-th element is the
   n-th entry from the head: the definition of the refinement mapping, unfolded. *)
LEMMA ContentsFacts == IInv => ContentsDescribed
  <1> SUFFICES ASSUME IInv PROVE ContentsDescribed
    OBVIOUS
  <1>1. Size \in Nat
    BY RingFacts DEF Slot
  <1>2. \A i \in 1 .. Size : /\ (head_ + i - 1) % Capacity = (head_ + (i - 1)) % Capacity
                             /\ i - 1 \in 0 .. Size - 1
    BY <1>1 DEF IInv, TypeOK, Slot
  <1>3. \A i \in 1 .. Size : Contents[i] = Entry(i - 1) /\ Entry(i - 1) \in Value
    BY <1>2 DEF Contents, Entry, IInv, ProducerInv
  <1>4. Contents \in [1 .. Size -> Value]
    BY <1>3 DEF Contents
  <1>5. QED
    BY <1>1, <1>3, <1>4 DEF ContentsDescribed

(* The same facts of the contents after a step. *)
LEMMA ContentsFactsNext == IInv' => ContentsDescribed'
  BY ContentsFacts, PTL

(* A step that changes neither the size nor an entry between head and tail
   does not change the abstract contents. *)
LEMMA SameContents ==
  ASSUME IInv, Size' = Size, \A n \in 0 .. Size - 1 : Entry(n)' = Entry(n), IInv'
  PROVE  Contents' = Contents
  <1>1. Contents \in Seq(Value) /\ Len(Contents) = Size /\ Size \in Nat
    BY ContentsFacts, RingFacts DEF Slot, ContentsDescribed
  <1>2. Contents' \in Seq(Value) /\ Len(Contents') = Size
    BY ContentsFactsNext DEF ContentsDescribed
  <1>3. \A i \in 1 .. Size : Contents'[i] = Contents[i]
    <2>1. ASSUME NEW i \in 1 .. Size
          PROVE  i - 1 \in 0 .. Size - 1
      BY <1>1
    <2>2. \A i \in 1 .. Size' : Contents'[i] = Entry(i - 1)'
      BY ContentsFactsNext DEF ContentsDescribed
    <2>3. QED
      BY <2>1, <2>2, ContentsFacts DEF ContentsDescribed
  <1>4. QED
    BY <1>1, <1>2, <1>3, SeqEqual

(* The initial queue maps to the empty fifo. *)
LEMMA RefinesInit == Init => Fifo!FifoInit
  <1> SUFFICES ASSUME Init PROVE Fifo!FifoInit
    OBVIOUS
  <1>1. Contents = <<>>
    <2>1. Contents \in Seq(Value) /\ Len(Contents) = 0
      BY InitIInv, ContentsFacts, SyncQueueAssumption DEF Init, Size, Distance, ContentsDescribed
    <2>2. QED
      BY <2>1
  <1>2. QED
    BY <1>1 DEF Init, Fifo!FifoInit

(* The release store of tail_ is the point where a pushed value enters the fifo. *)
LEMMA PublishEnqueues ==
  ASSUME IInv, IInv', PushPublish
  PROVE  Fifo!Enqueue(producer.value)
  <1>1. /\ Size' = Size + 1 /\ Size \in Nat /\ Size < Capacity - 1
        /\ Entry(Size) = producer.value
        /\ \A n \in 0 .. Size : Entry(n)' = Entry(n)
    <2>1. head_ \in Slot /\ tail_ \in Slot /\ Next_(tail_) # head_
      BY DEF PushPublish, IInv, ProducerInv, TypeOK
    <2>2. Size' = Size + 1
      BY <2>1, DistanceFacts DEF PushPublish, Size
    <2>3. Entry(Size) = producer.value
      BY RingFacts DEF PushPublish, IInv, ProducerInv, Entry
    <2>4. Size \in Nat /\ Size < Capacity - 1
      BY <2>1, RingFacts, SyncQueueAssumption DEF Slot
    <2>5. QED
      BY <2>2, <2>3, <2>4 DEF PushPublish, Entry
  <1>2. /\ Contents \in Seq(Value) /\ Len(Contents) = Size
        /\ Contents' \in Seq(Value) /\ Len(Contents') = Size + 1
    BY <1>1, ContentsFacts, ContentsFactsNext DEF ContentsDescribed
  <1>3. ASSUME NEW i \in 1 .. Size + 1
        PROVE  Contents'[i] = Append(Contents, producer.value)[i]
    <2>1. i - 1 \in 0 .. Size
      BY <1>1
    <2>2. Contents'[i] = Entry(i - 1)'
      BY <1>1, ContentsFactsNext DEF ContentsDescribed
    <2>3. CASE i = Size + 1
      BY <1>1, <1>2, <2>1, <2>2, <2>3
    <2>4. CASE i \in 1 .. Size
      BY <1>1, <1>2, <2>1, <2>2, <2>4, ContentsFacts DEF ContentsDescribed
    <2>5. i = Size + 1 \/ i \in 1 .. Size
      BY <1>1
    <2>6. QED
      BY <2>3, <2>4, <2>5
  <1>4. producer.value \in Value
    BY DEF PushPublish, IInv, ProducerInv
  <1>5. Contents' = Append(Contents, producer.value)
    <2>1. /\ Append(Contents, producer.value) \in Seq(Value)
          /\ Len(Append(Contents, producer.value)) = Size + 1
      BY <1>2, <1>4
    <2>2. QED
      BY <1>2, <1>3, <2>1, SeqEqual
  <1>6. QED
    BY <1>1, <1>2, <1>5 DEF Fifo!Enqueue, PushPublish, consVars

(* The release store of head_ is the point where a batch leaves the fifo. *)
LEMMA CommitDequeues ==
  ASSUME IInv, IInv', Commit
  PROVE  Fifo!Dequeue(consumer.count)
  <1> DEFINE n == consumer.count
  <1>1. /\ n \in 1 .. Size /\ Size \in Nat /\ n \in Nat
        /\ consumer.batch \in Seq(Value \cup {NoValue}) /\ Len(consumer.batch) = n
        /\ \A k \in 1 .. n : consumer.batch[k] = Entry(k - 1)
    <2>1. Size \in Nat
      BY RingFacts DEF Slot
    <2>2. QED
      BY <2>1 DEF Commit, IInv, ConsumerInv, TypeOK
  <1>2. /\ head_ \in Slot /\ tail_ \in Slot /\ n \in Slot /\ n \in 0 .. Distance(head_, tail_)
        /\ head_' = (head_ + n) % Capacity /\ head_' \in Slot
    <2>1. head_ \in Slot /\ tail_ \in Slot /\ head_' = (head_ + n) % Capacity
      BY DEF Commit, IInv, ConsumerInv, TypeOK
    <2>2. n \in Slot /\ n \in 0 .. Size
      <3> HIDE DEF n
      <3>1. Size \in 0 .. Capacity - 1
        BY RingFacts DEF Slot
      <3>2. QED
        BY <1>1, <3>1, SyncQueueAssumption DEF Slot
    <2>3. QED
      BY <2>1, <2>2, SlotAhead DEF Size
  <1>3. Size' = Size - n
    <2>1. Distance((head_ + n) % Capacity, tail_) = Distance(head_, tail_) - n
      BY <1>2, DistanceFacts
    <2>2. QED
      BY <1>2, <2>1 DEF Commit, Size
  <1>4. /\ Contents \in Seq(Value) /\ Len(Contents) = Size
        /\ Contents' \in Seq(Value) /\ Len(Contents') = Size - n
        /\ \A i \in 1 .. Size : Contents[i] = Entry(i - 1)
        /\ \A i \in 1 .. Size - n : Contents'[i] = Entry(i - 1)'
    BY <1>3, ContentsFacts, ContentsFactsNext DEF ContentsDescribed
  <1>5. consumer.batch = SubSeq(Contents, 1, n)
    <2> HIDE DEF n
    <2>1. SubSeq(Contents, 1, n) \in Seq(Value) /\ Len(SubSeq(Contents, 1, n)) = n
      BY <1>1, <1>4
    <2>2. SubSeq(Contents, 1, n) \in Seq(Value \cup {NoValue})
      BY <2>1
    <2>3. \A k \in 1 .. n : SubSeq(Contents, 1, n)[k] = consumer.batch[k]
      BY <1>1, <1>4
    <2>4. QED
      BY <1>1, <2>1, <2>2, <2>3, SeqEqual
  <1>6. Contents' = SubSeq(Contents, n + 1, Len(Contents))
    <2>1. ASSUME NEW m \in 0 .. Size - n - 1
          PROVE  Entry(m)' = Entry(n + m)
      <3> HIDE DEF n
      <3>1. Size \in Slot /\ m \in Nat /\ n + m < Size
        BY <1>1, RingFacts
      <3>2. m \in Slot /\ n + m \in Slot
        BY <1>1, <3>1, SyncQueueAssumption DEF Slot
      <3>3. (head_' + m) % Capacity = (head_ + (n + m)) % Capacity
        <4>1. head_' = IF head_ + n < Capacity THEN head_ + n ELSE head_ + n - Capacity
          BY <1>2, SlotAhead
        <4>2. (head_' + m) % Capacity = IF head_' + m < Capacity THEN head_' + m ELSE head_' + m - Capacity
          BY <1>2, <3>2, SlotAhead
        <4>3. (head_ + (n + m)) % Capacity
                = IF head_ + (n + m) < Capacity THEN head_ + (n + m) ELSE head_ + (n + m) - Capacity
          BY <1>2, <3>2, SlotAhead
        <4>4. /\ head_ \in 0 .. Capacity - 1 /\ m \in 0 .. Capacity - 1
              /\ n \in 0 .. Capacity - 1 /\ Capacity \in Nat
          BY <1>2, <3>2, SyncQueueAssumption DEF Slot
        <4>5. QED
          BY <4>1, <4>2, <4>3, <4>4
      <3>4. buffer_' = buffer_
        BY DEF Commit
      <3>5. QED
        BY <3>3, <3>4 DEF Entry
    <2> HIDE DEF n
    <2>2. /\ SubSeq(Contents, n + 1, Len(Contents)) \in Seq(Value)
          /\ Len(SubSeq(Contents, n + 1, Len(Contents))) = Size - n
      BY <1>1, <1>4
    <2>3. ASSUME NEW i \in 1 .. Size - n
          PROVE  Contents'[i] = SubSeq(Contents, n + 1, Len(Contents))[i]
      <3>1. i - 1 \in 0 .. Size - n - 1 /\ n + i \in 1 .. Size /\ n + i - 1 = n + (i - 1)
        BY <1>1
      <3>2. SubSeq(Contents, n + 1, Len(Contents))[i] = Contents[n + i]
        BY <1>1, <1>4
      <3>3. QED
        <4>1. Contents'[i] = Entry(i - 1)'
          BY <1>4, <2>3
        <4>2. Contents[n + i] = Entry(n + (i - 1))
          <5>1. \A j \in 1 .. Size : Contents[j] = Entry(j - 1)
            BY <1>4
          <5>2. PICK j \in 1 .. Size : j = n + i /\ j - 1 = n + (i - 1)
            BY <1>1, <3>1
          <5>3. QED
            BY <5>1, <5>2
        <4>3. Entry(i - 1)' = Entry(n + (i - 1))
          BY <2>1, <3>1
        <4>4. QED
          BY <3>2, <4>1, <4>2, <4>3
    <2>4. QED
      BY <1>1, <1>4, <2>2, <2>3, SeqEqual
  <1>7. QED
    BY <1>1, <1>4, <1>5, <1>6 DEF Fifo!Dequeue, Commit, prodVars

(* Every step of the ring maps to an operation of the fifo or to a stutter. *)
LEMMA RefinesStep ==
  ASSUME IInv, IInv', [Next]_vars
  PROVE  [Fifo!FifoNext]_(Fifo!fifoVars)
  <1>1. ASSUME UNCHANGED <<head_, tail_>>,
               \A n \in 0 .. Size - 1 : Entry(n)' = Entry(n)
        PROVE  Contents' = Contents
    BY <1>1, SameContents DEF Size
  <1>2. ASSUME UNCHANGED ring
        PROVE  Contents' = Contents
    BY <1>1, <1>2 DEF ring, Entry
  <1>3. CASE PushRefused
    <2>1. Len(Contents) = Capacity - 1
      BY <1>3, ContentsFacts, RingFacts DEF PushRefused, ContentsDescribed, IInv, TypeOK, Slot
    <2>2. QED
      BY <1>2, <1>3, <2>1 DEF PushRefused, consVars, Fifo!Refuse, Fifo!FifoNext
  <1>4. CASE PushWrite
    <2>1. \A n \in 0 .. Size - 1 : Entry(n)' = Entry(n)
      BY <1>4, RingFacts DEF PushWrite, Entry, IInv, TypeOK
    <2>2. QED
      BY <1>1, <1>4, <2>1 DEF PushWrite, consVars, Fifo!fifoVars
  <1>5. CASE PushPublish
    <2>1. producer.value \in Value
      BY <1>5 DEF PushPublish, IInv, ProducerInv
    <2>2. QED
      BY <1>5, <2>1, PublishEnqueues DEF Fifo!FifoNext
  <1>6. CASE Commit
    <2>1. consumer.count \in 1 .. Size /\ Size \in 0 .. Capacity - 1
      BY <1>6, RingFacts DEF Commit, IInv, ConsumerInv, Slot
    <2>2. consumer.count \in 1 .. Capacity - 1
      BY <2>1, SyncQueueAssumption
    <2>3. QED
      BY <1>6, <2>2, CommitDequeues DEF Fifo!FifoNext
  <1>7. CASE PopLoadHead \/ BatchTest
    BY <1>2, <1>7 DEF PopLoadHead, BatchTest, prodVars, Fifo!Call, Fifo!FifoNext
  <1>8. CASE \/ \E v \in Value : PushClaim(v)
             \/ BatchLoadHead \/ PopEmpty \/ LoadTail \/ CopyEntry
    BY <1>2, <1>8 DEF PushClaim, BatchLoadHead, PopEmpty, LoadTail, CopyEntry,
                      prodVars, consVars, Fifo!fifoVars
  <1>9. CASE UNCHANGED vars
    BY <1>2, <1>9 DEF vars, ring, Fifo!fifoVars
  <1>10. QED
    BY <1>3, <1>4, <1>5, <1>6, <1>7, <1>8, <1>9
       DEF Next, ProducerStep, ConsumerStep, PopStep

(* SyncQueue implements the abstract FIFO for every Capacity: no entry is  *)
(* lost, doubled or overtaken by any interleaving of the two threads.      *)
THEOREM Refinement == Spec => ImplementsFifo
  <1>1. IInv /\ IInv' /\ [Next]_vars => [Fifo!FifoNext]_(Fifo!fifoVars)
    BY RefinesStep
  <1>2. QED
    BY RefinesInit, Invariance, <1>1, PTL DEF Spec, ImplementsFifo, Fifo!FifoSpec
=============================================================================
