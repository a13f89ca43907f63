------------------------------ MODULE SyncQueue ------------------------------
(***************************************************************************)
(* rs_driver/utility/sync_queue.hpp: the lock-free ring that carries       *)
(* packets and point clouds between two threads.  One thread pushes, one   *)
(* thread pops; head_ and tail_ are the only atomics, and every load or    *)
(* store of one of them, and every access to a slot, is a step here.       *)
(*                                                                         *)
(* clear() stores to head_ although head_ belongs to the consumer.  Next   *)
(* leaves it out: only LidarDriverImpl::packetPut() calls it, and          *)
(* LidarDriver.tla, which is built from the steps below, shows what then   *)
(* happens.                                                                *)
(***************************************************************************)
EXTENDS Integers, Sequences

CONSTANTS Capacity,  \* template argument Capacity: one slot always stays free
          Value,     \* the values of type T the producer pushes
          NoValue,   \* a default constructed T: an empty shared_ptr
          MaxCount   \* popBatch()'s max_count

ASSUME SyncQueueAssumption ==
  /\ Capacity \in Nat \ {0, 1}
  /\ MaxCount \in Nat \ {0}
  /\ NoValue \notin Value

VARIABLES buffer_, head_, tail_,
          producer,   \* the pushing thread: where it is, the value it pushes
          consumer,   \* the popping thread: its operation and its locals
          pushed,     \* how the last push() ended
          returned    \* what the last pop(), popWait() or popBatch() returned

ring     == <<buffer_, head_, tail_>>
prodVars == <<producer, pushed>>
consVars == <<consumer, returned>>
vars     == <<buffer_, head_, tail_, producer, consumer, pushed, returned>>

Slot == 0 .. Capacity - 1
NextNoWrap(i) == i + 1   \* mutant: the index never wraps
Next_(i) == (i + 1) % Capacity

(* size(), and "available" in popBatch(): how far tail is ahead of head.   *)
Distance(h, t) == IF t >= h THEN t - h ELSE Capacity - h + t

Smaller(m, n) == IF m < n THEN m ELSE n

ProducerIdle == [pc |-> "idle", value |-> NoValue]
ConsumerIdle == [pc |-> "idle", op |-> "pop", head |-> 0, count |-> 0, batch |-> <<>>]

Init ==
  /\ buffer_ = [i \in Slot |-> NoValue]
  /\ head_ = 0
  /\ tail_ = 0
  /\ producer = ProducerIdle
  /\ consumer = ConsumerIdle
  /\ pushed = "none"
  /\ returned = <<>>
-----------------------------------------------------------------------------
(* push(): tail_ is the producer's own, so its relaxed load commutes with  *)
(* every step of the consumer and joins the load of head_.                 *)
PushClaimUnchecked(v) ==   \* mutant: push() does not ask whether the queue is full
  /\ producer.pc = "idle"
  /\ producer' = [pc |-> "write", value |-> v]
  /\ UNCHANGED <<ring, pushed, consVars>>

PushClaim(v) ==
  /\ producer.pc = "idle"
  /\ Next_(tail_) # head_
  /\ producer' = [pc |-> "write", value |-> v]
  /\ UNCHANGED <<ring, pushed, consVars>>

PushRefused ==
  /\ producer.pc = "idle"
  /\ Next_(tail_) = head_
  /\ pushed' = "full"
  /\ UNCHANGED <<ring, producer, consVars>>

PushWrite ==
  /\ producer.pc = "write"
  /\ buffer_' = [buffer_ EXCEPT ![tail_] = producer.value]
  /\ producer' = [producer EXCEPT !.pc = "publish"]
  /\ UNCHANGED <<head_, tail_, pushed, consVars>>

PushPublish ==
  /\ producer.pc = "publish"
  /\ tail_' = Next_(tail_)
  /\ producer' = ProducerIdle
  /\ pushed' = "ok"
  /\ UNCHANGED <<buffer_, head_, consVars>>

(* clear(): two relaxed stores, which the other thread may see in either   *)
(* order.                                                                  *)
ClearFirst(first) ==
  /\ producer.pc = "idle"
  /\ \/ /\ first = "head"
        /\ head_' = 0
        /\ UNCHANGED tail_
        /\ producer' = [producer EXCEPT !.pc = "clearTail"]
     \/ /\ first = "tail"
        /\ tail_' = 0
        /\ UNCHANGED head_
        /\ producer' = [producer EXCEPT !.pc = "clearHead"]
  /\ UNCHANGED <<buffer_, pushed, consVars>>

ClearSecond ==
  /\ \/ producer.pc = "clearTail" /\ tail_' = 0 /\ UNCHANGED head_
     \/ producer.pc = "clearHead" /\ head_' = 0 /\ UNCHANGED tail_
  /\ producer' = ProducerIdle
  /\ UNCHANGED <<buffer_, pushed, consVars>>
-----------------------------------------------------------------------------
(* pop() and each round of popWait() load head_ once, then tail_.          *)
PopLoadHead ==
  /\ consumer.pc = "idle"
  /\ consumer' = [ConsumerIdle EXCEPT !.pc = "loadTail", !.head = head_]
  /\ returned' = <<>>
  /\ UNCHANGED <<ring, prodVars>>

(* popBatch() tests for entries first and loads head_ and tail_ again; on  *)
(* a timeout it returns 0 and nothing has changed.                         *)
BatchTestUnwrapped ==   \* mutant: "not empty" forgets that tail_ wraps
  /\ consumer.pc = "idle"
  /\ head_ < tail_
  /\ consumer' = [ConsumerIdle EXCEPT !.pc = "loadHead", !.op = "popBatch"]
  /\ returned' = <<>>
  /\ UNCHANGED <<ring, prodVars>>

BatchTest ==
  /\ consumer.pc = "idle"
  /\ head_ # tail_
  /\ consumer' = [ConsumerIdle EXCEPT !.pc = "loadHead", !.op = "popBatch"]
  /\ returned' = <<>>
  /\ UNCHANGED <<ring, prodVars>>

BatchLoadHead ==
  /\ consumer.pc = "loadHead"
  /\ consumer' = [consumer EXCEPT !.pc = "loadTail", !.head = head_]
  /\ UNCHANGED <<ring, prodVars, returned>>

(* pop() finds the queue empty and returns a default value.                *)
PopEmpty ==
  /\ consumer.pc = "loadTail"
  /\ consumer.op = "pop"
  /\ consumer.head = tail_
  /\ consumer' = ConsumerIdle
  /\ UNCHANGED <<ring, prodVars, returned>>

LoadTail ==
  /\ consumer.pc = "loadTail"
  /\ consumer.op = "pop" => consumer.head # tail_
  /\ LET available == Distance(consumer.head, tail_)
         limit     == IF consumer.op = "pop" THEN 1 ELSE MaxCount
     IN  consumer' = [consumer EXCEPT !.pc = "copy", !.count = Smaller(limit, available)]
  /\ UNCHANGED <<ring, prodVars, returned>>

CopyIndex == (consumer.head + Len(consumer.batch)) % Capacity

CopyEntry ==
  /\ consumer.pc = "copy"
  /\ Len(consumer.batch) < consumer.count
  /\ consumer' = [consumer EXCEPT !.batch = Append(@, buffer_[CopyIndex])]
  /\ UNCHANGED <<ring, prodVars, returned>>

CommitOne ==   \* mutant: a batch advances head_ by one
  /\ consumer.pc = "copy"
  /\ Len(consumer.batch) = consumer.count
  /\ head_' = Next_(consumer.head)
  /\ returned' = consumer.batch
  /\ consumer' = ConsumerIdle
  /\ UNCHANGED <<buffer_, tail_, prodVars>>

Commit ==
  /\ consumer.pc = "copy"
  /\ Len(consumer.batch) = consumer.count
  /\ head_' = (consumer.head + consumer.count) % Capacity
  /\ returned' = consumer.batch
  /\ consumer' = ConsumerIdle
  /\ UNCHANGED <<buffer_, tail_, prodVars>>
-----------------------------------------------------------------------------
ProducerStep == (\E v \in Value : PushClaim(v)) \/ PushRefused \/ PushWrite \/ PushPublish
PopStep      == BatchLoadHead \/ PopEmpty \/ LoadTail \/ CopyEntry \/ Commit
ConsumerStep == PopLoadHead \/ BatchTest \/ PopStep

Next == ProducerStep \/ ConsumerStep

(* The consumer keeps calling popBatch() and ends every pop.  The producer *)
(* owes nothing: it may never push again, or stop in the middle of a push. *)
Fairness == WF_vars(PopStep) /\ WF_vars(BatchTest)

Spec == Init /\ [][Next]_vars
FairSpec == Spec /\ Fairness
-----------------------------------------------------------------------------
(* What the ring holds, oldest entry first.                                *)
Size == Distance(head_, tail_)
Contents == [i \in 1 .. Size |-> buffer_[(head_ + i - 1) % Capacity]]

Taken == {consumer.batch[i] : i \in DOMAIN consumer.batch}

TypeOK ==
  /\ buffer_ \in [Slot -> Value \cup {NoValue}]
  /\ head_ \in Slot
  /\ tail_ \in Slot
  /\ producer \in [pc : {"idle", "write", "publish", "clearHead", "clearTail"},
                   value : Value \cup {NoValue}]
  /\ consumer \in [pc : {"idle", "loadHead", "loadTail", "copy"}, op : {"pop", "popBatch"},
                   head : Slot, count : Nat, batch : Seq(Value \cup {NoValue})]
  /\ pushed \in {"none", "ok", "full"}
  /\ returned \in Seq(Value \cup {NoValue})

(* The slot that push() is writing is never one that popBatch() may still  *)
(* copy: the free slot and the acquire/release pairs are the only lock.    *)
SlotExclusive ==
  producer.pc = "write" /\ consumer.pc = "copy" =>
    \A k \in Len(consumer.batch) .. consumer.count - 1 :
      (consumer.head + k) % Capacity # tail_

(* No empty shared_ptr reaches a consumer that was told of entries, so     *)
(* internalProcessPacket() may dereference what popBatch() returned.       *)
NoEmptyEntry == NoValue \notin Taken

(* push(), pop() and popBatch() together behave as one atomic FIFO that    *)
(* refuses an entry only when Capacity - 1 are waiting.                    *)
Fifo == INSTANCE BoundedFifo WITH queue <- Contents, Limit <- Capacity - 1
ImplementsFifo == Fifo!FifoSpec

(* An entry in the ring is handed over however long the producer waits,    *)
(* also when it never pushes again.                                        *)
Drains == \A v \in Value : (\E i \in DOMAIN Contents : Contents[i] = v)
                         ~> (\E i \in DOMAIN returned : returned[i] = v)
=============================================================================
