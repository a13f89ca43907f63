----------------------------- MODULE LidarDriver -----------------------------
(***************************************************************************)
(* rs_driver: LidarDriverImpl (driver/lidar_driver_impl.hpp) with its      *)
(* socket input (driver/input/unix/input_sock_select.hpp).  Three threads: *)
(*   - the caller: init(), start(), stop();                                *)
(*   - recv_thread_: recvPacket() receives datagrams into pooled buffers   *)
(*     and pushes them on pkt_queue_;                                      *)
(*   - handle_thread_: processPacket() pops batches, decodes the packets   *)
(*     into the current point cloud and recycles the buffers.              *)
(*                                                                         *)
(* pkt_queue_ is the ring of SyncQueue, load by load and store by store,   *)
(* because packetPut() clears it from the producer's side.  Nobody clears  *)
(* free_pkt_queue_, so the FIFO that SyncQueue then implements (theorem    *)
(* Refinement of SyncQueueProofs) stands for it.                           *)
(*                                                                         *)
(* Datagrams are numbered in the order of their arrival; a buffer's        *)
(* content is the number of the datagram it was last filled with.          *)
(***************************************************************************)
EXTENDS Integers, Sequences, Functions

CONSTANTS Capacity, MaxCount,   \* of pkt_queue_ and of popBatch()
          Buffer, NoBuffer,     \* buffer objects (numbers), the empty shared_ptr
          VLEN,                 \* buffers in recvPacket()'s pkt_pool
          MaxPacket,            \* bound: datagrams that arrive
          MaxSession            \* bound: calls of start() that take effect

ASSUME LidarDriverAssumption ==
  /\ Capacity \in Nat \ {0, 1} /\ MaxCount \in Nat \ {0}
  /\ Buffer \subseteq Nat /\ NoBuffer \notin Buffer
  /\ VLEN \in Nat \ {0}
  /\ MaxPacket \in Nat /\ MaxSession \in Nat

VARIABLES
  buffer_, head_, tail_, producer, consumer, pushed,   \* pkt_queue_ and its users
  returned,          \* pkt_batch of processPacket()
  free_pkt_queue_,
  content,           \* content[b]: the datagram last received into buffer b
  arrived,           \* how many datagrams have been received
  recv,              \* recv_thread_: pc, pkt_pool, and the datagrams in hand
  handle,            \* handle_thread_: pc and its place in pkt_batch
  point_cloud_,      \* the datagrams whose points the current cloud holds
  driver,            \* the caller's place, init_flag_, start_flag_, to_exit_*_
  handled,           \* history: the datagrams decoded, in order
  clears             \* history: clear() called, packets since, met a popBatch()

PktQueue == INSTANCE SyncQueue WITH Value <- Buffer, NoValue <- NoBuffer

queueVars == <<buffer_, head_, tail_, producer, consumer, pushed, returned>>
vars == <<queueVars, free_pkt_queue_, content, arrived, recv, handle,
          point_cloud_, driver, handled, clears>>

Pool == 1 .. VLEN
EmptyPool == [k \in Pool |-> NoBuffer]
RecvStopped == [pc |-> "none", pkt_pool |-> EmptyPool, k |-> 1, n |-> 0]

Init ==
  /\ PktQueue!Init
  /\ free_pkt_queue_ = <<>>
  /\ content = [b \in Buffer |-> 0]
  /\ arrived = 0
  /\ recv = RecvStopped
  /\ handle = [pc |-> "none", i |-> 1]
  /\ point_cloud_ = {}
  /\ driver = [pc |-> "idle", init_flag_ |-> FALSE, start_flag_ |-> FALSE,
               to_exit_recv_ |-> FALSE, to_exit_handle_ |-> FALSE,
               session |-> 0]
  /\ handled = <<>>
  /\ clears = [count |-> 0, since |-> 0, overlap |-> FALSE]
-----------------------------------------------------------------------------
(* The caller.  init() creates decoder and input; opening the sockets may  *)
(* fail, and then nothing is kept.                                         *)
DriverInit ==
  /\ driver.pc = "idle"
  /\ ~driver.init_flag_
  /\ driver' = [driver EXCEPT !.init_flag_ = TRUE]
  /\ UNCHANGED <<queueVars, free_pkt_queue_, content, arrived, recv, handle,
                 point_cloud_, handled, clears>>

(* start() spawns handle_thread_, then recv_thread_.  Neither pkt_queue_   *)
(* nor free_pkt_queue_ is touched.                                         *)
DriverStart ==
  /\ driver.pc = "idle"
  /\ ~driver.start_flag_
  /\ driver.init_flag_
  /\ driver.session < MaxSession
  /\ driver' = [driver EXCEPT !.start_flag_ = TRUE, !.to_exit_recv_ = FALSE,
                              !.to_exit_handle_ = FALSE, !.session = @ + 1]
  /\ recv' = [RecvStopped EXCEPT !.pc = "select"]
  /\ handle' = [pc |-> "top", i |-> 1]
  /\ UNCHANGED <<queueVars, free_pkt_queue_, content, arrived, point_cloud_, handled, clears>>

(* stop(): first the input, whose thread is joined ...                     *)
StopInput ==
  /\ driver.pc = "idle"
  /\ driver.start_flag_
  /\ driver' = [driver EXCEPT !.pc = "joinRecv", !.to_exit_recv_ = TRUE]
  /\ UNCHANGED <<queueVars, free_pkt_queue_, content, arrived, recv, handle,
                 point_cloud_, handled, clears>>

(* ... then the handling thread ...                                        *)
StopHandleUnflagged ==   \* mutant: stop() joins handle_thread_ without telling it to exit
  /\ driver.pc = "joinRecv"
  /\ recv.pc = "none"
  /\ driver' = [driver EXCEPT !.pc = "joinHandle"]
  /\ UNCHANGED <<queueVars, free_pkt_queue_, content, arrived, recv, handle,
                 point_cloud_, handled, clears>>

StopHandle ==
  /\ driver.pc = "joinRecv"
  /\ recv.pc = "none"
  /\ driver' = [driver EXCEPT !.pc = "joinHandle", !.to_exit_handle_ = TRUE]
  /\ UNCHANGED <<queueVars, free_pkt_queue_, content, arrived, recv, handle,
                 point_cloud_, handled, clears>>

(* ... and the points of the unfinished cloud are cleared.                 *)
StopClear ==
  /\ driver.pc = "joinHandle"
  /\ handle.pc = "none"
  /\ point_cloud_' = {}
  /\ driver' = [driver EXCEPT !.pc = "idle", !.start_flag_ = FALSE]
  /\ UNCHANGED <<queueVars, free_pkt_queue_, content, arrived, recv, handle, handled, clears>>
-----------------------------------------------------------------------------
(* recv_thread_: the loop of recvPacket().                                 *)
RecvExit ==
  /\ recv.pc = "select"
  /\ driver.to_exit_recv_
  /\ recv' = RecvStopped
  /\ UNCHANGED <<queueVars, free_pkt_queue_, content, arrived, handle,
                 point_cloud_, driver, handled, clears>>

(* select() finds a readable socket; on its timeout the loop goes round.   *)
RecvSelect ==
  /\ recv.pc = "select"
  /\ ~driver.to_exit_recv_
  /\ arrived < MaxPacket
  /\ recv' = [recv EXCEPT !.pc = "refill"]
  /\ UNCHANGED <<queueVars, free_pkt_queue_, content, arrived, handle,
                 point_cloud_, driver, handled, clears>>

(* select() fails other than with EINTR: the thread ends, and start_flag_  *)
(* keeps saying that the driver runs.                                      *)
RecvError ==
  /\ recv.pc = "select"
  /\ ~driver.to_exit_recv_
  /\ recv' = RecvStopped
  /\ UNCHANGED <<queueVars, free_pkt_queue_, content, arrived, handle,
                 point_cloud_, driver, handled, clears>>

(* Buffer objects some shared_ptr still points to; popped slots of the     *)
(* ring keep theirs.                                                       *)
Referenced == Range(free_pkt_queue_) \cup Range(buffer_) \cup Range(recv.pkt_pool)
                \cup Range(returned) \cup Range(consumer.batch) \cup {producer.value}

NewBuffer(b) == b \in Buffer \ Referenced /\ \A c \in Buffer \ Referenced : b <= c

(* packetGet() for the next empty place of the pool: a recycled buffer, or *)
(* a new one.                                                              *)
PacketGetShared(k) ==   \* mutant: packetGet() leaves the recycled buffer in the queue
  /\ recv.pc = "refill"
  /\ recv.pkt_pool[k] = NoBuffer
  /\ \A j \in 1 .. k - 1 : recv.pkt_pool[j] # NoBuffer
  /\ \/ free_pkt_queue_ # <<>> /\ recv' = [recv EXCEPT !.pkt_pool[k] = Head(free_pkt_queue_)]
     \/ /\ free_pkt_queue_ = <<>>
        /\ \E b \in Buffer : NewBuffer(b) /\ recv' = [recv EXCEPT !.pkt_pool[k] = b]
  /\ UNCHANGED <<queueVars, free_pkt_queue_, content, arrived, handle, point_cloud_, driver,
                 handled, clears>>

PacketGet(k) ==
  /\ recv.pc = "refill"
  /\ recv.pkt_pool[k] = NoBuffer
  /\ \A j \in 1 .. k - 1 : recv.pkt_pool[j] # NoBuffer
  /\ \/ /\ free_pkt_queue_ # <<>>
        /\ recv' = [recv EXCEPT !.pkt_pool[k] = Head(free_pkt_queue_)]
        /\ free_pkt_queue_' = Tail(free_pkt_queue_)
     \/ /\ free_pkt_queue_ = <<>>
        /\ \E b \in Buffer : NewBuffer(b) /\ recv' = [recv EXCEPT !.pkt_pool[k] = b]
        /\ UNCHANGED free_pkt_queue_
  /\ UNCHANGED <<queueVars, content, arrived, handle, point_cloud_, driver, handled, clears>>

(* recvmmsg() fills the first n buffers of the pool.                       *)
RecvDatagrams(n) ==
  /\ recv.pc = "refill"
  /\ \A k \in Pool : recv.pkt_pool[k] # NoBuffer
  /\ arrived + n <= MaxPacket
  /\ content' = [b \in Buffer |->
                   IF \E k \in 1 .. n : recv.pkt_pool[k] = b
                   THEN arrived + (CHOOSE k \in 1 .. n : recv.pkt_pool[k] = b)
                   ELSE content[b]]
  /\ arrived' = arrived + n
  /\ recv' = [recv EXCEPT !.pc = "push", !.k = 1, !.n = n]
  /\ UNCHANGED <<queueVars, free_pkt_queue_, handle, point_cloud_, driver, handled, clears>>

(* recvmmsg() fails, or finds nothing to read after all.                   *)
RecvNothing ==
  /\ recv.pc = "refill"
  /\ \A k \in Pool : recv.pkt_pool[k] # NoBuffer
  /\ recv' = [recv EXCEPT !.pc = "select"]
  /\ UNCHANGED <<queueVars, free_pkt_queue_, content, arrived, handle,
                 point_cloud_, driver, handled, clears>>

AfterPacket(r) == IF r.k = r.n THEN [r EXCEPT !.pc = "select", !.k = 1, !.n = 0]
                               ELSE [r EXCEPT !.pc = "push", !.k = @ + 1]

(* A datagram shorter than its framing is skipped, the buffer stays.       *)
SkipShort ==
  /\ recv.pc = "push"
  /\ recv' = AfterPacket(recv)
  /\ UNCHANGED <<queueVars, free_pkt_queue_, content, arrived, handle,
                 point_cloud_, driver, handled, clears>>

(* packetPut(): push() ...                                                 *)
PutClaim ==
  /\ recv.pc = "push"
  /\ PktQueue!PushClaim(recv.pkt_pool[recv.k])
  /\ recv' = [recv EXCEPT !.pc = "pushing"]
  /\ UNCHANGED <<free_pkt_queue_, content, arrived, handle, point_cloud_, driver, handled, clears>>

PutWrite ==
  /\ recv.pc = "pushing"
  /\ PktQueue!PushWrite
  /\ UNCHANGED <<free_pkt_queue_, content, arrived, recv, handle, point_cloud_,
                 driver, handled, clears>>

PutPublishKept ==   \* mutant: the pushed buffer stays in pkt_pool and is received into again
  /\ recv.pc = "pushing"
  /\ PktQueue!PushPublish
  /\ recv' = AfterPacket(recv)
  /\ clears' = [clears EXCEPT !.since = @ + 1]
  /\ UNCHANGED <<free_pkt_queue_, content, arrived, handle, point_cloud_, driver, handled>>

PutPublish ==
  /\ recv.pc = "pushing"
  /\ PktQueue!PushPublish
  /\ recv' = AfterPacket([recv EXCEPT !.pkt_pool[recv.k] = NoBuffer])
  /\ clears' = [clears EXCEPT !.since = @ + 1]
  /\ UNCHANGED <<free_pkt_queue_, content, arrived, handle, point_cloud_, driver, handled>>

(* ... and when the queue is full: the packet is dropped and the queue     *)
(* cleared.  The history notes whether a popBatch() was under way.         *)
PutOverflow ==
  /\ recv.pc = "push"
  /\ PktQueue!PushRefused
  /\ recv' = [recv EXCEPT !.pc = "clear"]
  /\ UNCHANGED <<free_pkt_queue_, content, arrived, handle, point_cloud_, driver, handled, clears>>

Popping == consumer.pc # "idle"

PutClearFirst ==
  /\ recv.pc = "clear"
  /\ \E first \in {"head", "tail"} : PktQueue!ClearFirst(first)
  /\ recv' = [recv EXCEPT !.pc = "clearing"]
  /\ clears' = [clears EXCEPT !.overlap = @ \/ Popping]
  /\ UNCHANGED <<free_pkt_queue_, content, arrived, handle, point_cloud_, driver, handled>>

PutClearSecond ==
  /\ recv.pc = "clearing"
  /\ PktQueue!ClearSecond
  /\ recv' = AfterPacket([recv EXCEPT !.pkt_pool[recv.k] = NoBuffer])
  /\ clears' = [count |-> clears.count + 1, since |-> 0, overlap |-> clears.overlap \/ Popping]
  /\ UNCHANGED <<free_pkt_queue_, content, arrived, handle, point_cloud_, driver, handled>>
-----------------------------------------------------------------------------
(* handle_thread_: the loop of processPacket().                            *)
HandleTop ==
  /\ handle.pc = "top"
  /\ handle' = [pc |-> IF driver.to_exit_handle_ THEN "none" ELSE "wait", i |-> 1]
  /\ UNCHANGED <<queueVars, free_pkt_queue_, content, arrived, recv, point_cloud_,
                 driver, handled, clears>>

(* popBatch() gives up after 500 ms; pkt_batch is empty.                   *)
PopTimeout ==
  /\ handle.pc = "wait"
  /\ head_ = tail_
  /\ handle' = [handle EXCEPT !.pc = "top"]
  /\ UNCHANGED <<queueVars, free_pkt_queue_, content, arrived, recv, point_cloud_,
                 driver, handled, clears>>

PopBegin ==
  /\ handle.pc = "wait"
  /\ PktQueue!BatchTest
  /\ handle' = [handle EXCEPT !.pc = "pop"]
  /\ clears' = [clears EXCEPT !.overlap = @ \/ recv.pc = "clearing"]
  /\ UNCHANGED <<free_pkt_queue_, content, arrived, recv, point_cloud_, driver, handled>>

PopGoOn ==
  /\ handle.pc = "pop"
  /\ PktQueue!BatchLoadHead \/ PktQueue!LoadTail \/ PktQueue!CopyEntry
  /\ UNCHANGED <<free_pkt_queue_, content, arrived, recv, handle, point_cloud_,
                 driver, handled, clears>>

PopEnd ==
  /\ handle.pc = "pop"
  /\ PktQueue!Commit
  /\ handle' = [handle EXCEPT !.pc = IF returned' = <<>> THEN "top" ELSE "decode"]
  /\ UNCHANGED <<free_pkt_queue_, content, arrived, recv, point_cloud_, driver, handled, clears>>

(* internalProcessPacket(): the decoder may find that the packet opens a   *)
(* new frame; splitFrame() then hands the old cloud over and the points go *)
(* to a fresh one.  An empty shared_ptr is dereferenced: the process dies. *)
Decode ==
  /\ handle.pc = "decode"
  /\ LET pkt == returned[handle.i]
     IN  \/ /\ pkt = NoBuffer
            /\ handle' = [handle EXCEPT !.pc = "crashed"]
            /\ UNCHANGED <<point_cloud_, handled>>
         \/ /\ pkt # NoBuffer
            /\ \E split \in BOOLEAN :
                 point_cloud_' = (IF split THEN {} ELSE point_cloud_) \cup {content[pkt]}
            /\ handled' = Append(handled, content[pkt])
            /\ handle' = [handle EXCEPT !.pc = "release"]
  /\ UNCHANGED <<queueVars, free_pkt_queue_, content, arrived, recv, driver, clears>>

(* The buffer goes back; free_pkt_queue_.push() may find the queue full,   *)
(* which frees the buffer.                                                 *)
ReleaseUnbounded ==   \* mutant: free_pkt_queue_ takes a buffer more than it holds
  /\ handle.pc = "release"
  /\ free_pkt_queue_' = Append(free_pkt_queue_, returned[handle.i])
  /\ handle' = IF handle.i = Len(returned) THEN [pc |-> "top", i |-> 1]
                                           ELSE [pc |-> "decode", i |-> handle.i + 1]
  /\ UNCHANGED <<queueVars, content, arrived, recv, point_cloud_, driver, handled, clears>>

ReleaseBatch ==   \* mutant: only the first packet of a batch is decoded
  /\ handle.pc = "release"
  /\ free_pkt_queue_' = IF Len(free_pkt_queue_) < Capacity - 1
                        THEN Append(free_pkt_queue_, returned[handle.i]) ELSE free_pkt_queue_
  /\ handle' = [pc |-> "top", i |-> 1]
  /\ UNCHANGED <<queueVars, content, arrived, recv, point_cloud_, driver, handled, clears>>

Release ==
  /\ handle.pc = "release"
  /\ free_pkt_queue_' = IF Len(free_pkt_queue_) < Capacity - 1
                        THEN Append(free_pkt_queue_, returned[handle.i]) ELSE free_pkt_queue_
  /\ handle' = IF handle.i = Len(returned) THEN [pc |-> "top", i |-> 1]
                                           ELSE [pc |-> "decode", i |-> handle.i + 1]
  /\ UNCHANGED <<queueVars, content, arrived, recv, point_cloud_, driver, handled, clears>>
-----------------------------------------------------------------------------
CallerStep == DriverInit \/ DriverStart \/ StopInput \/ StopHandle \/ StopClear
RecvWork ==
  \/ RecvExit \/ RecvNothing \/ SkipShort
  \/ \E k \in Pool : PacketGet(k)
  \/ \E n \in Pool : RecvDatagrams(n)
  \/ PutClaim \/ PutWrite \/ PutPublish \/ PutOverflow \/ PutClearFirst \/ PutClearSecond
RecvStep == RecvSelect \/ RecvError \/ RecvWork
HandleStep ==
  \/ HandleTop \/ PopTimeout \/ PopBegin \/ PopGoOn \/ PopEnd \/ Decode \/ Release

Next == CallerStep \/ RecvStep \/ HandleStep

(* Both threads are scheduled, and a stop() that was called goes on; the   *)
(* lidar owes no datagram, select() no error and the caller no call.       *)
Fairness == WF_vars(RecvWork) /\ WF_vars(HandleStep) /\ WF_vars(StopHandle) /\ WF_vars(StopClear)

Spec == Init /\ [][Next]_vars
FairSpec == Spec /\ Fairness
-----------------------------------------------------------------------------
TypeOK ==
  /\ PktQueue!TypeOK
  /\ free_pkt_queue_ \in Seq(Buffer) /\ Len(free_pkt_queue_) < Capacity
  /\ content \in [Buffer -> 0 .. MaxPacket]
  /\ arrived \in 0 .. MaxPacket
  /\ recv \in [pc : {"none", "select", "refill", "push", "pushing", "clear", "clearing"},
               pkt_pool : [Pool -> Buffer \cup {NoBuffer}], k : Pool, n : 0 .. VLEN]
  /\ handle \in [pc : {"none", "top", "wait", "pop", "decode", "release", "crashed"}, i : Nat \ {0}]
  /\ point_cloud_ \subseteq 0 .. MaxPacket
  /\ driver \in [pc : {"idle", "joinRecv", "joinHandle"}, init_flag_ : BOOLEAN,
                 start_flag_ : BOOLEAN, to_exit_recv_ : BOOLEAN, to_exit_handle_ : BOOLEAN,
                 session : 0 .. MaxSession]
  /\ handled \in Seq(0 .. MaxPacket)
  /\ clears \in [count : Nat, since : Nat, overlap : BOOLEAN]

(* A clear() that no popBatch() met, which includes none at all.           *)
Quiet == ~clears.overlap

(* Packets are decoded in the order of their arrival and none twice, over  *)
(* ring wrap-around, recycling, overflow and restart.                      *)
HandledInOrder ==
  Quiet => \A i, j \in DOMAIN handled : i < j => handled[i] < handled[j]

Unhandled == IF handle.pc \in {"decode", "release"}
             THEN SubSeq(returned, handle.i, Len(returned)) ELSE <<>>
(* A buffer has one owner: the receiving thread, the batch being decoded,  *)
(* the packet queue or the free queue.  So no datagram is received into *)
(* a buffer that is being, or has still to be, decoded.  Only places of    *)
(* pkt_pool may be empty.                                                  *)
BufferExclusive ==
  Quiet /\ recv.pc # "clearing" =>
    LET owned == recv.pkt_pool \o Unhandled \o PktQueue!Contents \o free_pkt_queue_
    IN  \A i, j \in DOMAIN owned :
          i < j /\ owned[i] = owned[j] => owned[i] = NoBuffer /\ j <= VLEN

(* Every packet that was queued is decoded, unless the driver is stopped   *)
(* or the queue cleared first.                                             *)
Queued(p) == \E b \in Range(PktQueue!Contents) \ {NoBuffer} : content[b] = p
QueuedIsHandled ==
  \A p \in 1 .. MaxPacket :
    Queued(p) ~> (p \in Range(handled) \/ handle.pc = "none" \/ clears.count > 0)

(* stop() returns: both threads see their flag, whatever they were doing.  *)
StopReturns == (driver.pc # "idle") ~> (driver.pc = "idle" \/ handle.pc = "crashed")

(* What doc/intro/06_error_code_intro.md says of an overflow: "rs_driver   *)
(* will clear it".  After a clear() the queue holds only what was pushed   *)
(* since.                                                                  *)
ClearEmpties ==
  clears.count > 0 /\ recv.pc # "clearing" => PktQueue!Size <= clears.since
=============================================================================
