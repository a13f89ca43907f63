------------------------------ MODULE Decoder ------------------------------
(***************************************************************************)
(* rs_driver's decoders (driver/decoder): how the packets that reach       *)
(* handle_thread_ become point clouds of one frame each.  A mechanical     *)
(* lidar (DecoderMech, RSBP) fires blocks of points all around, and a      *)
(* frame is a turn; a MEMS lidar (RSM1, RSM2) numbers the packets of a     *)
(* frame from 1.  Packets may be lost, and those of a MEMS lidar overtake  *)
(* each other.                                                             *)
(*                                                                         *)
(* A block, or a packet of a MEMS lidar, is the time at which it was sent, *)
(* counted from a start of frame; its azimuth or number follows from that. *)
(* A cloud is its size, the time of its first points and the frames it has *)
(* points of.                                                              *)
(***************************************************************************)
EXTENDS Integers, Sequences

CONSTANTS
  Round,             \* azimuths, 36000 in the code
  BLOCKS_PER_PKT,
  split_angle_,
  SplitBlks,         \* blocks per frame that a DIFOP packet may lead to
  RANGE,             \* 10 in the code
  FrameLen,          \* packets in a frame of a MEMS lidar
  CLOUD_POINT_MAX,   \* in blocks or packets
  MaxLost,           \* bound: packets lost in a row
  MaxLate,           \* bound: places by which a packet is overtaken
  LastTime           \* bound: the last packet

ASSUME DecoderAssumption ==
  /\ Round \in Nat \ {0} /\ split_angle_ \in 0 .. Round - 1
  /\ BLOCKS_PER_PKT \in Nat \ {0} /\ BLOCKS_PER_PKT * (MaxLost + 1) < Round
  /\ SplitBlks \subseteq Nat \ {0} /\ SplitBlks # {}
  /\ CLOUD_POINT_MAX \in Nat /\ LastTime \in Nat
  /\ RANGE \in Nat /\ FrameLen \in Nat /\ FrameLen > 3 * RANGE
  /\ MaxLate \in Nat /\ MaxLost \in Nat /\ MaxLost + MaxLate < RANGE

(* A frame of a MEMS lidar fits into a cloud.                              *)
ASSUME FrameFits == FrameLen + MaxLate <= CLOUD_POINT_MAX

VARIABLES
  lidar,             \* "RSBP" by angle, "byNum", or the MEMS lidars "RSM1", "RSM2"
  wait_for_difop, angles_ready_,
  split_blks_per_frame_,
  strategy,          \* prev_angle_, blks_; prev_seq_, max_seq_, looped_
  cloud,             \* point_cloud_
  first_point_ts_,   \* NoTime before the first split
  put,               \* the clouds handed on while the last packet was decoded
  newest, recent,    \* the last packet of those received, those received around it
  over,              \* history: the last frame handed on before that packet
  rough              \* history: what the strategy cannot bear has happened

decoded == <<strategy, cloud, first_point_ts_, put>>
decoderVars == <<lidar, wait_for_difop, angles_ready_, split_blks_per_frame_, decoded,
                 newest, recent, over, rough>>

Mems == {"RSM1", "RSM2"}
NoTime == -1
NoPoints == [size |-> 0, first |-> NoTime, frames |-> {}]

(* A MEMS lidar needs no calibration; a mechanical one may have it from a   *)
(* file, and then does not wait for it.  Decoding starts within a frame.    *)
DecoderInit ==
  /\ lidar \in {"RSBP", "byNum"} \cup Mems
  /\ wait_for_difop \in BOOLEAN /\ angles_ready_ \in BOOLEAN
  /\ lidar \in Mems => angles_ready_
  /\ angles_ready_ /\ lidar \notin Mems => ~wait_for_difop
  /\ split_blks_per_frame_ \in SplitBlks
  /\ strategy = [prev_angle_ |-> split_angle_, blks_ |-> 0,
                 prev_seq_ |-> 0, max_seq_ |-> 0, looped_ |-> FALSE]
  /\ cloud = NoPoints /\ first_point_ts_ = NoTime /\ put = <<>>
  /\ newest \in -1 .. FrameLen - 2 /\ recent = {}
  /\ over = -1 /\ rough = FALSE

-----------------------------------------------------------------------------
(* Split strategies: the state after a block or packet, and whether it is   *)
(* the first of a new frame.                                                *)

ByAngle(s, angle) ==
  LET prev == IF angle < s.prev_angle_ THEN s.prev_angle_ - Round ELSE s.prev_angle_
  IN  [split |-> prev < split_angle_ /\ split_angle_ <= angle,
       next |-> [s EXCEPT !.prev_angle_ = angle]]

ByNum(s) ==
  LET full == s.blks_ + 1 >= split_blks_per_frame_
  IN  [split |-> full, next |-> [s EXCEPT !.blks_ = IF full THEN 0 ELSE @ + 1]]

(* Mutant: there is no safe range below the previous packet. *)
SafeMinNone(prev) == prev

SafeMin(prev) == IF prev > RANGE THEN prev - RANGE ELSE 0

(* SplitStrategyBySeq.  safe_seq_min_ and safe_seq_max_ follow prev_seq_;    *)
(* 16 bits hold every number and safe_seq_max_.                             *)
BySeq(s, seq) ==
  LET prev == s.prev_seq_
      rewind == seq < SafeMin(prev)
      taken == rewind \/ seq \in prev .. prev + RANGE \/ prev = 0
  IN  [split |-> rewind,
       next |-> [s EXCEPT !.prev_seq_ = IF taken THEN seq ELSE @,
                          !.max_seq_ = IF seq > @ THEN seq ELSE @,
                          !.looped_ = @ \/ rewind]]
MaxSeq(s) == IF s.looped_ THEN s.max_seq_ ELSE 0

-----------------------------------------------------------------------------
(* Decoding.  d is the decoder's state while it decodes a packet.           *)

(* The frame a block or packet belongs to.                                  *)
Frame(time) == IF lidar \in Mems THEN time \div FrameLen
               ELSE (time + Round - split_angle_) \div Round
Added(c, time) == [size |-> c.size + 1, first |-> IF c = NoPoints THEN time ELSE c.first,
                   frames |-> c.frames \cup {Frame(time)}]
Latest(c) == CHOOSE f \in c.frames : \A g \in c.frames : g <= f

(* splitFrame(): a cloud without points is kept, silently.                  *)
SplitFrame(d) ==
  IF d.cloud = NoPoints THEN d
  ELSE [d EXCEPT !.put = Append(@, [cloud |-> d.cloud, ts |-> d.first]), !.cloud = NoPoints]

(* The frame is split first, the points come after.                         *)
BeginFrame(d, n, time) ==
  LET s == [d EXCEPT !.strategy = n.next]
      f == [SplitFrame(s) EXCEPT !.first = time]
  IN  [(IF n.split THEN f ELSE s) EXCEPT !.cloud = Added(@, time)]

Block(d, time) ==
  BeginFrame(d, IF lidar = "byNum" THEN ByNum(d.strategy)
                ELSE ByAngle(d.strategy, time % Round), time)

Blocks(d, times) ==
  LET after[k \in 0 .. Len(times)] ==
        IF k = 0 THEN d ELSE Block(after[k - 1], times[k])
  IN  after[Len(times)]

Number(time) == (time % FrameLen) + 1

(* An RSM1 also splits after the packet with the highest number so far.     *)
MemsPacket(d, time) ==
  LET seq == Number(time)
      e == BeginFrame(d, BySeq(d.strategy, seq), time)
  IN  IF lidar = "RSM1" /\ MaxSeq(e.strategy) = seq THEN SplitFrame(e) ELSE e

(* processMsopPkt(): a cloud that has grown too large is emptied before     *)
(* anything is asked of the packet.                                         *)
Overflown == cloud.size > CLOUD_POINT_MAX

Before == [strategy |-> strategy, cloud |-> IF Overflown THEN NoPoints ELSE cloud,
           first |-> first_point_ts_, put |-> <<>>]
After(d) ==
  /\ strategy' = d.strategy /\ cloud' = d.cloud /\ first_point_ts_' = d.first
  /\ put' = d.put /\ over' = IF put = <<>> THEN over ELSE Latest(put[Len(put)].cloud)

(* Wrong length or identification, or no DIFOP packet yet.                  *)
Refuse ==
  /\ After(Before)
  /\ rough' = (rough \/ Overflown)
  /\ UNCHANGED <<lidar, wait_for_difop, angles_ready_, split_blks_per_frame_, newest, recent>>

(* Rough is a gap with both the split angle and the end of the turn in it:  *)
(* ByAngle takes the angle before it back by a turn, and sees no split.     *)
Unseen(start) == /\ lidar = "RSBP" /\ cloud # NoPoints
                 /\ start % Round < newest % Round /\ newest % Round < split_angle_

(* A packet of a mechanical lidar, sent after the last one received; in     *)
(* dual mode two blocks have the same azimuth, and decoding ends at a block *)
(* with the wrong identification.                                           *)
Msop(start, dual, good) ==
  LET times == [k \in 1 .. good |-> start + (IF dual THEN (k - 1) \div 2 ELSE k - 1)]
  IN  /\ lidar \notin Mems
      /\ start - newest \in 1 .. BLOCKS_PER_PKT * MaxLost + 1
      /\ wait_for_difop => angles_ready_
      /\ After(Blocks(Before, times))
      /\ newest' = times[good]
      /\ rough' = (rough \/ Overflown \/ Unseen(start))
      /\ UNCHANGED <<lidar, wait_for_difop, angles_ready_, split_blks_per_frame_, recent>>

(* Rough is a packet that comes after the end of its frame, which an RSM1   *)
(* takes to be the highest number it knows, and one with a higher number.   *)
Last(time) ==
  LET known == IF lidar = "RSM1" /\ strategy.looped_ THEN strategy.max_seq_ ELSE FrameLen
  IN  (time \div FrameLen) * FrameLen + known - 1
MemsMsop(time) ==
  /\ lidar \in Mems
  /\ time - newest \in -MaxLate .. MaxLost + 1 /\ time \notin recent
  /\ After(MemsPacket(Before, time))
  /\ newest' = IF time > newest THEN time ELSE newest
  /\ recent' = {t \in recent \cup {time} : t >= newest' - MaxLate}
  /\ rough' = (rough \/ Overflown \/ newest >= Last(time) \/ time > Last(time))
  /\ UNCHANGED <<lidar, wait_for_difop, angles_ready_, split_blks_per_frame_>>

(* decodeDifopPkt(): speed and echo mode lead to the blocks of a frame, at  *)
(* any time; calibration data may be invalid.                               *)
Difop(blks, valid) ==
  /\ lidar \notin Mems
  /\ split_blks_per_frame_' = blks
  /\ angles_ready_' = (angles_ready_ \/ valid)
  /\ UNCHANGED <<lidar, wait_for_difop, decoded, newest, recent, over, rough>>

DecoderNext ==
  \/ Refuse
  \/ \E start \in 0 .. LastTime, dual \in BOOLEAN, good \in 1 .. BLOCKS_PER_PKT :
       Msop(start, dual, good)
  \/ \E time \in 0 .. LastTime : MemsMsop(time)
  \/ \E blks \in SplitBlks, valid \in BOOLEAN : Difop(blks, valid)

DecoderSpec == DecoderInit /\ [][DecoderNext]_decoderVars

-----------------------------------------------------------------------------
DecoderTypeOK ==
  /\ lidar \in {"RSBP", "byNum"} \cup Mems
  /\ {wait_for_difop, angles_ready_, rough} \subseteq BOOLEAN
  /\ split_blks_per_frame_ \in SplitBlks
  /\ strategy \in [prev_angle_ : 0 .. Round - 1, blks_ : Nat, prev_seq_ : 0 .. FrameLen,
                   max_seq_ : 0 .. FrameLen, looped_ : BOOLEAN]
  /\ first_point_ts_ \in NoTime .. LastTime + BLOCKS_PER_PKT
  /\ cloud.size <= CLOUD_POINT_MAX + BLOCKS_PER_PKT

(* The clouds handed on by the last packet and the one begun.               *)
Clouds == LET handed == [i \in DOMAIN put |-> put[i].cloud]
          IN  IF cloud = NoPoints THEN handed ELSE Append(handed, cloud)
Whole == \A i \in DOMAIN Clouds : \A f, g \in Clouds[i].frames : f = g
NotCut == \A i \in DOMAIN Clouds :
            Latest(Clouds[i]) > IF i = 1 THEN over ELSE Latest(Clouds[i - 1])

(* Clouds are frames: a cloud holds points of one turn, or one frame of a   *)
(* MEMS lidar, and no frame is spread over two clouds, although packets are *)
(* lost and arrive in another order.  What is late past the end of its      *)
(* frame goes to the next one, and does not cut it; by number of blocks, no *)
(* cloud is larger than a DIFOP packet has allowed.  With ts_first_point a  *)
(* cloud is stamped with the time of its first points, except the first     *)
(* cloud, which starts before any split.                                    *)
CloudsAreFrames ==
  /\ lidar # "byNum" /\ ~rough => Whole /\ NotCut
  /\ lidar \in {"RSBP", "RSM2"} => NotCut
  /\ lidar = "byNum" => \A i \in DOMAIN Clouds : \E n \in SplitBlks : Clouds[i].size <= n
  /\ ~rough => \A i \in DOMAIN put : put[i].ts \in {put[i].cloud.first, NoTime}

(* 19_about_splitting_frame.md: "Slight packet loss and out of order is     *)
(* tolerated."                                                              *)
SlightLossTolerated == lidar \in Mems => NotCut

=============================================================================
