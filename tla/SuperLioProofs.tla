--------------------------- MODULE SuperLioProofs ---------------------------
(***************************************************************************)
(* Proofs about SuperLio, for stamps, scans, buffers and clock resets of   *)
(* any number.  First the buffers: the scan a waiting group remembers is   *)
(* the head of lidar_buffer_, and no sample is left behind while the       *)
(* clocks run on.  Then the states and the filter, whose clocks come from  *)
(* a recursion over the samples of a scan: their types, that the filter is *)
(* never past the end of the last scan, and with it that the undistortion  *)
(* finds its states.                                                       *)
(***************************************************************************)
EXTENDS SuperLio, FiniteSetTheorems, WellFoundedInduction, TLAPS

BufferTypes ==
  /\ imu_buffer_ \in Seq(Time)
  /\ lidar_buffer_ \in Seq(Scan)
  /\ last_timestamp_imu_ \in Time \cup {-1}
  /\ last_timestamp_lidar_ \in Time \cup {-1}
  /\ measures_ \in [lidar : Scan \cup {NoScan}, imu : Seq(Time)]
  /\ resets \in [{"imu", "lidar"} -> Nat]

(* The samples that wait are in order, and lie between the last scan and   *)
(* the last sample received.                                               *)
Waiting ==
  /\ last_timestamp_lidar_ <= last_timestamp_imu_
  /\ \A i \in DOMAIN imu_buffer_ : /\ last_timestamp_lidar_ <= imu_buffer_[i]
                                   /\ imu_buffer_[i] <= last_timestamp_imu_
  /\ \A i, j \in DOMAIN imu_buffer_ : i < j => imu_buffer_[i] < imu_buffer_[j]

BufferInv ==
  /\ BufferTypes
  /\ PushedIsHead
  /\ Steady => Waiting

-----------------------------------------------------------------------------
(* Generic facts of the sequences used below.                              *)
LEMMA TimeIsNat == Time \subseteq Nat /\ \A s \in Scan : s.start \in Time /\ s.end \in Time
BY SuperLioAssumption DEF Time, Scan

(* An element of a sequence.                                               *)
LEMMA ElementOfSeq ==
  ASSUME NEW S, NEW q \in Seq(S), NEW i \in DOMAIN q
  PROVE  q[i] \in S
OBVIOUS

(* A sample that waits is a number.                                        *)
LEMMA SampleIsNat ==
  ASSUME imu_buffer_ \in Seq(Time), NEW i \in DOMAIN imu_buffer_
  PROVE  imu_buffer_[i] \in Nat
<1>1. imu_buffer_[i] \in Time BY ElementOfSeq
<1> QED BY <1>1, TimeIsNat

(* So are the last stamps.                                                 *)
LEMMA StampsAreInt ==
  ASSUME BufferTypes
  PROVE  last_timestamp_imu_ \in Int /\ last_timestamp_lidar_ \in Int
<1>1. last_timestamp_imu_ \in Time \/ last_timestamp_imu_ = -1 BY DEF BufferTypes
<1>2. last_timestamp_lidar_ \in Time \/ last_timestamp_lidar_ = -1 BY DEF BufferTypes
<1>3. Time \subseteq Int BY TimeIsNat
<1> HIDE DEF Time
<1>4. last_timestamp_imu_ \in Int
  <2>1. CASE last_timestamp_imu_ \in Time BY <2>1, <1>3
  <2>2. CASE last_timestamp_imu_ = -1
    <3>1. -1 \in Int OBVIOUS
    <3> QED BY <2>2, <3>1
  <2> QED BY <1>1, <2>1, <2>2
<1>5. last_timestamp_lidar_ \in Int
  <2>1. CASE last_timestamp_lidar_ \in Time BY <2>1, <1>3
  <2>2. CASE last_timestamp_lidar_ = -1
    <3>1. -1 \in Int OBVIOUS
    <3> QED BY <2>2, <3>1
  <2> QED BY <1>2, <2>1, <2>2
<1> QED BY <1>4, <1>5

(* Head and tail of a sequence.                                            *)
LEMMA HeadAndTail ==
  ASSUME NEW S, NEW q \in Seq(S), q # <<>>
  PROVE  Head(q) \in S /\ Tail(q) \in Seq(S)
OBVIOUS

(* What is appended leaves the head.                                       *)
LEMMA HeadOfAppended ==
  ASSUME NEW S, NEW q \in Seq(S), NEW x \in S
  PROVE  /\ Append(q, x) \in Seq(S) /\ Append(q, x) # <<>>
         /\ q # <<>> => Head(Append(q, x)) = Head(q)
<1>1. Append(q, x) \in Seq(S) /\ Len(Append(q, x)) = Len(q) + 1 /\ Len(q) \in Nat OBVIOUS
<1>2. Append(q, x) # <<>> BY <1>1
<1>3. ASSUME q # <<>> PROVE Head(Append(q, x)) = Head(q)
  <2>1. 1 \in 1 .. Len(q) BY <1>3
  <2>2. Append(q, x)[1] = q[1] BY <2>1
  <2> QED BY <2>2, <1>1, <1>2, <1>3
<1> QED BY <1>1, <1>2, <1>3

(* A sequence with an element appended, one by one.                        *)
LEMMA Appended ==
  ASSUME NEW S, NEW q \in Seq(S), NEW x \in S
  PROVE  /\ DOMAIN Append(q, x) = 1 .. Len(q) + 1
         /\ DOMAIN q = 1 .. Len(q) /\ Len(q) \in Nat
         /\ \A i \in 1 .. Len(q) : Append(q, x)[i] = q[i]
         /\ Append(q, x)[Len(q) + 1] = x
OBVIOUS

(* A sequence cut in two.                                                  *)
LEMMA Part ==
  ASSUME NEW S, NEW q \in Seq(S), NEW n \in 0 .. Len(q)
  PROVE  /\ SubSeq(q, 1, n) \in Seq(S)
         /\ SubSeq(q, n + 1, Len(q)) \in Seq(S)
         /\ DOMAIN SubSeq(q, n + 1, Len(q)) = 1 .. Len(q) - n
         /\ DOMAIN q = 1 .. Len(q) /\ Len(q) \in Nat
         /\ \A i \in 1 .. Len(q) - n : SubSeq(q, n + 1, Len(q))[i] = q[n + i]
OBVIOUS

-----------------------------------------------------------------------------
(* A set of numbers 1, 2, ... without gaps has a last one.  Counting them  *)
(* gives it, without an induction.                                         *)
LEMMA LastOfPrefix ==
  ASSUME NEW n \in Nat, NEW B \in SUBSET (1 .. n), B # {},
         \A i \in B : 1 .. i \subseteq B
  PROVE  \E k \in B : \A j \in B : j <= k
<1> DEFINE k == Cardinality(B)
<1>1. /\ IsFiniteSet(1 .. n) /\ \A m \in Nat : IsFiniteSet(1 .. m) /\ Cardinality(1 .. m) = m
  <2>1. ASSUME NEW m \in Nat PROVE IsFiniteSet(1 .. m) /\ Cardinality(1 .. m) = m
    <3>1. 1 \in Int /\ m \in Int OBVIOUS
    <3>2. IsFiniteSet(1 .. m) /\ Cardinality(1 .. m) = IF 1 > m THEN 0 ELSE m - 1 + 1
      BY <3>1, FS_Interval
    <3> QED BY <3>2
  <2> QED BY <2>1
<1>2. IsFiniteSet(B) BY <1>1, FS_Subset
<1>3. k \in Nat BY <1>2, FS_CardinalityType
<1>4. ASSUME NEW j \in B PROVE j <= k
  <2>1. j \in Nat OBVIOUS
  <2>2. 1 .. j \in SUBSET B OBVIOUS
  <2>3. Cardinality(1 .. j) <= Cardinality(B) BY <1>2, <2>2, FS_Subset
  <2> QED BY <2>1, <2>3, <1>1
<1>5. k # 0 BY <1>2, FS_EmptySet
<1>6. k \in B
  <2> SUFFICES ASSUME k \notin B PROVE FALSE OBVIOUS
  <2>1. \A i \in B : i < k
    <3> SUFFICES ASSUME NEW i \in B PROVE i < k OBVIOUS
    <3>1. i <= k BY <1>4
    <3>2. i # k OBVIOUS
    <3>3. i \in Nat OBVIOUS
    <3> QED BY <3>1, <3>2, <3>3, <1>3
  <2>2. k - 1 \in Nat BY <1>3, <1>5
  <2>3. B \in SUBSET (1 .. k - 1) BY <2>1, <1>3
  <2>4. Cardinality(B) <= Cardinality(1 .. k - 1) BY <1>1, <2>2, <2>3, FS_Subset
  <2>5. Cardinality(1 .. k - 1) = k - 1 BY <1>1, <2>2
  <2> QED BY <2>4, <2>5, <1>3
<1> QED BY <1>4, <1>6

(* What sync_measure()'s loop leaves is not before the scan's end.         *)
LEMMA TakenSplits ==
  ASSUME imu_buffer_ \in Seq(Time), NEW end \in Time,
         \A i, j \in DOMAIN imu_buffer_ : i < j => imu_buffer_[i] < imu_buffer_[j]
  PROVE  \A i \in DOMAIN imu_buffer_ : i > Taken(end) => imu_buffer_[i] >= end
<1> DEFINE n == Len(imu_buffer_)
           before == {i \in 1 .. n : \A j \in 1 .. i : imu_buffer_[j] < end}
           count == IF before = {} THEN 0
                    ELSE CHOOSE i \in before : \A j \in before : j <= i
<1>1. n \in Nat /\ DOMAIN imu_buffer_ = 1 .. n /\ \A i \in 1 .. n : imu_buffer_[i] \in Nat
  <2>1. n \in Nat /\ DOMAIN imu_buffer_ = 1 .. n OBVIOUS
  <2> QED BY <2>1, SampleIsNat
<1>2. end \in Nat BY TimeIsNat
<1>3. /\ count \in 0 .. n
      /\ count # 0 => count \in before
      /\ \A j \in before : j <= count
  <2>1. CASE before = {} BY <2>1, <1>1
  <2>2. CASE before # {}
    <3>1. before \in SUBSET (1 .. n) OBVIOUS
    <3>2. \A i \in before : 1 .. i \subseteq before BY <1>1
    <3>3. \E k \in before : \A j \in before : j <= k BY <1>1, <2>2, <3>1, <3>2, LastOfPrefix
    <3>4. count \in before /\ \A j \in before : j <= count BY <2>2, <3>3
    <3>5. count \in 0 .. n BY <1>1, <3>1, <3>4
    <3> QED BY <3>4, <3>5
  <2> QED BY <2>1, <2>2
<1> HIDE DEF count
<1>4. ASSUME NEW i \in 1 .. n, i > count PROVE imu_buffer_[i] >= end
  <2>1. count + 1 \in 1 .. n BY <1>1, <1>3, <1>4
  <2>2. count + 1 \notin before BY <1>3
  <2>3. PICK j \in 1 .. count + 1 : ~(imu_buffer_[j] < end) BY <2>1, <2>2
  <2>4. j = count + 1
    <3>1. CASE count = 0 BY <3>1
    <3>2. CASE count # 0 BY <3>2, <1>3, <2>3
    <3> QED BY <3>1, <3>2
  <2>5. imu_buffer_[count + 1] >= end BY <2>1, <2>3, <2>4, <1>1, <1>2
  <2>6. CASE i = count + 1 BY <2>5, <2>6
  <2>7. CASE i # count + 1
    <3>1. count + 1 < i BY <2>7, <1>3, <1>4
    <3>2. imu_buffer_[count + 1] < imu_buffer_[i] BY <3>1, <2>1, <1>1
    <3> QED BY <3>2, <2>5, <2>1, <1>1, <1>2
  <2> QED BY <2>6, <2>7
<1>5. Taken(end) \in {count, count + 1} BY DEF Taken, count
<1> QED
  <2> SUFFICES ASSUME NEW i \in DOMAIN imu_buffer_, i > Taken(end) PROVE imu_buffer_[i] >= end
    OBVIOUS
  <2>1. i > count BY <1>1, <1>3, <1>5
  <2> QED BY <2>1, <1>1, <1>4

(* No sample taken for a scan is later than its end.                       *)
LEMMA TakenInTime ==
  ASSUME imu_buffer_ \in Seq(Time), NEW end \in Time
  PROVE  /\ Taken(end) \in 0 .. Len(imu_buffer_)
         /\ \A i \in 1 .. Taken(end) : imu_buffer_[i] <= end
<1> DEFINE n == Len(imu_buffer_)
           before == {i \in 1 .. n : \A j \in 1 .. i : imu_buffer_[j] < end}
           count == IF before = {} THEN 0
                    ELSE CHOOSE i \in before : \A j \in before : j <= i
<1>1. n \in Nat /\ end \in Nat /\ \A i \in 1 .. n : imu_buffer_[i] \in Nat
  <2>1. n \in Nat /\ DOMAIN imu_buffer_ = 1 .. n OBVIOUS
  <2> QED BY <2>1, SampleIsNat, TimeIsNat
<1>2. count \in 0 .. n /\ (count # 0 => count \in before)
  <2>1. CASE before = {} BY <2>1, <1>1
  <2>2. CASE before # {}
    <3>1. before \in SUBSET (1 .. n) OBVIOUS
    <3>2. \A i \in before : 1 .. i \subseteq before BY <1>1
    <3>3. \E k \in before : \A j \in before : j <= k BY <1>1, <2>2, <3>1, <3>2, LastOfPrefix
    <3>4. count \in before BY <2>2, <3>3
    <3> QED BY <1>1, <3>1, <3>4
  <2> QED BY <2>1, <2>2
<1>3. \A i \in 1 .. count : imu_buffer_[i] < end
  <2> HIDE DEF count
  <2> QED BY <1>1, <1>2
<1> HIDE DEF count
<1>4. Taken(end) = IF count \in 1 .. n - 1 /\ imu_buffer_[count + 1] = end
                   THEN count + 1 ELSE count
  BY DEF Taken, count
<1>5. CASE count \in 1 .. n - 1 /\ imu_buffer_[count + 1] = end
  <2>1. Taken(end) = count + 1 /\ count + 1 \in 0 .. n BY <1>1, <1>4, <1>5
  <2>2. ASSUME NEW i \in 1 .. count + 1 PROVE imu_buffer_[i] <= end
    <3>1. i \in 1 .. count \/ i = count + 1 BY <1>2
    <3>2. i \in 1 .. n BY <1>1, <1>5
    <3> QED BY <1>1, <1>3, <1>5, <3>1, <3>2
  <2> QED BY <2>1, <2>2
<1>6. CASE ~(count \in 1 .. n - 1 /\ imu_buffer_[count + 1] = end)
  <2>1. Taken(end) = count BY <1>4, <1>6
  <2>2. \A i \in 1 .. count : imu_buffer_[i] <= end
    <3>1. \A i \in 1 .. count : i \in 1 .. n BY <1>1, <1>2
    <3> QED BY <1>1, <1>3, <3>1
  <2> QED BY <1>2, <2>1, <2>2
<1> QED BY <1>5, <1>6

-----------------------------------------------------------------------------
(* The invariant.                                                          *)
LEMMA InitInv == Init => BufferInv
<1> SUFFICES ASSUME Init PROVE BufferInv OBVIOUS
<1>1. BufferTypes BY DEF Init, BufferTypes
<1>2. PushedIsHead BY DEF Init, PushedIsHead
<1>3. Waiting BY DEF Init, Waiting
<1> QED BY <1>1, <1>2, <1>3 DEF BufferInv

(* ImuSample: a later sample is appended, an earlier one means that the    *)
(* clock has started again.                                                *)
LEMMA ImuStep == BufferInv /\ ImuSample => BufferInv'
<1> SUFFICES ASSUME BufferInv, ImuSample PROVE BufferInv' OBVIOUS
<1> USE DEF BufferInv, BufferTypes
<1>1. PICK t \in Time : ImuHandler(t) BY DEF ImuSample
<1>2. BufferTypes'
  <2>1. imu_buffer_' \in Seq(Time) BY <1>1 DEF ImuHandler
  <2>2. resets' \in [{"imu", "lidar"} -> Nat] BY DEF ImuSample
  <2> QED BY <1>1, <2>1, <2>2 DEF ImuHandler
<1>3. PushedIsHead' BY <1>1 DEF ImuHandler, PushedIsHead
<1>4. ASSUME Steady' PROVE Waiting'
  <2>1. PICK u \in Time : last_timestamp_imu_ < u /\ ImuHandler(u) /\ UNCHANGED resets
    <3>1. CASE resets' = [resets EXCEPT !.imu = @ + 1]
      <4>1. resets'.imu = resets.imu + 1 /\ resets.imu \in Nat BY <3>1
      <4>2. resets'.imu = 0 BY <1>4 DEF Steady
      <4> QED BY <4>1, <4>2
    <3>2. CASE \E u \in Time : last_timestamp_imu_ < u /\ ImuHandler(u) /\ UNCHANGED resets
      BY <3>2
    <3> QED BY <3>1, <3>2 DEF ImuSample
  <2>2. Waiting BY <1>4, <2>1 DEF Steady
  <2>3. u \in Nat /\ last_timestamp_imu_ \in Int /\ last_timestamp_lidar_ \in Int BY TimeIsNat
  <2>4. /\ imu_buffer_' = Append(imu_buffer_, u)
        /\ last_timestamp_imu_' = u /\ last_timestamp_lidar_' = last_timestamp_lidar_
    BY <2>1, <2>3 DEF ImuHandler
  <2>5. /\ DOMAIN imu_buffer_' = 1 .. Len(imu_buffer_) + 1
        /\ DOMAIN imu_buffer_ = 1 .. Len(imu_buffer_) /\ Len(imu_buffer_) \in Nat
        /\ \A i \in 1 .. Len(imu_buffer_) : imu_buffer_'[i] = imu_buffer_[i]
        /\ imu_buffer_'[Len(imu_buffer_) + 1] = u
    BY <2>4, Appended
  <2>6. \A i \in 1 .. Len(imu_buffer_) : imu_buffer_[i] \in Nat
    <3>1. imu_buffer_ \in Seq(Time) OBVIOUS
    <3> QED BY <2>5, <3>1, SampleIsNat
  <2>7. last_timestamp_lidar_' <= last_timestamp_imu_' BY <2>1, <2>2, <2>3, <2>4 DEF Waiting
  <2>8. ASSUME NEW i \in DOMAIN imu_buffer_'
        PROVE  last_timestamp_lidar_' <= imu_buffer_'[i] /\ imu_buffer_'[i] <= last_timestamp_imu_'
    <3>1. CASE i \in 1 .. Len(imu_buffer_)
      <4>1. last_timestamp_lidar_ <= imu_buffer_[i] /\ imu_buffer_[i] <= last_timestamp_imu_
        BY <3>1, <2>2, <2>5 DEF Waiting
      <4>2. imu_buffer_'[i] = imu_buffer_[i] /\ imu_buffer_[i] \in Nat BY <3>1, <2>5, <2>6
      <4> QED BY <4>1, <4>2, <2>1, <2>3, <2>4
    <3>2. CASE i = Len(imu_buffer_) + 1 BY <3>2, <2>3, <2>4, <2>5, <2>7
    <3> QED BY <2>5, <3>1, <3>2
  <2>9. ASSUME NEW i \in DOMAIN imu_buffer_', NEW j \in DOMAIN imu_buffer_', i < j
        PROVE  imu_buffer_'[i] < imu_buffer_'[j]
    <3>1. i \in 1 .. Len(imu_buffer_) /\ imu_buffer_'[i] = imu_buffer_[i] BY <2>5, <2>9
    <3>2. CASE j \in 1 .. Len(imu_buffer_)
      <4>1. imu_buffer_'[j] = imu_buffer_[j] BY <3>2, <2>5
      <4> QED BY <3>1, <3>2, <4>1, <2>2, <2>5, <2>9 DEF Waiting
    <3>3. CASE j = Len(imu_buffer_) + 1
      <4>1. imu_buffer_[i] <= last_timestamp_imu_ BY <3>1, <2>2, <2>5 DEF Waiting
      <4>2. imu_buffer_[i] \in Nat BY <3>1, <2>6
      <4> QED BY <3>1, <3>3, <4>1, <4>2, <2>1, <2>3, <2>5
    <3> QED BY <2>5, <3>2, <3>3
  <2> QED BY <2>7, <2>8, <2>9 DEF Waiting
<1> QED BY <1>2, <1>3, <1>4

(* LidarScan: the head stays the head.                                     *)
LEMMA LidarStep == BufferInv /\ LidarScan => BufferInv'
<1> SUFFICES ASSUME BufferInv, LidarScan PROVE BufferInv' OBVIOUS
<1> USE DEF BufferInv, BufferTypes
<1>1. PICK s \in Scan : LidarHandler(s) BY DEF LidarScan
<1>2. /\ lidar_buffer_' \in Seq(Scan) /\ lidar_buffer_' # <<>>
      /\ lidar_buffer_ # <<>> => Head(lidar_buffer_') = Head(lidar_buffer_)
  BY <1>1, HeadOfAppended DEF LidarHandler
<1>3. UNCHANGED <<imu_buffer_, last_timestamp_imu_, last_timestamp_lidar_, lidar_pushed_,
                  measures_>>
  BY <1>1 DEF LidarHandler
<1>4. resets' \in [{"imu", "lidar"} -> Nat] BY DEF LidarScan
<1>5. PushedIsHead' BY <1>2, <1>3 DEF PushedIsHead
<1>6. ASSUME Steady' PROVE Waiting'
  <2>1. UNCHANGED resets
    <3>1. CASE resets' = [resets EXCEPT !.lidar = @ + 1]
      <4>1. resets'.lidar = resets.lidar + 1 /\ resets.lidar \in Nat BY <3>1
      <4>2. resets'.lidar = 0 BY <1>6 DEF Steady
      <4> QED BY <4>1, <4>2
    <3> QED BY <3>1 DEF LidarScan
  <2>2. Waiting BY <1>6, <2>1 DEF Steady
  <2> QED BY <2>2, <1>3 DEF Waiting
<1> QED BY <1>2, <1>3, <1>4, <1>5, <1>6

(* The group's scan is the one at the head, remembered or not.             *)
LEMMA MeasuredIsHead ==
  ASSUME BufferInv, lidar_buffer_ # <<>>
  PROVE  /\ Measured = Head(lidar_buffer_) /\ Measured \in Scan
         /\ Measured.end \in Time /\ Tail(lidar_buffer_) \in Seq(Scan)
<1>1. Head(lidar_buffer_) \in Scan /\ Tail(lidar_buffer_) \in Seq(Scan)
  BY HeadAndTail DEF BufferInv, BufferTypes
<1>2. Measured = Head(lidar_buffer_) BY DEF Measured, BufferInv, PushedIsHead
<1> QED BY <1>1, <1>2, TimeIsNat

(* process() takes the head off both buffers, or leaves them.              *)
LEMMA ProcessStep == BufferInv /\ Process => BufferInv'
<1> SUFFICES ASSUME BufferInv, Process PROVE BufferInv' OBVIOUS
<1>1. /\ Measured = Head(lidar_buffer_) /\ Measured \in Scan
      /\ Measured.end \in Time /\ Tail(lidar_buffer_) \in Seq(Scan)
  BY MeasuredIsHead DEF Process
<1>2. UNCHANGED resets /\ (Steady' <=> Steady) BY DEF Process, Steady
<1> USE DEF BufferInv, BufferTypes
<1>3. CASE DropLate
  <2>1. BufferTypes' BY <1>1, <1>2, <1>3 DEF DropLate
  <2>2. PushedIsHead' BY <1>3 DEF DropLate, PushedIsHead
  <2>3. Steady' => Waiting' BY <1>2, <1>3 DEF DropLate, Waiting
  <2> QED BY <2>1, <2>2, <2>3
<1>4. CASE Wait
  <2>1. BufferTypes' BY <1>1, <1>2, <1>4 DEF Wait
  <2>2. measures_'.lidar = Measured /\ lidar_buffer_' = lidar_buffer_ BY <1>4 DEF Wait
  <2>3. PushedIsHead' BY <1>1, <2>2 DEF PushedIsHead, Process
  <2>4. Steady' => Waiting' BY <1>2, <1>4 DEF Wait, Waiting
  <2> QED BY <2>1, <2>3, <2>4
<1>5. CASE Sync
  <2> DEFINE end == Measured.end
             n == Taken(end)
  <2>1. n \in 0 .. Len(imu_buffer_) BY <1>1, TakenInTime
  <2>2. /\ SubSeq(imu_buffer_, 1, n) \in Seq(Time)
        /\ SubSeq(imu_buffer_, n + 1, Len(imu_buffer_)) \in Seq(Time)
        /\ DOMAIN SubSeq(imu_buffer_, n + 1, Len(imu_buffer_)) = 1 .. Len(imu_buffer_) - n
        /\ DOMAIN imu_buffer_ = 1 .. Len(imu_buffer_) /\ Len(imu_buffer_) \in Nat
        /\ \A i \in 1 .. Len(imu_buffer_) - n :
             SubSeq(imu_buffer_, n + 1, Len(imu_buffer_))[i] = imu_buffer_[n + i]
    BY <2>1, Part
  <2>3. /\ measures_' = [lidar |-> Measured, imu |-> SubSeq(imu_buffer_, 1, n)]
        /\ imu_buffer_' = SubSeq(imu_buffer_, n + 1, Len(imu_buffer_))
        /\ last_timestamp_lidar_' = end /\ ~(last_timestamp_imu_ < end)
        /\ lidar_buffer_' = Tail(lidar_buffer_)
        /\ lidar_pushed_' = FALSE /\ last_timestamp_imu_' = last_timestamp_imu_
    BY <1>5 DEF Sync
  <2>4. BufferTypes' BY <1>1, <1>2, <2>2, <2>3
  <2>5. PushedIsHead' BY <2>3 DEF PushedIsHead
  <2>6. ASSUME Steady' PROVE Waiting'
    <3>1. Waiting BY <1>2, <2>6
    <3>2. \A i \in DOMAIN imu_buffer_ : i > n => imu_buffer_[i] >= end
      BY <1>1, <3>1, TakenSplits DEF Waiting
    <3>3. end \in Nat /\ last_timestamp_imu_ \in Int
      <4>1. BufferTypes OBVIOUS
      <4>2. last_timestamp_imu_ \in Int BY <4>1, StampsAreInt
      <4> QED BY <4>2, <1>1, TimeIsNat
    <3>4. ASSUME NEW i \in DOMAIN imu_buffer_'
          PROVE  n + i \in DOMAIN imu_buffer_ /\ n + i > n /\ imu_buffer_'[i] = imu_buffer_[n + i]
      <4> HIDE DEF n
      <4>1. i \in 1 .. Len(imu_buffer_) - n BY <2>2, <2>3
      <4>2. n + i \in DOMAIN imu_buffer_ /\ n + i > n BY <4>1, <2>1, <2>2
      <4> QED BY <4>1, <4>2, <2>2, <2>3
    <3>5. last_timestamp_lidar_' <= last_timestamp_imu_' BY <2>3, <3>3
    <3>6. ASSUME NEW i \in DOMAIN imu_buffer_'
          PROVE  last_timestamp_lidar_' <= imu_buffer_'[i] /\ imu_buffer_'[i] <= last_timestamp_imu_'
      <4>1. imu_buffer_[n + i] >= end /\ imu_buffer_[n + i] <= last_timestamp_imu_
        BY <3>1, <3>2, <3>4 DEF Waiting
      <4>2. imu_buffer_ \in Seq(Time) /\ n + i \in DOMAIN imu_buffer_ BY <3>4
      <4>3. imu_buffer_[n + i] \in Nat BY <4>2, SampleIsNat
      <4> QED BY <4>1, <4>3, <2>3, <3>3, <3>4
    <3>7. ASSUME NEW i \in DOMAIN imu_buffer_', NEW j \in DOMAIN imu_buffer_', i < j
          PROVE  imu_buffer_'[i] < imu_buffer_'[j]
      <4>1. n + i < n + j BY <3>7, <2>1, <2>2, <2>3
      <4> QED BY <4>1, <3>1, <3>4 DEF Waiting
    <3> QED BY <3>5, <3>6, <3>7 DEF Waiting
  <2> QED BY <2>4, <2>5, <2>6
<1> QED BY <1>3, <1>4, <1>5 DEF Process

(* No step leaves the invariant.                                           *)
LEMMA NextInv == BufferInv /\ [Next]_vars => BufferInv'
<1> SUFFICES ASSUME BufferInv, [Next]_vars PROVE BufferInv' OBVIOUS
<1>1. CASE Next BY <1>1, ImuStep, LidarStep, ProcessStep DEF Next
<1>2. CASE UNCHANGED vars
  BY <1>2 DEF vars, bufferVars, BufferInv, BufferTypes, PushedIsHead, Steady, Waiting
<1> QED BY <1>1, <1>2

(* The inductive invariant: types of the buffers, the remembered scan, and *)
(* the order of the samples that wait.                                     *)
THEOREM BufferInvariance == Spec => []BufferInv
BY InitInv, NextInv, PTL DEF Spec

(* Whatever is dropped, reset or waited for, the scan process() remembers  *)
(* between two calls is the one at the head of lidar_buffer_.              *)
THEOREM PushedScan == Spec => []PushedIsHead
<1>1. BufferInv => PushedIsHead BY DEF BufferInv
<1> QED BY <1>1, BufferInvariance, PTL

(* While no clock starts again, every sample that waits is at or after the *)
(* end of the last scan, and each is later than the one before: none is    *)
(* given to two scans, and none is left behind by one.                     *)
THEOREM NothingLeftBehind == Spec => []NoneLeftBehind
<1>1. ASSUME BufferInv, Steady, NEW i \in DOMAIN imu_buffer_
      PROVE  /\ imu_buffer_[i] >= last_timestamp_lidar_
             /\ i > 1 => imu_buffer_[i - 1] < imu_buffer_[i]
  <2>1. Waiting BY <1>1 DEF BufferInv
  <2>2. imu_buffer_ \in Seq(Time) BY <1>1 DEF BufferInv, BufferTypes
  <2>3. imu_buffer_[i] >= last_timestamp_lidar_
    <3>1. imu_buffer_[i] \in Nat BY <2>2, SampleIsNat
    <3>2. last_timestamp_lidar_ \in Int BY <1>1, StampsAreInt DEF BufferInv
    <3> QED BY <2>1, <3>1, <3>2 DEF Waiting
  <2>4. ASSUME i > 1 PROVE imu_buffer_[i - 1] < imu_buffer_[i]
    <3>1. i - 1 \in DOMAIN imu_buffer_ /\ i - 1 < i BY <2>2, <2>4
    <3> QED BY <2>1, <3>1 DEF Waiting
  <2> QED BY <2>3, <2>4
<1>2. BufferInv => NoneLeftBehind BY <1>1 DEF NoneLeftBehind
<1> QED BY <1>2, BufferInvariance, PTL

-----------------------------------------------------------------------------
(* The states and the filter.                                              *)
Clocks == [init_ : BOOLEAN, current_time_ : 0 .. MaxTime,
           last_imu_time_ : -1 .. MaxTime, last_obs_time_ : 0 .. MaxTime,
           current_obs_time_ : 0 .. MaxTime, forward_time_ : -1 .. MaxTime]

LioTypes ==
  /\ lidar_pushed_ \in BOOLEAN /\ scanned \in Time \cup {0}
  /\ state_fn_ \in {"stateWaitKFInit", "stateWaitMapInit", "stateProcess"}
  /\ imu_cout \in 0 .. ImuForInit /\ frame_num_ \in 0 .. MapFrames + 1
  /\ kf \in Clocks /\ propagate_states_ \in Seq(0 .. MaxTime)

(* Each state is left with the group that completes it.                    *)
Counting ==
  /\ state_fn_ = "stateWaitKFInit" => imu_cout < ImuForInit /\ frame_num_ = 0
  /\ state_fn_ = "stateWaitMapInit" => frame_num_ <= MapFrames

(* Once it is initialized the filter is not past the end of the last scan. *)
Behind ==
  state_fn_ # "stateWaitKFInit" => kf.current_time_ <= last_timestamp_lidar_

LioInv == BufferInv /\ LioTypes /\ Counting /\ Behind

-----------------------------------------------------------------------------
(* A set of naturals that is not empty has a least element.                *)
LEMMA LeastElement ==
  ASSUME NEW T \in SUBSET Nat, T # {}
  PROVE  \E x \in T : \A y \in T : x <= y
<1> DEFINE R == OpToRel(<, Nat)
<1>1. IsWellFoundedOn(R, Nat) BY NatLessThanWellFounded, Zenon
<1>2. \A y, x \in Nat : y < x => <<y, x>> \in R BY DEF OpToRel
<1> HIDE DEF R
<1>3. PICK x \in T : \A y \in T : <<y, x>> \notin R
  BY <1>1, WFMin
<1>4. ASSUME NEW y \in T PROVE x <= y
  <2>1. ~(y < x) BY <1>2, <1>3
  <2> QED BY <2>1
<1> QED BY <1>4

(* Induction over the naturals, for a set of them.                         *)
LEMMA NatByInduction ==
  ASSUME NEW A \in SUBSET Nat, 0 \in A, \A n \in Nat : n \in A => n + 1 \in A
  PROVE  A = Nat
<1> SUFFICES ASSUME Nat \ A # {} PROVE FALSE OBVIOUS
<1>1. PICK x \in Nat \ A : \A y \in Nat \ A : x <= y BY LeastElement
<1>2. x - 1 \in Nat BY <1>1
<1>3. x - 1 \in A BY <1>1, <1>2
<1>4. (x - 1) + 1 \in A BY <1>2, <1>3
<1> QED BY <1>1, <1>4

(* The filter's states over the samples of a scan, by their number.        *)
States(k, imu) ==
  LET state[i \in 0 .. Len(imu)] == IF i = 0 THEN k ELSE Predict(state[i - 1], imu[i])
  IN  state

(* What holds of the first state and is kept by each sample holds of all.  *)
LEMMA StatesReach ==
  ASSUME NEW imu, NEW N \in Nat, Len(imu) = N, NEW G, NEW s \in G,
         \A i \in 1 .. N : \A k \in G : Predict(k, imu[i]) \in G
  PROVE  States(s, imu)[0] = s /\ \A i \in 0 .. N : States(s, imu)[i] \in G
<1> DEFINE Def(f, n) == f = [i \in 0 .. n |-> IF i = 0 THEN s ELSE Predict(f[i - 1], imu[i])]
           Lies(f, n) == \A i \in 0 .. n : f[i] \in G
           A == {n \in Nat : n <= N => \E f : Def(f, n) /\ Lies(f, n)}
<1>1. 0 \in A
  <2> DEFINE g == [i \in 0 .. 0 |-> s]
  <2>1. Def(g, 0) /\ Lies(g, 0) OBVIOUS
  <2> QED BY <2>1
<1>2. ASSUME NEW n \in Nat, n \in A PROVE n + 1 \in A
  <2> SUFFICES ASSUME n + 1 <= N PROVE \E f : Def(f, n + 1) /\ Lies(f, n + 1)
    OBVIOUS
  <2>1. PICK f : Def(f, n) /\ Lies(f, n) BY <1>2
  <2> DEFINE e == Predict(f[n], imu[n + 1])
             g == [i \in 0 .. n + 1 |-> IF i <= n THEN f[i] ELSE e]
  <2>2. f[n] \in G BY <2>1
  <2>3. n + 1 \in 1 .. N /\ (n + 1) - 1 = n OBVIOUS
  <2>4. e \in G BY <2>2, <2>3
  <2> HIDE DEF e
  <2>5. Lies(g, n + 1)
    <3> SUFFICES ASSUME NEW i \in 0 .. n + 1 PROVE g[i] \in G OBVIOUS
    <3>1. CASE i = n + 1 BY <3>1, <2>4
    <3>2. CASE i \in 0 .. n
      <4>1. g[i] = f[i] BY <3>2
      <4> QED BY <4>1, <3>2, <2>1
    <3> QED BY <3>1, <3>2
  <2>6. ASSUME NEW i \in 0 .. n + 1
        PROVE  g[i] = IF i = 0 THEN s ELSE Predict(g[i - 1], imu[i])
    <3>1. CASE i = n + 1
      <4>1. g[i] = e /\ g[i - 1] = f[n] /\ i # 0 BY <3>1
      <4> QED BY <4>1, <3>1 DEF e
    <3>2. CASE i \in 0 .. n
      <4>1. f[i] = IF i = 0 THEN s ELSE Predict(f[i - 1], imu[i]) BY <2>1, <3>2
      <4>2. g[i] = f[i] BY <3>2
      <4>3. i # 0 => g[i - 1] = f[i - 1] BY <3>2
      <4> QED BY <4>1, <4>2, <4>3
    <3> QED BY <3>1, <3>2
  <2>7. Def(g, n + 1) BY <2>6
  <2> QED BY <2>5, <2>7
<1>3. N \in A BY <1>1, <1>2, NatByInduction
<1> DEFINE h == CHOOSE f : Def(f, N)
<1>4. PICK f : Def(f, N) /\ Lies(f, N) BY <1>3
<1>5. Def(h, N) BY <1>4
<1>6. \A i \in 0 .. N : h[i] = IF i = 0 THEN s ELSE Predict(h[i - 1], imu[i])
  BY <1>5
<1> DEFINE B == {n \in Nat : n <= N => h[n] \in G}
<1> HIDE DEF h
<1>7. 0 \in B BY <1>6
<1>8. ASSUME NEW n \in Nat, n \in B PROVE n + 1 \in B
  <2> SUFFICES ASSUME n + 1 <= N PROVE h[n + 1] \in G OBVIOUS
  <2>1. h[n] \in G BY <1>8
  <2>2. n + 1 \in 1 .. N /\ (n + 1) - 1 = n /\ n + 1 \in 0 .. N /\ n + 1 # 0 OBVIOUS
  <2>3. h[n + 1] = Predict(h[(n + 1) - 1], imu[n + 1]) BY <1>6, <2>2
  <2> QED BY <2>1, <2>2, <2>3
<1>9. \A n \in 0 .. N : h[n] \in G
  <2>1. B = Nat BY <1>7, <1>8, NatByInduction
  <2> QED BY <2>1
<1>10. States(s, imu) = h BY DEF States, h
<1>11. 0 \in 0 .. N OBVIOUS
<1> QED BY <1>6, <1>9, <1>10, <1>11

-----------------------------------------------------------------------------
(* The filter's clocks, by sample and by scan.                             *)
LEMMA MaxTimeIs == MaxTime \in Nat /\ Time = 1 .. MaxTime /\ Time \subseteq 0 .. MaxTime
BY SuperLioAssumption DEF Time

(* The IMU-rate odometry does not move the filter.                         *)
LEMMA ForwardTyped ==
  ASSUME NEW k \in Clocks, NEW t \in Time
  PROVE  Forward(k, t) \in Clocks /\ Forward(k, t).current_time_ = k.current_time_
<1>1. t \in -1 .. MaxTime BY MaxTimeIs
<1>2. [k EXCEPT !.forward_time_ = t] \in Clocks
      /\ [k EXCEPT !.forward_time_ = t].current_time_ = k.current_time_
  BY <1>1 DEF Clocks
<1> QED BY <1>2 DEF Forward

(* A sample moves the filter to its own time or to the scan's end.         *)
LEMMA PredictTyped ==
  ASSUME NEW k \in Clocks, NEW t \in Time
  PROVE  /\ Predict(k, t) \in Clocks /\ Predict(k, t).current_obs_time_ = k.current_obs_time_
         /\ Predict(k, t).current_time_ \in {k.current_time_, k.current_obs_time_, t}
<1> DEFINE beyond == ~(k.last_imu_time_ < k.last_obs_time_) /\ t > k.current_obs_time_
           now == IF beyond THEN k.current_obs_time_ ELSE t
<1>1. t \in -1 .. MaxTime /\ t \in 0 .. MaxTime BY MaxTimeIs
<1>2. k.current_obs_time_ \in 0 .. MaxTime BY DEF Clocks
<1>3. now \in {k.current_obs_time_, t} /\ now \in 0 .. MaxTime BY <1>1, <1>2
<1> HIDE DEF now
<1>4. /\ [k EXCEPT !.last_imu_time_ = t] \in Clocks
      /\ [k EXCEPT !.last_imu_time_ = t].current_obs_time_ = k.current_obs_time_
      /\ [k EXCEPT !.last_imu_time_ = t].current_time_ = k.current_time_
  BY <1>1 DEF Clocks
<1>5. /\ [k EXCEPT !.current_time_ = now, !.last_imu_time_ = t] \in Clocks
      /\ [k EXCEPT !.current_time_ = now, !.last_imu_time_ = t].current_obs_time_
           = k.current_obs_time_
      /\ [k EXCEPT !.current_time_ = now, !.last_imu_time_ = t].current_time_ = now
  BY <1>1, <1>3 DEF Clocks
<1>6. Predict(k, t) \in {[k EXCEPT !.last_imu_time_ = t],
                         [k EXCEPT !.current_time_ = now, !.last_imu_time_ = t]}
  BY DEF Predict, now
<1> QED BY <1>3, <1>4, <1>5, <1>6

-----------------------------------------------------------------------------
(* The steps.                                                              *)
LEMMA LioInit == Init => LioInv
<1> SUFFICES ASSUME Init PROVE LioInv OBVIOUS
<1>1. BufferInv BY InitInv
<1>2. LioTypes /\ Counting
  <2>1. <<>> \in Seq(0 .. MaxTime) OBVIOUS
  <2>2. /\ 0 \in 0 .. MaxTime /\ 0 \in -1 .. MaxTime /\ -1 \in -1 .. MaxTime
        /\ 0 \in 0 .. ImuForInit /\ 0 < ImuForInit /\ 0 \in 0 .. MapFrames + 1 /\ 0 <= MapFrames
    BY SuperLioAssumption
  <2>3. kf \in Clocks BY <2>2 DEF Init, Clocks
  <2> QED BY <2>1, <2>2, <2>3 DEF Init, LioTypes, Counting
<1>3. Behind BY DEF Init, Behind
<1> QED BY <1>1, <1>2, <1>3 DEF LioInv

(* The times in the invariant are numbers.                                 *)
LEMMA TimesAreInt ==
  ASSUME LioInv
  PROVE  /\ last_timestamp_lidar_ \in Int /\ kf.current_time_ \in Int
         /\ lidar_buffer_ \in Seq(Scan) /\ imu_buffer_ \in Seq(Time)
<1>1. BufferTypes /\ LioTypes BY DEF LioInv, BufferInv
<1>2. kf.current_time_ \in Int BY <1>1, MaxTimeIs DEF LioTypes, Clocks
<1> QED BY <1>1, <1>2, StampsAreInt DEF BufferTypes

(* A sample moves neither the filter nor the scans.                        *)
LEMMA LioImu == LioInv /\ ImuSample => LioInv'
<1> SUFFICES ASSUME LioInv, ImuSample PROVE LioInv' OBVIOUS
<1>1. PICK t \in Time : ImuHandler(t) BY DEF ImuSample
<1>2. kf \in Clocks BY DEF LioInv, LioTypes
<1>3. kf' \in Clocks /\ kf'.current_time_ = kf.current_time_
  BY <1>1, <1>2, ForwardTyped DEF ImuHandler
<1>4. UNCHANGED <<lidar_buffer_, last_timestamp_lidar_, lidar_pushed_, measures_, state_fn_,
                  imu_cout, frame_num_, propagate_states_, scanned>>
  BY <1>1 DEF ImuHandler, lioVars
<1>5. BufferInv' BY ImuStep DEF LioInv
<1>6. LioTypes' /\ Counting' BY <1>3, <1>4 DEF LioInv, LioTypes, Counting
<1>7. Behind' BY <1>3, <1>4 DEF LioInv, Behind
<1> QED BY <1>5, <1>6, <1>7 DEF LioInv

(* A scan waits, whenever it starts and ends.                              *)
LEMMA LioLidar == LioInv /\ LidarScan => LioInv'
<1> SUFFICES ASSUME LioInv, LidarScan PROVE LioInv' OBVIOUS
<1>1. PICK s \in Scan : LidarHandler(s) BY DEF LidarScan
<1>2. /\ scanned' = s.end
      /\ UNCHANGED <<last_timestamp_lidar_, lidar_pushed_, state_fn_,
                     imu_cout, frame_num_, propagate_states_, kf>>
  BY <1>1 DEF LidarHandler, lioVars
<1>3. BufferInv' BY LidarStep DEF LioInv
<1>4. LioTypes' /\ Counting'
  BY <1>2, TimeIsNat DEF LioInv, LioTypes, Counting
<1>5. Behind' BY <1>2 DEF LioInv, Behind
<1> QED BY <1>3, <1>4, <1>5 DEF LioInv

(* sync_measure() without a group.                                         *)
LEMMA LioNoGroup ==
  ASSUME LioInv, DropLate \/ Wait, UNCHANGED <<scanned, resets>>, BufferInv'
  PROVE  LioInv'
<1>1. /\ lidar_pushed_' \in BOOLEAN
      /\ UNCHANGED <<last_timestamp_lidar_, lioVars, kf>>
  BY DEF DropLate, Wait
<1>2. LioTypes' /\ Counting' BY <1>1 DEF LioInv, LioTypes, Counting, lioVars
<1>3. Behind' BY <1>1 DEF LioInv, Behind, lioVars
<1> QED BY <1>2, <1>3 DEF LioInv

(* The samples of a group are those at the head of imu_buffer_, none later *)
(* than the end of the scan.                                               *)
GroupOf(imu, end) == imu \in Seq(Time) /\ \A i \in 1 .. Len(imu) : imu[i] \in Time /\ imu[i] <= end

(* The group that sync_measure() returns.                                  *)
LEMMA GroupIs ==
  ASSUME LioInv, lidar_buffer_ # <<>>, Sync
  PROVE  /\ GroupOf(measures_'.imu, Measured.end) /\ measures_'.lidar = Measured
         /\ Measured = Head(lidar_buffer_) /\ Measured \in Scan
         /\ lidar_buffer_' = Tail(lidar_buffer_) /\ last_timestamp_lidar_' = Measured.end
         /\ lidar_pushed_' = FALSE
<1>1. /\ Measured = Head(lidar_buffer_) /\ Measured \in Scan /\ Measured.end \in Time
  BY MeasuredIsHead DEF LioInv
<1> DEFINE n == Taken(Measured.end)
           imu == SubSeq(imu_buffer_, 1, n)
<1>2. /\ measures_' = [lidar |-> Measured, imu |-> imu]
      /\ lidar_buffer_' = Tail(lidar_buffer_) /\ last_timestamp_lidar_' = Measured.end
      /\ lidar_pushed_' = FALSE
  BY DEF Sync
<1>3. n \in 0 .. Len(imu_buffer_) /\ \A i \in 1 .. n : imu_buffer_[i] <= Measured.end
  BY <1>1, TimesAreInt, TakenInTime
<1> HIDE DEF n
<1>4. imu \in Seq(Time) /\ Len(imu) = n /\ \A i \in 1 .. n : imu[i] = imu_buffer_[i]
  BY <1>3, TimesAreInt
<1>5. \A i \in 1 .. n : imu_buffer_[i] \in Time BY <1>3, TimesAreInt, ElementOfSeq
<1> HIDE DEF imu
<1>6. GroupOf(imu, Measured.end) BY <1>3, <1>4, <1>5 DEF GroupOf
<1> QED BY <1>1, <1>2, <1>6

(* The samples of a scan, integrated one after the other.                  *)
LEMMA Propagated ==
  ASSUME NEW k \in Clocks, NEW imu, NEW end \in Time, GroupOf(imu, end), k.current_obs_time_ = end
  PROVE  /\ States(k, imu)[0] = k
         /\ \A i \in 0 .. Len(imu) :
           /\ States(k, imu)[i] \in Clocks /\ States(k, imu)[i].current_obs_time_ = end
           /\ k.current_time_ <= end => States(k, imu)[i].current_time_ <= end
<1> DEFINE G == {e \in Clocks : e.current_obs_time_ = end
                                /\ (k.current_time_ <= end => e.current_time_ <= end)}
<1>1. Len(imu) \in Nat /\ k \in G /\ end \in Int BY TimeIsNat DEF GroupOf
<1>2. ASSUME NEW i \in 1 .. Len(imu), NEW e \in G PROVE Predict(e, imu[i]) \in G
  <2>1. e \in Clocks /\ imu[i] \in Time /\ imu[i] <= end BY DEF GroupOf
  <2>2. /\ Predict(e, imu[i]) \in Clocks
        /\ Predict(e, imu[i]).current_obs_time_ = e.current_obs_time_
        /\ Predict(e, imu[i]).current_time_ \in {e.current_time_, e.current_obs_time_, imu[i]}
    BY <2>1, PredictTyped
  <2>3. k.current_time_ <= end => Predict(e, imu[i]).current_time_ <= end
    BY <1>1, <2>1, <2>2
  <2> QED BY <2>2, <2>3
<1>3. States(k, imu)[0] = k /\ \A i \in 0 .. Len(imu) : States(k, imu)[i] \in G
  <2> HIDE DEF G
  <2> QED BY <1>1, <1>2, StatesReach
<1> QED BY <1>3

(* StateProcess, by the states it goes through.                            *)
LEMMA ProcessIs ==
  ASSUME StateProcess
  PROVE  LET started == [kf EXCEPT !.current_obs_time_ = measures_'.lidar.end]
             imu == measures_'.imu
         IN  /\ propagate_states_' =
                  [i \in 1 .. Len(imu) + 1 |-> States(started, imu)[i - 1].current_time_]
             /\ kf' = Update(States(started, imu)[Len(imu)])
             /\ UNCHANGED <<state_fn_, imu_cout, frame_num_>>
BY DEF StateProcess, States

(* A function on 1, 2, ... is a sequence.                                  *)
LEMMA FunctionIsSeq ==
  ASSUME NEW S, NEW n \in Nat, NEW f \in [1 .. n -> S]
  PROVE  f \in Seq(S) /\ Len(f) = n
OBVIOUS

(* A group in a state: types, the state's count, and where it takes the    *)
(* filter, which is not past the end of the scan unless it was.            *)
LEMMA LioStates ==
  ASSUME LioInv, NEW end \in Time, GroupOf(measures_'.imu, end), measures_'.lidar.end = end,
         StateWaitKFInit \/ StateWaitMapInit \/ StateProcess
  PROVE  /\ kf' \in Clocks /\ propagate_states_' \in Seq(0 .. MaxTime) /\ Counting'
         /\ state_fn_' \in {"stateWaitKFInit", "stateWaitMapInit", "stateProcess"}
         /\ imu_cout' \in 0 .. ImuForInit /\ frame_num_' \in 0 .. MapFrames + 1
         /\ (state_fn_ # "stateWaitKFInit" => kf.current_time_ <= end)
              => (state_fn_' # "stateWaitKFInit" => kf'.current_time_ <= end)
         /\ StateProcess => Len(propagate_states_') \in Nat \ {0}
                            /\ propagate_states_'[1] = kf.current_time_
<1> DEFINE imu == measures_'.imu
<1>1. /\ imu \in Seq(Time) /\ Len(imu) \in Nat
      /\ \A i \in 1 .. Len(imu) : imu[i] \in Time /\ imu[i] <= end
  BY DEF GroupOf
<1>2. end \in 0 .. MaxTime /\ MaxTime \in Nat /\ ImuForInit \in Nat \ {0} /\ MapFrames \in Nat
  BY MaxTimeIs, SuperLioAssumption
<1>3. LioTypes /\ Counting /\ kf \in Clocks BY DEF LioInv, LioTypes
<1>4. CASE StateWaitKFInit
  <2> DEFINE done == imu_cout + Len(imu) >= ImuForInit
  <2>1. /\ state_fn_ = "stateWaitKFInit" /\ imu_cout \in 0 .. ImuForInit /\ imu_cout < ImuForInit
        /\ frame_num_ = 0
    BY <1>3, <1>4 DEF StateWaitKFInit, LioTypes, Counting
  <2>2. frame_num_' = frame_num_ /\ propagate_states_' = propagate_states_ /\ ~StateProcess
    BY <1>4, <2>1 DEF StateWaitKFInit, StateProcess
  <2>3. CASE done
    <3>1. Len(imu) \in 1 .. Len(imu) BY <1>1, <2>1, <2>3, <1>2
    <3>2. imu[Len(imu)] \in Time /\ imu[Len(imu)] <= end BY <1>1, <3>1
    <3>3. /\ kf' = [kf EXCEPT !.last_imu_time_ = imu[Len(imu)], !.current_time_ = imu[Len(imu)]]
          /\ state_fn_' = "stateWaitMapInit" /\ imu_cout' = ImuForInit
      BY <1>4, <2>3 DEF StateWaitKFInit
    <3>4. kf' \in Clocks /\ kf'.current_time_ = imu[Len(imu)]
      <4> DEFINE x == imu[Len(imu)]
      <4>1. x \in 0 .. MaxTime /\ x \in -1 .. MaxTime BY <3>2, MaxTimeIs
      <4> HIDE DEF x
      <4> QED BY <1>3, <3>3, <4>1 DEF Clocks, x
    <3> QED BY <1>2, <1>3, <2>1, <2>2, <3>2, <3>3, <3>4 DEF LioTypes, Counting
  <2>4. CASE ~done
    <3>1. kf' = kf /\ state_fn_' = state_fn_ /\ imu_cout' = imu_cout + Len(imu)
      BY <1>4, <2>4 DEF StateWaitKFInit
    <3>2. imu_cout' \in 0 .. ImuForInit /\ imu_cout' < ImuForInit
      BY <1>1, <1>2, <2>1, <2>4, <3>1
    <3> QED BY <1>3, <2>1, <2>2, <3>1, <3>2 DEF LioTypes, Counting
  <2> QED BY <2>3, <2>4
<1>5. CASE StateWaitMapInit
  <2>1. /\ state_fn_ = "stateWaitMapInit" /\ frame_num_ \in 0 .. MapFrames
        /\ frame_num_' = frame_num_ + 1
        /\ state_fn_' = IF frame_num_ + 1 > MapFrames THEN "stateProcess" ELSE state_fn_
        /\ imu_cout' = imu_cout /\ propagate_states_' = propagate_states_
    BY <1>2, <1>3, <1>5 DEF StateWaitMapInit, LioTypes, Counting
  <2>0. ~StateProcess BY <2>1 DEF StateProcess
  <2>2. kf' \in Clocks /\ kf'.current_time_ = kf.current_time_
    <3> DEFINE done == frame_num_ + 1 > MapFrames
    <3>1. kf' = [kf EXCEPT !.last_obs_time_ = end, !.init_ = done]
      BY <1>5 DEF StateWaitMapInit
    <3>2. done \in BOOLEAN OBVIOUS
    <3> HIDE DEF done
    <3> QED BY <1>2, <1>3, <3>1, <3>2 DEF Clocks
  <2>3. frame_num_' \in 0 .. MapFrames + 1
        /\ (state_fn_' = "stateWaitMapInit" => frame_num_' <= MapFrames)
    BY <1>2, <2>1
  <2> QED BY <1>3, <2>0, <2>1, <2>2, <2>3 DEF LioTypes, Counting
<1>6. CASE StateProcess
  <2> DEFINE s == [kf EXCEPT !.current_obs_time_ = end]
             st == States(s, imu)
  <2>1. /\ propagate_states_' = [i \in 1 .. Len(imu) + 1 |-> st[i - 1].current_time_]
        /\ kf' = Update(st[Len(imu)])
        /\ UNCHANGED <<state_fn_, imu_cout, frame_num_>>
    BY <1>6, ProcessIs
  <2>0. state_fn_ = "stateProcess" BY <1>6 DEF StateProcess
  <2>2. s \in Clocks /\ s.current_obs_time_ = end /\ s.current_time_ = kf.current_time_
    BY <1>2, <1>3 DEF Clocks
  <2> HIDE DEF s
  <2>3. /\ st[0] = s
        /\ \A i \in 0 .. Len(imu) :
             /\ st[i] \in Clocks /\ st[i].current_obs_time_ = end
             /\ kf.current_time_ <= end => st[i].current_time_ <= end
    BY <2>2, Propagated
  <2> HIDE DEF st
  <2>5. kf' \in Clocks /\ kf'.current_time_ = st[Len(imu)].current_time_
    <3> DEFINE x == st[Len(imu)]
    <3>1. x \in Clocks /\ x.current_obs_time_ = end /\ end \in -1 .. MaxTime BY <1>1, <1>2, <2>3
    <3>2. kf' = Update(x) BY <2>1
    <3> HIDE DEF x
    <3>3. Update(x) \in Clocks /\ Update(x).current_time_ = x.current_time_
      BY <1>2, <3>1 DEF Update, Clocks
    <3> QED BY <3>2, <3>3 DEF x
  <2>6. kf.current_time_ <= end => kf'.current_time_ <= end BY <1>1, <2>3, <2>5
  <2>7. propagate_states_' \in Seq(0 .. MaxTime) /\ Len(propagate_states_') = Len(imu) + 1
    <3>1. \A i \in 1 .. Len(imu) + 1 : st[i - 1].current_time_ \in 0 .. MaxTime
      <4>1. \A i \in 1 .. Len(imu) + 1 : i - 1 \in 0 .. Len(imu) BY <1>1
      <4> QED BY <2>3, <4>1 DEF Clocks
    <3>2. propagate_states_' \in [1 .. Len(imu) + 1 -> 0 .. MaxTime] BY <2>1, <3>1
    <3>3. Len(imu) + 1 \in Nat BY <1>1
    <3> HIDE DEF imu
    <3> QED BY <3>2, <3>3, FunctionIsSeq
  <2>8. propagate_states_'[1] = kf.current_time_
    <3>1. 1 \in 1 .. Len(imu) + 1 /\ 1 - 1 = 0 BY <1>1
    <3> QED BY <2>1, <2>2, <2>3, <3>1
  <2>9. Len(propagate_states_') \in Nat \ {0} BY <1>1, <2>7
  <2> QED BY <1>3, <2>0, <2>1, <2>5, <2>6, <2>7, <2>8, <2>9 DEF LioTypes, Counting
<1> QED BY <1>4, <1>5, <1>6

(* sync_measure() never goes back behind the scan before.                  *)
LEMMA NotBack ==
  ASSUME LioInv, lidar_buffer_ # <<>>, Sync
  PROVE  Measured.end \in Time /\ Measured.end \in Int /\ last_timestamp_lidar_ <= Measured.end
<1>1. Measured.end \in Time BY MeasuredIsHead DEF LioInv
<1>2. ~(last_timestamp_lidar_ > Measured.end) BY DEF Sync
<1> DEFINE end == Measured.end
<1> HIDE DEF end
<1>3. end \in Int
  <2>1. end \in Time BY <1>1 DEF end
  <2> QED BY <2>1, TimeIsNat
<1>4. last_timestamp_lidar_ <= end BY <1>2, <1>3, TimesAreInt DEF end
<1> QED BY <1>1, <1>3, <1>4 DEF end

(* A group: the filter reaches the end of its scan at most.                *)
LEMMA LioGroup ==
  ASSUME LioInv, lidar_buffer_ # <<>>, Sync, UNCHANGED <<scanned, resets>>, BufferInv',
         StateWaitKFInit \/ StateWaitMapInit \/ StateProcess
  PROVE  LioInv'
<1> DEFINE end == Measured.end
<1>1. /\ GroupOf(measures_'.imu, end) /\ measures_'.lidar = Measured
      /\ last_timestamp_lidar_' = end /\ lidar_pushed_' = FALSE
  BY GroupIs
<1>2. end \in Time /\ end \in Int /\ last_timestamp_lidar_ <= end BY NotBack
<1>3. /\ kf' \in Clocks /\ propagate_states_' \in Seq(0 .. MaxTime) /\ Counting'
      /\ state_fn_' \in {"stateWaitKFInit", "stateWaitMapInit", "stateProcess"}
      /\ imu_cout' \in 0 .. ImuForInit /\ frame_num_' \in 0 .. MapFrames + 1
      /\ (state_fn_ # "stateWaitKFInit" => kf.current_time_ <= end)
           => (state_fn_' # "stateWaitKFInit" => kf'.current_time_ <= end)
  BY <1>1, <1>2, LioStates
<1>4. LioTypes' BY <1>1, <1>3 DEF LioInv, LioTypes
<1>5. state_fn_ # "stateWaitKFInit" => kf.current_time_ <= end
  <2> HIDE DEF end
  <2> QED BY <1>2, TimesAreInt DEF LioInv, Behind
<1>6. Behind'
  <2> HIDE DEF end
  <2> QED BY <1>1, <1>3, <1>5 DEF Behind
<1> QED BY <1>3, <1>4, <1>6 DEF LioInv

(* No step leaves the invariant.                                           *)
LEMMA LioNext == LioInv /\ [Next]_vars => LioInv'
<1> SUFFICES ASSUME LioInv, [Next]_vars PROVE LioInv' OBVIOUS
<1>1. CASE Process
  <2>1. lidar_buffer_ # <<>> /\ UNCHANGED <<scanned, resets>> BY <1>1 DEF Process
  <2>2. BufferInv' BY <1>1, ProcessStep DEF LioInv
  <2>3. DropLate \/ Wait \/ (Sync /\ (StateWaitKFInit \/ StateWaitMapInit \/ StateProcess))
    BY <1>1 DEF Process
  <2> QED BY <2>1, <2>2, <2>3, LioNoGroup, LioGroup
<1>2. CASE UNCHANGED vars
  BY <1>2 DEF vars, bufferVars, lioVars, LioInv, LioTypes, Counting, Behind, Steady,
             BufferInv, BufferTypes, PushedIsHead, Waiting
<1> QED BY <1>1, <1>2, LioImu, LioLidar DEF Next

(* The inductive invariant of the whole front end.  Whatever the clocks do, *)
(* the filter is not past the end of the last scan once it is initialized. *)
THEOREM LioInvariance == Spec => []LioInv
BY LioInit, LioNext, PTL DEF Spec

(* The types of the state, whatever the sensors send and clocks do: the    *)
(* filter's clocks stay within the stamps received, and kf_init() finds a  *)
(* sample in the group that completes it.                                  *)
THEOREM TypeCorrect == Spec => []TypeOK
<1>1. LioInv => TypeOK
  BY DEF LioInv, LioTypes, BufferInv, BufferTypes, Clocks, TypeOK
<1> QED BY <1>1, LioInvariance, PTL

(* A time after the first state and not after the last lies between two of  *)
(* them: the first one that it is not after, and the one before that.      *)
LEMMA Between ==
  ASSUME NEW states \in Seq(0 .. MaxTime), Len(states) \in Nat \ {0},
         NEW q \in Int, states[1] < q
  PROVE  Matched(q, states)
<1> DEFINE n == Len(states)
           reached == {i \in 1 .. n : q <= states[i]}
<1>1. \A i \in 1 .. n : states[i] \in Int
  <2>1. ASSUME NEW i \in 1 .. n PROVE states[i] \in Int
    <3>1. i \in DOMAIN states OBVIOUS
    <3>2. states[i] \in 0 .. MaxTime BY <3>1, ElementOfSeq
    <3> QED BY <3>2, MaxTimeIs
  <2> QED BY <2>1
<1> HIDE DEF n
<1>2. n \in Nat \ {0} BY DEF n
<1>3. CASE n \notin reached
  <2>1. q > states[n] BY <1>1, <1>2, <1>3
  <2> QED BY <2>1 DEF Matched, n
<1>4. CASE n \in reached
  <2>1. reached \in SUBSET Nat /\ reached # {} BY <1>2, <1>4
  <2>2. PICK k \in reached : \A j \in reached : k <= j BY <2>1, LeastElement
  <2>3. k \in 1 .. n /\ q <= states[k] OBVIOUS
  <2>4. k # 1 BY <1>1, <1>2, <2>3
  <2>5. k - 1 \in 1 .. n - 1 /\ k - 1 \in 1 .. n /\ (k - 1) + 1 = k BY <1>2, <2>3, <2>4
  <2>6. states[k - 1] < q
    <3>1. k - 1 \notin reached BY <2>2, <2>3
    <3> QED BY <1>1, <2>5, <3>1
  <2>7. \E i \in 1 .. n - 1 : states[i] < q /\ q <= states[i + 1] BY <2>3, <2>5, <2>6
  <2> QED BY <2>7 DEF Matched, n
<1> QED BY <1>3, <1>4

(* The undistortion finds the states of every point later than the end of  *)
(* the scan before: it neither reads past the last of them nor divides by  *)
(* the zero between two of the same time.                                  *)
THEOREM PointsMatched == Spec => NewPointsMatched
<1> DEFINE Step == lidar_buffer_ # <<>> /\ Sync /\ StateProcess
           Found == \A q \in measures_'.lidar.start .. measures_'.lidar.end :
                      q > last_timestamp_lidar_ => Matched(q, propagate_states_')
<1>1. ASSUME LioInv, Step PROVE Found
  <2> DEFINE end == Measured.end
  <2>1. /\ GroupOf(measures_'.imu, end) /\ measures_'.lidar = Measured /\ Measured \in Scan
    BY <1>1, GroupIs
  <2>2. end \in Time BY <1>1, NotBack
  <2>3. /\ propagate_states_' \in Seq(0 .. MaxTime) /\ Len(propagate_states_') \in Nat \ {0}
        /\ propagate_states_'[1] = kf.current_time_
    BY <1>1, <2>1, <2>2, LioStates
  <2>4. kf.current_time_ <= last_timestamp_lidar_
    BY <1>1 DEF LioInv, Behind, StateProcess
  <2>5. Measured.start \in Int /\ Measured.end \in Int
    <3>1. Measured.start \in Time /\ Measured.end \in Time BY <2>1, TimeIsNat
    <3>2. Time \subseteq Int BY TimeIsNat
    <3> QED BY <3>1, <3>2
  <2> SUFFICES ASSUME NEW q \in Measured.start .. Measured.end, q > last_timestamp_lidar_
               PROVE  Matched(q, propagate_states_')
    BY <2>1
  <2>6. q \in Int BY <2>5
  <2>7. propagate_states_'[1] < q BY <1>1, <2>3, <2>4, <2>6, TimesAreInt
  <2> QED BY <2>3, <2>6, <2>7, Between
<1>2. LioInv => [Step => Found]_vars BY <1>1
<1> HIDE DEF Step, Found
<1>3. [][Step => Found]_vars <=> NewPointsMatched BY DEF NewPointsMatched, Step, Found
<1> QED BY <1>2, <1>3, LioInvariance, PTL
=============================================================================
