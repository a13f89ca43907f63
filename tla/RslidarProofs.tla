---------------------------- MODULE RslidarProofs ----------------------------
(***************************************************************************)
(* Proofs about the lidar process.  The node's clouds (RslidarNode), for   *)
(* any number of clouds, frames, signals and for queues of any size: a     *)
(* cloud object has one owner at a time, and the frames are published      *)
(* whole, once and in order, although the objects are recycled, lost when  *)
(* a queue is full, and a signal may stop the node between any two steps.  *)
(* The decoders (Decoder), for any azimuths, split angle, length of frame  *)
(* and any bounded loss and reordering: a cloud is a frame.  The process   *)
(* as a whole (MCRslidar) has what its parts have.                         *)
(***************************************************************************)
EXTENDS MCRslidar, LidarDriverProofs, SequenceTheorems, FiniteSetTheorems,
        WellFoundedInduction, TLAPS

FullClouds == point_cloud_queue_
FreeClouds == free_point_cloud_queue_
Sending == process.pc \in {"send", "free"}

CloudTypes ==
  /\ current_cloud_ \in Cloud \cup {NoCloud}
  /\ points \in [Cloud -> Nat] /\ point_cloud_seq_ \in Nat
  /\ FullClouds \in Seq(Cloud) /\ FreeClouds \in Seq(Cloud)
  /\ process \in [pc : {"none", "top", "wait", "send", "free"}, msg : Cloud \cup {NoCloud}]
  /\ splitting \in {"decode", "get"}
  /\ published \in Seq(Nat)

(* Nothing is there before init(), and a cloud from then on.               *)
Begun ==
  /\ main = "boot" => /\ driver_ptr_ = "none" /\ splitting = "decode"
                      /\ FullClouds = <<>> /\ FreeClouds = <<>> /\ process.pc = "none"
  /\ main # "boot" => current_cloud_ \in Cloud
  /\ Sending => process.msg \in Cloud

(* The owners, two by two.                                                 *)
AllDiffer(q) == \A i, j \in DOMAIN q : i # j => q[i] # q[j]

CloudOwners ==
  /\ AllDiffer(FullClouds) /\ AllDiffer(FreeClouds) /\ Apart(FullClouds, FreeClouds)
  /\ splitting = "decode" => Without(FullClouds, current_cloud_) /\ Without(FreeClouds, current_cloud_)
  /\ Sending => Without(FullClouds, process.msg) /\ Without(FreeClouds, process.msg)
  /\ Sending /\ splitting = "decode" => process.msg # current_cloud_

(* What was published, is being sent, waits and is being filled, in this   *)
(* order.                                                                  *)
Frames ==
  /\ \A i \in DOMAIN published : published[i] \in 1 .. point_cloud_seq_
  /\ \A i, j \in DOMAIN published : i < j => published[i] < published[j]
  /\ \A i \in DOMAIN FullClouds : points[FullClouds[i]] \in 1 .. point_cloud_seq_
  /\ \A i, j \in DOMAIN FullClouds : i < j => points[FullClouds[i]] < points[FullClouds[j]]
  /\ \A i \in DOMAIN published, j \in DOMAIN FullClouds : published[i] < points[FullClouds[j]]

Sent ==
  process.pc = "send" =>
    /\ points[process.msg] \in 1 .. point_cloud_seq_
    /\ \A i \in DOMAIN published : published[i] < points[process.msg]
    /\ \A j \in DOMAIN FullClouds : points[process.msg] < points[FullClouds[j]]

Filled ==
  splitting = "decode" /\ main # "boot" =>
    points[current_cloud_] \in {0, point_cloud_seq_ + 1}

NodeInv == CloudTypes /\ Begun /\ CloudOwners /\ Frames /\ Sent /\ Filled

-----------------------------------------------------------------------------
(* Generic facts of sequences.                                             *)
LEMMA TailOf ==
  ASSUME NEW S, NEW q \in Seq(S), q # <<>>
  PROVE  /\ Tail(q) \in Seq(S) /\ Head(q) = q[1] /\ 1 \in DOMAIN q /\ q[1] \in S
         /\ DOMAIN q \subseteq Nat /\ DOMAIN Tail(q) \subseteq Nat
         /\ \A i \in DOMAIN Tail(q) : /\ i + 1 \in DOMAIN q /\ Tail(q)[i] = q[i + 1]
                                      /\ i + 1 # 1 /\ 1 < i + 1
OBVIOUS

LEMMA AppendOf ==
  ASSUME NEW S, NEW q \in Seq(S), NEW x \in S
  PROVE  /\ Append(q, x) \in Seq(S) /\ DOMAIN q \subseteq DOMAIN Append(q, x)
         /\ Len(q) + 1 \in DOMAIN Append(q, x) /\ Len(q) + 1 \notin DOMAIN q
         /\ Len(q) \in Nat /\ DOMAIN Append(q, x) \subseteq Nat
         /\ \A i \in DOMAIN Append(q, x) : i \in DOMAIN q \/ i = Len(q) + 1
         /\ \A i \in DOMAIN q : Append(q, x)[i] = q[i] /\ i < Len(q) + 1
         /\ Append(q, x)[Len(q) + 1] = x
OBVIOUS

LEMMA ElementOf ==
  ASSUME NEW S, NEW q \in Seq(S), NEW i \in DOMAIN q
  PROVE  q[i] \in S
OBVIOUS

LEMMA EmptyDomain == DOMAIN <<>> = {}
OBVIOUS

LEMMA DistinctTail ==
  ASSUME NEW S, NEW q \in Seq(S), q # <<>>, AllDiffer(q)
  PROVE  /\ AllDiffer(Tail(q)) /\ Without(Tail(q), q[1])
         /\ \A c : Without(q, c) => Without(Tail(q), c)
<1>1. /\ DOMAIN q \subseteq Nat /\ DOMAIN Tail(q) \subseteq Nat /\ 1 \in DOMAIN q
      /\ \A i \in DOMAIN Tail(q) : i + 1 \in DOMAIN q /\ Tail(q)[i] = q[i + 1] /\ i + 1 # 1
  BY TailOf
<1>2. AllDiffer(Tail(q))
  <2> SUFFICES ASSUME NEW i \in DOMAIN Tail(q), NEW j \in DOMAIN Tail(q), i # j
               PROVE  Tail(q)[i] # Tail(q)[j]
    BY DEF AllDiffer
  <2>1. i + 1 # j + 1 BY <1>1
  <2> QED BY <1>1, <2>1 DEF AllDiffer
<1>3. Without(Tail(q), q[1]) BY <1>1 DEF AllDiffer, Without
<1>4. \A c : Without(q, c) => Without(Tail(q), c) BY <1>1 DEF Without
<1> QED BY <1>2, <1>3, <1>4

LEMMA DistinctAppend ==
  ASSUME NEW S, NEW q \in Seq(S), NEW x \in S, AllDiffer(q), Without(q, x)
  PROVE  /\ AllDiffer(Append(q, x))
         /\ \A c : Without(q, c) /\ c # x => Without(Append(q, x), c)
<1>1. /\ \A i \in DOMAIN Append(q, x) : i \in DOMAIN q \/ i = Len(q) + 1
      /\ \A i \in DOMAIN q : Append(q, x)[i] = q[i]
      /\ Append(q, x)[Len(q) + 1] = x
  BY AppendOf
<1>2. AllDiffer(Append(q, x))
  <2> SUFFICES ASSUME NEW i \in DOMAIN Append(q, x), NEW j \in DOMAIN Append(q, x), i # j
               PROVE  Append(q, x)[i] # Append(q, x)[j]
    BY DEF AllDiffer
  <2>1. CASE i \in DOMAIN q /\ j \in DOMAIN q BY <1>1, <2>1 DEF AllDiffer
  <2>2. CASE i \in DOMAIN q /\ j = Len(q) + 1 BY <1>1, <2>2 DEF Without
  <2>3. CASE i = Len(q) + 1 /\ j \in DOMAIN q BY <1>1, <2>3 DEF Without
  <2> QED BY <1>1, <2>1, <2>2, <2>3
<1>3. \A c : Without(q, c) /\ c # x => Without(Append(q, x), c) BY <1>1 DEF Without
<1> QED BY <1>2, <1>3

LEMMA ApartTail ==
  ASSUME NEW S, NEW q \in Seq(S), q # <<>>, NEW r
  PROVE  /\ Apart(q, r) => Apart(Tail(q), r) /\ Without(r, q[1])
         /\ Apart(r, q) => Apart(r, Tail(q)) /\ Without(r, q[1])
<1>1. /\ \A i \in DOMAIN Tail(q) : i + 1 \in DOMAIN q /\ Tail(q)[i] = q[i + 1]
      /\ 1 \in DOMAIN q
  BY TailOf
<1> QED BY <1>1 DEF Apart, Without

LEMMA ApartAppend ==
  ASSUME NEW S, NEW q \in Seq(S), NEW x \in S, NEW r, Without(r, x)
  PROVE  /\ Apart(q, r) => Apart(Append(q, x), r)
         /\ Apart(r, q) => Apart(r, Append(q, x))
<1>1. /\ \A i \in DOMAIN Append(q, x) : i \in DOMAIN q \/ i = Len(q) + 1
      /\ \A i \in DOMAIN q : Append(q, x)[i] = q[i]
      /\ Append(q, x)[Len(q) + 1] = x
  BY AppendOf
<1>2. ASSUME Apart(q, r), NEW i \in DOMAIN Append(q, x), NEW j \in DOMAIN r
      PROVE  Append(q, x)[i] # r[j]
  <2>1. CASE i \in DOMAIN q BY <1>1, <1>2, <2>1 DEF Apart
  <2>2. CASE i = Len(q) + 1 BY <1>1, <2>2 DEF Without
  <2> QED BY <1>1, <2>1, <2>2
<1>3. ASSUME Apart(r, q), NEW i \in DOMAIN r, NEW j \in DOMAIN Append(q, x)
      PROVE  r[i] # Append(q, x)[j]
  <2>1. CASE j \in DOMAIN q BY <1>1, <1>3, <2>1 DEF Apart
  <2>2. CASE j = Len(q) + 1 BY <1>1, <2>2 DEF Without
  <2> QED BY <1>1, <2>1, <2>2
<1> QED BY <1>2, <1>3 DEF Apart

-----------------------------------------------------------------------------
LEMMA NodeInitInv == NodeInit => NodeInv
<1> SUFFICES ASSUME NodeInit PROVE NodeInv OBVIOUS
<1> USE DEF NodeInit, FullClouds, FreeClouds, Sending
<1>1. CloudTypes BY DEF CloudTypes
<1>2. Begun BY DEF Begun
<1>3. CloudOwners BY EmptyDomain DEF CloudOwners, AllDiffer, Apart, Without
<1>4. Frames /\ Sent /\ Filled BY EmptyDomain DEF Frames, Sent, Filled
<1> QED BY <1>1, <1>2, <1>3, <1>4 DEF NodeInv

(* getPointCloud() returns a cloud that nobody else owns, without points.  *)
LEMMA GetFresh ==
  ASSUME NodeInv, GetPointCloud
  PROVE  /\ current_cloud_' \in Cloud
         /\ points' = [points EXCEPT ![current_cloud_'] = 0]
         /\ FreeClouds' \in Seq(Cloud) /\ AllDiffer(FreeClouds') /\ Apart(FullClouds, FreeClouds')
         /\ Without(FullClouds, current_cloud_') /\ Without(FreeClouds', current_cloud_')
         /\ Sending => process.msg # current_cloud_' /\ Without(FreeClouds', process.msg)
<1> USE DEF NodeInv, CloudTypes, CloudOwners
<1>1. CASE FreeClouds # <<>> /\ current_cloud_' = Head(FreeClouds) /\ FreeClouds' = Tail(FreeClouds)
           /\ points' = [points EXCEPT ![Head(FreeClouds)] = 0]
  <2>1. FreeClouds \in Seq(Cloud) /\ AllDiffer(FreeClouds) /\ Apart(FullClouds, FreeClouds) OBVIOUS
  <2>2. Head(FreeClouds) = FreeClouds[1] /\ 1 \in DOMAIN FreeClouds /\ FreeClouds[1] \in Cloud /\ Tail(FreeClouds) \in Seq(Cloud)
    BY <1>1, <2>1, TailOf
  <2>3. /\ AllDiffer(Tail(FreeClouds)) /\ Without(Tail(FreeClouds), FreeClouds[1])
        /\ \A c : Without(FreeClouds, c) => Without(Tail(FreeClouds), c)
    BY <1>1, <2>1, DistinctTail
  <2>4. Apart(FullClouds, Tail(FreeClouds)) /\ Without(FullClouds, FreeClouds[1]) BY <1>1, <2>1, ApartTail
  <2>5. Sending => process.msg # FreeClouds[1] /\ Without(Tail(FreeClouds), process.msg)
    BY <2>2, <2>3 DEF Without
  <2> QED BY <1>1, <2>2, <2>3, <2>4, <2>5
<1>2. CASE FreeClouds = <<>> /\ FreeClouds' = FreeClouds
           /\ \E c \in Cloud : NewCloud(c) /\ current_cloud_' = c /\ points' = [points EXCEPT ![c] = 0]
  <2>1. PICK c \in Cloud : NewCloud(c) /\ current_cloud_' = c /\ points' = [points EXCEPT ![c] = 0]
    BY <1>2
  <2>2. c \notin Range(FullClouds) /\ c \notin Range(FreeClouds) /\ c # process.msg
    BY <2>1 DEF NewCloud, ReferencedClouds, FullClouds, FreeClouds
  <2>3. Without(FullClouds, c) /\ Without(FreeClouds, c) BY <2>2 DEF Without, Range
  <2> QED BY <1>2, <2>1, <2>2, <2>3
<1> QED BY <1>1, <1>2 DEF GetPointCloud, FreeClouds

(* The points of a cloud that is neither queued nor being sent may change. *)
LEMMA OtherPoints ==
  ASSUME NodeInv, NEW c \in Cloud, NEW v \in Nat, points' = [points EXCEPT ![c] = v],
         Without(FullClouds, c), Sending => process.msg # c,
         UNCHANGED <<point_cloud_queue_, published, process, point_cloud_seq_>>
  PROVE  points' \in [Cloud -> Nat] /\ points'[c] = v /\ Frames' /\ Sent'
<1> USE DEF NodeInv, CloudTypes
<1>1. points' \in [Cloud -> Nat] /\ points'[c] = v OBVIOUS
<1>2. \A d \in Cloud : d # c => points'[d] = points[d] OBVIOUS
<1>3. ASSUME NEW i \in DOMAIN FullClouds PROVE points'[FullClouds[i]] = points[FullClouds[i]]
  <2>1. FullClouds \in Seq(Cloud) OBVIOUS
  <2>2. FullClouds[i] \in Cloud BY <2>1, ElementOf
  <2>3. FullClouds[i] # c BY DEF Without
  <2> QED BY <1>2, <2>2, <2>3
<1>4. Sending => points'[process.msg] = points[process.msg] BY <1>2 DEF Begun
<1>5. FullClouds' = FullClouds BY DEF FullClouds
<1>6. Frames' BY <1>3, <1>5 DEF Frames
<1>7. Sent' BY <1>3, <1>4, <1>5 DEF Sent, Sending
<1> QED BY <1>1, <1>6, <1>7

LEMMA MainInitInv == NodeInv /\ MainInit => NodeInv'
<1> SUFFICES ASSUME NodeInv, MainInit PROVE NodeInv' OBVIOUS
<1> DEFINE c == current_cloud_'
<1>1. GetPointCloud /\ main = "boot" /\ main' = "initialised"
  BY DEF MainInit
<1>2. /\ c \in Cloud /\ points' = [points EXCEPT ![c] = 0]
      /\ FreeClouds' \in Seq(Cloud) /\ AllDiffer(FreeClouds') /\ Apart(FullClouds, FreeClouds')
      /\ Without(FullClouds, c) /\ Without(FreeClouds', c)
  BY <1>1, GetFresh
<1>3. /\ FullClouds' = FullClouds /\ FullClouds = <<>> /\ splitting = "decode" /\ ~Sending
      /\ process' = [pc |-> "top", msg |-> NoCloud] /\ ~Sending'
  BY <1>1 DEF MainInit, NodeInv, Begun, FullClouds, Sending
<1>4. points' \in [Cloud -> Nat] BY <1>2 DEF NodeInv, CloudTypes
<1>5. UNCHANGED <<splitting, driver_ptr_, point_cloud_seq_, published>> BY DEF MainInit
<1>6. CloudTypes' BY <1>2, <1>3, <1>4, <1>5 DEF NodeInv, CloudTypes
<1>7. Begun' BY <1>1, <1>2, <1>3 DEF Begun
<1>8. CloudOwners' BY <1>2, <1>3, <1>5, EmptyDomain DEF CloudOwners, AllDiffer, Without, Apart
<1>9. Frames' BY <1>3, <1>5, EmptyDomain DEF NodeInv, Frames
<1>10. Sent' BY <1>3 DEF Sent, Sending
<1>11. Filled' BY <1>2, <1>5 DEF Filled, NodeInv, CloudTypes
<1> QED BY <1>6, <1>7, <1>8, <1>9, <1>10, <1>11 DEF NodeInv

LEMMA SplitGetInv == NodeInv /\ SplitGet => NodeInv'
<1> SUFFICES ASSUME NodeInv, SplitGet PROVE NodeInv' OBVIOUS
<1> DEFINE c == current_cloud_'
<1>1. GetPointCloud /\ splitting = "get" /\ splitting' = "decode" BY DEF SplitGet
<1>2. /\ c \in Cloud /\ points' = [points EXCEPT ![c] = 0]
      /\ FreeClouds' \in Seq(Cloud) /\ AllDiffer(FreeClouds') /\ Apart(FullClouds, FreeClouds')
      /\ Without(FullClouds, c) /\ Without(FreeClouds', c)
      /\ Sending => process.msg # c /\ Without(FreeClouds', process.msg)
  BY <1>1, GetFresh
<1>3. UNCHANGED <<main, driver_ptr_, point_cloud_seq_, point_cloud_queue_, process, published>>
  BY DEF SplitGet
<1>4. FullClouds' = FullClouds /\ (Sending' <=> Sending) BY <1>3 DEF FullClouds, Sending
<1>5. points' \in [Cloud -> Nat] /\ points'[c] = 0 /\ Frames' /\ Sent'
  BY <1>2, <1>3, OtherPoints
<1>6. CloudTypes' BY <1>1, <1>2, <1>3, <1>4, <1>5 DEF NodeInv, CloudTypes
<1>7. main # "boot" BY <1>1 DEF NodeInv, Begun
<1>8. Begun' BY <1>2, <1>3, <1>4, <1>7 DEF NodeInv, Begun
<1>9. CloudOwners' BY <1>2, <1>3, <1>4 DEF NodeInv, CloudOwners
<1>10. Filled' BY <1>3, <1>5 DEF Filled
<1> QED BY <1>5, <1>6, <1>8, <1>9, <1>10 DEF NodeInv

(* Points of a packet, and the points cleared by stop().                   *)
LEMMA CurrentPoints ==
  ASSUME NodeInv, splitting = "decode", main # "boot", main' # "boot",
         NEW v \in {0, point_cloud_seq_ + 1},
         points' = [points EXCEPT ![current_cloud_] = v],
         UNCHANGED <<splitting, current_cloud_, point_cloud_seq_, point_cloud_queue_,
                     free_point_cloud_queue_, process, published>>
  PROVE  NodeInv'
<1>1. current_cloud_ \in Cloud /\ v \in Nat BY DEF NodeInv, Begun, CloudTypes
<1>2. Without(FullClouds, current_cloud_) /\ (Sending => process.msg # current_cloud_)
  BY DEF NodeInv, CloudOwners
<1>3. /\ points' \in [Cloud -> Nat] /\ points'[current_cloud_] = v /\ Frames' /\ Sent'
  BY <1>1, <1>2, OtherPoints
<1>4. FullClouds' = FullClouds /\ FreeClouds' = FreeClouds /\ (Sending' <=> Sending) BY DEF FullClouds, FreeClouds, Sending
<1>5. CloudTypes' BY <1>3, <1>4 DEF NodeInv, CloudTypes
<1>6. Begun' BY <1>1, <1>4 DEF NodeInv, Begun
<1>7. CloudOwners' BY <1>4 DEF NodeInv, CloudOwners
<1>8. Filled' BY <1>3 DEF Filled
<1> QED BY <1>3, <1>5, <1>6, <1>7, <1>8 DEF NodeInv

LEMMA AddPointsInv == NodeInv /\ AddPoints => NodeInv'
<1> SUFFICES ASSUME NodeInv, AddPoints PROVE NodeInv' OBVIOUS
<1>1. main # "boot" /\ main' # "boot" BY DEF AddPoints, NodeInv, Begun
<1> QED BY <1>1, CurrentPoints DEF AddPoints

LEMMA StopDriverInv == NodeInv /\ StopDriver => NodeInv'
<1> SUFFICES ASSUME NodeInv, StopDriver PROVE NodeInv' OBVIOUS
<1>1. main # "boot" /\ main' # "boot" BY DEF StopDriver
<1>2. UNCHANGED <<splitting, current_cloud_, point_cloud_seq_, point_cloud_queue_,
                  free_point_cloud_queue_, process, published>>
  BY DEF StopDriver
<1>3. CASE driver_ptr_ = "started"
  <2>1. points' = [points EXCEPT ![current_cloud_] = 0] /\ splitting = "decode"
    BY <1>3 DEF StopDriver
  <2> QED BY <1>1, <1>2, <2>1, CurrentPoints
<1>4. CASE driver_ptr_ # "started"
  <2>1. points' = points BY <1>4 DEF StopDriver
  <2>2. FullClouds' = FullClouds /\ FreeClouds' = FreeClouds /\ (Sending' <=> Sending) BY <1>2 DEF FullClouds, FreeClouds, Sending
  <2>3. CloudTypes' /\ CloudOwners' /\ Frames' /\ Sent'
    BY <1>2, <2>1, <2>2 DEF NodeInv, CloudTypes, CloudOwners, Frames, Sent
  <2>4. Begun' /\ Filled' BY <1>1, <1>2, <2>1, <2>2 DEF NodeInv, Begun, Filled
  <2> QED BY <2>3, <2>4 DEF NodeInv
<1> QED BY <1>3, <1>4

(* splitFrame() queues the frame that follows all others, or loses it.     *)
LEMMA SplitPutInv == NodeInv /\ SplitPut => NodeInv'
<1> SUFFICES ASSUME NodeInv, SplitPut PROVE NodeInv' OBVIOUS
<1> DEFINE c == current_cloud_
<1>1. /\ main # "boot" /\ splitting = "decode" /\ splitting' = "get"
      /\ c \in Cloud /\ points[c] # 0 /\ point_cloud_seq_' = point_cloud_seq_ + 1
  BY DEF SplitPut, NodeInv, Begun
<1>2. UNCHANGED <<main, driver_ptr_, current_cloud_, points, free_point_cloud_queue_, process,
                  published>>
  BY DEF SplitPut
<1>3. FreeClouds' = FreeClouds /\ (Sending' <=> Sending) BY <1>2 DEF FreeClouds, Sending
<1>4. points[c] = point_cloud_seq_ + 1 BY <1>1 DEF NodeInv, Filled
<1>5. point_cloud_seq_ \in Nat /\ FullClouds \in Seq(Cloud) /\ points \in [Cloud -> Nat]
      /\ published \in Seq(Nat)
  BY DEF NodeInv, CloudTypes
<1>6. \A i \in DOMAIN published : published[i] \in 1 .. point_cloud_seq_'
                                  /\ published[i] < point_cloud_seq_ + 1
  BY <1>1, <1>5 DEF NodeInv, Frames
<1>7. \A i \in DOMAIN FullClouds : points[FullClouds[i]] \in 1 .. point_cloud_seq_'
                              /\ points[FullClouds[i]] < point_cloud_seq_ + 1
  BY <1>1, <1>5 DEF NodeInv, Frames
<1>8. process.pc = "send" => points[process.msg] \in 1 .. point_cloud_seq_'
                             /\ points[process.msg] < point_cloud_seq_ + 1
  BY <1>1, <1>5 DEF NodeInv, Sent
<1>9. Filled' BY <1>1 DEF Filled
<1>10. Begun' BY <1>1, <1>2, <1>3 DEF NodeInv, Begun
<1>11. CASE FullClouds' = Append(FullClouds, c)
  <2>1. /\ Append(FullClouds, c) \in Seq(Cloud)
        /\ \A i \in DOMAIN Append(FullClouds, c) : i \in DOMAIN FullClouds \/ i = Len(FullClouds) + 1
        /\ \A i \in DOMAIN FullClouds : Append(FullClouds, c)[i] = FullClouds[i] /\ i < Len(FullClouds) + 1
        /\ Append(FullClouds, c)[Len(FullClouds) + 1] = c
        /\ Len(FullClouds) \in Nat /\ DOMAIN Append(FullClouds, c) \subseteq Nat
    BY <1>1, <1>5, AppendOf
  <2>2. /\ AllDiffer(FullClouds) /\ Without(FullClouds, c) /\ Without(FreeClouds, c) /\ Apart(FullClouds, FreeClouds)
        /\ Sending => process.msg # c
    BY <1>1 DEF NodeInv, CloudOwners
  <2>3. /\ AllDiffer(Append(FullClouds, c))
        /\ \A d : Without(FullClouds, d) /\ d # c => Without(Append(FullClouds, c), d)
    BY <1>1, <1>5, <2>2, DistinctAppend
  <2>4. Apart(Append(FullClouds, c), FreeClouds) BY <1>1, <1>5, <2>2, ApartAppend
  <2>5. CloudOwners' BY <1>1, <1>2, <1>3, <1>11, <2>2, <2>3, <2>4 DEF NodeInv, CloudOwners
  <2>6. CloudTypes' BY <1>1, <1>2, <1>3, <1>5, <1>11, <2>1 DEF NodeInv, CloudTypes
  <2>7. ASSUME NEW i \in DOMAIN FullClouds' PROVE points'[FullClouds'[i]] \in 1 .. point_cloud_seq_'
    BY <1>1, <1>2, <1>4, <1>5, <1>7, <1>11, <2>1
  <2>8. ASSUME NEW i \in DOMAIN FullClouds', NEW j \in DOMAIN FullClouds', i < j
        PROVE  points'[FullClouds'[i]] < points'[FullClouds'[j]]
    <3>1. i \in DOMAIN FullClouds /\ FullClouds'[i] = FullClouds[i]
      <4>1. i # Len(FullClouds) + 1
        <5>1. CASE j \in DOMAIN FullClouds BY <5>1, <1>11, <2>1, <2>8
        <5>2. CASE j = Len(FullClouds) + 1 BY <5>2, <1>11, <2>1, <2>8
        <5> QED BY <1>11, <2>1, <5>1, <5>2
      <4> QED BY <1>11, <2>1, <4>1
    <3>2. CASE j \in DOMAIN FullClouds
      BY <1>2, <1>11, <2>1, <2>8, <3>1, <3>2 DEF NodeInv, Frames
    <3>3. CASE j = Len(FullClouds) + 1 BY <1>2, <1>4, <1>7, <1>11, <2>1, <3>1, <3>3
    <3> QED BY <1>11, <2>1, <3>2, <3>3
  <2>9. ASSUME NEW i \in DOMAIN published', NEW j \in DOMAIN FullClouds'
        PROVE  published'[i] < points'[FullClouds'[j]]
    <3>1. CASE j \in DOMAIN FullClouds BY <1>2, <1>11, <2>1, <3>1 DEF NodeInv, Frames
    <3>2. CASE j = Len(FullClouds) + 1 BY <1>2, <1>4, <1>6, <1>11, <2>1, <3>2
    <3> QED BY <1>11, <2>1, <3>1, <3>2
  <2>10. Frames'
    <3>1. \A i, j \in DOMAIN published' : i < j => published'[i] < published'[j]
      BY <1>2 DEF NodeInv, Frames
    <3> QED BY <1>2, <1>6, <2>7, <2>8, <2>9, <3>1 DEF Frames
  <2>11. Sent'
    <3> SUFFICES ASSUME process'.pc = "send"
                 PROVE  /\ points'[process'.msg] \in 1 .. point_cloud_seq_'
                        /\ \A i \in DOMAIN published' : published'[i] < points'[process'.msg]
                        /\ \A j \in DOMAIN FullClouds' : points'[process'.msg] < points'[FullClouds'[j]]
      BY DEF Sent
    <3>1. process.pc = "send" BY <1>2
    <3>2. ASSUME NEW j \in DOMAIN FullClouds' PROVE points'[process'.msg] < points'[FullClouds'[j]]
      <4>1. CASE j \in DOMAIN FullClouds BY <1>2, <1>11, <2>1, <3>1, <4>1 DEF NodeInv, Sent
      <4>2. CASE j = Len(FullClouds) + 1 BY <1>2, <1>4, <1>8, <1>11, <2>1, <3>1, <4>2
      <4> QED BY <1>11, <2>1, <4>1, <4>2
    <3>3. \A i \in DOMAIN published' : published'[i] < points'[process'.msg]
      BY <1>2, <3>1 DEF NodeInv, Sent
    <3> QED BY <1>2, <1>8, <3>1, <3>2, <3>3
  <2> QED BY <1>9, <1>10, <2>5, <2>6, <2>10, <2>11 DEF NodeInv
<1>12. CASE FullClouds' = FullClouds
  <2>1. CloudTypes' BY <1>1, <1>2, <1>3, <1>5, <1>12 DEF NodeInv, CloudTypes
  <2>2. CloudOwners' BY <1>1, <1>2, <1>3, <1>12 DEF NodeInv, CloudOwners
  <2>3. Frames' BY <1>2, <1>6, <1>7, <1>12 DEF NodeInv, Frames
  <2>4. Sent' BY <1>2, <1>8, <1>12 DEF NodeInv, Sent
  <2> QED BY <1>9, <1>10, <2>1, <2>2, <2>3, <2>4 DEF NodeInv
<1> QED BY <1>11, <1>12 DEF SplitPut, FullClouds

-----------------------------------------------------------------------------
(* The publishing thread takes the first frame that waits, ...             *)
LEMMA ProcessPopInv == NodeInv /\ ProcessPop => NodeInv'
<1> SUFFICES ASSUME NodeInv, ProcessPop PROVE NodeInv' OBVIOUS
<1>1. /\ process.pc = "wait" /\ FullClouds # <<>> /\ FullClouds' = Tail(FullClouds)
      /\ process' = [pc |-> "send", msg |-> Head(FullClouds)] /\ ~Sending /\ Sending'
  BY DEF ProcessPop, FullClouds, Sending
<1>2. UNCHANGED <<main, driver_ptr_, splitting, current_cloud_, points, point_cloud_seq_,
                  free_point_cloud_queue_, published>>
  BY DEF ProcessPop
<1>3. FreeClouds' = FreeClouds BY <1>2 DEF FreeClouds
<1>4. FullClouds \in Seq(Cloud) BY DEF NodeInv, CloudTypes
<1>5. /\ Tail(FullClouds) \in Seq(Cloud) /\ Head(FullClouds) = FullClouds[1] /\ 1 \in DOMAIN FullClouds
      /\ FullClouds[1] \in Cloud /\ DOMAIN FullClouds \subseteq Nat /\ DOMAIN Tail(FullClouds) \subseteq Nat
      /\ \A i \in DOMAIN Tail(FullClouds) : /\ i + 1 \in DOMAIN FullClouds /\ Tail(FullClouds)[i] = FullClouds[i + 1]
                                       /\ i + 1 # 1 /\ 1 < i + 1
  BY <1>1, <1>4, TailOf
<1>6. process'.pc = "send" /\ process'.msg = FullClouds[1] BY <1>1, <1>5
<1>7. AllDiffer(FullClouds) /\ Apart(FullClouds, FreeClouds) BY DEF NodeInv, CloudOwners
<1>8. /\ AllDiffer(Tail(FullClouds)) /\ Without(Tail(FullClouds), FullClouds[1])
      /\ \A c : Without(FullClouds, c) => Without(Tail(FullClouds), c)
  BY <1>1, <1>4, <1>7, DistinctTail
<1>9. Apart(Tail(FullClouds), FreeClouds) /\ Without(FreeClouds, FullClouds[1]) BY <1>1, <1>4, <1>7, ApartTail
<1>10. CloudTypes' BY <1>1, <1>2, <1>3, <1>5 DEF NodeInv, CloudTypes
<1>11. Begun'
  <2>1. main # "boot" BY <1>1 DEF NodeInv, Begun
  <2> QED BY <1>2, <1>5, <1>6, <2>1 DEF NodeInv, Begun
<1>12. CloudOwners'
  <2>1. splitting = "decode" => Without(FullClouds, current_cloud_) BY DEF NodeInv, CloudOwners
  <2>2. splitting = "decode" => FullClouds[1] # current_cloud_ BY <2>1, <1>5 DEF Without
  <2> QED BY <1>1, <1>2, <1>3, <1>6, <1>7, <1>8, <1>9, <2>1, <2>2 DEF NodeInv, CloudOwners
<1>13. ASSUME NEW i \in DOMAIN FullClouds'
       PROVE  /\ i + 1 \in DOMAIN FullClouds /\ FullClouds'[i] = FullClouds[i + 1] /\ 1 < i + 1
              /\ points'[FullClouds'[i]] = points[FullClouds[i + 1]] /\ i \in Nat
  BY <1>1, <1>2, <1>5
<1>14. Frames'
  <2>1. \A i \in DOMAIN FullClouds' : points'[FullClouds'[i]] \in 1 .. point_cloud_seq_'
    BY <1>2, <1>13 DEF NodeInv, Frames
  <2>2. ASSUME NEW i \in DOMAIN FullClouds', NEW j \in DOMAIN FullClouds', i < j
        PROVE  points'[FullClouds'[i]] < points'[FullClouds'[j]]
    <3>1. i + 1 < j + 1 BY <1>13, <2>2
    <3> QED BY <1>13, <3>1 DEF NodeInv, Frames
  <2>3. \A i \in DOMAIN published', j \in DOMAIN FullClouds' : published'[i] < points'[FullClouds'[j]]
    BY <1>2, <1>13 DEF NodeInv, Frames
  <2>4. /\ \A i \in DOMAIN published' : published'[i] \in 1 .. point_cloud_seq_'
        /\ \A i, j \in DOMAIN published' : i < j => published'[i] < published'[j]
    BY <1>2 DEF NodeInv, Frames
  <2> QED BY <2>1, <2>2, <2>3, <2>4 DEF Frames
<1>15. Sent'
  <2>1. points'[process'.msg] = points[FullClouds[1]] BY <1>2, <1>6
  <2>2. points[FullClouds[1]] \in 1 .. point_cloud_seq_ BY <1>5 DEF NodeInv, Frames
  <2>3. \A i \in DOMAIN published' : published'[i] < points[FullClouds[1]]
    BY <1>2, <1>5 DEF NodeInv, Frames
  <2>4. \A j \in DOMAIN FullClouds' : points[FullClouds[1]] < points'[FullClouds'[j]]
    BY <1>5, <1>13 DEF NodeInv, Frames
  <2> QED BY <1>2, <2>1, <2>2, <2>3, <2>4 DEF Sent
<1>16. Filled' BY <1>2 DEF NodeInv, Filled
<1> QED BY <1>10, <1>11, <1>12, <1>14, <1>15, <1>16 DEF NodeInv

(* ... publishes it ...                                                    *)
LEMMA ProcessSendInv == NodeInv /\ ProcessSend => NodeInv'
<1> SUFFICES ASSUME NodeInv, ProcessSend PROVE NodeInv' OBVIOUS
<1> DEFINE f == points[process.msg]
<1>1. /\ process.pc = "send" /\ process' = [process EXCEPT !.pc = "free"]
      /\ published' = Append(published, f)
  BY DEF ProcessSend
<1>2. UNCHANGED <<main, driver_ptr_, splitting, cloudVars, free_point_cloud_queue_>>
  BY DEF ProcessSend
<1>3. /\ process'.pc = "free" /\ process'.msg = process.msg /\ Sending /\ Sending'
      /\ FullClouds' = FullClouds /\ FreeClouds' = FreeClouds
  BY <1>1, <1>2 DEF Sending, FullClouds, FreeClouds, cloudVars, NodeInv, CloudTypes
<1>4. /\ f \in 1 .. point_cloud_seq_ /\ point_cloud_seq_ \in Nat
      /\ \A i \in DOMAIN published : published[i] < f
      /\ \A j \in DOMAIN FullClouds : f < points[FullClouds[j]]
  BY <1>1 DEF NodeInv, Sent, CloudTypes
<1>5. f \in Nat /\ published \in Seq(Nat) BY <1>4 DEF NodeInv, CloudTypes
<1>6. /\ Append(published, f) \in Seq(Nat)
      /\ \A i \in DOMAIN published' : i \in DOMAIN published \/ i = Len(published) + 1
      /\ \A i \in DOMAIN published : published'[i] = published[i] /\ i < Len(published) + 1
      /\ published'[Len(published) + 1] = f
      /\ Len(published) \in Nat /\ DOMAIN published' \subseteq Nat
  BY <1>1, <1>5, AppendOf
<1>7. CloudTypes' BY <1>1, <1>2, <1>3, <1>6 DEF NodeInv, CloudTypes, cloudVars
<1>8. Begun' BY <1>1, <1>2, <1>3 DEF NodeInv, Begun, cloudVars
<1>9. CloudOwners' BY <1>2, <1>3 DEF NodeInv, CloudOwners, cloudVars
<1>10. Frames'
  <2>1. ASSUME NEW i \in DOMAIN published' PROVE published'[i] \in 1 .. point_cloud_seq_'
    <3>1. CASE i \in DOMAIN published BY <1>2, <1>6, <3>1 DEF NodeInv, Frames, cloudVars
    <3>2. CASE i = Len(published) + 1 BY <1>2, <1>4, <1>6, <3>2 DEF cloudVars
    <3> QED BY <1>6, <3>1, <3>2
  <2>2. ASSUME NEW i \in DOMAIN published', NEW j \in DOMAIN published', i < j
        PROVE  published'[i] < published'[j]
    <3>1. i \in DOMAIN published
      <4>1. i # Len(published) + 1
        <5>1. CASE j \in DOMAIN published BY <5>1, <1>6, <2>2
        <5>2. CASE j = Len(published) + 1 BY <5>2, <1>6, <2>2
        <5> QED BY <1>6, <5>1, <5>2
      <4> QED BY <1>6, <4>1
    <3>2. CASE j \in DOMAIN published BY <1>6, <2>2, <3>1, <3>2 DEF NodeInv, Frames
    <3>3. CASE j = Len(published) + 1 BY <1>4, <1>6, <3>1, <3>3
    <3> QED BY <1>6, <3>2, <3>3
  <2>3. ASSUME NEW i \in DOMAIN published', NEW j \in DOMAIN FullClouds'
        PROVE  published'[i] < points'[FullClouds'[j]]
    <3>1. points'[FullClouds'[j]] = points[FullClouds[j]] /\ j \in DOMAIN FullClouds BY <1>2, <1>3 DEF cloudVars
    <3>2. CASE i \in DOMAIN published BY <1>6, <3>1, <3>2 DEF NodeInv, Frames
    <3>3. CASE i = Len(published) + 1 BY <1>4, <1>6, <3>1, <3>3
    <3> QED BY <1>6, <3>2, <3>3
  <2>4. /\ \A i \in DOMAIN FullClouds' : points'[FullClouds'[i]] \in 1 .. point_cloud_seq_'
        /\ \A i, j \in DOMAIN FullClouds' : i < j => points'[FullClouds'[i]] < points'[FullClouds'[j]]
    BY <1>2, <1>3 DEF NodeInv, Frames, cloudVars
  <2> QED BY <2>1, <2>2, <2>3, <2>4 DEF Frames
<1>11. Sent' BY <1>3 DEF Sent
<1>12. Filled' BY <1>2 DEF NodeInv, Filled, cloudVars
<1> QED BY <1>7, <1>8, <1>9, <1>10, <1>11, <1>12 DEF NodeInv

(* ... and only then gives the cloud back.                                 *)
LEMMA ProcessFreeInv == NodeInv /\ ProcessFree => NodeInv'
<1> SUFFICES ASSUME NodeInv, ProcessFree PROVE NodeInv' OBVIOUS
<1> DEFINE c == process.msg
<1>1. /\ process.pc = "free" /\ process' = [pc |-> "top", msg |-> NoCloud]
      /\ FreeClouds' \in {Append(FreeClouds, c), FreeClouds}
  BY DEF ProcessFree, FreeClouds
<1>2. UNCHANGED <<main, driver_ptr_, splitting, cloudVars, published>> BY DEF ProcessFree
<1>3. Sending /\ ~Sending' /\ FullClouds' = FullClouds /\ process'.pc = "top"
  BY <1>1, <1>2 DEF Sending, FullClouds, cloudVars
<1>4. c \in Cloud /\ FreeClouds \in Seq(Cloud) BY <1>3 DEF NodeInv, Begun, CloudTypes
<1>5. Without(FullClouds, c) /\ Without(FreeClouds, c) /\ Apart(FullClouds, FreeClouds) /\ AllDiffer(FreeClouds)
  BY <1>3 DEF NodeInv, CloudOwners
<1>6. Append(FreeClouds, c) \in Seq(Cloud) BY <1>4, AppendOf
<1>7. /\ AllDiffer(Append(FreeClouds, c))
      /\ \A d : Without(FreeClouds, d) /\ d # c => Without(Append(FreeClouds, c), d)
  BY <1>4, <1>5, DistinctAppend
<1>8. Apart(FullClouds, Append(FreeClouds, c)) BY <1>4, <1>5, ApartAppend
<1>9. FreeClouds' \in Seq(Cloud) /\ AllDiffer(FreeClouds') /\ Apart(FullClouds, FreeClouds')
  BY <1>1, <1>4, <1>5, <1>6, <1>7, <1>8
<1>10. splitting = "decode" => Without(FullClouds, current_cloud_) /\ Without(FreeClouds', current_cloud_)
  BY <1>1, <1>3, <1>7 DEF NodeInv, CloudOwners
<1>11. CloudTypes' BY <1>1, <1>2, <1>3, <1>9 DEF NodeInv, CloudTypes, cloudVars
<1>12. Begun'
  <2>1. main # "boot" BY <1>1 DEF NodeInv, Begun
  <2> QED BY <1>2, <1>3, <2>1 DEF NodeInv, Begun, cloudVars
<1>13. CloudOwners' BY <1>2, <1>3, <1>9, <1>10 DEF NodeInv, CloudOwners, cloudVars
<1>14. Frames' /\ Sent' /\ Filled'
  BY <1>2, <1>3 DEF NodeInv, Frames, Sent, Filled, cloudVars
<1> QED BY <1>11, <1>12, <1>13, <1>14 DEF NodeInv

(* Every other step moves main() or the publishing thread alone.           *)
LEMMA OthersInv ==
  ASSUME NodeInv, UNCHANGED <<splitting, cloudVars, free_point_cloud_queue_, published>>,
         process' = process \/ (~Sending /\ ~Sending' /\ process'.msg = process.msg
                                /\ process' \in [pc : {"none", "top", "wait"}, msg : Cloud \cup {NoCloud}]),
         \/ main' = "boot" /\ main = "boot" /\ UNCHANGED driver_ptr_ /\ process' = process
         \/ main' # "boot" /\ main # "boot"
  PROVE  NodeInv'
<1>1. FullClouds' = FullClouds /\ FreeClouds' = FreeClouds /\ (Sending' <=> Sending)
  BY DEF FullClouds, FreeClouds, Sending, cloudVars
<1>2. Sending' => process' = process OBVIOUS
<1>3. process.pc = "send" <=> process'.pc = "send" BY <1>1 DEF Sending
<1>4. CloudTypes' BY <1>1 DEF NodeInv, CloudTypes, cloudVars
<1>5. Begun' BY <1>1, <1>2 DEF NodeInv, Begun, cloudVars
<1>6. CloudOwners' BY <1>1, <1>2 DEF NodeInv, CloudOwners, cloudVars
<1>7. Frames' /\ Filled' BY <1>1 DEF NodeInv, Frames, Filled, cloudVars
<1>8. Sent' BY <1>1, <1>2, <1>3 DEF NodeInv, Sent, cloudVars, Sending
<1> QED BY <1>4, <1>5, <1>6, <1>7, <1>8 DEF NodeInv

LEMMA NodeNextInv == NodeInv /\ [NodeNext]_nodeVars => NodeInv'
<1> SUFFICES ASSUME NodeInv, [NodeNext]_nodeVars PROVE NodeInv' OBVIOUS
<1>1. CASE MainStart \/ MainWait \/ SpuriousWake
  <2>1. UNCHANGED <<splitting, cloudVars, free_point_cloud_queue_, published, process>>
        /\ main # "boot" /\ main' # "boot"
    BY <1>1 DEF MainStart, MainWait, SpuriousWake
  <2> QED BY <2>1, OthersInv
<1>2. CASE Join \/ JoinThrows
  <2>1. UNCHANGED <<splitting, cloudVars, free_point_cloud_queue_, published, process>>
        /\ main # "boot" /\ main' # "boot"
    BY <1>2 DEF Join, JoinThrows
  <2> QED BY <2>1, OthersInv
<1>3. CASE SigInt
  <2>1. UNCHANGED <<splitting, cloudVars, free_point_cloud_queue_, published, process, driver_ptr_>>
        /\ (main' = main \/ (main # "boot" /\ main' # "boot"))
    BY <1>3 DEF SigInt
  <2> QED BY <2>1, OthersInv
<1>4. CASE ProcessTop \/ ProcessTimeout
  <2>1. UNCHANGED <<splitting, cloudVars, free_point_cloud_queue_, published, main>>
        /\ process.pc \in {"top", "wait"}
    BY <1>4 DEF ProcessTop, ProcessTimeout
  <2>2. PICK pc \in {"none", "top", "wait"} : process' = [process EXCEPT !.pc = pc]
    BY <1>4 DEF ProcessTop, ProcessTimeout
  <2>3. /\ process' \in [pc : {"none", "top", "wait"}, msg : Cloud \cup {NoCloud}]
        /\ process'.msg = process.msg /\ process'.pc = pc
    BY <2>2 DEF NodeInv, CloudTypes
  <2>4. ~Sending /\ ~Sending' BY <2>1, <2>3 DEF Sending
  <2>5. main # "boot" BY <2>1 DEF NodeInv, Begun
  <2> QED BY <2>1, <2>3, <2>4, <2>5, OthersInv
<1>5. CASE UNCHANGED nodeVars
  <2>1. UNCHANGED <<splitting, cloudVars, free_point_cloud_queue_, published, main, process, driver_ptr_>>
    BY <1>5 DEF nodeVars
  <2> QED BY <2>1, OthersInv
<1>6. CASE MainInit \/ StopDriver \/ FillStep
  BY <1>6, MainInitInv, StopDriverInv, AddPointsInv, SplitPutInv, SplitGetInv DEF FillStep
<1>7. CASE ProcessPop \/ ProcessSend \/ ProcessFree
  BY <1>7, ProcessPopInv, ProcessSendInv, ProcessFreeInv
<1> QED BY <1>1, <1>2, <1>3, <1>4, <1>5, <1>6, <1>7 DEF NodeNext, MainStep, ProcessStep

(* The inductive invariant: who owns which cloud, and which frames wait    *)
(* where.                                                                  *)
THEOREM NodeInvariance == NodeSpec => []NodeInv
BY NodeInitInv, NodeNextInv, PTL DEF NodeSpec

(* Frames reach the topic whole, once and in the order they were split off *)
(* in, whatever the queues lose and whenever the node is stopped.          *)
THEOREM InOrder == NodeSpec => []PublishedInOrder
<1>1. ASSUME NodeInv PROVE PublishedInOrder
  <2>1. \A i \in DOMAIN published : published[i] # 0
    BY <1>1 DEF NodeInv, Frames, CloudTypes
  <2>2. 0 \notin Range(published) BY <2>1 DEF Range
  <2>3. \A i, j \in DOMAIN published : i < j => published[i] < published[j]
    BY <1>1 DEF NodeInv, Frames
  <2> QED BY <2>2, <2>3 DEF PublishedInOrder
<1> QED BY <1>1, NodeInvariance, PTL

-----------------------------------------------------------------------------
(* Sequences without a repetition that share no element, one after the     *)
(* other, are one without a repetition.                                    *)
LEMMA JoinedDistinct ==
  ASSUME NEW S, NEW q \in Seq(S), NEW r \in Seq(S), AllDiffer(q), AllDiffer(r), Apart(q, r)
  PROVE  /\ q \o r \in Seq(S) /\ AllDiffer(q \o r)
         /\ \A t : Apart(q, t) /\ Apart(r, t) => Apart(q \o r, t)
<1>1. /\ q \o r \in Seq(S) /\ Len(q) \in Nat /\ DOMAIN (q \o r) \subseteq Nat
      /\ \A k \in DOMAIN (q \o r) :
           \/ k \in DOMAIN q /\ (q \o r)[k] = q[k]
           \/ k - Len(q) \in DOMAIN r /\ (q \o r)[k] = r[k - Len(q)]
  OBVIOUS
<1>2. AllDiffer(q \o r)
  <2> SUFFICES ASSUME NEW i \in DOMAIN (q \o r), NEW j \in DOMAIN (q \o r), i # j
               PROVE  (q \o r)[i] # (q \o r)[j]
    BY DEF AllDiffer
  <2>1. i \in Nat /\ j \in Nat BY <1>1
  <2>2. i - Len(q) # j - Len(q) BY <1>1, <2>1
  <2>3. CASE i \in DOMAIN q /\ (q \o r)[i] = q[i]
    <3>1. CASE j \in DOMAIN q /\ (q \o r)[j] = q[j] BY <2>3, <3>1 DEF AllDiffer
    <3>2. CASE j - Len(q) \in DOMAIN r /\ (q \o r)[j] = r[j - Len(q)]
      BY <2>3, <3>2 DEF Apart
    <3> QED BY <1>1, <3>1, <3>2
  <2>4. CASE i - Len(q) \in DOMAIN r /\ (q \o r)[i] = r[i - Len(q)]
    <3>1. CASE j \in DOMAIN q /\ (q \o r)[j] = q[j] BY <2>4, <3>1 DEF Apart
    <3>2. CASE j - Len(q) \in DOMAIN r /\ (q \o r)[j] = r[j - Len(q)]
      BY <2>2, <2>4, <3>2 DEF AllDiffer
    <3> QED BY <1>1, <3>1, <3>2
  <2> QED BY <1>1, <2>3, <2>4
<1>3. ASSUME NEW t, Apart(q, t), Apart(r, t) PROVE Apart(q \o r, t)
  <2> SUFFICES ASSUME NEW k \in DOMAIN (q \o r), NEW j \in DOMAIN t PROVE (q \o r)[k] # t[j]
    BY DEF Apart
  <2> QED BY <1>1, <1>3 DEF Apart
<1> QED BY <1>1, <1>2, <1>3

LEMMA Single ==
  ASSUME NEW S, NEW x \in S
  PROVE  /\ <<x>> \in Seq(S) /\ AllDiffer(<<x>>)
         /\ \A q : Without(q, x) => Apart(<<x>>, q) /\ Apart(q, <<x>>)
<1>1. DOMAIN <<x>> = {1} /\ <<x>>[1] = x OBVIOUS
<1>2. AllDiffer(<<x>>) BY <1>1 DEF AllDiffer
<1>3. \A q : Without(q, x) => Apart(<<x>>, q) /\ Apart(q, <<x>>)
  BY <1>1 DEF Without, Apart
<1> QED BY <1>2, <1>3

LEMMA EmptySingle ==
  ASSUME NEW S
  PROVE  /\ <<>> \in Seq(S) /\ AllDiffer(<<>>)
         /\ \A q : Apart(<<>>, q) /\ Apart(q, <<>>)
BY EmptyDomain DEF AllDiffer, Apart

(* A cloud is never filled while it waits or is sent, and never queued or  *)
(* given back twice: at each moment it has one owner at most.              *)
THEOREM OneOwner == NodeSpec => []CloudExclusive
<1>1. ASSUME NodeInv PROVE CloudExclusive
  <2> DEFINE S == Cloud \cup {NoCloud}
             decoding == IF splitting = "decode" THEN <<current_cloud_>> ELSE <<>>
             sending == IF process.pc \in {"send", "free"} THEN <<process.msg>> ELSE <<>>
  <2>1. FullClouds \in Seq(S) /\ FreeClouds \in Seq(S)
    <3>1. FullClouds \in Seq(Cloud) /\ FreeClouds \in Seq(Cloud) BY <1>1 DEF NodeInv, CloudTypes
    <3> QED BY <3>1
  <2>2. current_cloud_ \in S /\ process.msg \in S BY <1>1 DEF NodeInv, CloudTypes
  <2>3. AllDiffer(FullClouds) /\ AllDiffer(FreeClouds) /\ Apart(FullClouds, FreeClouds) BY <1>1 DEF NodeInv, CloudOwners
  <2>4. /\ decoding \in Seq(S) /\ AllDiffer(decoding)
        /\ Apart(decoding, FullClouds) /\ Apart(decoding, FreeClouds)
    <3>1. CASE splitting = "decode"
      <4>1. Without(FullClouds, current_cloud_) /\ Without(FreeClouds, current_cloud_)
        BY <1>1, <3>1 DEF NodeInv, CloudOwners
      <4> QED BY <2>2, <3>1, <4>1, Single
    <3>2. CASE splitting # "decode" BY <3>2, EmptySingle
    <3> QED BY <3>1, <3>2
  <2>5. /\ sending \in Seq(S) /\ AllDiffer(sending)
        /\ Apart(FullClouds, sending) /\ Apart(sending, FreeClouds)
    <3>1. CASE Sending
      <4>1. Without(FullClouds, process.msg) /\ Without(FreeClouds, process.msg)
        BY <1>1, <3>1 DEF NodeInv, CloudOwners
      <4> QED BY <2>2, <3>1, <4>1, Single DEF Sending
    <3>2. CASE ~Sending BY <3>2, EmptySingle DEF Sending
    <3> QED BY <3>1, <3>2
  <2>6. Apart(decoding, sending)
    <3>1. CASE Sending /\ splitting = "decode"
      <4>1. process.msg # current_cloud_ BY <1>1, <3>1 DEF NodeInv, CloudOwners
      <4>2. DOMAIN <<process.msg>> = {1} /\ <<process.msg>>[1] = process.msg OBVIOUS
      <4>3. Without(<<process.msg>>, current_cloud_) BY <4>1, <4>2 DEF Without
      <4> QED BY <2>2, <3>1, <4>3, Single DEF Sending
    <3>2. CASE ~Sending BY <3>2, EmptySingle DEF Sending
    <3>3. CASE splitting # "decode" BY <3>3, EmptySingle
    <3> QED BY <3>1, <3>2, <3>3
  <2> HIDE DEF S, decoding, sending
  <2>7. /\ decoding \o FullClouds \in Seq(S) /\ AllDiffer(decoding \o FullClouds)
        /\ Apart(decoding \o FullClouds, sending) /\ Apart(decoding \o FullClouds, FreeClouds)
    BY <2>1, <2>3, <2>4, <2>5, <2>6, JoinedDistinct
  <2>8. /\ (decoding \o FullClouds) \o sending \in Seq(S) /\ AllDiffer((decoding \o FullClouds) \o sending)
        /\ Apart((decoding \o FullClouds) \o sending, FreeClouds)
    BY <2>5, <2>7, JoinedDistinct
  <2>9. AllDiffer(((decoding \o FullClouds) \o sending) \o FreeClouds)
    BY <2>1, <2>3, <2>8, JoinedDistinct
  <2> QED BY <2>9 DEF CloudExclusive, AllDiffer, decoding, sending, FullClouds, FreeClouds
<1> QED BY <1>1, NodeInvariance, PTL

-----------------------------------------------------------------------------
(* The node's types: a cloud's points are those of a frame that is counted *)
(* already or comes next, and neither queue holds more than it may.        *)
LEMMA NodeTypesInit == NodeInit => NodeTypeOK
<1> SUFFICES ASSUME NodeInit PROVE NodeTypeOK OBVIOUS
<1>1. 0 \in 0 .. MaxSignal /\ 0 \in 0 .. MaxSplit /\ 0 \in 0 .. MaxSplit + 1 /\ Limit \in Nat
  BY RslidarNodeAssumption
<1>2. points \in [Cloud -> 0 .. MaxSplit + 1] BY <1>1 DEF NodeInit
<1>3. \A S : <<>> \in Seq(S) /\ Len(<<>>) <= Limit BY <1>1
<1>4. process \in [pc : {"none", "top", "wait", "send", "free"}, msg : Cloud \cup {NoCloud}]
  BY DEF NodeInit
<1> QED BY <1>1, <1>2, <1>3, <1>4 DEF NodeInit, NodeTypeOK

(* getPointCloud() hands out a cloud, and empties it.                      *)
LEMMA GetTypes ==
  ASSUME NodeInv, NodeTypeOK, GetPointCloud
  PROVE  /\ current_cloud_' \in Cloud /\ points' \in [Cloud -> 0 .. MaxSplit + 1]
         /\ free_point_cloud_queue_' \in Seq(Cloud) /\ Len(free_point_cloud_queue_') <= Limit
<1>1. 0 \in 0 .. MaxSplit + 1 /\ Limit \in Nat BY RslidarNodeAssumption
<1>2. CASE free_point_cloud_queue_ # <<>>
  <2>1. Head(free_point_cloud_queue_) \in Cloud /\ Tail(free_point_cloud_queue_) \in Seq(Cloud)
        /\ Len(Tail(free_point_cloud_queue_)) <= Limit
    BY <1>1, <1>2 DEF NodeTypeOK
  <2> QED BY <1>1, <1>2, <2>1 DEF GetPointCloud, NodeTypeOK
<1>3. CASE free_point_cloud_queue_ = <<>>
  BY <1>1, <1>3 DEF GetPointCloud, NodeTypeOK
<1> QED BY <1>2, <1>3

(* No step of the node leaves the types.                                   *)
LEMMA NodeTypesNext ==
  ASSUME NodeInv, NodeTypeOK, [NodeNext]_nodeVars
  PROVE  NodeTypeOK'
<1>0. /\ Limit \in Nat \ {0} /\ MaxSplit \in Nat /\ MaxSignal \in Nat /\ point_cloud_seq_ \in 0 .. MaxSplit
      /\ points \in [Cloud -> 0 .. MaxSplit + 1] /\ point_cloud_queue_ \in Seq(Cloud)
      /\ free_point_cloud_queue_ \in Seq(Cloud) /\ published \in Seq(0 .. MaxSplit + 1)
      /\ process \in [pc : {"none", "top", "wait", "send", "free"}, msg : Cloud \cup {NoCloud}]
      /\ Len(point_cloud_queue_) <= Limit /\ Len(free_point_cloud_queue_) <= Limit
  BY RslidarNodeAssumption DEF NodeTypeOK
<1>1. driver_ptr_ = "started" => current_cloud_ \in Cloud
  BY DEF NodeInv, Begun
<1>2. process.pc \in {"send", "free"} => process.msg \in Cloud
  BY DEF NodeInv, Begun, Sending
<1>3. CASE MainInit BY <1>0, <1>3, GetTypes DEF MainInit, NodeTypeOK
<1>4. CASE MainStart \/ MainWait \/ Join \/ JoinThrows \/ SpuriousWake
  BY <1>0, <1>4 DEF MainStart, MainWait, Join, JoinThrows, SpuriousWake, NodeTypeOK, cloudVars
<1>5. CASE SigInt
  <2>1. signals' \in 0 .. MaxSignal BY <1>0, <1>5 DEF SigInt, NodeTypeOK
  <2>2. main' \in {main, "stopDriver"} BY <1>5 DEF SigInt
  <2>3. UNCHANGED <<driver_ptr_, splitting, cloudVars, free_point_cloud_queue_, process, joinable,
                    to_exit_process_, published>>
    BY <1>5 DEF SigInt
  <2> QED BY <2>1, <2>2, <2>3 DEF NodeTypeOK, cloudVars
<1>6. CASE StopDriver
  <2>1. points' \in [Cloud -> 0 .. MaxSplit + 1]
    <3>1. 0 \in 0 .. MaxSplit + 1 BY <1>0
    <3> QED BY <1>0, <1>6, <3>1 DEF StopDriver
  <2>2. main' \in {"join", "joinAgain"} /\ driver_ptr_' = "stopped" /\ to_exit_process_' = TRUE BY <1>6 DEF StopDriver
  <2>3. UNCHANGED <<signals, splitting, current_cloud_, point_cloud_seq_, point_cloud_queue_,
                    free_point_cloud_queue_, process, joinable, published>>
    BY <1>6 DEF StopDriver
  <2> QED BY <2>1, <2>2, <2>3 DEF NodeTypeOK
<1>7. CASE AddPoints
  <2>1. point_cloud_seq_ + 1 \in 0 .. MaxSplit + 1 BY <1>0
  <2>2. points' \in [Cloud -> 0 .. MaxSplit + 1] BY <1>0, <1>7, <2>1 DEF AddPoints
  <2> QED BY <1>7, <2>2 DEF AddPoints, NodeTypeOK
<1>8. CASE SplitPut
  <2>1. point_cloud_seq_' \in 0 .. MaxSplit BY <1>0, <1>8 DEF SplitPut
  <2>2. current_cloud_ \in Cloud BY <1>1, <1>8 DEF SplitPut
  <2>3. point_cloud_queue_' \in Seq(Cloud) /\ Len(point_cloud_queue_') <= Limit
    BY <1>0, <1>8, <2>2 DEF SplitPut
  <2>4. /\ splitting' = "get"
        /\ UNCHANGED <<main, signals, driver_ptr_, current_cloud_, points, free_point_cloud_queue_,
                       process, joinable, to_exit_process_, published>>
    BY <1>8 DEF SplitPut
  <2>5. splitting' \in {"decode", "get"} BY <2>4
  <2> QED BY <2>1, <2>3, <2>4, <2>5, Zenon DEF NodeTypeOK
<1>9. CASE SplitGet BY <1>0, <1>9, GetTypes DEF SplitGet, NodeTypeOK
<1>10. CASE ProcessTop \/ ProcessTimeout
  BY <1>0, <1>10 DEF ProcessTop, ProcessTimeout, NodeTypeOK, cloudVars
<1>11. CASE ProcessPop
  <2>1. Head(point_cloud_queue_) \in Cloud /\ Tail(point_cloud_queue_) \in Seq(Cloud)
        /\ Len(Tail(point_cloud_queue_)) <= Limit
    BY <1>0, <1>11 DEF ProcessPop
  <2> QED BY <1>11, <2>1 DEF ProcessPop, NodeTypeOK
<1>12. CASE ProcessSend
  <2>1. points[process.msg] \in 0 .. MaxSplit + 1 BY <1>0, <1>2, <1>12 DEF ProcessSend
  <2>2. published' \in Seq(0 .. MaxSplit + 1) BY <1>0, <1>12, <2>1 DEF ProcessSend
  <2>3. process' \in [pc : {"none", "top", "wait", "send", "free"}, msg : Cloud \cup {NoCloud}]
    BY <1>0, <1>12 DEF ProcessSend
  <2>4. UNCHANGED <<main, signals, driver_ptr_, splitting, current_cloud_, points, point_cloud_seq_,
                    point_cloud_queue_, free_point_cloud_queue_, joinable, to_exit_process_>>
    BY <1>12 DEF ProcessSend, cloudVars
  <2> QED BY <2>2, <2>3, <2>4 DEF NodeTypeOK
<1>13. CASE ProcessFree
  <2>1. free_point_cloud_queue_' \in Seq(Cloud) /\ Len(free_point_cloud_queue_') <= Limit
    BY <1>0, <1>2, <1>13 DEF ProcessFree
  <2> QED BY <1>13, <2>1 DEF ProcessFree, NodeTypeOK, cloudVars
<1>14. CASE UNCHANGED nodeVars BY <1>14 DEF nodeVars, cloudVars, NodeTypeOK
<1> QED
  BY <1>3, <1>4, <1>5, <1>6, <1>7, <1>8, <1>9, <1>10, <1>11, <1>12, <1>13, <1>14
     DEF NodeNext, MainStep, FillStep, ProcessStep

(* The types of the node's state, whatever stops it and whenever.          *)
THEOREM NodeTypeCorrect == NodeSpec => []NodeTypeOK
BY NodeTypesInit, NodeTypesNext, NodeInvariance, PTL DEF NodeSpec

-----------------------------------------------------------------------------
(* The lidar process does what each of its parts may do.                   *)

(* Its driver behaves as LidarDriver.                                      *)
THEOREM RslidarImplementsDriver == RslidarSpec => Spec
<1>1. RslidarInit => Init BY DEF RslidarInit
<1>2. [RslidarNext]_rslidarVars => [Next]_vars
  BY DEF RslidarNext, rslidarVars, driverVars
<1> QED BY <1>1, <1>2, PTL DEF RslidarSpec, Spec

(* Its node behaves as RslidarNode.                                        *)
THEOREM RslidarImplementsNode == RslidarSpec => NodeSpec
<1>1. RslidarInit => NodeInit BY DEF RslidarInit
<1>2. [RslidarNext]_rslidarVars => [NodeNext]_nodeVars
  BY DEF RslidarNext, rslidarVars
<1> QED BY <1>1, <1>2, PTL DEF RslidarSpec, NodeSpec

(* Its decoder behaves as Decoder.                                         *)
THEOREM RslidarImplementsDecoder == RslidarSpec => DecoderSpec
<1>1. RslidarInit => DecoderInit BY DEF RslidarInit
<1>2. [RslidarNext]_rslidarVars => [DecoderNext]_decoderVars
  BY DEF RslidarNext, rslidarVars
<1> QED BY <1>1, <1>2, PTL DEF RslidarSpec, DecoderSpec

-----------------------------------------------------------------------------
(* The decoder.  A decoding state is what Block() and MemsPacket() take and *)
(* give; o is the last frame handed on before its put, m the frame of what  *)
(* was decoded last.                                                        *)

AnyCloud == [size : Nat, first : Int, frames : SUBSET Int]
AnyPut == [cloud : AnyCloud, ts : Int]
AnyStrategy == [prev_angle_ : 0 .. Round - 1, blks_ : Nat, prev_seq_ : 0 .. FrameLen,
                max_seq_ : 0 .. FrameLen, looped_ : BOOLEAN]
Decodings == [strategy : AnyStrategy, cloud : AnyCloud, first : Int, put : Seq(AnyPut)]

LastFrame(o, h) == IF h = <<>> THEN o ELSE Latest(h[Len(h)].cloud)

(* The clouds handed on rise from o.  The one begun is of frame m, which has *)
(* not been handed on.                                                      *)
Rising(o, h) ==
  \A i \in DOMAIN h : Latest(h[i].cloud) > IF i = 1 THEN o ELSE Latest(h[i - 1].cloud)
Ordered(d, o, m) ==
  /\ Rising(o, d.put)
  /\ LastFrame(o, d.put) \in Int /\ LastFrame(o, d.put) <= m
  /\ d.cloud # NoPoints => /\ LastFrame(o, d.put) < m
                           /\ m \in d.cloud.frames /\ \A g \in d.cloud.frames : g <= m

OneFrame(c) == \A f, g \in c.frames : f = g
AllWhole(d) == OneFrame(d.cloud) /\ \A i \in DOMAIN d.put : OneFrame(d.put[i].cloud)

Stamped(d) ==
  /\ \A i \in DOMAIN d.put : d.put[i].ts \in {d.put[i].cloud.first, NoTime}
  /\ d.cloud # NoPoints => d.first \in {d.cloud.first, NoTime}

(* By angle: before the first block, and after one sent at p, of frame m.  *)
AngleKept(d, o, p, m, r) ==
  /\ Ordered(d, o, m) /\ LastFrame(o, d.put) < m
  /\ \/ p \in Nat /\ d.strategy.prev_angle_ = p % Round
     \/ d.strategy.prev_angle_ = split_angle_ /\ d.cloud = NoPoints /\ d.put = <<>> /\ o = -1
  /\ ~r => AllWhole(d) /\ Stamped(d) /\ (d.cloud = NoPoints => d.first = NoTime)

(* By number of blocks: no cloud holds more than some DIFOP packet allowed. *)
NumKept(d, r) ==
  /\ d.cloud.size <= d.strategy.blks_ + 1
  /\ \E n \in SplitBlks : d.strategy.blks_ < n
  /\ \A i \in DOMAIN d.put : \E n \in SplitBlks : d.put[i].cloud.size <= n
  /\ ~r => Stamped(d) /\ (d.cloud = NoPoints => d.first = NoTime)

(* A MEMS lidar's numbers: nothing has been received yet, or the number in  *)
(* prev_seq_ is that of a packet around the newest one, of the same frame.  *)
Around(now) == now - MaxLate .. now
NothingYet(d, o, now) ==
  /\ d.strategy.prev_seq_ = 0 /\ d.strategy.max_seq_ = 0 /\ ~d.strategy.looped_
  /\ d.cloud = NoPoints /\ d.first = NoTime /\ d.put = <<>> /\ o = -1
  /\ now \in -1 .. FrameLen - 2
PrevKnown(d, now) ==
  \E p \in Around(now) \cap Nat : p \div FrameLen = now \div FrameLen /\ d.strategy.prev_seq_ = Number(p)

(* The packets around the newest that may still come.                      *)
Missing(now, received) == Cardinality(Around(now) \ received)

(* An RSM2's cloud is never empty after the first packet, nor too large.    *)
NoneMissed(d, now, received) ==
  /\ d.cloud # NoPoints
  /\ d.cloud.size + Missing(now, received) <= Number(now) + MaxLate

(* An RSM1 that knows the highest number has handed on its cloud with it.   *)
HighestKnown(d, now) ==
  /\ d.strategy.prev_seq_ <= d.strategy.max_seq_
  /\ d.strategy.looped_ => Number(now) <= d.strategy.max_seq_
  /\ d.cloud = NoPoints => d.strategy.looped_ /\ Number(now) = d.strategy.max_seq_

UnderWay(l, d, o, now, received, r) ==
  /\ PrevKnown(d, now) /\ Ordered(d, o, now \div FrameLen)
  /\ l = "RSM2" => NoneMissed(d, now, received)
  /\ ~r => AllWhole(d) /\ Stamped(d)
  /\ l = "RSM1" => HighestKnown(d, now)
MemsKept(l, d, o, now, received, r) ==
  /\ received \subseteq Around(now)
  /\ l = "RSM2" \/ ~r => IF received = {} THEN NothingYet(d, o, now)
                        ELSE UnderWay(l, d, o, now, received, r)

Now == [strategy |-> strategy, cloud |-> cloud, first |-> first_point_ts_, put |-> put]

DecoderBasic ==
  /\ lidar \in {"RSBP", "byNum"} \cup Mems
  /\ {wait_for_difop, angles_ready_, rough} \subseteq BOOLEAN
  /\ split_blks_per_frame_ \in SplitBlks
  /\ Now \in Decodings /\ first_point_ts_ \in NoTime .. LastTime + BLOCKS_PER_PKT
  /\ cloud.size <= CLOUD_POINT_MAX + BLOCKS_PER_PKT
  /\ newest \in Int /\ newest >= -1 /\ recent \in SUBSET Int

DecoderInv ==
  /\ DecoderBasic
  /\ lidar = "RSBP" => AngleKept(Now, over, newest, Frame(newest), rough)
  /\ lidar = "byNum" => NumKept(Now, rough)
  /\ lidar \in Mems => MemsKept(lidar, Now, over, newest, recent, rough)

-----------------------------------------------------------------------------
(* Induction over the natural numbers, from the least element of a set.    *)
LEMMA LeastElement ==
  ASSUME NEW T \in SUBSET Nat, T # {}
  PROVE  \E x \in T : \A y \in T : x <= y
<1> DEFINE R == OpToRel(<, Nat)
<1>1. IsWellFoundedOn(R, Nat) BY NatLessThanWellFounded, Zenon
<1>2. \A y, x \in Nat : y < x => <<y, x>> \in R BY DEF OpToRel
<1> HIDE DEF R
<1>3. PICK x \in T : \A y \in T : <<y, x>> \notin R
  BY <1>1, WFMin
<1>4. \A y \in T : ~(y < x) BY <1>2, <1>3
<1>5. \A y \in T : x <= y BY <1>4
<1> QED BY <1>5

(* Induction over the naturals, for a set of them.                         *)
LEMMA NatByInduction ==
  ASSUME NEW A \in SUBSET Nat, 0 \in A, \A n \in Nat : n \in A => n + 1 \in A
  PROVE  A = Nat
<1> SUFFICES ASSUME Nat \ A # {} PROVE FALSE OBVIOUS
<1>1. PICK x \in Nat \ A : \A y \in Nat \ A : x <= y BY LeastElement
<1>2. x - 1 \in Nat BY <1>1
<1>3. x - 1 \in A BY <1>1, <1>2
<1>4. (x - 1) + 1 \in A BY <1>2, <1>3
<1> QED BY <1>1, <1>4

(* What holds of the state before the first block, and is handed from one  *)
(* block to the next, holds after the last: G[k] is the states that may be *)
(* reached with k blocks.                                                  *)
LEMMA BlocksReach ==
  ASSUME NEW times, NEW N \in Nat, Len(times) = N, NEW G, NEW d \in G[0],
         \A k \in 1 .. N : \A e \in G[k - 1] : Block(e, times[k]) \in G[k]
  PROVE  Blocks(d, times) \in G[N]
<1> DEFINE Def(f, n) == f = [k \in 0 .. n |-> IF k = 0 THEN d ELSE Block(f[k - 1], times[k])]
           Lies(f, n) == \A k \in 0 .. n : f[k] \in G[k]
           A == {n \in Nat : n <= N => \E f : Def(f, n) /\ Lies(f, n)}
<1>1. 0 \in A
  <2> DEFINE g == [k \in 0 .. 0 |-> d]
  <2>1. Def(g, 0) /\ Lies(g, 0) OBVIOUS
  <2> QED BY <2>1
<1>2. ASSUME NEW n \in Nat, n \in A PROVE n + 1 \in A
  <2> SUFFICES ASSUME n + 1 <= N PROVE \E f : Def(f, n + 1) /\ Lies(f, n + 1)
    OBVIOUS
  <2>1. PICK f : Def(f, n) /\ Lies(f, n) BY <1>2
  <2> DEFINE e == Block(f[n], times[n + 1])
             g == [k \in 0 .. n + 1 |-> IF k <= n THEN f[k] ELSE e]
  <2>2. f[n] \in G[n] BY <2>1
  <2>3. n + 1 \in 1 .. N /\ (n + 1) - 1 = n OBVIOUS
  <2>4. e \in G[n + 1] BY <2>2, <2>3
  <2> HIDE DEF e
  <2>5. Lies(g, n + 1)
    <3> SUFFICES ASSUME NEW k \in 0 .. n + 1 PROVE g[k] \in G[k] OBVIOUS
    <3>1. CASE k = n + 1 BY <3>1, <2>4
    <3>2. CASE k \in 0 .. n
      <4>1. g[k] = f[k] BY <3>2
      <4> QED BY <4>1, <3>2, <2>1
    <3> QED BY <3>1, <3>2
  <2>6. ASSUME NEW k \in 0 .. n + 1
        PROVE  g[k] = IF k = 0 THEN d ELSE Block(g[k - 1], times[k])
    <3>1. CASE k = n + 1
      <4>1. g[k] = e /\ g[k - 1] = f[n] /\ k # 0 BY <3>1
      <4> QED BY <4>1, <3>1 DEF e
    <3>2. CASE k \in 0 .. n
      <4>1. f[k] = IF k = 0 THEN d ELSE Block(f[k - 1], times[k]) BY <2>1, <3>2
      <4>2. g[k] = f[k] BY <3>2
      <4>3. k # 0 => g[k - 1] = f[k - 1] BY <3>2
      <4> QED BY <4>1, <4>2, <4>3
    <3> QED BY <3>1, <3>2
  <2>7. Def(g, n + 1) BY <2>6
  <2> QED BY <2>5, <2>7
<1>3. N \in A BY <1>1, <1>2, NatByInduction
<1> DEFINE h == CHOOSE f : Def(f, N)
<1>4. PICK f : Def(f, N) /\ Lies(f, N) BY <1>3
<1>5. Def(h, N) BY <1>4
<1>6. \A k \in 0 .. N : h[k] = IF k = 0 THEN d ELSE Block(h[k - 1], times[k])
  BY <1>5
<1> DEFINE B == {n \in Nat : n <= N => h[n] \in G[n]}
<1> HIDE DEF h
<1>7. 0 \in B BY <1>6
<1>8. ASSUME NEW n \in Nat, n \in B PROVE n + 1 \in B
  <2> SUFFICES ASSUME n + 1 <= N PROVE h[n + 1] \in G[n + 1] OBVIOUS
  <2>1. h[n] \in G[n] BY <1>8
  <2>2. n + 1 \in 1 .. N /\ (n + 1) - 1 = n /\ n + 1 \in 0 .. N /\ n + 1 # 0 OBVIOUS
  <2>3. h[n + 1] = Block(h[(n + 1) - 1], times[n + 1]) BY <1>6, <2>2
  <2> QED BY <2>1, <2>2, <2>3
<1>9. N \in B BY <1>7, <1>8, NatByInduction
<1>10. Blocks(d, times) = h[N] BY DEF Blocks, h
<1> QED BY <1>9, <1>10

-----------------------------------------------------------------------------
(* Division with remainder.                                                *)
LEMMA DivMod ==
  ASSUME NEW t \in Nat, NEW n \in Nat \ {0}
  PROVE  /\ t \div n \in Nat /\ t % n \in 0 .. n - 1
         /\ t = n * (t \div n) + (t % n)
<1>1. t \div n \in Nat BY SMT
<1>2. t % n \in 0 .. n - 1 BY SMT
<1>3. t = n * (t \div n) + (t % n) BY SMT
<1> QED BY <1>1, <1>2, <1>3

(* A quotient and remainder are one.                                       *)
SameNumber(n, a, r, b, s) == n * a + r = n * b + s

LEMMA OneQuotient ==
  ASSUME NEW n \in Nat \ {0}, NEW a \in Int, NEW b \in Int,
         NEW r \in 0 .. n - 1, NEW s \in 0 .. n - 1, SameNumber(n, a, r, b, s)
  PROVE  a = b /\ r = s
<1>0. n * a + r = n * b + s BY DEF SameNumber
<1>1. ASSUME NEW x \in Int, NEW y \in Int, x < y PROVE n * x + n <= n * y
  <2>1. PICK k \in Nat : y = x + 1 + k BY <1>1, y - (x + 1) \in Nat
  <2>2. n * k \in Nat OBVIOUS
  <2>3. n * y = n * x + n + n * k BY <2>1
  <2> QED BY <2>2, <2>3
<1>2. n * a \in Int /\ n * b \in Int OBVIOUS
<1>3. ~(a < b)
  <2> SUFFICES ASSUME a < b PROVE FALSE OBVIOUS
  <2>1. n * a + n <= n * b BY <1>1
  <2> QED BY <1>0, <1>2, <2>1
<1>4. ~(b < a)
  <2> SUFFICES ASSUME b < a PROVE FALSE OBVIOUS
  <2>1. n * b + n <= n * a BY <1>1
  <2> QED BY <1>0, <1>2, <2>1
<1>5. a = b BY <1>3, <1>4
<1> QED BY <1>0, <1>2, <1>5

(* g later, within n: in the same n or in the next.                        *)
LEMMA StepOn ==
  ASSUME NEW n \in Nat \ {0}, NEW p \in Nat, NEW g \in 0 .. n - 1
  PROVE  IF (p % n) + g < n THEN (p + g) \div n = p \div n /\ (p + g) % n = (p % n) + g
         ELSE (p + g) \div n = (p \div n) + 1 /\ (p + g) % n = (p % n) + g - n
<1> DEFINE q == p \div n
           r == p % n
           q1 == (p + g) \div n
           r1 == (p + g) % n
<1>1. q \in Nat /\ r \in 0 .. n - 1 /\ p = n * q + r BY DivMod
<1>2. q1 \in Nat /\ r1 \in 0 .. n - 1 /\ p + g = n * q1 + r1
  <2>1. p + g \in Nat OBVIOUS
  <2> HIDE DEF q, r
  <2> QED BY <2>1, DivMod
<1> HIDE DEF q, r, q1, r1
<1>3. n * q \in Int /\ n * q1 \in Int BY <1>1, <1>2
<1>4. q \in Int /\ q1 \in Int /\ r1 \in 0 .. n - 1 BY <1>1, <1>2
<1>5. ASSUME r + g < n PROVE q1 = q /\ r1 = r + g
  <2>1. r + g \in 0 .. n - 1 BY <1>1, <1>5
  <2>2. n * q1 + r1 = n * q + (r + g) BY <1>1, <1>2, <1>3
  <2> DEFINE s == r + g
  <2>3. s \in 0 .. n - 1 /\ SameNumber(n, q1, r1, q, s) BY <2>1, <2>2 DEF SameNumber
  <2> HIDE DEF s
  <2>4. q1 = q /\ r1 = s BY <1>4, <2>3, OneQuotient
  <2> QED BY <2>4 DEF s
<1>6. ASSUME ~(r + g < n) PROVE q1 = q + 1 /\ r1 = r + g - n
  <2>1. r + g - n \in 0 .. n - 1 /\ q + 1 \in Int BY <1>1, <1>6
  <2>2. n * (q + 1) = n * q + n BY <1>1
  <2>3. n * q1 + r1 = n * (q + 1) + (r + g - n) BY <1>1, <1>2, <1>3, <2>2
  <2> DEFINE b == q + 1
             s == r + g - n
  <2>4. b \in Int /\ s \in 0 .. n - 1 BY <2>1
  <2>5. SameNumber(n, q1, r1, b, s) BY <2>3 DEF SameNumber
  <2> HIDE DEF b, s
  <2>6. q1 = b /\ r1 = s BY <1>4, <2>4, <2>5, OneQuotient
  <2> QED BY <2>6 DEF b, s
<1>7. IF r + g < n THEN q1 = q /\ r1 = r + g ELSE q1 = q + 1 /\ r1 = r + g - n
  BY <1>5, <1>6
<1> QED BY <1>7 DEF q, r, q1, r1

-----------------------------------------------------------------------------
(* What BeginFrame() does, with and without a split.                       *)
HandedOn(d) == IF d.cloud = NoPoints THEN d.put
               ELSE Append(d.put, [cloud |-> d.cloud, ts |-> d.first])
Opened(d, s, t) == [strategy |-> s, cloud |-> Added(NoPoints, t), first |-> t,
                    put |-> HandedOn(d)]
Continued(d, s, t) == [strategy |-> s, cloud |-> Added(d.cloud, t), first |-> d.first,
                       put |-> d.put]

(* BeginFrame, by whether the frame is split.                              *)
LEMMA BeginFrameIs ==
  ASSUME NEW d \in Decodings, NEW n, NEW t
  PROVE  BeginFrame(d, n, t) = IF n.split THEN Opened(d, n.next, t) ELSE Continued(d, n.next, t)
<1> DEFINE st == d.strategy
           cl == d.cloud
           fi == d.first
           pu == d.put
           nx == n.next
           s == [d EXCEPT !.strategy = n.next]
           k == [strategy |-> nx, cloud |-> cl, first |-> fi, put |-> pu]
           sp == SplitFrame(k)
           h == HandedOn(d)
<1>1. d = [strategy |-> st, cloud |-> cl, first |-> fi, put |-> pu] BY DEF Decodings
<1> HIDE DEF st, cl, fi, pu
<1>2. s = k BY <1>1
<1>3. d.strategy = st /\ d.cloud = cl /\ d.first = fi /\ d.put = pu BY <1>1
<1>4. sp = [strategy |-> nx, cloud |-> NoPoints, first |-> fi, put |-> h]
  <2>1. CASE cl = NoPoints
    <3>1. sp = k /\ h = pu BY <1>3, <2>1 DEF SplitFrame, HandedOn
    <3> QED BY <2>1, <3>1
  <2>2. CASE cl # NoPoints
    <3> DEFINE a == Append(pu, [cloud |-> cl, ts |-> fi])
    <3>1. h = a BY <1>3, <2>2 DEF HandedOn
    <3>2. k.cloud = cl /\ k.first = fi /\ k.put = pu OBVIOUS
    <3>3. sp = [k EXCEPT !.put = a, !.cloud = NoPoints] BY <2>2, <3>2 DEF SplitFrame
    <3> HIDE DEF a, h, sp
    <3> QED BY <3>1, <3>3
  <2> QED BY <2>1, <2>2
<1> DEFINE b == BeginFrame(d, n, t)
<1>5. b = [(IF n.split THEN [sp EXCEPT !.first = t] ELSE k) EXCEPT !.cloud = Added(@, t)]
  BY <1>2 DEF BeginFrame
<1> HIDE DEF s, sp, b, h
<1>6. CASE n.split
  <2>1. b = [[sp EXCEPT !.first = t] EXCEPT !.cloud = Added(@, t)] BY <1>5, <1>6
  <2>2. [sp EXCEPT !.first = t] = [strategy |-> nx, cloud |-> NoPoints, first |-> t, put |-> h]
    BY <1>4
  <2>3. b = [strategy |-> nx, cloud |-> Added(NoPoints, t), first |-> t, put |-> h]
    BY <2>1, <2>2
  <2> QED BY <1>6, <2>3 DEF b, Opened, h
<1>7. CASE ~n.split
  <2>1. b = [k EXCEPT !.cloud = Added(@, t)] BY <1>5, <1>7
  <2>2. b = [strategy |-> nx, cloud |-> Added(cl, t), first |-> fi, put |-> pu] BY <2>1
  <2> QED BY <1>3, <1>7, <2>2 DEF b, Continued
<1> QED BY <1>6, <1>7 DEF b

(* The frame of a time, and a cloud with more points.                      *)
LEMMA FrameTyped ==
  ASSUME NEW t \in Nat
  PROVE  Frame(t) \in Nat
<1>1. CASE lidar \in Mems
  <2>1. FrameLen \in Nat \ {0} BY DecoderAssumption
  <2> QED BY <1>1, <2>1, DivMod DEF Frame
<1>2. CASE lidar \notin Mems
  <2> DEFINE x == t + Round - split_angle_
  <2>1. Round \in Nat \ {0} /\ x \in Nat BY DecoderAssumption
  <2>2. Frame(t) = x \div Round BY <1>2 DEF Frame
  <2> HIDE DEF x
  <2> QED BY <2>1, <2>2, DivMod
<1> QED BY <1>1, <1>2

(* The empty cloud is a cloud.                                             *)
LEMMA NoPointsTyped == NoPoints \in AnyCloud /\ NoPoints.size = 0 /\ NoPoints.frames = {}
BY DEF NoPoints, NoTime, AnyCloud

(* A cloud with a block or packet added to it.                             *)
LEMMA AddedCloud ==
  ASSUME NEW c \in AnyCloud, NEW t \in Nat
  PROVE  /\ Added(c, t) \in AnyCloud /\ Added(c, t) # NoPoints
         /\ Added(c, t).size = c.size + 1 /\ Added(c, t).frames = c.frames \cup {Frame(t)}
         /\ Added(c, t).first = IF c = NoPoints THEN t ELSE c.first
<1> DEFINE z == c.size + 1
           f == IF c = NoPoints THEN t ELSE c.first
           g == c.frames \cup {Frame(t)}
<1>1. z \in Nat /\ z # 0 /\ f \in Int BY DEF AnyCloud
<1>2. g \in SUBSET Int BY FrameTyped DEF AnyCloud
<1>3. Added(c, t) = [size |-> z, first |-> f, frames |-> g] BY DEF Added
<1> HIDE DEF z, f, g
<1>4. Added(c, t).size = z /\ Added(c, t).first = f /\ Added(c, t).frames = g BY <1>3
<1>5. Added(c, t) \in AnyCloud BY <1>1, <1>2, <1>3 DEF AnyCloud
<1>6. Added(c, t) # NoPoints BY <1>1, <1>4, NoPointsTyped
<1> QED BY <1>4, <1>5, <1>6 DEF z, f, g

(* What is handed on are clouds with their stamps.                         *)
LEMMA HandedOnTyped ==
  ASSUME NEW d \in Decodings
  PROVE  HandedOn(d) \in Seq(AnyPut)
<1>1. d.cloud \in AnyCloud /\ d.first \in Int /\ d.put \in Seq(AnyPut) BY DEF Decodings
<1>2. [cloud |-> d.cloud, ts |-> d.first] \in AnyPut BY <1>1 DEF AnyPut
<1> QED BY <1>1, <1>2 DEF HandedOn

(* The decoding state after a split, and its cloud.                        *)
LEMMA OpenedTyped ==
  ASSUME NEW d \in Decodings, NEW s \in AnyStrategy, NEW t \in Nat
  PROVE  Opened(d, s, t) \in Decodings /\ Opened(d, s, t).cloud.size = 1
<1>1. Added(NoPoints, t) \in AnyCloud /\ Added(NoPoints, t).size = 1
  BY AddedCloud, NoPointsTyped
<1>2. HandedOn(d) \in Seq(AnyPut) BY HandedOnTyped
<1>3. t \in Int OBVIOUS
<1> QED BY <1>1, <1>2, <1>3 DEF Opened, Decodings

(* The decoding state without a split, and its cloud.                      *)
LEMMA ContinuedTyped ==
  ASSUME NEW d \in Decodings, NEW s \in AnyStrategy, NEW t \in Nat
  PROVE  Continued(d, s, t) \in Decodings /\ Continued(d, s, t).cloud.size = d.cloud.size + 1
<1>1. d.cloud \in AnyCloud /\ d.first \in Int /\ d.put \in Seq(AnyPut) BY DEF Decodings
<1>2. Added(d.cloud, t) \in AnyCloud /\ Added(d.cloud, t).size = d.cloud.size + 1
  BY <1>1, AddedCloud
<1> QED BY <1>1, <1>2 DEF Continued, Decodings

(* The latest frame of a cloud is the one none is later than.              *)
LEMMA LatestIs ==
  ASSUME NEW c, c.frames \subseteq Int, NEW m \in c.frames, \A g \in c.frames : g <= m
  PROVE  Latest(c) = m
<1>1. \E f \in c.frames : \A g \in c.frames : g <= f OBVIOUS
<1>2. Latest(c) \in c.frames /\ \A g \in c.frames : g <= Latest(c) BY <1>1 DEF Latest
<1>3. Latest(c) <= m /\ m <= Latest(c) /\ Latest(c) \in Int /\ m \in Int BY <1>2
<1> QED BY <1>3

(* A cloud handed on is later than those before it.                        *)
LEMMA HandedOnOrdered ==
  ASSUME NEW d \in Decodings, NEW o, NEW m \in Int, Ordered(d, o, m)
  PROVE  /\ Rising(o, HandedOn(d)) /\ LastFrame(o, HandedOn(d)) \in Int
         /\ LastFrame(o, HandedOn(d)) = IF d.cloud = NoPoints THEN LastFrame(o, d.put) ELSE m
<1>1. CASE d.cloud = NoPoints BY <1>1 DEF Ordered, HandedOn
<1>2. CASE d.cloud # NoPoints
  <2> DEFINE e == [cloud |-> d.cloud, ts |-> d.first]
             h == d.put
             g == Append(h, e)
             N == Len(h)
  <2>1. HandedOn(d) = g BY <1>2 DEF HandedOn
  <2>2. e \in AnyPut /\ h \in Seq(AnyPut) /\ e.cloud = d.cloud
    BY DEF Decodings, AnyPut
  <2>3. Latest(d.cloud) = m
    <3>1. d.cloud.frames \subseteq Int BY DEF Decodings, AnyCloud
    <3> QED BY <1>2, <3>1, LatestIs DEF Ordered
  <2>4. Rising(o, h) /\ LastFrame(o, h) < m /\ LastFrame(o, h) \in Int BY <1>2 DEF Ordered
  <2> HIDE DEF e
  <2>5. /\ N \in Nat /\ Len(g) = N + 1 /\ g[N + 1] = e /\ DOMAIN g = 1 .. N + 1
        /\ DOMAIN h = 1 .. N /\ \A i \in 1 .. N : g[i] = h[i]
    BY <2>2
  <2>6. h = <<>> <=> N = 0 BY <2>2
  <2> HIDE DEF h, g, N
  <2>7. g # <<>>
    <3>1. N + 1 \in DOMAIN g BY <2>5
    <3> QED BY <3>1, EmptyDomain
  <2>8. LastFrame(o, g) = m BY <2>2, <2>3, <2>5, <2>7 DEF LastFrame
  <2>9. ASSUME NEW i \in DOMAIN g
        PROVE  Latest(g[i].cloud) > IF i = 1 THEN o ELSE Latest(g[i - 1].cloud)
    <3>1. CASE i \in 1 .. N
      <4>1. g[i] = h[i] /\ (i # 1 => g[i - 1] = h[i - 1]) BY <2>5, <3>1
      <4>2. Latest(h[i].cloud) > IF i = 1 THEN o ELSE Latest(h[i - 1].cloud)
        BY <2>4, <2>5, <3>1 DEF Rising
      <4> QED BY <4>1, <4>2
    <3>2. CASE i = N + 1
      <4>1. Latest(g[i].cloud) = m BY <2>2, <2>3, <2>5, <3>2
      <4>2. CASE N = 0
        <5>1. LastFrame(o, h) = o BY <2>6, <4>2 DEF LastFrame
        <5> QED BY <2>4, <3>2, <4>1, <4>2, <5>1
      <4>3. CASE N # 0
        <5>1. LastFrame(o, h) = Latest(h[N].cloud) BY <2>6, <4>3, N = Len(h) DEF LastFrame, N
        <5>2. g[i - 1] = h[N] /\ i # 1 BY <2>5, <3>2, <4>3
        <5> QED BY <2>4, <4>1, <5>1, <5>2
      <4> QED BY <4>2, <4>3
    <3> QED BY <2>5, <3>1, <3>2
  <2>10. Rising(o, g) BY <2>9 DEF Rising
  <2> QED BY <1>2, <2>1, <2>8, <2>10
<1> QED BY <1>1, <1>2

(* A cloud handed on was handed on before, or is the one begun.            *)
LEMMA HandedOnElement ==
  ASSUME NEW d \in Decodings, NEW i \in DOMAIN HandedOn(d)
  PROVE  \/ i \in DOMAIN d.put /\ HandedOn(d)[i] = d.put[i]
         \/ d.cloud # NoPoints /\ HandedOn(d)[i].cloud = d.cloud /\ HandedOn(d)[i].ts = d.first
<1> DEFINE e == [cloud |-> d.cloud, ts |-> d.first]
<1>1. e.cloud = d.cloud /\ e.ts = d.first OBVIOUS
<1>2. e \in AnyPut /\ d.put \in Seq(AnyPut) BY DEF Decodings, AnyPut
<1> HIDE DEF e
<1>3. CASE d.cloud = NoPoints BY <1>3 DEF HandedOn
<1>4. CASE d.cloud # NoPoints
  <2>1. HandedOn(d) = Append(d.put, e) BY <1>4 DEF HandedOn, e
  <2>2. (i \in DOMAIN d.put /\ HandedOn(d)[i] = d.put[i]) \/ HandedOn(d)[i] = e BY <1>2, <2>1
  <2> QED BY <1>1, <1>4, <2>2
<1> QED BY <1>3, <1>4

(* A cloud is begun with a frame later than all before it.                 *)
LEMMA OpenedOrdered ==
  ASSUME NEW d \in Decodings, NEW o, NEW m \in Int, Ordered(d, o, m), NEW s, NEW t \in Nat,
         m < Frame(t)
  PROVE  /\ Ordered(Opened(d, s, t), o, Frame(t))
         /\ LastFrame(o, Opened(d, s, t).put) < Frame(t)
<1> DEFINE b == Opened(d, s, t)
           h == HandedOn(d)
<1>1. b.put = h /\ b.cloud = Added(NoPoints, t) BY DEF Opened
<1>2. Rising(o, h) /\ LastFrame(o, h) \in Int /\ LastFrame(o, h) <= m
  BY HandedOnOrdered DEF Ordered
<1>3. b.cloud.frames = {Frame(t)} BY <1>1, AddedCloud, NoPointsTyped
<1>4. Frame(t) \in Int BY FrameTyped
<1> HIDE DEF b, h
<1>5. LastFrame(o, h) < Frame(t) BY <1>2, <1>4
<1>6. \A g \in b.cloud.frames : g <= Frame(t) BY <1>3, <1>4
<1> QED BY <1>1, <1>2, <1>3, <1>4, <1>5, <1>6 DEF Ordered, b

(* And goes on with what belongs to it, or comes late.                     *)
LEMMA ContinuedOrdered ==
  ASSUME NEW d \in Decodings, NEW o, NEW m \in Int, Ordered(d, o, m), NEW s, NEW t \in Nat,
         Frame(t) <= m, d.cloud = NoPoints => Frame(t) = m /\ LastFrame(o, d.put) < m
  PROVE  /\ Ordered(Continued(d, s, t), o, m)
         /\ LastFrame(o, Continued(d, s, t).put) < m
<1> DEFINE b == Continued(d, s, t)
<1>0. d.cloud \in AnyCloud BY DEF Decodings
<1>1. b.put = d.put /\ b.cloud = Added(d.cloud, t) BY DEF Continued
<1>2. b.cloud.frames = d.cloud.frames \cup {Frame(t)} BY <1>0, <1>1, AddedCloud
<1>3. Frame(t) \in Int /\ d.cloud.frames \subseteq Int BY <1>0, FrameTyped DEF AnyCloud
<1> HIDE DEF b
<1>4. CASE d.cloud = NoPoints
  <2>1. b.cloud.frames = {m} BY <1>2, <1>4, NoPointsTyped
  <2>2. \A g \in b.cloud.frames : g <= m BY <2>1
  <2> QED BY <1>1, <1>4, <2>1, <2>2 DEF Ordered, b
<1>5. CASE d.cloud # NoPoints
  <2>1. m \in d.cloud.frames /\ \A g \in d.cloud.frames : g <= m BY <1>5 DEF Ordered
  <2>2. m \in b.cloud.frames /\ \A g \in b.cloud.frames : g <= m BY <1>2, <2>1
  <2> QED BY <1>1, <1>5, <2>2 DEF Ordered, b
<1> QED BY <1>4, <1>5

(* Or, unseen, with a later frame.                                         *)
LEMMA OverrunOrdered ==
  ASSUME NEW d \in Decodings, NEW o, NEW m \in Int, Ordered(d, o, m), NEW s, NEW t \in Nat,
         m < Frame(t)
  PROVE  /\ Ordered(Continued(d, s, t), o, Frame(t))
         /\ LastFrame(o, Continued(d, s, t).put) < Frame(t)
<1> DEFINE b == Continued(d, s, t)
           n == Frame(t)
<1>0. d.cloud \in AnyCloud BY DEF Decodings
<1>1. b.put = d.put /\ b.cloud = Added(d.cloud, t) BY DEF Continued
<1>2. b.cloud.frames = d.cloud.frames \cup {n} BY <1>0, <1>1, AddedCloud
<1>3. n \in Int /\ d.cloud.frames \subseteq Int BY <1>0, FrameTyped DEF AnyCloud
<1>4. Rising(o, d.put) /\ LastFrame(o, d.put) \in Int /\ LastFrame(o, d.put) <= m
  BY DEF Ordered
<1> HIDE DEF b, n
<1>5. LastFrame(o, d.put) < n BY <1>3, <1>4 DEF n
<1>6. \A g \in b.cloud.frames : g <= n
  <2>1. CASE d.cloud = NoPoints
    <3>1. b.cloud.frames = {n} BY <1>2, <2>1, NoPointsTyped
    <3> QED BY <1>3, <3>1
  <2>2. CASE d.cloud # NoPoints
    <3>1. \A g \in d.cloud.frames : g <= m BY <2>2 DEF Ordered
    <3> QED BY <1>2, <1>3, <3>1 DEF n
  <2> QED BY <2>1, <2>2
<1> QED BY <1>1, <1>2, <1>4, <1>5, <1>6, <1>3 DEF Ordered, b, n

(* A cloud of one frame stays one when points of that frame are added.     *)
LEMMA OpenedWhole ==
  ASSUME NEW d \in Decodings, AllWhole(d), NEW s, NEW t \in Nat
  PROVE  AllWhole(Opened(d, s, t))
<1> DEFINE b == Opened(d, s, t)
<1>1. b.put = HandedOn(d) /\ b.cloud = Added(NoPoints, t) BY DEF Opened
<1>2. b.cloud.frames = {Frame(t)} BY <1>1, AddedCloud, NoPointsTyped
<1>3. OneFrame(b.cloud) BY <1>2 DEF OneFrame
<1>4. \A i \in DOMAIN HandedOn(d) : OneFrame(HandedOn(d)[i].cloud)
  BY HandedOnElement DEF AllWhole
<1> QED BY <1>1, <1>3, <1>4 DEF AllWhole

(* A cloud stays whole when a point of its frame is added to it.           *)
LEMMA ContinuedWhole ==
  ASSUME NEW d \in Decodings, AllWhole(d), NEW s, NEW t \in Nat,
         d.cloud # NoPoints => Frame(t) \in d.cloud.frames
  PROVE  AllWhole(Continued(d, s, t))
<1> DEFINE b == Continued(d, s, t)
<1>0. d.cloud \in AnyCloud BY DEF Decodings
<1>1. b.put = d.put /\ b.cloud = Added(d.cloud, t) BY DEF Continued
<1>2. b.cloud.frames = d.cloud.frames \cup {Frame(t)} BY <1>0, <1>1, AddedCloud
<1>3. CASE d.cloud = NoPoints
  <2>1. b.cloud.frames = {Frame(t)} BY <1>2, <1>3, NoPointsTyped
  <2> QED BY <1>1, <2>1 DEF AllWhole, OneFrame
<1>4. CASE d.cloud # NoPoints
  <2>1. b.cloud.frames = d.cloud.frames BY <1>2, <1>4
  <2> QED BY <1>1, <2>1 DEF AllWhole, OneFrame
<1> QED BY <1>3, <1>4

(* The stamp is that of the first points.                                  *)
LEMMA OpenedStamped ==
  ASSUME NEW d \in Decodings, Stamped(d), NEW s, NEW t \in Nat
  PROVE  Stamped(Opened(d, s, t))
<1> DEFINE b == Opened(d, s, t)
<1>1. b.put = HandedOn(d) /\ b.cloud = Added(NoPoints, t) /\ b.first = t BY DEF Opened
<1>2. b.cloud.first = t BY <1>1, AddedCloud, NoPointsTyped
<1>3. \A i \in DOMAIN HandedOn(d) : HandedOn(d)[i].ts \in {HandedOn(d)[i].cloud.first, NoTime}
  BY HandedOnElement DEF Stamped
<1> QED BY <1>1, <1>2, <1>3 DEF Stamped

(* A cloud keeps its stamp when a point is added to it.                    *)
LEMMA ContinuedStamped ==
  ASSUME NEW d \in Decodings, Stamped(d), d.cloud = NoPoints => d.first = NoTime,
         NEW s, NEW t \in Nat
  PROVE  Stamped(Continued(d, s, t))
<1> DEFINE b == Continued(d, s, t)
<1>0. d.cloud \in AnyCloud BY DEF Decodings
<1>1. b.put = d.put /\ b.cloud = Added(d.cloud, t) /\ b.first = d.first BY DEF Continued
<1>2. b.cloud.first = IF d.cloud = NoPoints THEN t ELSE d.cloud.first BY <1>0, <1>1, AddedCloud
<1>3. b.first \in {b.cloud.first, NoTime} BY <1>1, <1>2 DEF Stamped
<1> QED BY <1>1, <1>3 DEF Stamped

-----------------------------------------------------------------------------
(* By angle.  A block that comes within the gap the code can bear is the   *)
(* first past the split angle exactly if it is of the next turn, unless    *)
(* the gap overruns the end of the turn as well.                           *)
Gap == BLOCKS_PER_PKT * MaxLost + 1
Overrun(p, t) == t % Round < p % Round /\ p % Round < split_angle_
Borne(d, p, t, r) == ~r => d.cloud = NoPoints \/ ~Overrun(p, t)

(* The assumptions on the constants, for the gap between two blocks.       *)
LEMMA GapSmall ==
  /\ Gap \in Nat /\ 1 <= Gap /\ Gap < Round
  /\ Round \in Nat \ {0} /\ split_angle_ \in 0 .. Round - 1 /\ BLOCKS_PER_PKT \in Nat \ {0}
<1> DEFINE l == BLOCKS_PER_PKT * MaxLost
<1>1. /\ Round \in Nat \ {0} /\ split_angle_ \in 0 .. Round - 1 /\ BLOCKS_PER_PKT \in Nat \ {0}
      /\ MaxLost \in Nat
  BY DecoderAssumption
<1>2. l \in Nat BY <1>1
<1>3. BLOCKS_PER_PKT * (MaxLost + 1) = l + BLOCKS_PER_PKT BY <1>1
<1>4. l + BLOCKS_PER_PKT < Round BY <1>3, DecoderAssumption
<1> HIDE DEF l
<1>5. l + 1 \in Nat /\ 1 <= l + 1 /\ l + 1 < Round BY <1>1, <1>2, <1>4
<1> QED BY <1>1, <1>5 DEF Gap, l

(* From one block of a packet to the next nothing is overrun.              *)
LEMMA NoOverrun ==
  ASSUME NEW p \in Nat, NEW t \in Nat, t - p \in 0 .. 1
  PROVE  ~Overrun(p, t)
<1> DEFINE a == p % Round
           b == t % Round
           g == t - p
<1>1. Round \in Nat \ {0} /\ split_angle_ \in 0 .. Round - 1 /\ 1 < Round
  BY GapSmall
<1>2. a \in 0 .. Round - 1 /\ t = p + g /\ g \in 0 .. 1 BY <1>1, DivMod
<1>3. g \in 0 .. Round - 1 BY <1>1, <1>2
<1>4. IF a + g < Round THEN (p + g) % Round = a + g ELSE (p + g) % Round = a + g - Round
  <2> HIDE DEF g
  <2> QED BY <1>1, <1>3, StepOn
<1>5. IF a + g < Round THEN b = a + g ELSE b = a + g - Round
  <2>1. b = (p + g) % Round BY <1>2
  <2> HIDE DEF b
  <2> QED BY <1>4, <2>1
<1> HIDE DEF a, b, g
<1>6. ~(b < a /\ a < split_angle_) BY <1>1, <1>2, <1>5
<1> QED BY <1>6 DEF Overrun, a, b

(* The turn of a time: the turn counted from 0, or the next one from the   *)
(* split angle on.                                                         *)
LEMMA TurnOf ==
  ASSUME lidar = "RSBP", NEW t \in Nat
  PROVE  Frame(t) = (t \div Round) + (IF t % Round < split_angle_ THEN 0 ELSE 1)
<1> DEFINE s == split_angle_
           g == Round - s
           q == t \div Round
           r == t % Round
<1>1. Round \in Nat \ {0} /\ s \in 0 .. Round - 1 BY DecoderAssumption
<1>2. q \in Nat /\ r \in 0 .. Round - 1 BY <1>1, DivMod
<1>3. Frame(t) = (t + Round - s) \div Round BY DEF Frame, Mems
<1>4. t + Round - s = t + g BY <1>1
<1>5. CASE s = 0
  <2>1. (t + Round) \div Round = q + 1
    <3>1. t = Round * q + r BY <1>1, DivMod
    <3>2. (t + Round) \div Round \in Nat /\ (t + Round) % Round \in 0 .. Round - 1
          /\ t + Round = Round * ((t + Round) \div Round) + ((t + Round) % Round)
      <4>1. t + Round \in Nat BY <1>1
      <4> QED BY <1>1, <4>1, DivMod
    <3> DEFINE q1 == (t + Round) \div Round
               r1 == (t + Round) % Round
               b == q + 1
    <3>3. Round * b = Round * q + Round /\ b \in Int BY <1>1, <1>2
    <3>4. Round * q \in Int BY <1>1, <1>2
    <3>5. Round * q1 \in Int BY <1>1, <3>2
    <3> HIDE DEF q, r, q1, r1, b
    <3>6. Round * q1 + r1 = Round * b + r BY <1>1, <1>2, <3>1, <3>2, <3>3, <3>4, <3>5 DEF q1, r1
    <3>7. q1 \in Int /\ r1 \in 0 .. Round - 1 BY <3>2 DEF q1, r1
    <3>8. SameNumber(Round, q1, r1, b, r) BY <3>6 DEF SameNumber
    <3>9. q1 = b BY <1>1, <1>2, <3>3, <3>7, <3>8, OneQuotient
    <3> QED BY <3>9 DEF q1, b
  <2>2. t + Round - s = t + Round BY <1>1, <1>5
  <2>3. ~(r < s) BY <1>2, <1>5
  <2> QED BY <1>3, <2>1, <2>2, <2>3
<1>6. CASE s # 0
  <2>1. g \in 0 .. Round - 1 BY <1>1, <1>6
  <2>2. IF r + g < Round THEN (t + g) \div Round = q ELSE (t + g) \div Round = q + 1
    <3> HIDE DEF g
    <3> QED BY <1>1, <2>1, StepOn
  <2>3. r + g < Round <=> r < s BY <1>1, <1>2
  <2> HIDE DEF q, r, g
  <2>4. (t + g) \div Round = q + (IF r < s THEN 0 ELSE 1) BY <1>2, <2>2, <2>3
  <2> QED BY <1>3, <1>4, <2>4 DEF q, r
<1> QED BY <1>5, <1>6

(* ByAngle sees every turn begin in a gap, but for an overrun.              *)
LEMMA AngleSplits ==
  ASSUME lidar = "RSBP", NEW p \in Nat, NEW g \in 0 .. Gap, NEW s, s.prev_angle_ = p % Round
  PROVE  IF ByAngle(s, (p + g) % Round).split \/ Overrun(p, p + g)
         THEN Frame(p + g) = Frame(p) + 1
         ELSE Frame(p + g) = Frame(p)
<1> DEFINE a == p % Round
           b == (p + g) % Round
           q == p \div Round
           u == (p + g) \div Round
           c == split_angle_
<1>1. Round \in Nat \ {0} /\ c \in 0 .. Round - 1 /\ g \in 0 .. Round - 1
  BY GapSmall
<1>2. p + g \in Nat BY <1>1
<1>3. a \in 0 .. Round - 1 /\ b \in 0 .. Round - 1 /\ q \in Nat /\ u \in Nat
  BY <1>1, <1>2, DivMod
<1>4. IF a + g < Round THEN u = q /\ b = a + g ELSE u = q + 1 /\ b = a + g - Round
  BY <1>1, StepOn
<1>5. Frame(p) = q + (IF a < c THEN 0 ELSE 1) BY TurnOf
<1>6. Frame(p + g) = u + (IF b < c THEN 0 ELSE 1) BY <1>2, TurnOf
<1>7. ByAngle(s, b).split <=> (IF b < a THEN a - Round ELSE a) < c /\ c <= b BY DEF ByAngle
<1>8. Overrun(p, p + g) <=> b < a /\ a < c BY DEF Overrun
<1> DEFINE seen == ByAngle(s, b).split
           run == Overrun(p, p + g)
           f == Frame(p)
           h == Frame(p + g)
<1> HIDE DEF a, b, q, u, c, seen, run, f, h
<1>9. CASE a + g < Round
  <2>1. u = q /\ b = a + g /\ ~run BY <1>1, <1>3, <1>4, <1>8, <1>9 DEF run
  <2>2. seen <=> a < c /\ c <= b BY <1>1, <1>3, <1>7, <2>1 DEF seen
  <2>3. IF seen \/ run THEN h = f + 1 ELSE h = f
    BY <1>1, <1>3, <1>5, <1>6, <2>1, <2>2 DEF f, h
  <2> QED BY <2>3 DEF seen, run, f, h, b
<1>10. CASE ~(a + g < Round)
  <2>1. b < a /\ u = q + 1 /\ a - Round < c BY <1>1, <1>3, <1>4, <1>10
  <2>2. seen <=> c <= b BY <1>7, <2>1 DEF seen
  <2>3. run <=> a < c BY <1>8, <2>1 DEF run
  <2>4. IF seen \/ run THEN h = f + 1 ELSE h = f
    BY <1>1, <1>3, <1>5, <1>6, <2>1, <2>2, <2>3 DEF f, h
  <2> QED BY <2>4 DEF seen, run, f, h, b
<1> QED BY <1>9, <1>10

(* ByAngle remembers the angle it was given.                               *)
LEMMA NextAngle ==
  ASSUME NEW s \in AnyStrategy, NEW t \in Nat
  PROVE  /\ ByAngle(s, t % Round).next \in AnyStrategy
         /\ ByAngle(s, t % Round).next.prev_angle_ = t % Round
<1> DEFINE a == t % Round
<1>1. a \in 0 .. Round - 1 BY DecoderAssumption, DivMod
<1>2. ByAngle(s, a).next = [s EXCEPT !.prev_angle_ = a] BY DEF ByAngle
<1> HIDE DEF a
<1> QED BY <1>1, <1>2 DEF AnyStrategy, a

(* Decoding may begin just before the first turn.                          *)
LEMMA FrameFirst ==
  ASSUME lidar = "RSBP", NEW p \in Int, p >= -1
  PROVE  Frame(p) \in Nat
<1> DEFINE x == p + Round - split_angle_
<1>1. Round \in Nat \ {0} /\ x \in Nat BY DecoderAssumption
<1>2. Frame(p) = x \div Round BY DEF Frame, Mems
<1> HIDE DEF x
<1> QED BY <1>1, <1>2, DivMod

(* A block decoded by angle keeps the clouds whole, in order and stamped.  *)
LEMMA AngleBlock ==
  ASSUME lidar = "RSBP", NEW d \in Decodings, NEW o, NEW p \in Int, p >= -1, NEW r \in BOOLEAN,
         AngleKept(d, o, p, Frame(p), r), NEW t \in Nat, t - p \in 0 .. Gap,
         Borne(d, p, t, r)
  PROVE  /\ Block(d, t) \in Decodings /\ AngleKept(Block(d, t), o, t, Frame(t), r)
         /\ Block(d, t).cloud.size <= d.cloud.size + 1
         /\ Block(d, t).first \in {d.first, t}
<1> DEFINE a == t % Round
           n == ByAngle(d.strategy, a)
           b == Block(d, t)
           up == Opened(d, n.next, t)
           on == Continued(d, n.next, t)
           m == Frame(p)
<1>1. b = IF n.split THEN up ELSE on BY BeginFrameIs DEF Block
<1>2. d.strategy \in AnyStrategy /\ d.cloud \in AnyCloud BY DEF Decodings
<1>3. n.next \in AnyStrategy /\ n.next.prev_angle_ = a BY <1>2, NextAngle
<1>4. up \in Decodings /\ up.cloud.size = 1 /\ on \in Decodings /\ on.cloud.size = d.cloud.size + 1
  BY <1>3, OpenedTyped, ContinuedTyped
<1>5. /\ up.strategy = n.next /\ up.first = t /\ on.strategy = n.next /\ on.first = d.first
      /\ up.cloud = Added(NoPoints, t) /\ on.cloud = Added(d.cloud, t) /\ on.put = d.put
  BY DEF Opened, Continued
<1>6. up.cloud # NoPoints /\ on.cloud # NoPoints
  <2>1. Added(NoPoints, t) # NoPoints /\ Added(d.cloud, t) # NoPoints
    BY <1>2, AddedCloud, NoPointsTyped
  <2> HIDE DEF up, on
  <2> QED BY <1>5, <2>1
<1>7. /\ Ordered(d, o, m) /\ LastFrame(o, d.put) < m /\ m \in Int
      /\ ~r => AllWhole(d)
  <2>1. m \in Int BY FrameFirst
  <2> QED BY <2>1 DEF AngleKept
<1>8. Frame(t) \in Nat BY FrameTyped
<1>9. b.cloud.size <= d.cloud.size + 1 /\ b.first \in {d.first, t} /\ b \in Decodings
      /\ b.cloud # NoPoints /\ b.strategy.prev_angle_ = t % Round
  <2>1. d.cloud.size \in Nat BY <1>2 DEF AnyCloud
  <2> HIDE DEF n, up, on, b, a
  <2>2. CASE n.split
    <3>1. b = up BY <1>1, <2>2
    <3> QED BY <1>3, <1>4, <1>5, <1>6, <2>1, <3>1 DEF a
  <2>3. CASE ~n.split
    <3>1. b = on BY <1>1, <2>3
    <3> QED BY <1>3, <1>4, <1>5, <1>6, <2>1, <3>1 DEF a
  <2> QED BY <2>2, <2>3
<1>10. ~r => Stamped(b)
  <2> SUFFICES ASSUME ~r PROVE Stamped(b) OBVIOUS
  <2>1. Stamped(d) /\ (d.cloud = NoPoints => d.first = NoTime) BY DEF AngleKept
  <2>2. Stamped(up) BY <2>1, OpenedStamped
  <2>3. Stamped(on) BY <2>1, ContinuedStamped
  <2> QED BY <1>1, <2>2, <2>3
<1>11. /\ Ordered(b, o, Frame(t)) /\ LastFrame(o, b.put) < Frame(t)
       /\ ~r => AllWhole(b)
  <2>1. CASE p \in Nat /\ d.strategy.prev_angle_ = p % Round
    <3> DEFINE g == t - p
    <3>1. t = p + g /\ g \in 0 .. Gap BY GapSmall
    <3>2. IF n.split \/ Overrun(p, p + g) THEN Frame(p + g) = m + 1 ELSE Frame(p + g) = m
      <4>1. IF ByAngle(d.strategy, (p + g) % Round).split \/ Overrun(p, p + g)
            THEN Frame(p + g) = Frame(p) + 1 ELSE Frame(p + g) = Frame(p)
        <5> HIDE DEF g
        <5> QED BY <2>1, <3>1, AngleSplits
      <4> QED BY <3>1, <4>1
    <3>3. IF n.split \/ Overrun(p, t) THEN Frame(t) = m + 1 ELSE Frame(t) = m BY <3>1, <3>2
    <3>4. CASE n.split
      <4>1. m < Frame(t) BY <1>7, <3>3, <3>4
      <4>2. Ordered(up, o, Frame(t)) /\ LastFrame(o, up.put) < Frame(t)
        BY <1>7, <4>1, OpenedOrdered
      <4>3. ~r => AllWhole(up) BY <1>7, OpenedWhole
      <4> QED BY <1>1, <3>4, <4>2, <4>3
    <3>5. CASE ~n.split /\ ~Overrun(p, t)
      <4>1. Frame(t) = m /\ Frame(t) <= m BY <1>7, <3>3, <3>5
      <4>2. Ordered(on, o, m) /\ LastFrame(o, on.put) < m
        BY <1>7, <4>1, ContinuedOrdered
      <4>3. d.cloud # NoPoints => Frame(t) \in d.cloud.frames BY <1>7, <4>1 DEF Ordered
      <4>4. ~r => AllWhole(on) BY <1>7, <4>3, ContinuedWhole
      <4> QED BY <1>1, <3>5, <4>1, <4>2, <4>4
    <3>6. CASE ~n.split /\ Overrun(p, t)
      <4>1. m < Frame(t) BY <1>7, <3>3, <3>6
      <4>2. Ordered(on, o, Frame(t)) /\ LastFrame(o, on.put) < Frame(t)
        BY <1>7, <4>1, OverrunOrdered
      <4>3. ~r => d.cloud = NoPoints BY <3>6 DEF Borne
      <4>4. ~r => AllWhole(on) BY <1>7, <4>3, ContinuedWhole
      <4> QED BY <1>1, <3>6, <4>2, <4>4
    <3> QED BY <3>4, <3>5, <3>6
  <2>2. CASE d.strategy.prev_angle_ = split_angle_ /\ d.cloud = NoPoints /\ d.put = <<>> /\ o = -1
    <3>1. ~n.split
      <4>1. a \in 0 .. Round - 1 /\ split_angle_ \in 0 .. Round - 1 /\ Round \in Nat
        BY DecoderAssumption, DivMod
      <4>2. n.split <=> (IF a < d.strategy.prev_angle_ THEN d.strategy.prev_angle_ - Round
                         ELSE d.strategy.prev_angle_) < split_angle_ /\ split_angle_ <= a
        BY DEF ByAngle
      <4> HIDE DEF a, n
      <4> QED BY <2>2, <4>1, <4>2
    <3>2. LastFrame(o, d.put) = -1 BY <2>2 DEF LastFrame
    <3>3. Ordered(d, o, Frame(t)) /\ LastFrame(o, d.put) < Frame(t)
      <4>1. Rising(o, d.put) BY <2>2, EmptyDomain DEF Rising
      <4> QED BY <1>8, <2>2, <3>2, <4>1 DEF Ordered
    <3>4. Ordered(on, o, Frame(t)) /\ LastFrame(o, on.put) < Frame(t)
      BY <1>8, <3>3, ContinuedOrdered
    <3>5. ~r => AllWhole(on) BY <1>7, <2>2, ContinuedWhole
    <3> QED BY <1>1, <3>1, <3>4, <3>5
  <2> QED BY <2>1, <2>2 DEF AngleKept
<1> HIDE DEF b
<1>12. AngleKept(b, o, t, Frame(t), r) BY <1>9, <1>10, <1>11 DEF AngleKept
<1> QED BY <1>9, <1>12 DEF b

-----------------------------------------------------------------------------
(* By number: a cloud is handed on no later than the largest number of     *)
(* blocks there may be.                                                    *)
LEMMA NumBlock ==
  ASSUME lidar = "byNum", split_blks_per_frame_ \in SplitBlks, NEW d \in Decodings,
         NEW r \in BOOLEAN, NumKept(d, r), NEW t \in Nat
  PROVE  /\ Block(d, t) \in Decodings /\ NumKept(Block(d, t), r)
         /\ Block(d, t).cloud.size <= d.cloud.size + 1
         /\ Block(d, t).first \in {d.first, t}
<1> DEFINE k == d.strategy.blks_
           full == k + 1 >= split_blks_per_frame_
           n == ByNum(d.strategy)
           b == Block(d, t)
           up == Opened(d, n.next, t)
           on == Continued(d, n.next, t)
<1>1. b = IF n.split THEN up ELSE on BY BeginFrameIs DEF Block
<1>2. d.strategy \in AnyStrategy /\ d.cloud \in AnyCloud /\ k \in Nat /\ d.cloud.size \in Nat
  BY DEF Decodings, AnyStrategy, AnyCloud
<1>3. (n.split <=> full) /\ n.next = [d.strategy EXCEPT !.blks_ = IF full THEN 0 ELSE k + 1]
  BY DEF ByNum
<1>4. n.next \in AnyStrategy /\ n.next.blks_ = IF full THEN 0 ELSE k + 1
  <2> DEFINE z == IF full THEN 0 ELSE k + 1
  <2>1. z \in Nat BY <1>2
  <2> HIDE DEF z
  <2>2. n.next = [d.strategy EXCEPT !.blks_ = z] BY <1>3 DEF z
  <2> HIDE DEF n
  <2>3. n.next \in AnyStrategy /\ n.next.blks_ = z BY <1>2, <2>1, <2>2 DEF AnyStrategy
  <2> QED BY <2>3 DEF z
<1>5. up \in Decodings /\ up.cloud.size = 1 /\ on \in Decodings /\ on.cloud.size = d.cloud.size + 1
  BY <1>4, OpenedTyped, ContinuedTyped
<1>6. /\ up.strategy = n.next /\ up.first = t /\ on.strategy = n.next /\ on.first = d.first
      /\ up.cloud = Added(NoPoints, t) /\ on.cloud = Added(d.cloud, t) /\ on.put = d.put
      /\ up.put = HandedOn(d)
  BY DEF Opened, Continued
<1>7. up.cloud # NoPoints /\ on.cloud # NoPoints BY <1>2, <1>6, AddedCloud, NoPointsTyped
<1>8. /\ d.cloud.size <= k + 1 /\ \E x \in SplitBlks : k < x
      /\ \A i \in DOMAIN d.put : \E x \in SplitBlks : d.put[i].cloud.size <= x
      /\ ~r => Stamped(d) /\ (d.cloud = NoPoints => d.first = NoTime)
  BY DEF NumKept
<1>9. SplitBlks \subseteq Nat \ {0} BY DecoderAssumption
<1> HIDE DEF k, full, n, b, up, on
<1>10. CASE n.split
  <2>1. b = up BY <1>1, <1>10
  <2>2. b.strategy.blks_ = 0 BY <1>3, <1>4, <1>6, <1>10, <2>1
  <2>3. \E x \in SplitBlks : 0 < x BY <1>9
  <2>4. \E x \in SplitBlks : d.cloud.size <= x
    <3>1. PICK x \in SplitBlks : k < x BY <1>8
    <3>2. d.cloud.size <= x BY <1>2, <1>8, <1>9, <3>1
    <3> QED BY <3>2
  <2>5. \A i \in DOMAIN b.put : \E x \in SplitBlks : b.put[i].cloud.size <= x
    BY <1>6, <1>8, <2>1, <2>4, HandedOnElement
  <2>6. ~r => Stamped(b) BY <1>8, <2>1, OpenedStamped DEF up
  <2>7. b.cloud.size <= b.strategy.blks_ + 1 BY <1>5, <2>1, <2>2
  <2>8. NumKept(b, r) BY <1>6, <1>7, <2>1, <2>2, <2>3, <2>5, <2>6, <2>7 DEF NumKept
  <2> QED BY <1>2, <1>5, <1>6, <2>1, <2>8 DEF b
<1>11. CASE ~n.split
  <2>1. b = on BY <1>1, <1>11
  <2>2. b.strategy.blks_ = k + 1 /\ ~full BY <1>3, <1>4, <1>6, <1>11, <2>1
  <2>3. \E x \in SplitBlks : k + 1 < x BY <1>2, <1>9, <2>2 DEF full
  <2>4. b.cloud.size <= b.strategy.blks_ + 1 BY <1>2, <1>5, <1>8, <2>1, <2>2
  <2>5. ~r => Stamped(b) BY <1>8, <2>1, ContinuedStamped DEF on
  <2>6. NumKept(b, r) BY <1>6, <1>7, <1>8, <2>1, <2>2, <2>3, <2>4, <2>5 DEF NumKept
  <2> QED BY <1>2, <1>5, <1>6, <2>1, <2>6 DEF b
<1> QED BY <1>10, <1>11

-----------------------------------------------------------------------------
(* What was decoded before a packet, and after it.                         *)
LEMMA AfterIs ==
  ASSUME NEW d \in Decodings, After(d)
  PROVE  Now' = d /\ over' = LastFrame(over, put)
<1>1. d = [strategy |-> d.strategy, cloud |-> d.cloud, first |-> d.first, put |-> d.put]
  BY DEF Decodings
<1> QED BY <1>1 DEF After, Now, LastFrame

(* What was decoded before a packet, when the cloud may have been emptied. *)
LEMMA BeforeIs ==
  ASSUME Now \in Decodings
  PROVE  /\ Before \in Decodings /\ Before.cloud.size <= CLOUD_POINT_MAX
         /\ Before.strategy = strategy /\ Before.first = first_point_ts_ /\ Before.put = <<>>
         /\ Before.cloud = IF Overflown THEN NoPoints ELSE cloud
<1> DEFINE c == IF Overflown THEN NoPoints ELSE cloud
<1>1. strategy \in AnyStrategy /\ cloud \in AnyCloud /\ first_point_ts_ \in Int
  BY DEF Now, Decodings
<1>2. CLOUD_POINT_MAX \in Nat /\ cloud.size \in Nat BY <1>1, DecoderAssumption DEF AnyCloud
<1>3. c \in AnyCloud /\ c.size <= CLOUD_POINT_MAX
  BY <1>1, <1>2, NoPointsTyped DEF Overflown
<1>4. Before = [strategy |-> strategy, cloud |-> c, first |-> first_point_ts_, put |-> <<>>]
  BY DEF Before
<1>5. <<>> \in Seq(AnyPut) OBVIOUS
<1> HIDE DEF c
<1> QED BY <1>1, <1>3, <1>4, <1>5 DEF Decodings, c

(* The parts of what has been decoded.                                     *)
LEMMA NowIs ==
  /\ Now.strategy = strategy /\ Now.cloud = cloud /\ Now.first = first_point_ts_
  /\ Now.put = put
BY DEF Now

(* An emptied cloud is as good as one begun, by angle.                     *)
LEMMA BeforeAngle ==
  ASSUME Now \in Decodings, NEW m \in Int, AngleKept(Now, over, newest, m, rough),
         rough \in BOOLEAN
  PROVE  AngleKept(Before, LastFrame(over, put), newest, m, rough \/ Overflown)
<1> DEFINE o == LastFrame(over, put)
<1>1. /\ Before.strategy = strategy /\ Before.first = first_point_ts_ /\ Before.put = <<>>
      /\ Before.cloud = IF Overflown THEN NoPoints ELSE cloud
  BY BeforeIs
<1>2. LastFrame(o, Before.put) = o BY <1>1 DEF LastFrame
<1>3. /\ o \in Int /\ o < m
      /\ cloud # NoPoints => m \in cloud.frames /\ \A g \in cloud.frames : g <= m
  BY NowIs DEF AngleKept, Ordered
<1>4. Rising(o, Before.put) BY <1>1, EmptyDomain DEF Rising
<1>5. Ordered(Before, o, m) BY <1>1, <1>2, <1>3, <1>4 DEF Ordered
<1>6. ~rough => AllWhole(Before)
  <2> SUFFICES ASSUME ~rough PROVE AllWhole(Before) OBVIOUS
  <2>1. OneFrame(cloud) BY NowIs DEF AngleKept, AllWhole
  <2>2. OneFrame(NoPoints) BY NoPointsTyped DEF OneFrame
  <2> QED BY <1>1, <2>1, <2>2, EmptyDomain DEF AllWhole
<1>7. \/ newest \in Nat /\ strategy.prev_angle_ = newest % Round
      \/ strategy.prev_angle_ = split_angle_ /\ cloud = NoPoints /\ put = <<>> /\ over = -1
  BY NowIs DEF AngleKept
<1>8. put = <<>> => o = over BY DEF LastFrame
<1>9. ~rough /\ ~Overflown => Stamped(Before) /\ (Before.cloud = NoPoints => Before.first = NoTime)
  <2> SUFFICES ASSUME ~rough, ~Overflown
               PROVE  Stamped(Before) /\ (Before.cloud = NoPoints => Before.first = NoTime)
    OBVIOUS
  <2>1. /\ cloud # NoPoints => first_point_ts_ \in {cloud.first, NoTime}
        /\ cloud = NoPoints => first_point_ts_ = NoTime
    BY NowIs DEF AngleKept, Stamped
  <2> QED BY <1>1, <2>1, EmptyDomain DEF Stamped
<1> HIDE DEF o
<1> QED BY <1>1, <1>2, <1>3, <1>5, <1>6, <1>7, <1>8, <1>9 DEF AngleKept, o

(* An emptied cloud is as good as one begun, by number of blocks.          *)
LEMMA BeforeNum ==
  ASSUME Now \in Decodings, NumKept(Now, rough), rough \in BOOLEAN
  PROVE  NumKept(Before, rough \/ Overflown)
<1>1. /\ Before.strategy = strategy /\ Before.first = first_point_ts_ /\ Before.put = <<>>
      /\ Before.cloud = IF Overflown THEN NoPoints ELSE cloud
  BY BeforeIs
<1>2. strategy.blks_ \in Nat BY DEF Now, Decodings, AnyStrategy
<1>3. Before.cloud.size <= strategy.blks_ + 1
  BY <1>1, <1>2, NowIs, NoPointsTyped DEF NumKept
<1>4. \E x \in SplitBlks : strategy.blks_ < x BY NowIs DEF NumKept
<1>5. ~rough /\ ~Overflown => Stamped(Before) /\ (Before.cloud = NoPoints => Before.first = NoTime)
  <2> SUFFICES ASSUME ~rough, ~Overflown
               PROVE  Stamped(Before) /\ (Before.cloud = NoPoints => Before.first = NoTime)
    OBVIOUS
  <2>1. /\ cloud # NoPoints => first_point_ts_ \in {cloud.first, NoTime}
        /\ cloud = NoPoints => first_point_ts_ = NoTime
    BY NowIs DEF NumKept, Stamped
  <2> QED BY <1>1, <2>1, EmptyDomain DEF Stamped
<1> QED BY <1>1, <1>3, <1>4, <1>5, EmptyDomain DEF NumKept

-----------------------------------------------------------------------------
(* The steps of the decoder, one by one.                                   *)

(* The times of a packet's blocks go on from one another.                  *)
TimesOf(start, dual, good) ==
  [k \in 1 .. good |-> start + (IF dual THEN (k - 1) \div 2 ELSE k - 1)]
GoOn(times, start, good) ==
  /\ Len(times) = good /\ times[1] = start
  /\ \A k \in 1 .. good : times[k] \in Nat /\ times[k] <= LastTime + BLOCKS_PER_PKT
  /\ \A k \in 1 .. good : k # 1 => times[k] - times[k - 1] \in 0 .. 1

(* The times of the blocks of a packet, in single or dual mode.            *)
LEMMA BlockTimes ==
  ASSUME NEW start \in 0 .. LastTime, NEW dual \in BOOLEAN, NEW good \in 1 .. BLOCKS_PER_PKT
  PROVE  good \in Nat /\ GoOn(TimesOf(start, dual, good), start, good)
<1> DEFINE times == TimesOf(start, dual, good)
<1>1. LastTime \in Nat /\ BLOCKS_PER_PKT \in Nat \ {0} /\ good \in Nat BY DecoderAssumption
<1> DEFINE off(k) == IF dual THEN (k - 1) \div 2 ELSE k - 1
<1>2. \A k \in 1 .. good : off(k) \in 0 .. k - 1 /\ (k # 1 => off(k) - off(k - 1) \in 0 .. 1)
  <2> SUFFICES ASSUME NEW k \in 1 .. good
               PROVE  off(k) \in 0 .. k - 1 /\ (k # 1 => off(k) - off(k - 1) \in 0 .. 1)
    OBVIOUS
  <2>1. CASE dual BY <1>1, <2>1
  <2>2. CASE ~dual BY <1>1, <2>2
  <2> QED BY <2>1, <2>2
<1>3. \A k \in 1 .. good : times[k] = start + off(k) BY DEF TimesOf
<1>4. times \in Seq(Int) /\ Len(times) = good
  <2>1. \A k \in 1 .. good : start + off(k) \in Int BY <1>1, <1>2
  <2>2. times \in [1 .. good -> Int] BY <2>1 DEF TimesOf
  <2>3. DOMAIN times = 1 .. good BY DEF TimesOf
  <2> HIDE DEF off, times
  <2> QED BY <1>1, <2>2, <2>3, LenProperties, SeqDef
<1> HIDE DEF off, times
<1>5. \A k \in 1 .. good : times[k] \in Nat /\ times[k] <= LastTime + BLOCKS_PER_PKT
  BY <1>1, <1>2, <1>3
<1>6. times[1] = start BY <1>1, <1>2, <1>3
<1>7. \A k \in 1 .. good : k # 1 => times[k] - times[k - 1] \in 0 .. 1
  <2> SUFFICES ASSUME NEW k \in 1 .. good, k # 1 PROVE times[k] - times[k - 1] \in 0 .. 1
    OBVIOUS
  <2>1. k - 1 \in 1 .. good BY <1>1
  <2>2. off(k) - off(k - 1) \in 0 .. 1 /\ off(k) \in Int /\ off(k - 1) \in Int BY <1>2, <2>1
  <2>3. times[k] = start + off(k) /\ times[k - 1] = start + off(k - 1) BY <1>3, <2>1
  <2> QED BY <2>2, <2>3
<1> QED BY <1>1, <1>4, <1>5, <1>6, <1>7 DEF GoOn, times

(* A packet of a mechanical lidar, block by block.                         *)
LEMMA MsopKept ==
  ASSUME DecoderInv, NEW start \in 0 .. LastTime, NEW dual \in BOOLEAN,
         NEW good \in 1 .. BLOCKS_PER_PKT, Msop(start, dual, good)
  PROVE  DecoderInv'
<1> DEFINE times == TimesOf(start, dual, good)
           o == LastFrame(over, put)
           r == rough \/ Overflown \/ Unseen(start)
           at(k) == IF k = 0 THEN newest ELSE times[k]
           P(e, k) == /\ e.cloud.size <= CLOUD_POINT_MAX + k
                      /\ e.first \in NoTime .. LastTime + BLOCKS_PER_PKT
                      /\ lidar = "RSBP" => AngleKept(e, o, at(k), Frame(at(k)), r)
                      /\ lidar = "byNum" => NumKept(e, r)
                      /\ k = 0 => e.cloud = Before.cloud
           G == [k \in 0 .. good |-> {e \in Decodings : P(e, k)}]
           d == Blocks(Before, times)
<1>1. /\ lidar \in {"RSBP", "byNum"} /\ start - newest \in 1 .. Gap
      /\ After(d) /\ newest' = times[good] /\ rough' = r
      /\ lidar' = lidar /\ wait_for_difop' = wait_for_difop /\ angles_ready_' = angles_ready_
      /\ split_blks_per_frame_' = split_blks_per_frame_ /\ recent' = recent
  BY DEF Msop, TimesOf, DecoderInv, DecoderBasic, Mems, Gap
<1>2. /\ good \in Nat /\ Len(times) = good /\ times[1] = start
      /\ \A k \in 1 .. good : times[k] \in Nat /\ times[k] <= LastTime + BLOCKS_PER_PKT
      /\ \A k \in 1 .. good : k # 1 => times[k] - times[k - 1] \in 0 .. 1
  BY BlockTimes DEF GoOn
<1>3. /\ Now \in Decodings /\ rough \in BOOLEAN /\ newest \in Int /\ newest >= -1
      /\ split_blks_per_frame_ \in SplitBlks /\ recent \in SUBSET Int
      /\ wait_for_difop \in BOOLEAN /\ angles_ready_ \in BOOLEAN
      /\ first_point_ts_ \in NoTime .. LastTime + BLOCKS_PER_PKT
  BY DEF DecoderInv, DecoderBasic
<1>4. CLOUD_POINT_MAX \in Nat /\ LastTime \in Nat /\ BLOCKS_PER_PKT \in Nat
  BY DecoderAssumption
<1>5. r \in BOOLEAN BY <1>3 DEF Overflown, Unseen
<1>6. Before \in G[0]
  <2> DEFINE r0 == rough \/ Overflown
  <2>1. /\ Before \in Decodings /\ Before.cloud.size <= CLOUD_POINT_MAX
        /\ Before.first = first_point_ts_
    BY <1>3, BeforeIs
  <2>2. lidar = "RSBP" => AngleKept(Before, o, newest, Frame(newest), r)
    <3> SUFFICES ASSUME lidar = "RSBP" PROVE AngleKept(Before, o, newest, Frame(newest), r)
      OBVIOUS
    <3>1. Frame(newest) \in Int BY <1>3, FrameFirst
    <3>2. AngleKept(Now, over, newest, Frame(newest), rough) BY DEF DecoderInv
    <3>3. r0 => r OBVIOUS
    <3> HIDE DEF o, r, r0
    <3>4. AngleKept(Before, o, newest, Frame(newest), r0)
      BY <1>3, <3>1, <3>2, BeforeAngle DEF o, r0
    <3> QED BY <3>3, <3>4 DEF AngleKept
  <2>3. lidar = "byNum" => NumKept(Before, r)
    <3> SUFFICES ASSUME lidar = "byNum" PROVE NumKept(Before, r) OBVIOUS
    <3>1. r0 => r OBVIOUS
    <3>2. NumKept(Before, r0) BY <1>3, BeforeNum DEF DecoderInv
    <3> HIDE DEF r, r0
    <3> QED BY <3>1, <3>2 DEF NumKept
  <2>4. at(0) = newest /\ CLOUD_POINT_MAX + 0 = CLOUD_POINT_MAX /\ 0 \in 0 .. good BY <1>2, <1>4
  <2> HIDE DEF o, r, at
  <2> QED BY <1>3, <2>1, <2>2, <2>3, <2>4
<1>7. ASSUME NEW k \in 1 .. good, NEW e \in G[k - 1] PROVE Block(e, times[k]) \in G[k]
  <2> DEFINE t == times[k]
             p == at(k - 1)
             b == Block(e, t)
  <2>1. k - 1 \in 0 .. good /\ k \in 0 .. good /\ k \in Nat BY <1>2
  <2>2. e \in Decodings /\ P(e, k - 1) BY <2>1
  <2>3. t \in Nat /\ t <= LastTime + BLOCKS_PER_PKT /\ at(k) = t BY <1>2
  <2>4. p \in Int /\ p >= -1 /\ t - p \in 0 .. Gap
    <3>1. CASE k = 1
      <4>1. p = newest /\ t = start BY <1>2, <3>1
      <4> HIDE DEF p, t
      <4> QED BY <1>1, <1>3, <4>1, GapSmall
    <3>2. CASE k # 1
      <4>1. p = times[k - 1] /\ k - 1 \in 1 .. good BY <1>2, <3>2
      <4>2. times[k - 1] \in Nat /\ t - times[k - 1] \in 0 .. 1 BY <1>2, <3>2, <4>1
      <4> HIDE DEF p, t
      <4> QED BY <4>1, <4>2, GapSmall
    <3> QED BY <3>1, <3>2
  <2>5. /\ e.cloud.size <= CLOUD_POINT_MAX + (k - 1)
        /\ e.first \in NoTime .. LastTime + BLOCKS_PER_PKT
        /\ lidar = "RSBP" => AngleKept(e, o, p, Frame(p), r)
        /\ lidar = "byNum" => NumKept(e, r)
    BY <2>2
  <2>6. e.cloud.size \in Nat BY <2>2 DEF Decodings, AnyCloud
  <2>7. ~r /\ lidar = "RSBP" => e.cloud = NoPoints \/ ~Overrun(p, t)
    <3> SUFFICES ASSUME ~r, lidar = "RSBP" PROVE e.cloud = NoPoints \/ ~Overrun(p, t) OBVIOUS
    <3>1. CASE k = 1
      <4>1. p = newest /\ t = start BY <1>2, <3>1
      <4>2. e.cloud = Before.cloud BY <2>2, <3>1
      <4>3. ~Overflown /\ ~Unseen(start) OBVIOUS
      <4>4. Before.cloud = cloud BY <1>3, <4>3, BeforeIs
      <4>5. cloud = NoPoints \/ ~Overrun(newest, start) BY <4>3 DEF Unseen, Overrun
      <4> HIDE DEF p, t, r
      <4> QED BY <4>1, <4>2, <4>4, <4>5
    <3>2. CASE k # 1
      <4>1. p = times[k - 1] /\ k - 1 \in 1 .. good BY <1>2, <3>2
      <4>2. p \in Nat /\ t \in Nat /\ t - p \in 0 .. 1 BY <1>2, <3>2, <4>1
      <4> HIDE DEF p, t, r
      <4> QED BY <4>2, NoOverrun
    <3> QED BY <3>1, <3>2
  <2> HIDE DEF o, r, at, p, t
  <2>8. /\ b \in Decodings /\ b.cloud.size <= e.cloud.size + 1 /\ b.first \in {e.first, t}
        /\ lidar = "RSBP" => AngleKept(b, o, t, Frame(t), r)
        /\ lidar = "byNum" => NumKept(b, r)
    <3>1. CASE lidar = "RSBP"
      <4>1. e \in Decodings BY <2>2
      <4>2. AngleKept(e, o, p, Frame(p), r) BY <2>5, <3>1
      <4>3. Borne(e, p, t, r) BY <2>7, <3>1 DEF Borne
      <4>4. t \in Nat BY <2>3
      <4> HIDE DEF b
      <4>5. /\ Block(e, t) \in Decodings /\ AngleKept(Block(e, t), o, t, Frame(t), r)
            /\ Block(e, t).cloud.size <= e.cloud.size + 1
            /\ Block(e, t).first \in {e.first, t}
        BY <1>5, <2>4, <3>1, <4>1, <4>2, <4>3, <4>4, AngleBlock
      <4> QED BY <3>1, <4>5 DEF b
    <3>2. CASE lidar = "byNum" BY <1>3, <1>5, <2>2, <2>3, <2>5, <3>2, NumBlock
    <3> QED BY <1>1, <3>1, <3>2
  <2>9. b.cloud.size \in Nat BY <2>8 DEF Decodings, AnyCloud
  <2> HIDE DEF b
  <2>10. b.cloud.size <= CLOUD_POINT_MAX + k BY <1>4, <2>1, <2>5, <2>6, <2>8, <2>9
  <2>11. b.first \in NoTime .. LastTime + BLOCKS_PER_PKT BY <1>4, <2>3, <2>5, <2>8 DEF NoTime
  <2>12. P(b, k) BY <2>1, <2>3, <2>8, <2>10, <2>11
  <2>13. b \in {x \in Decodings : P(x, k)} BY <2>8, <2>12
  <2> QED BY <2>1, <2>13 DEF b, t
<1>8. d \in G[good]
  <2> HIDE DEF G, times
  <2> QED BY <1>2, <1>6, <1>7, BlocksReach
<1>9. good \in 0 .. good /\ at(good) = times[good] BY <1>2
<1>10. d \in Decodings /\ P(d, good) BY <1>8, <1>9
<1>11. /\ d.cloud.size <= CLOUD_POINT_MAX + good
       /\ d.first \in NoTime .. LastTime + BLOCKS_PER_PKT
       /\ lidar = "RSBP" => AngleKept(d, o, times[good], Frame(times[good]), r)
       /\ lidar = "byNum" => NumKept(d, r)
  BY <1>9, <1>10
<1>12. times[good] \in Nat /\ good \in 1 .. good BY <1>2
<1> DEFINE x == times[good]
<1> HIDE DEF d, times, o, r, x, G
<1>13. Now' = d /\ over' = o BY <1>1, <1>10, AfterIs DEF o
<1>14. newest' = x /\ x \in Nat BY <1>1, <1>12 DEF x
<1>15. Frame(newest)' = Frame(x) BY <1>1, <1>14 DEF Frame
<1>16. first_point_ts_' = d.first /\ cloud' = d.cloud BY <1>1 DEF After
<1>17. d.cloud.size \in Nat BY <1>10 DEF Decodings, AnyCloud
<1>18. DecoderBasic'
  BY <1>1, <1>2, <1>3, <1>4, <1>5, <1>10, <1>11, <1>13, <1>14, <1>16, <1>17 DEF DecoderBasic
<1>19. (lidar = "RSBP" => AngleKept(Now, over, newest, Frame(newest), rough))'
  BY <1>1, <1>11, <1>13, <1>14, <1>15 DEF x
<1>20. (lidar = "byNum" => NumKept(Now, rough))' BY <1>1, <1>11, <1>13
<1> QED BY <1>1, <1>18, <1>19, <1>20 DEF DecoderInv, Mems

-----------------------------------------------------------------------------
(* The numbers of a MEMS lidar's packets.                                  *)
LEMMA FrameLenIs ==
  /\ FrameLen \in Nat \ {0} /\ RANGE \in Nat \ {0} /\ FrameLen > 3 * RANGE
  /\ MaxLate \in Nat /\ MaxLost \in Nat /\ MaxLost + MaxLate < RANGE
BY DecoderAssumption

(* A packet of a MEMS lidar has a number from 1 on.                        *)
LEMMA NumberIs ==
  ASSUME NEW t \in Nat
  PROVE  Number(t) \in 1 .. FrameLen /\ Number(t) = (t % FrameLen) + 1
<1>1. t % FrameLen \in 0 .. FrameLen - 1 BY FrameLenIs, DivMod
<1> QED BY <1>1, FrameLenIs DEF Number

(* A packet around another is of the same frame, the next or the one       *)
(* before.                                                                 *)
Same(now, t) == t \div FrameLen = now \div FrameLen /\ Number(t) = Number(now) + (t - now)
Later(now, t) == /\ t \div FrameLen = (now \div FrameLen) + 1 /\ now < t
                 /\ Number(t) = Number(now) + (t - now) - FrameLen
Earlier(now, t) == /\ t \div FrameLen = (now \div FrameLen) - 1 /\ t < now
                   /\ Number(t) = Number(now) + (t - now) + FrameLen
(* A packet that is not far from another is of a frame next to its own, or *)
(* the same.                                                               *)
LEMMA Near ==
  ASSUME NEW now \in Nat, NEW t \in Nat, t - now \in -RANGE .. RANGE
  PROVE  Same(now, t) \/ Later(now, t) \/ Earlier(now, t)
<1> DEFINE q == now \div FrameLen
           r == now % FrameLen
           q1 == t \div FrameLen
           r1 == t % FrameLen
<1>1. q \in Nat /\ q1 \in Nat /\ r \in 0 .. FrameLen - 1 /\ r1 \in 0 .. FrameLen - 1
  BY FrameLenIs, DivMod
<1>2. Number(now) = r + 1 /\ Number(t) = r1 + 1 BY NumberIs
<1>3. CASE now <= t
  <2> DEFINE g == t - now
  <2>1. g \in 0 .. FrameLen - 1 /\ now + g = t BY <1>3, FrameLenIs
  <2>2. IF r + g < FrameLen THEN q1 = q /\ r1 = r + g ELSE q1 = q + 1 /\ r1 = r + g - FrameLen
    <3> HIDE DEF g
    <3>1. IF r + g < FrameLen THEN (now + g) \div FrameLen = q /\ (now + g) % FrameLen = r + g
          ELSE (now + g) \div FrameLen = q + 1 /\ (now + g) % FrameLen = r + g - FrameLen
      BY <2>1, FrameLenIs, StepOn
    <3> QED BY <2>1, <3>1
  <2>3. CASE r + g < FrameLen
    <3>1. q1 = q /\ r1 = r + g BY <2>2, <2>3
    <3> HIDE DEF q, r, q1, r1
    <3>2. Same(now, t) BY <1>1, <1>2, <3>1 DEF Same, q, q1
    <3> QED BY <3>2
  <2>4. CASE ~(r + g < FrameLen)
    <3>1. q1 = q + 1 /\ r1 = r + g - FrameLen BY <2>2, <2>4
    <3> HIDE DEF q, r, q1, r1
    <3>2. now < t BY <1>1, <1>3, <2>4, FrameLenIs
    <3>3. Later(now, t) BY <1>1, <1>2, <3>1, <3>2, FrameLenIs DEF Later, q, q1
    <3> QED BY <3>3
  <2> QED BY <2>3, <2>4
<1>4. CASE t < now
  <2> DEFINE g == now - t
  <2>1. g \in 0 .. FrameLen - 1 /\ t + g = now BY <1>4, FrameLenIs
  <2>2. IF r1 + g < FrameLen THEN q = q1 /\ r = r1 + g ELSE q = q1 + 1 /\ r = r1 + g - FrameLen
    <3> HIDE DEF g
    <3>1. IF r1 + g < FrameLen THEN (t + g) \div FrameLen = q1 /\ (t + g) % FrameLen = r1 + g
          ELSE (t + g) \div FrameLen = q1 + 1 /\ (t + g) % FrameLen = r1 + g - FrameLen
      BY <2>1, FrameLenIs, StepOn
    <3> QED BY <2>1, <3>1
  <2>3. CASE r1 + g < FrameLen
    <3>1. q = q1 /\ r = r1 + g BY <2>2, <2>3
    <3> HIDE DEF q, r, q1, r1
    <3>2. Same(now, t) BY <1>1, <1>2, <3>1 DEF Same, q, q1
    <3> QED BY <3>2
  <2>4. CASE ~(r1 + g < FrameLen)
    <3>1. q = q1 + 1 /\ r = r1 + g - FrameLen BY <2>2, <2>4
    <3> HIDE DEF q, r, q1, r1
    <3>3. Earlier(now, t) BY <1>1, <1>2, <1>4, <3>1, FrameLenIs DEF Earlier, q, q1
    <3> QED BY <3>3
  <2> QED BY <2>3, <2>4
<1> QED BY <1>3, <1>4

(* The state of SplitStrategyBySeq after a packet.                         *)
LEMMA SeqNext ==
  ASSUME NEW s \in AnyStrategy, NEW seq \in 1 .. FrameLen
  PROVE  LET n == BySeq(s, seq).next
             rewind == seq < SafeMin(s.prev_seq_)
             taken == rewind \/ seq \in s.prev_seq_ .. s.prev_seq_ + RANGE \/ s.prev_seq_ = 0
         IN  /\ n \in AnyStrategy /\ (BySeq(s, seq).split <=> rewind)
             /\ n.prev_seq_ = IF taken THEN seq ELSE s.prev_seq_
             /\ n.max_seq_ = IF seq > s.max_seq_ THEN seq ELSE s.max_seq_
             /\ n.looped_ <=> (s.looped_ \/ rewind)
             /\ BySeq(s, seq).split \in BOOLEAN
<1> DEFINE n == BySeq(s, seq).next
           rewind == seq < SafeMin(s.prev_seq_)
           taken == rewind \/ seq \in s.prev_seq_ .. s.prev_seq_ + RANGE \/ s.prev_seq_ = 0
           p == IF taken THEN seq ELSE s.prev_seq_
           m == IF seq > s.max_seq_ THEN seq ELSE s.max_seq_
           l == s.looped_ \/ rewind
<1>1. n = [s EXCEPT !.prev_seq_ = p, !.max_seq_ = m, !.looped_ = l] BY DEF BySeq
<1>2. BySeq(s, seq).split = rewind BY DEF BySeq
<1>3. rewind \in BOOLEAN OBVIOUS
<1>4. p \in 0 .. FrameLen /\ m \in 0 .. FrameLen /\ l \in BOOLEAN
  BY FrameLenIs, <1>3 DEF AnyStrategy
<1> HIDE DEF n, p, m, l, rewind
<1>5. n \in AnyStrategy /\ n.prev_seq_ = p /\ n.max_seq_ = m /\ n.looped_ = l
  BY <1>1, <1>4 DEF AnyStrategy
<1> QED BY <1>2, <1>3, <1>5 DEF n, p, m, l, rewind

(* The range below the previous number tells a new frame from a packet     *)
(* that comes late.                                                        *)
LEMMA SeqSplits ==
  ASSUME NEW now \in Nat, NEW p \in Around(now) \cap Nat, p \div FrameLen = now \div FrameLen,
         NEW t \in Nat, t - now \in -MaxLate .. MaxLost + 1,
         NEW s \in AnyStrategy, s.prev_seq_ = Number(p)
  PROVE  LET b == BySeq(s, Number(t))
         IN  /\ b.split => Later(now, t) /\ Number(t) < s.prev_seq_
             /\ ~b.split => Same(now, t) \/ Earlier(now, t)
             /\ b.next.prev_seq_ = IF b.split \/ (Same(now, t) /\ p <= t) THEN Number(t)
                                   ELSE s.prev_seq_
<1> DEFINE b == BySeq(s, Number(t))
           x == Number(now)
           y == Number(t)
           z == Number(p)
<1>1. x \in 1 .. FrameLen /\ y \in 1 .. FrameLen /\ z \in 1 .. FrameLen BY NumberIs
<1>2. p <= now /\ now <= p + MaxLate /\ t - now <= MaxLost + 1 /\ t - now \in -RANGE .. RANGE /\ p - now \in -RANGE .. RANGE
  BY FrameLenIs DEF Around
<1>3. z = x + (p - now)
  <2>1. Same(now, p) \/ Later(now, p) \/ Earlier(now, p) BY <1>2, Near
  <2>2. now \div FrameLen \in Nat BY FrameLenIs, DivMod
  <2> DEFINE q == now \div FrameLen
  <2>3. q \in Nat /\ p \div FrameLen = q BY <2>2
  <2> HIDE DEF q
  <2>4. ~Later(now, p) BY <1>2 DEF Later
  <2>5. ~Earlier(now, p)
    <3>1. q # q - 1 BY <2>3
    <3> QED BY <2>3, <3>1 DEF Earlier, q
  <2> QED BY <2>1, <2>4, <2>5 DEF Same
<1>4. /\ b.split <=> y < SafeMin(z)
      /\ b.next.prev_seq_ = IF y < SafeMin(z) \/ y \in z .. z + RANGE \/ z = 0 THEN y ELSE z
  BY <1>1, SeqNext
<1>5. SafeMin(z) = IF z > RANGE THEN z - RANGE ELSE 0 BY DEF SafeMin
<1>6. Same(now, t) \/ Later(now, t) \/ Earlier(now, t) BY <1>2, Near
<1> HIDE DEF b, x, y, z
<1>7. CASE Same(now, t)
  <2>1. y = x + (t - now) BY <1>7 DEF Same, x, y
  <2>2. ~(y < SafeMin(z)) BY <1>1, <1>2, <1>3, <1>5, <2>1, FrameLenIs
  <2>3. (y \in z .. z + RANGE) <=> p <= t
    <3>1. p \in Int /\ t \in Int /\ t - p <= RANGE BY <1>2, FrameLenIs
    <3>2. y = z + (t - p) BY <1>1, <1>3, <2>1, <3>1
    <3> QED BY <1>1, <3>1, <3>2, FrameLenIs
  <2>4. z # 0 BY <1>1
  <2> QED BY <1>4, <1>7, <2>2, <2>3, <2>4 DEF b, y, z
<1>8. CASE Later(now, t)
  <2>1. y = x + (t - now) - FrameLen BY <1>8 DEF Later, x, y
  <2>2. y < SafeMin(z) /\ y < z BY <1>1, <1>2, <1>3, <1>5, <2>1, FrameLenIs
  <2> QED BY <1>4, <1>8, <2>2 DEF b, y, z
<1>9. CASE Earlier(now, t)
  <2>1. y = x + (t - now) + FrameLen /\ t < now BY <1>9 DEF Earlier, x, y
  <2>2. ~(y < SafeMin(z)) /\ ~(y \in z .. z + RANGE) /\ z # 0
    BY <1>1, <1>2, <1>3, <1>5, <2>1, FrameLenIs
  <2>3. ~Same(now, t)
    <3> DEFINE q == now \div FrameLen
    <3>1. q \in Nat BY FrameLenIs, DivMod
    <3>2. t \div FrameLen = q - 1 BY <1>9 DEF Earlier
    <3> HIDE DEF q
    <3>3. q # q - 1 BY <3>1
    <3> QED BY <3>2, <3>3 DEF Same, q
  <2> QED BY <1>4, <1>9, <2>2, <2>3 DEF b, y, z
<1> QED BY <1>6, <1>7, <1>8, <1>9

-----------------------------------------------------------------------------
(* How many of the packets around the newest are still missing.            *)
LEMMA AroundFinite ==
  ASSUME NEW now \in Int, NEW R
  PROVE  /\ IsFiniteSet(Around(now)) /\ IsFiniteSet(Around(now) \ R)
         /\ Missing(now, R) \in Nat /\ Cardinality(Around(now)) = MaxLate + 1
<1>1. MaxLate \in Nat /\ now - MaxLate \in Int BY FrameLenIs
<1>2. IsFiniteSet(Around(now)) /\ Cardinality(Around(now)) = MaxLate + 1
  <2>1. IsFiniteSet(Around(now))
        /\ Cardinality(Around(now)) = IF now - MaxLate > now THEN 0 ELSE now - (now - MaxLate) + 1
    BY <1>1, FS_Interval DEF Around
  <2> QED BY <1>1, <2>1
<1>3. IsFiniteSet(Around(now) \ R) BY <1>2, FS_Difference
<1>4. Missing(now, R) \in Nat BY <1>3, FS_CardinalityType DEF Missing
<1> QED BY <1>2, <1>3, <1>4

(* All but the one received.                                               *)
LEMMA MissingOne ==
  ASSUME NEW now \in Int, NEW t \in Around(now), NEW R, t \in R
  PROVE  Missing(now, R) <= MaxLate
<1> DEFINE S == Around(now) \ {t}
<1>1. IsFiniteSet(Around(now)) /\ Cardinality(Around(now)) = MaxLate + 1 /\ MaxLate \in Nat
      /\ Missing(now, R) \in Nat
  BY AroundFinite, FrameLenIs
<1>2. IsFiniteSet(S) /\ Cardinality(S) = Cardinality(Around(now)) - 1
  BY <1>1, FS_RemoveElement
<1>3. Around(now) \ R \subseteq S OBVIOUS
<1>4. Cardinality(Around(now) \ R) <= Cardinality(S) BY <1>2, <1>3, FS_Subset
<1> QED BY <1>1, <1>2, <1>4 DEF Missing

(* One that was missing has come.                                          *)
LEMMA MissingLess ==
  ASSUME NEW now \in Int, NEW R, NEW t \in Around(now) \ R, NEW Q, Q = R \cup {t}
  PROVE  Missing(now, Q) = Missing(now, R) - 1
<1> DEFINE S == Around(now) \ R
<1>1. IsFiniteSet(S) BY AroundFinite
<1>2. Around(now) \ Q = S \ {t} OBVIOUS
<1> HIDE DEF S
<1>3. t \in S BY DEF S
<1>4. Cardinality(S \ {t}) = Cardinality(S) - 1 BY <1>1, <1>3, FS_RemoveElement
<1> QED BY <1>2, <1>4 DEF Missing, S

(* The newest is g later: no more than g - 1 others are missing that were  *)
(* not.                                                                    *)
LEMMA MissingMore ==
  ASSUME NEW now \in Int, NEW t \in Int, now < t, NEW R, NEW Q, t \in Q,
         \A u \in R : u >= t - MaxLate => u \in Q
  PROVE  Missing(t, Q) <= Missing(now, R) + (t - now) - 1
<1> DEFINE A == Around(now) \ R
           B == now + 1 .. t - 1
<1>0. MaxLate \in Nat BY FrameLenIs
<1>1. IsFiniteSet(A) /\ Missing(now, R) \in Nat BY AroundFinite
<1>2. IsFiniteSet(B) /\ Cardinality(B) = t - now - 1
  <2>1. now + 1 \in Int /\ t - 1 \in Int OBVIOUS
  <2>2. IsFiniteSet(B) /\ Cardinality(B) = IF now + 1 > t - 1 THEN 0 ELSE (t - 1) - (now + 1) + 1
    BY <2>1, FS_Interval
  <2> QED BY <2>2
<1>3. Around(t) \ Q \subseteq A \cup B
  <2> SUFFICES ASSUME NEW u \in Around(t) \ Q PROVE u \in A \cup B OBVIOUS
  <2>1. u \in Int /\ u >= t - MaxLate /\ u <= t /\ u # t BY <1>0 DEF Around
  <2>2. CASE u <= now
    <3>1. u \in Around(now) BY <1>0, <2>1, <2>2 DEF Around
    <3>2. u \notin R BY <2>1
    <3> QED BY <3>1, <3>2
  <2>3. CASE now < u BY <2>1, <2>3
  <2> QED BY <2>1, <2>2, <2>3
<1> HIDE DEF A, B
<1>4. IsFiniteSet(A \cup B) BY <1>1, <1>2, FS_Union
<1>5. Cardinality(A \cup B) = Cardinality(A) + Cardinality(B) - Cardinality(A \cap B)
  BY <1>1, <1>2, FS_Union
<1>6. Cardinality(A \cap B) \in Nat
  <2>1. IsFiniteSet(A \cap B) BY <1>1, FS_Intersection
  <2> QED BY <2>1, FS_CardinalityType
<1>7. Cardinality(Around(t) \ Q) <= Cardinality(A \cup B) BY <1>3, <1>4, FS_Subset
<1>8. Missing(t, Q) \in Nat /\ Missing(t, Q) = Cardinality(Around(t) \ Q)
      /\ Missing(now, R) = Cardinality(A)
  BY AroundFinite DEF Missing, A
<1> QED BY <1>1, <1>2, <1>5, <1>6, <1>7, <1>8

-----------------------------------------------------------------------------
(* What a packet of a MEMS lidar does to the clouds.                       *)
Ended(e) == [strategy |-> e.strategy, cloud |-> NoPoints, first |-> e.first, put |-> HandedOn(e)]

(* splitFrame(), by its effect.                                            *)
LEMMA SplitFrameIs ==
  ASSUME NEW d \in Decodings
  PROVE  SplitFrame(d) = Ended(d)
<1> DEFINE st == d.strategy
           cl == d.cloud
           fi == d.first
           pu == d.put
           a == Append(pu, [cloud |-> cl, ts |-> fi])
<1>1. d = [strategy |-> st, cloud |-> cl, first |-> fi, put |-> pu] BY DEF Decodings
<1>2. CASE cl = NoPoints
  <2>1. SplitFrame(d) = d /\ HandedOn(d) = pu BY <1>2 DEF SplitFrame, HandedOn
  <2>2. Ended(d) = [strategy |-> st, cloud |-> NoPoints, first |-> fi, put |-> pu]
    BY <2>1 DEF Ended
  <2> HIDE DEF st, cl, fi, pu
  <2> QED BY <1>1, <1>2, <2>1, <2>2
<1>3. CASE cl # NoPoints
  <2>1. SplitFrame(d) = [d EXCEPT !.put = a, !.cloud = NoPoints] /\ HandedOn(d) = a
    BY <1>3 DEF SplitFrame, HandedOn
  <2>2. Ended(d) = [strategy |-> st, cloud |-> NoPoints, first |-> fi, put |-> a]
    BY <2>1 DEF Ended
  <2> HIDE DEF st, cl, fi, pu, a
  <2> QED BY <1>1, <2>1, <2>2
<1> QED BY <1>2, <1>3

(* The decoding state after splitFrame().                                  *)
LEMMA EndedTyped ==
  ASSUME NEW d \in Decodings
  PROVE  Ended(d) \in Decodings /\ Ended(d).cloud.size = 0
BY HandedOnTyped, NoPointsTyped DEF Ended, Decodings

Begins(d, t) == BySeq(d.strategy, Number(t)).split
NextSeq(d, t) == BySeq(d.strategy, Number(t)).next
Placed(d, t) == IF Begins(d, t) THEN Opened(d, NextSeq(d, t), t)
                ELSE Continued(d, NextSeq(d, t), t)
Ends(d, t) == lidar = "RSM1" /\ MaxSeq(NextSeq(d, t)) = Number(t)

(* MemsPacket, by whether the packet ends its frame.                       *)
LEMMA MemsPacketIs ==
  ASSUME NEW d \in Decodings, NEW t \in Nat
  PROVE  /\ MemsPacket(d, t) = IF Ends(d, t) THEN Ended(Placed(d, t)) ELSE Placed(d, t)
         /\ Placed(d, t) \in Decodings /\ MemsPacket(d, t) \in Decodings
         /\ NextSeq(d, t) \in AnyStrategy /\ MemsPacket(d, t).strategy = NextSeq(d, t)
         /\ MemsPacket(d, t).cloud.size <= d.cloud.size + 1
         /\ MemsPacket(d, t).first \in {d.first, t}
<1> DEFINE n == BySeq(d.strategy, Number(t))
           e == Placed(d, t)
           up == Opened(d, NextSeq(d, t), t)
           on == Continued(d, NextSeq(d, t), t)
           b == MemsPacket(d, t)
<1>1. d.strategy \in AnyStrategy /\ d.cloud.size \in Nat BY DEF Decodings, AnyCloud
<1>2. NextSeq(d, t) \in AnyStrategy BY <1>1, NumberIs, SeqNext DEF NextSeq
<1>3. up \in Decodings /\ up.cloud.size = 1 /\ on \in Decodings /\ on.cloud.size = d.cloud.size + 1
  BY <1>2, OpenedTyped, ContinuedTyped
<1>4. /\ up.strategy = NextSeq(d, t) /\ up.first = t
      /\ on.strategy = NextSeq(d, t) /\ on.first = d.first
  BY DEF Opened, Continued
<1>5. e = IF Begins(d, t) THEN up ELSE on BY DEF Placed
<1>6. BeginFrame(d, n, t) = e BY BeginFrameIs DEF Placed, Begins, NextSeq
<1>7. b = IF lidar = "RSM1" /\ MaxSeq(e.strategy) = Number(t) THEN SplitFrame(e) ELSE e
  BY <1>6 DEF MemsPacket
<1> HIDE DEF up, on, e, b, n
<1>8. /\ e \in Decodings /\ e.strategy = NextSeq(d, t) /\ e.first \in {d.first, t}
      /\ e.cloud.size \in Nat /\ e.cloud.size <= d.cloud.size + 1
  BY <1>1, <1>3, <1>4, <1>5
<1>9. b = IF Ends(d, t) THEN Ended(e) ELSE e BY <1>7, <1>8, SplitFrameIs DEF Ends
<1>10. CASE Ends(d, t)
  <2>1. /\ Ended(e) \in Decodings /\ Ended(e).cloud.size = 0
        /\ Ended(e).strategy = e.strategy /\ Ended(e).first = e.first
    BY <1>8, EndedTyped DEF Ended
  <2> QED BY <1>1, <1>2, <1>8, <1>9, <1>10, <2>1 DEF e, b
<1>11. CASE ~Ends(d, t) BY <1>1, <1>2, <1>8, <1>9, <1>11 DEF e, b
<1> QED BY <1>10, <1>11

(* Within the first frame a time is its own remainder.                     *)
LEMMA FirstFrame ==
  ASSUME NEW t \in Nat, t < FrameLen
  PROVE  t \div FrameLen = 0
<1> DEFINE q == t \div FrameLen
           r == t % FrameLen
           z == 0
<1>1. q \in Nat /\ r \in 0 .. FrameLen - 1 /\ t = FrameLen * q + r /\ FrameLen \in Nat \ {0}
  BY FrameLenIs, DivMod
<1>2. FrameLen * z = 0 BY <1>1
<1>3. t \in 0 .. FrameLen - 1 /\ z \in Int BY <1>1
<1> HIDE DEF q, r, z
<1>4. SameNumber(FrameLen, z, t, q, r) BY <1>1, <1>2 DEF SameNumber
<1>5. q \in Int BY <1>1
<1>6. z = q BY <1>1, <1>3, <1>4, <1>5, OneQuotient
<1> QED BY <1>6 DEF q, z

(* The first packet: the cloud begins with it.                             *)
LEMMA MemsFirst ==
  ASSUME lidar \in Mems, NEW d \in Decodings, NEW o, NEW now \in Int, NothingYet(d, o, now),
         NEW t \in Nat, t - now \in -MaxLate .. MaxLost + 1,
         NEW n, n = IF t > now THEN t ELSE now, NEW R, t \in R, NEW r \in BOOLEAN
  PROVE  UnderWay(lidar, MemsPacket(d, t), o, n, R, r)
<1> DEFINE x == Number(t)
           s == NextSeq(d, t)
           b == MemsPacket(d, t)
           on == Continued(d, s, t)
           m == n \div FrameLen
<1>1. /\ d.strategy \in AnyStrategy /\ d.strategy.prev_seq_ = 0 /\ d.strategy.max_seq_ = 0
      /\ ~d.strategy.looped_ /\ d.cloud = NoPoints /\ d.first = NoTime /\ d.put = <<>> /\ o = -1
      /\ now \in -1 .. FrameLen - 2
  BY DEF NothingYet, Decodings
<1>2. x \in 1 .. FrameLen BY NumberIs
<1>3. ~Begins(d, t) /\ s.prev_seq_ = x /\ s.max_seq_ = x /\ ~s.looped_
  <2>1. SafeMin(0) = 0 BY FrameLenIs DEF SafeMin
  <2>2. ~(x < SafeMin(0)) /\ x > 0 BY <1>2, <2>1
  <2> HIDE DEF x
  <2> QED BY <1>1, <1>2, <2>2, SeqNext DEF Begins, NextSeq, x
<1>4. ~Ends(d, t)
  <2>1. MaxSeq(s) = 0 BY <1>3 DEF MaxSeq
  <2> QED BY <1>2, <2>1 DEF Ends
<1>5. b = on /\ b \in Decodings BY <1>3, <1>4, MemsPacketIs DEF Placed
<1>6. b.strategy = s /\ b.put = <<>> /\ b.cloud = Added(NoPoints, t) /\ b.first = NoTime
  BY <1>1, <1>5 DEF Continued
<1>7. b.cloud # NoPoints /\ b.cloud.size = 1 BY <1>6, AddedCloud, NoPointsTyped
<1>8. t \in Around(n) \cap Nat /\ n \in Nat BY <1>1, FrameLenIs DEF Around
<1>9. t \div FrameLen = m
  <2>1. CASE t > now BY <2>1
  <2>2. CASE ~(t > now)
    <3>1. n = now /\ t < FrameLen /\ now \in Nat /\ now < FrameLen BY <1>1, <2>2, FrameLenIs
    <3>2. t \div FrameLen = 0 BY <3>1, FirstFrame
    <3>3. now \div FrameLen = 0 BY <3>1, FirstFrame
    <3> QED BY <3>1, <3>2, <3>3
  <2> QED BY <2>1, <2>2
<1>10. Frame(t) = m /\ m \in Nat
  <2>1. Frame(t) = t \div FrameLen BY DEF Frame
  <2> QED BY <1>9, <2>1, FrameTyped
<1> HIDE DEF b, on, s, x, m
<1>11. PrevKnown(b, n) BY <1>3, <1>6, <1>8, <1>9 DEF PrevKnown, m, x
<1>12. Ordered(b, o, m)
  <2>1. LastFrame(o, d.put) = -1 BY <1>1 DEF LastFrame
  <2>2. Rising(o, d.put) BY <1>1, EmptyDomain DEF Rising
  <2>3. Ordered(d, o, m) BY <1>1, <1>10, <2>1, <2>2 DEF Ordered
  <2>4. Frame(t) <= m /\ LastFrame(o, d.put) < m /\ m \in Int BY <1>10, <2>1
  <2> QED BY <1>5, <1>10, <2>3, <2>4, ContinuedOrdered DEF on
<1>13. lidar = "RSM2" => NoneMissed(b, n, R)
  <2>1. Missing(n, R) <= MaxLate /\ Missing(n, R) \in Nat
    <3>1. n \in Int BY <1>8
    <3> QED BY <1>8, <3>1, MissingOne, AroundFinite
  <2>2. Number(n) \in 1 .. FrameLen BY <1>8, NumberIs
  <2>3. 1 + Missing(n, R) <= Number(n) + MaxLate BY <2>1, <2>2, FrameLenIs
  <2> QED BY <1>7, <2>3 DEF NoneMissed
<1>14. AllWhole(b)
  <2>1. AllWhole(d)
    <3>1. OneFrame(d.cloud) BY <1>1, NoPointsTyped DEF OneFrame
    <3> QED BY <1>1, <3>1, EmptyDomain DEF AllWhole
  <2> QED BY <1>1, <1>5, <2>1, ContinuedWhole DEF on
<1>15. Stamped(b) BY <1>6, EmptyDomain DEF Stamped
<1>16. HighestKnown(b, n)
  <2>1. x <= x BY <1>2
  <2> QED BY <1>3, <1>6, <1>7, <2>1 DEF HighestKnown
<1> QED BY <1>11, <1>12, <1>13, <1>14, <1>15, <1>16 DEF UnderWay, m, b

(* A packet of the next frame hands on the cloud and begins one.           *)
LEMMA MemsBegins ==
  ASSUME lidar \in Mems, NEW d \in Decodings, NEW o, NEW now \in Nat,
         NEW Q, NEW r \in BOOLEAN, UnderWay(lidar, d, o, now, Q, r),
         NEW t \in Nat, t - now \in -MaxLate .. MaxLost + 1, Begins(d, t), NEW R, t \in R
  PROVE  now < t /\ UnderWay(lidar, MemsPacket(d, t), o, t, R, r)
<1> DEFINE x == Number(t)
           s == NextSeq(d, t)
           b == MemsPacket(d, t)
           up == Opened(d, s, t)
           m == now \div FrameLen
           v == d.strategy
<1>1. v \in AnyStrategy BY DEF Decodings
<1>2. x \in 1 .. FrameLen BY NumberIs
<1>3. PICK p \in Around(now) \cap Nat : p \div FrameLen = m /\ v.prev_seq_ = Number(p)
  BY DEF UnderWay, PrevKnown
<1>4. Later(now, t) /\ x < v.prev_seq_ /\ s.prev_seq_ = x
  BY <1>1, <1>3, SeqSplits DEF Begins, NextSeq
<1>5. /\ s.max_seq_ = IF x > v.max_seq_ THEN x ELSE v.max_seq_
      /\ s.looped_ <=> (v.looped_ \/ x < SafeMin(v.prev_seq_))
      /\ x < SafeMin(v.prev_seq_)
  BY <1>1, <1>2, SeqNext DEF Begins, NextSeq
<1>6. s.looped_ BY <1>5
<1>7. v.prev_seq_ \in Nat /\ v.max_seq_ \in Nat BY <1>1, FrameLenIs DEF AnyStrategy
<1>8. lidar = "RSM1" => v.prev_seq_ <= v.max_seq_ BY DEF UnderWay, HighestKnown
<1>9. lidar = "RSM1" => s.max_seq_ = v.max_seq_ /\ x < s.max_seq_
  BY <1>2, <1>4, <1>5, <1>7, <1>8
<1>10. ~Ends(d, t)
  <2>1. lidar = "RSM1" => MaxSeq(s) # x BY <1>2, <1>6, <1>7, <1>9 DEF MaxSeq
  <2> QED BY <2>1 DEF Ends
<1>11. b = up /\ b \in Decodings BY <1>10, MemsPacketIs DEF Placed
<1>12. b.strategy = s /\ b.cloud = Added(NoPoints, t) BY <1>11 DEF Opened
<1>13. b.cloud # NoPoints /\ b.cloud.size = 1 BY <1>12, AddedCloud, NoPointsTyped
<1>14. t \in Around(t) \cap Nat /\ t \in Int BY FrameLenIs DEF Around
<1>15. m \in Nat /\ Frame(t) = t \div FrameLen /\ Frame(t) = m + 1
  <2>1. m \in Nat BY FrameLenIs, DivMod
  <2> QED BY <1>4, <2>1 DEF Frame, Later
<1>16. now < t BY <1>4 DEF Later
<1> HIDE DEF b, up, s, x, m, v
<1>17. PrevKnown(b, t) BY <1>4, <1>12, <1>14 DEF PrevKnown, x
<1>18. Ordered(b, o, t \div FrameLen)
  <2>1. Ordered(d, o, m) BY DEF UnderWay, m
  <2>2. m \in Int /\ m < Frame(t) BY <1>15
  <2> QED BY <1>11, <1>15, <2>1, <2>2, OpenedOrdered DEF up
<1>19. lidar = "RSM2" => NoneMissed(b, t, R)
  <2>1. Missing(t, R) <= MaxLate /\ Missing(t, R) \in Nat BY <1>14, MissingOne, AroundFinite
  <2>2. 1 + Missing(t, R) <= x + MaxLate BY <1>2, <2>1, FrameLenIs
  <2> QED BY <1>13, <2>2 DEF NoneMissed, x
<1>20. ~r => AllWhole(b) /\ Stamped(b)
  <2> SUFFICES ASSUME ~r PROVE AllWhole(b) /\ Stamped(b) OBVIOUS
  <2>1. AllWhole(d) /\ Stamped(d) BY DEF UnderWay
  <2> QED BY <1>11, <2>1, OpenedWhole, OpenedStamped DEF up
<1>21. lidar = "RSM1" => HighestKnown(b, t)
  <2> SUFFICES ASSUME lidar = "RSM1" PROVE HighestKnown(b, t) OBVIOUS
  <2>1. x <= s.max_seq_ BY <1>2, <1>7, <1>9
  <2> QED BY <1>4, <1>12, <1>13, <2>1 DEF HighestKnown, x
<1> QED BY <1>16, <1>17, <1>18, <1>19, <1>20, <1>21 DEF UnderWay, b

(* The end of a packet's frame, as far as it is known.                     *)
LastOf(v, t) == (t \div FrameLen) * FrameLen
                + (IF lidar = "RSM1" /\ v.looped_ THEN v.max_seq_ ELSE FrameLen) - 1

(* The last packet known of a frame, counted from another one of it.       *)
LEMMA LastOfIs ==
  ASSUME NEW v \in AnyStrategy, NEW t \in Nat
  PROVE  LastOf(v, t) = t - Number(t) + IF lidar = "RSM1" /\ v.looped_ THEN v.max_seq_ ELSE FrameLen
<1> DEFINE q == t \div FrameLen
           r == t % FrameLen
           k == IF lidar = "RSM1" /\ v.looped_ THEN v.max_seq_ ELSE FrameLen
<1>1. q \in Nat /\ r \in 0 .. FrameLen - 1 /\ t = FrameLen * q + r /\ FrameLen \in Nat
  BY FrameLenIs, DivMod
<1>2. Number(t) = r + 1 BY NumberIs
<1>3. q * FrameLen = FrameLen * q /\ FrameLen * q \in Int BY <1>1
<1>4. k \in Int BY <1>1 DEF AnyStrategy
<1>5. LastOf(v, t) = q * FrameLen + k - 1 BY DEF LastOf
<1> HIDE DEF q, r, k
<1> QED BY <1>1, <1>2, <1>3, <1>4, <1>5 DEF k

(* The newest packet and those around it, after another one.               *)
Newer(now, t) == IF t > now THEN t ELSE now
StillAround(Q, t, n) == {u \in Q \cup {t} : u >= n - MaxLate}

(* A packet of the same frame, or a late one of the frame before.          *)
LEMMA MemsGoesOn ==
  ASSUME lidar \in Mems, NEW d \in Decodings, NEW o, NEW now \in Nat,
         NEW Q, Q \subseteq Around(now), NEW r \in BOOLEAN, UnderWay(lidar, d, o, now, Q, r),
         lidar = "RSM1" => ~r,
         NEW t \in Nat, t - now \in -MaxLate .. MaxLost + 1, t \notin Q, ~Begins(d, t),
         ~r => now < LastOf(d.strategy, t) /\ t <= LastOf(d.strategy, t),
         NEW n, n = Newer(now, t), NEW R, R = StillAround(Q, t, n)
  PROVE  UnderWay(lidar, MemsPacket(d, t), o, n, R, r)
<1> USE DEF Newer, StillAround
<1> DEFINE x == Number(t)
           s == NextSeq(d, t)
           b == MemsPacket(d, t)
           on == Continued(d, s, t)
           m == now \div FrameLen
           v == d.strategy
<1>1. v \in AnyStrategy /\ s \in AnyStrategy /\ d.cloud.size \in Nat /\ d.cloud \in AnyCloud
  BY MemsPacketIs DEF Decodings, AnyCloud
<1>2. x \in 1 .. FrameLen /\ Number(now) \in 1 .. FrameLen BY NumberIs
<1>3. PICK p \in Around(now) \cap Nat : p \div FrameLen = m /\ v.prev_seq_ = Number(p)
  BY DEF UnderWay, PrevKnown
<1>4. /\ Same(now, t) \/ Earlier(now, t)
      /\ s.prev_seq_ = IF Same(now, t) /\ p <= t THEN x ELSE v.prev_seq_
  BY <1>1, <1>3, SeqSplits DEF Begins, NextSeq
<1>5. /\ s.max_seq_ = IF x > v.max_seq_ THEN x ELSE v.max_seq_
      /\ s.looped_ <=> v.looped_
  BY <1>1, <1>2, SeqNext DEF Begins, NextSeq
<1>6. m \in Nat /\ Frame(t) = t \div FrameLen /\ Frame(t) \in Nat /\ p <= now
  BY FrameLenIs, DivMod, FrameTyped DEF Frame, Around
<1>7. v.max_seq_ \in 0 .. FrameLen /\ v.prev_seq_ \in 0 .. FrameLen /\ v.looped_ \in BOOLEAN
  BY <1>1 DEF AnyStrategy
<1> HIDE DEF b, on, s, x, m, v
<1>8. ASSUME ~r
      PROVE  /\ Same(now, t) /\ Frame(t) = m
             /\ lidar = "RSM1" /\ v.looped_ => x <= v.max_seq_ /\ Number(now) # v.max_seq_
             /\ lidar = "RSM1" /\ v.looped_ /\ x = v.max_seq_ => now < t
  <2> DEFINE k == IF lidar = "RSM1" /\ v.looped_ THEN v.max_seq_ ELSE FrameLen
             y == Number(now)
  <2>1. LastOf(v, t) = t - x + k /\ now < LastOf(v, t) /\ t <= LastOf(v, t)
    BY <1>1, <1>8, LastOfIs DEF v, x
  <2>2. k \in Int /\ k <= FrameLen BY <1>7, FrameLenIs
  <2>3. y \in 1 .. FrameLen BY <1>2
  <2> HIDE DEF k, y
  <2>4. ~Earlier(now, t)
    <3> SUFFICES ASSUME Earlier(now, t) PROVE FALSE OBVIOUS
    <3>1. x = y + (t - now) + FrameLen BY DEF Earlier, x, y
    <3> QED BY <1>2, <2>1, <2>2, <2>3, <3>1, FrameLenIs
  <2>5. Same(now, t) BY <1>4, <2>4
  <2>6. x = y + (t - now) BY <2>5 DEF Same, x, y
  <2>7. x <= k /\ y < k BY <1>2, <2>1, <2>2, <2>3, <2>6, FrameLenIs
  <2>8. x = k => now < t BY <1>2, <2>1, <2>2, <2>3, <2>6
  <2>9. Frame(t) = m BY <1>6, <2>5 DEF Same, m
  <2>10. lidar = "RSM1" /\ v.looped_ => k = v.max_seq_ BY DEF k
  <2>11. y # k BY <2>2, <2>3, <2>7
  <2> QED BY <2>5, <2>7, <2>8, <2>9, <2>10, <2>11 DEF y
<1>9. d.cloud # NoPoints
  <2>1. CASE lidar = "RSM2" BY <2>1 DEF UnderWay, NoneMissed
  <2>2. CASE lidar = "RSM1"
    <3>1. d.cloud = NoPoints => v.looped_ /\ Number(now) = v.max_seq_
      BY <2>2 DEF UnderWay, HighestKnown, v
    <3> QED BY <1>8, <2>2, <3>1
  <2> QED BY <2>1, <2>2 DEF Mems
<1>10. n \in Nat /\ n >= now /\ n >= t /\ MaxLate \in Nat
  BY FrameLenIs
<1>11. n \div FrameLen = m /\ Frame(t) <= m /\ (t > now => Same(now, t))
  <2>1. CASE Same(now, t)
    <3>1. t \div FrameLen = m BY <2>1 DEF Same, m
    <3> QED BY <1>6, <2>1, <3>1 DEF m
  <2>2. CASE Earlier(now, t)
    <3>1. t < now /\ t \div FrameLen = m - 1 BY <2>2 DEF Earlier, m
    <3>2. n = now /\ ~(t > now) BY <3>1
    <3> QED BY <1>6, <3>1, <3>2 DEF m
  <2> QED BY <1>4, <2>1, <2>2
<1>12. on \in Decodings /\ on.strategy = s /\ on.cloud = Added(d.cloud, t)
       /\ on.put = d.put /\ on.first = d.first /\ on.cloud.size = d.cloud.size + 1
  BY <1>1, ContinuedTyped DEF on, Continued
<1>13. on.cloud # NoPoints BY <1>1, <1>12, AddedCloud
<1>14. b = IF Ends(d, t) THEN Ended(on) ELSE on
  BY MemsPacketIs DEF b, on, s, Placed
<1>15. b.strategy = s BY MemsPacketIs DEF b, s
<1>16. Ordered(on, o, m)
  <2>1. Ordered(d, o, m) /\ m \in Int BY <1>6 DEF UnderWay, m
  <2> QED BY <1>9, <1>11, <2>1, ContinuedOrdered DEF on
<1>17. PrevKnown(b, n)
  <2>1. CASE Same(now, t) /\ p <= t
    <3>1. t \in Around(n) \cap Nat BY <1>10, <2>1, FrameLenIs DEF Around
    <3>2. t \div FrameLen = n \div FrameLen BY <1>11, <2>1 DEF Same, m
    <3> QED BY <1>4, <1>15, <2>1, <3>1, <3>2 DEF PrevKnown, x
  <2>2. CASE ~(Same(now, t) /\ p <= t)
    <3>1. n = now BY <1>6, <1>11, <2>2
    <3> QED BY <1>3, <1>4, <1>11, <1>15, <2>2, <3>1 DEF PrevKnown
  <2> QED BY <2>1, <2>2
<1>18. ~r => AllWhole(on) /\ Stamped(on)
  <2> SUFFICES ASSUME ~r PROVE AllWhole(on) /\ Stamped(on) OBVIOUS
  <2>1. AllWhole(d) /\ Stamped(d) /\ Ordered(d, o, m) BY DEF UnderWay, m
  <2>2. Frame(t) \in d.cloud.frames BY <1>8, <1>9, <2>1 DEF Ordered
  <2> QED BY <1>9, <2>1, <2>2, ContinuedWhole, ContinuedStamped DEF on
<1>19. CASE lidar = "RSM2"
  <2>1. b = on BY <1>14, <1>19 DEF Ends
  <2>2. d.cloud.size + Missing(now, Q) <= Number(now) + MaxLate
    BY <1>19 DEF UnderWay, NoneMissed
  <2>3. Missing(now, Q) \in Nat /\ Missing(n, R) \in Nat
    <3>1. now \in Int /\ n \in Int BY <1>10
    <3> QED BY <3>1, AroundFinite
  <2>4. on.cloud.size + Missing(n, R) <= Number(n) + MaxLate
    <3>1. CASE t > now
      <4>1. n = t /\ t \in Int /\ now \in Int BY <3>1
      <4>2. Number(t) = Number(now) + (t - now) BY <1>11, <3>1 DEF Same
      <4>3. t \in R BY <1>10, <4>1
      <4>4. \A u \in Q : u >= t - MaxLate => u \in R BY <4>1
      <4>5. Missing(t, R) <= Missing(now, Q) + (t - now) - 1
        BY <3>1, <4>1, <4>3, <4>4, MissingMore
      <4> QED BY <1>1, <1>2, <1>10, <1>12, <2>2, <2>3, <4>1, <4>2, <4>5
    <3>2. CASE ~(t > now)
      <4>1. n = now /\ now \in Int BY <3>2
      <4>2. t \in Around(now) \ Q BY <3>2, FrameLenIs DEF Around
      <4>3. \A u \in Q : u >= now - MaxLate BY FrameLenIs DEF Around
      <4>4. R = Q \cup {t}
        <5>1. t >= now - MaxLate BY FrameLenIs
        <5> QED BY <4>1, <4>3, <5>1
      <4>5. Missing(now, R) = Missing(now, Q) - 1 BY <4>1, <4>2, <4>4, MissingLess
      <4> QED BY <1>1, <1>2, <1>10, <1>12, <2>2, <2>3, <4>1, <4>5
    <3> QED BY <3>1, <3>2
  <2>5. NoneMissed(b, n, R) BY <1>13, <2>1, <2>4 DEF NoneMissed
  <2> QED BY <1>11, <1>16, <1>17, <1>18, <1>19, <2>1, <2>5 DEF UnderWay, b
<1>20. CASE lidar = "RSM1"
  <2>1. ~r BY <1>20
  <2>2. v.prev_seq_ <= v.max_seq_ /\ (v.looped_ => Number(now) <= v.max_seq_)
    BY <1>20 DEF UnderWay, HighestKnown, v
  <2>3. v.looped_ => s.max_seq_ = v.max_seq_ BY <1>2, <1>5, <1>7, <1>8, <1>20, <2>1
  <2>4. s.prev_seq_ <= s.max_seq_ BY <1>2, <1>4, <1>5, <1>7, <2>2
  <2>5. s.looped_ => Number(n) <= s.max_seq_
    <3>1. n = t \/ n = now OBVIOUS
    <3> QED BY <1>2, <1>5, <1>8, <1>20, <2>1, <2>2, <2>3, <3>1 DEF x
  <2>6. CASE Ends(d, t)
    <3>1. b = Ended(on) BY <1>14, <2>6
    <3>2. s.looped_ /\ s.max_seq_ = x BY <1>2, <2>6 DEF Ends, MaxSeq, s, x
    <3>3. n = t /\ Number(n) = s.max_seq_
      <4>1. now < t BY <1>5, <1>8, <1>20, <2>1, <2>3, <3>2
      <4>2. n = t BY <4>1
      <4> QED BY <3>2, <4>2 DEF x
    <3>4. b.cloud = NoPoints /\ b.put = HandedOn(on) BY <3>1 DEF Ended
    <3>5. Ordered(b, o, m)
      <4>1. m \in Int BY <1>6
      <4>2. /\ Rising(o, HandedOn(on)) /\ LastFrame(o, HandedOn(on)) = m
        BY <1>12, <1>13, <1>16, <4>1, HandedOnOrdered
      <4> QED BY <3>4, <4>1, <4>2 DEF Ordered
    <3>6. AllWhole(b)
      <4>1. AllWhole(on) BY <1>18, <2>1
      <4>2. OneFrame(NoPoints) BY NoPointsTyped DEF OneFrame
      <4>3. \A i \in DOMAIN HandedOn(on) : OneFrame(HandedOn(on)[i].cloud)
        BY <1>12, <4>1, HandedOnElement DEF AllWhole
      <4> QED BY <3>4, <4>2, <4>3 DEF AllWhole
    <3>7. Stamped(b)
      <4>1. Stamped(on) BY <1>18, <2>1
      <4>2. \A i \in DOMAIN HandedOn(on) :
              HandedOn(on)[i].ts \in {HandedOn(on)[i].cloud.first, NoTime}
        BY <1>12, <4>1, HandedOnElement DEF Stamped
      <4> QED BY <3>4, <4>2 DEF Stamped
    <3>8. HighestKnown(b, n) BY <1>15, <2>4, <2>5, <3>2, <3>3 DEF HighestKnown
    <3> QED BY <1>11, <1>17, <1>20, <3>5, <3>6, <3>7, <3>8 DEF UnderWay, b
  <2>7. CASE ~Ends(d, t)
    <3>1. b = on BY <1>14, <2>7
    <3>2. HighestKnown(b, n) BY <1>13, <1>15, <2>4, <2>5, <3>1 DEF HighestKnown
    <3> QED BY <1>11, <1>16, <1>17, <1>18, <1>20, <3>1, <3>2 DEF UnderWay, b
  <2> QED BY <2>6, <2>7
<1> QED BY <1>19, <1>20 DEF Mems

-----------------------------------------------------------------------------
(* A MEMS lidar's state before a packet is decoded.  An RSM2's cloud never *)
(* overflows, and an RSM1's does not unless that is rough.                 *)
LEMMA BeforeMems ==
  ASSUME DecoderInv, lidar \in Mems, NEW r \in BOOLEAN, ~r => ~rough /\ ~Overflown,
         lidar = "RSM2" \/ ~r
  PROVE  /\ ~Overflown
         /\ IF recent = {} THEN NothingYet(Before, LastFrame(over, put), newest)
            ELSE UnderWay(lidar, Before, LastFrame(over, put), newest, recent, r)
         /\ recent # {} => newest \in Nat
<1> DEFINE o == LastFrame(over, put)
           m == newest \div FrameLen
<1>1. /\ Now \in Decodings /\ rough \in BOOLEAN /\ newest \in Int /\ cloud \in AnyCloud
      /\ MemsKept(lidar, Now, over, newest, recent, rough)
  BY DEF DecoderInv, DecoderBasic, Now, Decodings
<1>2. IF recent = {} THEN NothingYet(Now, over, newest)
      ELSE UnderWay(lidar, Now, over, newest, recent, rough)
  BY <1>1 DEF MemsKept
<1>3. /\ Before \in Decodings /\ Before.strategy = strategy /\ Before.first = first_point_ts_
      /\ Before.put = <<>> /\ Before.cloud = IF Overflown THEN NoPoints ELSE cloud
  BY <1>1, BeforeIs
<1>4. CASE recent = {}
  <2>1. /\ strategy.prev_seq_ = 0 /\ strategy.max_seq_ = 0 /\ ~strategy.looped_
        /\ cloud = NoPoints /\ first_point_ts_ = NoTime /\ put = <<>> /\ over = -1
        /\ newest \in -1 .. FrameLen - 2
    BY <1>2, <1>4, NowIs DEF NothingYet
  <2>2. ~Overflown BY <2>1, NoPointsTyped, DecoderAssumption DEF Overflown
  <2>3. o = over BY <2>1 DEF LastFrame
  <2>4. NothingYet(Before, o, newest) BY <1>3, <2>1, <2>2, <2>3 DEF NothingYet
  <2> QED BY <1>4, <2>2, <2>4
<1>5. CASE recent # {}
  <2>1. UnderWay(lidar, Now, over, newest, recent, rough) BY <1>2, <1>5
  <2>2. newest \in Nat
    <3>1. PICK p \in Around(newest) \cap Nat : TRUE BY <2>1 DEF UnderWay, PrevKnown
    <3> QED BY <1>1, <3>1, FrameLenIs DEF Around
  <2>3. ~Overflown
    <3>1. CASE lidar = "RSM2"
      <4>1. cloud.size + Missing(newest, recent) <= Number(newest) + MaxLate
        BY <2>1, <3>1, NowIs DEF UnderWay, NoneMissed
      <4>2. Missing(newest, recent) \in Nat BY <1>1, AroundFinite
      <4>3. Number(newest) \in 1 .. FrameLen /\ cloud.size \in Nat
        BY <1>1, <2>2, NumberIs DEF AnyCloud
      <4>4. cloud.size <= FrameLen + MaxLate BY <4>1, <4>2, <4>3, FrameLenIs
      <4>5. FrameLen + MaxLate \in Nat /\ CLOUD_POINT_MAX \in Nat
        BY FrameLenIs, DecoderAssumption
      <4> QED BY <4>3, <4>4, <4>5, FrameFits DEF Overflown
    <3>2. CASE ~r BY <3>2
    <3> QED BY <3>1, <3>2
  <2>4. Before.cloud = cloud BY <1>3, <2>3
  <2>5. PrevKnown(Before, newest) BY <1>3, <2>1, NowIs DEF UnderWay, PrevKnown
  <2>6. Ordered(Before, o, m)
    <3>1. /\ o \in Int /\ o <= m
          /\ cloud # NoPoints => o < m /\ m \in cloud.frames /\ \A g \in cloud.frames : g <= m
      BY <2>1, NowIs DEF UnderWay, Ordered
    <3>2. LastFrame(o, Before.put) = o BY <1>3 DEF LastFrame
    <3>3. Rising(o, Before.put) BY <1>3, EmptyDomain DEF Rising
    <3> HIDE DEF o, m
    <3> QED BY <2>4, <3>1, <3>2, <3>3 DEF Ordered
  <2>7. lidar = "RSM2" => NoneMissed(Before, newest, recent)
    BY <2>1, <2>4, NowIs DEF UnderWay, NoneMissed
  <2>8. ~r => AllWhole(Before) /\ Stamped(Before)
    <3> SUFFICES ASSUME ~r PROVE AllWhole(Before) /\ Stamped(Before) OBVIOUS
    <3>1. OneFrame(cloud) /\ (cloud # NoPoints => first_point_ts_ \in {cloud.first, NoTime})
      BY <2>1, NowIs DEF UnderWay, AllWhole, Stamped
    <3> QED BY <1>3, <2>4, <3>1, EmptyDomain DEF AllWhole, Stamped
  <2>9. lidar = "RSM1" => HighestKnown(Before, newest)
    BY <1>3, <2>1, <2>4, NowIs DEF UnderWay, HighestKnown
  <2>10. UnderWay(lidar, Before, o, newest, recent, r)
    BY <2>5, <2>6, <2>7, <2>8, <2>9 DEF UnderWay
  <2> QED BY <1>5, <2>2, <2>3, <2>10
<1> QED BY <1>4, <1>5

(* A packet of a MEMS lidar, in any order with those around it.            *)
LEMMA MemsMsopKept ==
  ASSUME DecoderInv, NEW t \in 0 .. LastTime, MemsMsop(t)
  PROVE  DecoderInv'
<1> DEFINE d == MemsPacket(Before, t)
           o == LastFrame(over, put)
           n == IF t > newest THEN t ELSE newest
           R == {u \in recent \cup {t} : u >= n - MaxLate}
           r == rough \/ Overflown \/ newest >= Last(t) \/ t > Last(t)
<1>1. /\ lidar \in Mems /\ t - newest \in -MaxLate .. MaxLost + 1 /\ t \notin recent
      /\ After(d) /\ newest' = n /\ rough' = r
      /\ lidar' = lidar /\ wait_for_difop' = wait_for_difop /\ angles_ready_' = angles_ready_
      /\ split_blks_per_frame_' = split_blks_per_frame_
  BY DEF MemsMsop
<1>2. recent' = R BY <1>1 DEF MemsMsop
<1>3. /\ Now \in Decodings /\ rough \in BOOLEAN /\ newest \in Int /\ newest >= -1
      /\ split_blks_per_frame_ \in SplitBlks /\ recent \in SUBSET Int
      /\ wait_for_difop \in BOOLEAN /\ angles_ready_ \in BOOLEAN
      /\ first_point_ts_ \in NoTime .. LastTime + BLOCKS_PER_PKT
      /\ recent \subseteq Around(newest)
  BY <1>1 DEF DecoderInv, DecoderBasic, MemsKept
<1>4. /\ CLOUD_POINT_MAX \in Nat /\ LastTime \in Nat /\ BLOCKS_PER_PKT \in Nat \ {0} /\ t \in Nat
      /\ t <= LastTime
  BY DecoderAssumption
<1>5. /\ Before \in Decodings /\ Before.cloud.size <= CLOUD_POINT_MAX
      /\ Before.first = first_point_ts_ /\ Before.strategy = strategy
  BY <1>3, BeforeIs
<1>6. d \in Decodings /\ d.cloud.size <= Before.cloud.size + 1 /\ d.first \in {Before.first, t}
  BY <1>4, <1>5, MemsPacketIs
<1>7. r \in BOOLEAN BY <1>3 DEF Overflown
<1>8. n \in Int /\ n >= -1 /\ n >= t /\ n >= newest /\ (n = t \/ n = newest) BY <1>3, <1>4
<1>9. t \in R /\ R \subseteq Around(n) /\ R \in SUBSET Int
  <2>1. t >= n - MaxLate /\ t <= n /\ n \in Int
    <3>1. t - newest >= -MaxLate BY <1>1, <1>3, FrameLenIs
    <3> QED BY <1>3, <1>4, <1>8, <3>1, FrameLenIs
  <2>2. \A u \in recent : u \in Int /\ u <= newest BY <1>3, FrameLenIs DEF Around
  <2>3. \A u \in R : u \in Int /\ u <= n /\ u >= n - MaxLate
    <3> HIDE DEF n
    <3> QED BY <1>3, <1>4, <1>8, <2>1, <2>2
  <2> HIDE DEF n
  <2>4. t \in R BY <2>1
  <2>5. R \subseteq Around(n)
    <3> HIDE DEF R
    <3> QED BY <1>8, <2>3, FrameLenIs DEF Around
  <2> QED BY <2>3, <2>4, <2>5
<1>10. ASSUME lidar = "RSM2" \/ ~r
       PROVE  UnderWay(lidar, d, o, n, R, r)
  <2>1. ~r => ~rough /\ ~Overflown OBVIOUS
  <2>2. /\ ~Overflown /\ (recent # {} => newest \in Nat)
        /\ IF recent = {} THEN NothingYet(Before, o, newest)
           ELSE UnderWay(lidar, Before, o, newest, recent, r)
    <3> HIDE DEF r, o
    <3> QED BY <1>1, <1>7, <1>10, <2>1, BeforeMems DEF o
  <2>3. ~r => newest < LastOf(strategy, t) /\ t <= LastOf(strategy, t)
    <3> SUFFICES ASSUME ~r PROVE newest < LastOf(strategy, t) /\ t <= LastOf(strategy, t)
      OBVIOUS
    <3>1. Last(t) = LastOf(strategy, t) BY DEF Last, LastOf
    <3>2. ~(newest >= Last(t)) /\ ~(t > Last(t)) OBVIOUS
    <3>3. Last(t) \in Int
      <4>1. strategy \in AnyStrategy BY <1>3 DEF Now, Decodings
      <4>2. strategy.max_seq_ \in Int BY <4>1, FrameLenIs DEF AnyStrategy
      <4> QED BY <1>4, <3>1, <4>1, <4>2, LastOfIs, NumberIs, FrameLenIs
    <3> QED BY <1>3, <1>4, <3>1, <3>2, <3>3
  <2>4. n = IF t > newest THEN t ELSE newest OBVIOUS
  <2>5. R = StillAround(recent, t, n) /\ n = Newer(newest, t) BY DEF StillAround, Newer
  <2> HIDE DEF d, o, n, R, r
  <2>6. CASE recent = {}
    <3>1. NothingYet(Before, o, newest) BY <2>2, <2>6
    <3> QED BY <1>1, <1>3, <1>4, <1>5, <1>7, <1>9, <2>4, <3>1, MemsFirst DEF d
  <2>7. CASE recent # {}
    <3>1. UnderWay(lidar, Before, o, newest, recent, r) /\ newest \in Nat BY <2>2, <2>7
    <3>2. CASE Begins(Before, t)
      <4>1. newest < t /\ UnderWay(lidar, MemsPacket(Before, t), o, t, R, r)
        BY <1>1, <1>4, <1>5, <1>7, <1>9, <3>1, <3>2, MemsBegins
      <4>2. n = t BY <2>4, <4>1
      <4> QED BY <4>1, <4>2 DEF d
    <3>3. CASE ~Begins(Before, t)
      <4>1. lidar = "RSM1" => ~r BY <1>10
      <4>2. ~r => newest < LastOf(Before.strategy, t) /\ t <= LastOf(Before.strategy, t)
        BY <1>5, <2>3
      <4> QED
        BY <1>1, <1>3, <1>4, <1>5, <1>7, <2>4, <2>5, <3>1, <3>3, <4>1, <4>2,
           MemsGoesOn DEF d
    <3> QED BY <3>2, <3>3
  <2> QED BY <2>6, <2>7
<1> HIDE DEF d, o, n, R, r
<1>11. R # {} BY <1>9
<1>12. MemsKept(lidar, d, o, n, R, r) BY <1>9, <1>10, <1>11 DEF MemsKept
<1>13. Now' = d /\ over' = o BY <1>1, <1>6, AfterIs DEF o
<1>14. first_point_ts_' = d.first /\ cloud' = d.cloud BY <1>1 DEF After
<1>15. d.cloud.size \in Nat /\ Before.cloud.size \in Nat
  BY <1>5, <1>6 DEF Decodings, AnyCloud
<1>16. d.cloud.size <= CLOUD_POINT_MAX + BLOCKS_PER_PKT BY <1>4, <1>5, <1>6, <1>15
<1>17. d.first \in NoTime .. LastTime + BLOCKS_PER_PKT BY <1>3, <1>4, <1>5, <1>6 DEF NoTime
<1>18. DecoderBasic'
  BY <1>1, <1>2, <1>3, <1>6, <1>7, <1>8, <1>9, <1>13, <1>14, <1>16, <1>17 DEF DecoderBasic
<1>19. MemsKept(lidar, Now, over, newest, recent, rough)'
  BY <1>1, <1>2, <1>12, <1>13
<1> QED BY <1>1, <1>18, <1>19 DEF DecoderInv, Mems

(* A packet that is refused leaves what was decoded, but for the cloud that *)
(* was too large.                                                          *)
LEMMA RefuseKept == DecoderInv /\ Refuse => DecoderInv'
<1> SUFFICES ASSUME DecoderInv, Refuse PROVE DecoderInv' OBVIOUS
<1> DEFINE o == LastFrame(over, put)
           r == rough \/ Overflown
<1>1. /\ After(Before) /\ rough' = r
      /\ lidar' = lidar /\ wait_for_difop' = wait_for_difop /\ angles_ready_' = angles_ready_
      /\ split_blks_per_frame_' = split_blks_per_frame_ /\ newest' = newest /\ recent' = recent
  BY DEF Refuse
<1>2. /\ Now \in Decodings /\ rough \in BOOLEAN /\ newest \in Int /\ newest >= -1
      /\ lidar \in {"RSBP", "byNum"} \cup Mems
      /\ split_blks_per_frame_ \in SplitBlks /\ recent \in SUBSET Int
      /\ wait_for_difop \in BOOLEAN /\ angles_ready_ \in BOOLEAN
      /\ first_point_ts_ \in NoTime .. LastTime + BLOCKS_PER_PKT
  BY DEF DecoderInv, DecoderBasic
<1>3. r \in BOOLEAN BY <1>2 DEF Overflown
<1>4. /\ Before \in Decodings /\ Before.cloud.size <= CLOUD_POINT_MAX
      /\ Before.first = first_point_ts_
  BY <1>2, BeforeIs
<1>5. Now' = Before /\ over' = o BY <1>1, <1>4, AfterIs DEF o
<1>6. first_point_ts_' = first_point_ts_ /\ cloud' = Before.cloud BY <1>1, <1>4 DEF After
<1>7. cloud'.size <= CLOUD_POINT_MAX + BLOCKS_PER_PKT
  <2>1. CLOUD_POINT_MAX \in Nat /\ BLOCKS_PER_PKT \in Nat BY DecoderAssumption
  <2>2. Before.cloud.size \in Nat BY <1>4 DEF Decodings, AnyCloud
  <2> QED BY <1>4, <1>6, <2>1, <2>2
<1>8. DecoderBasic'
  BY <1>1, <1>2, <1>3, <1>4, <1>5, <1>6, <1>7 DEF DecoderBasic
<1>9. ASSUME lidar = "RSBP" PROVE AngleKept(Before, o, newest, Frame(newest), r)
  <2>1. Frame(newest) \in Int BY <1>2, <1>9, FrameFirst
  <2>2. AngleKept(Now, over, newest, Frame(newest), rough) BY <1>9 DEF DecoderInv
  <2> HIDE DEF o, r
  <2> QED BY <1>2, <2>1, <2>2, BeforeAngle DEF o, r
<1>10. ASSUME lidar = "byNum" PROVE NumKept(Before, r)
  BY <1>2, <1>10, BeforeNum DEF DecoderInv
<1>11. ASSUME lidar \in Mems PROVE MemsKept(lidar, Before, o, newest, recent, r)
  <2>1. recent \subseteq Around(newest) BY <1>11 DEF DecoderInv, MemsKept
  <2>2. ~r => ~rough /\ ~Overflown OBVIOUS
  <2>3. lidar = "RSM2" \/ ~r =>
          IF recent = {} THEN NothingYet(Before, o, newest)
          ELSE UnderWay(lidar, Before, o, newest, recent, r)
    <3> HIDE DEF r, o
    <3> QED BY <1>3, <1>11, <2>2, BeforeMems DEF o
  <2> HIDE DEF r, o
  <2> QED BY <2>1, <2>3 DEF MemsKept
<1> HIDE DEF o, r
<1>12. Frame(newest)' = Frame(newest) BY <1>1 DEF Frame
<1>13. (lidar = "RSBP" => AngleKept(Now, over, newest, Frame(newest), rough))'
  BY <1>1, <1>5, <1>9, <1>12
<1>14. (lidar = "byNum" => NumKept(Now, rough))' BY <1>1, <1>5, <1>10
<1>15. (lidar \in Mems => MemsKept(lidar, Now, over, newest, recent, rough))'
  BY <1>1, <1>5, <1>11 DEF Mems
<1> QED BY <1>8, <1>13, <1>14, <1>15 DEF DecoderInv

(* A DIFOP packet, or a step of another part of the process, leaves what   *)
(* was decoded.                                                            *)
LEMMA OthersKept ==
  ASSUME DecoderInv, UNCHANGED <<lidar, decoded, newest, recent, over, rough>>,
         wait_for_difop' \in BOOLEAN, angles_ready_' \in BOOLEAN,
         split_blks_per_frame_' \in SplitBlks
  PROVE  DecoderInv'
<1>1. /\ Now' = Now /\ over' = over /\ newest' = newest /\ recent' = recent /\ rough' = rough
      /\ lidar' = lidar /\ first_point_ts_' = first_point_ts_ /\ cloud' = cloud
  BY DEF decoded, Now
<1>2. Frame(newest)' = Frame(newest) BY <1>1 DEF Frame
<1>3. DecoderBasic' BY <1>1 DEF DecoderInv, DecoderBasic
<1> QED BY <1>1, <1>2, <1>3 DEF DecoderInv, Mems

(* At the beginning nothing has been decoded.                              *)
LEMMA DecoderInitInv == DecoderInit => DecoderInv
<1> SUFFICES ASSUME DecoderInit PROVE DecoderInv OBVIOUS
<1>1. /\ lidar \in {"RSBP", "byNum"} \cup Mems
      /\ wait_for_difop \in BOOLEAN /\ angles_ready_ \in BOOLEAN /\ rough = FALSE
      /\ split_blks_per_frame_ \in SplitBlks
      /\ strategy = [prev_angle_ |-> split_angle_, blks_ |-> 0,
                     prev_seq_ |-> 0, max_seq_ |-> 0, looped_ |-> FALSE]
      /\ cloud = NoPoints /\ first_point_ts_ = NoTime /\ put = <<>>
      /\ newest \in -1 .. FrameLen - 2 /\ recent = {} /\ over = -1
  BY DEF DecoderInit
<1>2. /\ FrameLen \in Nat /\ Round \in Nat \ {0} /\ split_angle_ \in 0 .. Round - 1
      /\ CLOUD_POINT_MAX \in Nat /\ LastTime \in Nat /\ BLOCKS_PER_PKT \in Nat
      /\ SplitBlks \subseteq Nat \ {0} /\ SplitBlks # {}
  BY DecoderAssumption
<1>3. newest \in Int /\ newest >= -1 BY <1>1, <1>2
<1>4. strategy \in AnyStrategy BY <1>1, <1>2 DEF AnyStrategy
<1>5. <<>> \in Seq(AnyPut) /\ NoTime \in Int BY DEF NoTime
<1>6. Now \in Decodings BY <1>1, <1>4, <1>5, NoPointsTyped DEF Now, Decodings
<1>7. /\ cloud.size <= CLOUD_POINT_MAX + BLOCKS_PER_PKT
      /\ first_point_ts_ \in NoTime .. LastTime + BLOCKS_PER_PKT
  BY <1>1, <1>2, NoPointsTyped DEF NoTime
<1>8. DecoderBasic BY <1>1, <1>3, <1>6, <1>7 DEF DecoderBasic
<1>9. LastFrame(over, put) = -1 /\ Rising(over, put)
  BY <1>1, EmptyDomain DEF LastFrame, Rising
<1>10. Stamped(Now) /\ AllWhole(Now)
  BY <1>1, NowIs, EmptyDomain, NoPointsTyped DEF Stamped, AllWhole, OneFrame
<1>11. lidar = "RSBP" => AngleKept(Now, over, newest, Frame(newest), rough)
  <2> SUFFICES ASSUME lidar = "RSBP" PROVE AngleKept(Now, over, newest, Frame(newest), rough)
    OBVIOUS
  <2>1. Frame(newest) \in Nat BY <1>3, FrameFirst
  <2>2. Ordered(Now, over, Frame(newest)) BY <1>1, <1>9, <2>1, NowIs DEF Ordered
  <2>3. LastFrame(over, Now.put) < Frame(newest) BY <1>9, <2>1, NowIs
  <2> QED BY <1>1, <1>10, <2>2, <2>3, NowIs DEF AngleKept
<1>12. NumKept(Now, rough)
  <2>1. PICK n \in SplitBlks : TRUE BY <1>2
  <2>2. strategy.blks_ = 0 /\ 0 < n /\ NoPoints.size <= 0 + 1 BY <1>1, <1>2, <2>1, NoPointsTyped
  <2> QED BY <1>1, <1>10, <2>1, <2>2, NowIs, EmptyDomain DEF NumKept
<1>13. MemsKept(lidar, Now, over, newest, recent, rough)
  BY <1>1, NowIs DEF MemsKept, NothingYet
<1> QED BY <1>8, <1>11, <1>12, <1>13 DEF DecoderInv

(* The decoder's invariant: by angle, the cloud begun is of the turn of the *)
(* block decoded last, whose angle the strategy remembers; by number, no   *)
(* cloud has more blocks than were counted; of a MEMS lidar, the strategy  *)
(* remembers a number of the newest frame, however packets overtake.       *)
THEOREM DecoderInvariance == DecoderSpec => []DecoderInv
<1>1. DecoderInv /\ [DecoderNext]_decoderVars => DecoderInv'
  <2> SUFFICES ASSUME DecoderInv, [DecoderNext]_decoderVars PROVE DecoderInv' OBVIOUS
  <2>1. CASE Refuse BY <2>1, RefuseKept
  <2>2. ASSUME NEW start \in 0 .. LastTime, NEW dual \in BOOLEAN,
               NEW good \in 1 .. BLOCKS_PER_PKT, Msop(start, dual, good)
        PROVE  DecoderInv'
    BY <2>2, MsopKept
  <2>3. ASSUME NEW time \in 0 .. LastTime, MemsMsop(time) PROVE DecoderInv'
    BY <2>3, MemsMsopKept
  <2>4. ASSUME NEW blks \in SplitBlks, NEW valid \in BOOLEAN, Difop(blks, valid)
        PROVE  DecoderInv'
    <3>1. wait_for_difop \in BOOLEAN /\ angles_ready_ \in BOOLEAN
      BY DEF DecoderInv, DecoderBasic
    <3>2. /\ UNCHANGED <<lidar, decoded, newest, recent, over, rough>>
          /\ wait_for_difop' \in BOOLEAN /\ angles_ready_' \in BOOLEAN
          /\ split_blks_per_frame_' \in SplitBlks
      BY <2>4, <3>1 DEF Difop
    <3> QED BY <3>2, OthersKept
  <2>5. CASE UNCHANGED decoderVars
    <3>1. /\ UNCHANGED <<lidar, decoded, newest, recent, over, rough>>
          /\ wait_for_difop' \in BOOLEAN /\ angles_ready_' \in BOOLEAN
          /\ split_blks_per_frame_' \in SplitBlks
      BY <2>5 DEF decoderVars, decoded, DecoderInv, DecoderBasic
    <3> QED BY <3>1, OthersKept
  <2> QED BY <2>1, <2>2, <2>3, <2>4, <2>5 DEF DecoderNext
<1> QED BY <1>1, DecoderInitInv, PTL DEF DecoderSpec

(* The types of the decoder's state, for any lidar and any of its packets: *)
(* no cloud grows past the limit by more than a packet.                    *)
THEOREM DecoderTypeCorrect == DecoderSpec => []DecoderTypeOK
<1>1. DecoderInv => DecoderTypeOK
  BY DEF DecoderInv, DecoderBasic, DecoderTypeOK, Now, Decodings, AnyStrategy
<1> QED BY <1>1, DecoderInvariance, PTL

-----------------------------------------------------------------------------
(* The clouds of the last packet are the ones handed on, and the one begun. *)
Handed == [i \in DOMAIN put |-> put[i].cloud]

(* The clouds, one by one.                                                 *)
LEMMA CloudsAre ==
  ASSUME Now \in Decodings
  PROVE  /\ Len(put) \in Nat /\ DOMAIN put = 1 .. Len(put)
         /\ DOMAIN Clouds = IF cloud = NoPoints THEN 1 .. Len(put) ELSE 1 .. Len(put) + 1
         /\ \A i \in 1 .. Len(put) : Clouds[i] = put[i].cloud
         /\ cloud # NoPoints => Clouds[Len(put) + 1] = cloud
<1>1. put \in Seq(AnyPut) /\ cloud \in AnyCloud BY DEF Now, Decodings
<1>2. Len(put) \in Nat /\ DOMAIN put = 1 .. Len(put) BY <1>1
<1>3. Handed \in Seq(AnyCloud) /\ Len(Handed) = Len(put)
      /\ \A i \in 1 .. Len(put) : Handed[i] = put[i].cloud
  <2>1. \A i \in 1 .. Len(put) : put[i].cloud \in AnyCloud
    <3>1. \A i \in 1 .. Len(put) : put[i] \in AnyPut BY <1>1, ElementOfSeq
    <3> QED BY <3>1 DEF AnyPut
  <2>2. DOMAIN Handed = 1 .. Len(put) /\ \A i \in 1 .. Len(put) : Handed[i] = put[i].cloud
    BY <1>2 DEF Handed
  <2>3. Handed \in [1 .. Len(put) -> AnyCloud] BY <1>2, <2>1 DEF Handed
  <2>4. Handed \in Seq(AnyCloud) BY <1>2, <2>3, SeqDef
  <2> QED BY <1>2, <2>2, <2>4, LenProperties
<1>4. Clouds = IF cloud = NoPoints THEN Handed ELSE Append(Handed, cloud)
  BY DEF Clouds, Handed
<1> HIDE DEF Handed
<1>5. CASE cloud = NoPoints BY <1>2, <1>3, <1>4, <1>5, LenProperties
<1>6. CASE cloud # NoPoints
  BY <1>1, <1>2, <1>3, <1>4, <1>6, AppendProperties, LenProperties
<1> QED BY <1>5, <1>6

(* Clouds that rise do not cut a frame.                                    *)
LEMMA RisingNotCut ==
  ASSUME Now \in Decodings, NEW m \in Int, Ordered(Now, over, m)
  PROVE  NotCut
<1>1. /\ Len(put) \in Nat /\ DOMAIN put = 1 .. Len(put)
      /\ DOMAIN Clouds = IF cloud = NoPoints THEN 1 .. Len(put) ELSE 1 .. Len(put) + 1
      /\ \A i \in 1 .. Len(put) : Clouds[i] = put[i].cloud
      /\ cloud # NoPoints => Clouds[Len(put) + 1] = cloud
  BY CloudsAre
<1>2. /\ Rising(over, put) /\ LastFrame(over, put) \in Int
      /\ cloud # NoPoints => /\ LastFrame(over, put) < m
                             /\ m \in cloud.frames /\ \A g \in cloud.frames : g <= m
  BY NowIs DEF Ordered
<1> SUFFICES ASSUME NEW i \in DOMAIN Clouds
             PROVE  Latest(Clouds[i]) > IF i = 1 THEN over ELSE Latest(Clouds[i - 1])
  BY DEF NotCut
<1>3. CASE i \in 1 .. Len(put)
  <2>1. i # 1 => i - 1 \in 1 .. Len(put) BY <1>1, <1>3
  <2>2. Clouds[i] = put[i].cloud /\ (i # 1 => Clouds[i - 1] = put[i - 1].cloud)
    BY <1>1, <1>3, <2>1
  <2>3. Latest(put[i].cloud) > IF i = 1 THEN over ELSE Latest(put[i - 1].cloud)
    BY <1>1, <1>2, <1>3 DEF Rising
  <2> QED BY <2>2, <2>3
<1>4. CASE i \notin 1 .. Len(put)
  <2>1. cloud # NoPoints /\ i = Len(put) + 1 BY <1>1, <1>4
  <2>2. Clouds[i] = cloud BY <1>1, <2>1
  <2>3. cloud.frames \subseteq Int BY DEF Now, Decodings, AnyCloud
  <2>4. Latest(cloud) = m BY <1>2, <2>1, <2>3, LatestIs
  <2>5. LastFrame(over, put) = IF i = 1 THEN over ELSE Latest(Clouds[i - 1])
    <3>1. put \in Seq(AnyPut) BY DEF Now, Decodings
    <3>2. i = 1 <=> put = <<>> BY <1>1, <2>1, <3>1
    <3>3. i # 1 => i - 1 = Len(put) /\ Len(put) \in 1 .. Len(put) BY <1>1, <2>1
    <3>4. i # 1 => Clouds[i - 1] = put[Len(put)].cloud BY <1>1, <3>3
    <3> QED BY <3>2, <3>4 DEF LastFrame
  <2> QED BY <1>2, <2>1, <2>2, <2>4, <2>5
<1> QED BY <1>3, <1>4

(* Clouds of one frame each are whole.                                     *)
LEMMA AllAreWhole ==
  ASSUME Now \in Decodings, AllWhole(Now)
  PROVE  Whole
<1> SUFFICES ASSUME NEW i \in DOMAIN Clouds PROVE OneFrame(Clouds[i]) BY DEF Whole, OneFrame
<1>1. /\ Len(put) \in Nat /\ DOMAIN put = 1 .. Len(put)
      /\ DOMAIN Clouds = IF cloud = NoPoints THEN 1 .. Len(put) ELSE 1 .. Len(put) + 1
      /\ \A j \in 1 .. Len(put) : Clouds[j] = put[j].cloud
      /\ cloud # NoPoints => Clouds[Len(put) + 1] = cloud
  BY CloudsAre
<1>2. OneFrame(cloud) /\ \A j \in 1 .. Len(put) : OneFrame(put[j].cloud)
  BY <1>1, NowIs DEF AllWhole
<1>3. CASE i \in 1 .. Len(put) BY <1>1, <1>2, <1>3
<1>4. CASE i \notin 1 .. Len(put)
  <2>1. cloud # NoPoints /\ i = Len(put) + 1 BY <1>1, <1>4
  <2> QED BY <1>1, <1>2, <2>1
<1> QED BY <1>3, <1>4

(* Clouds are frames, for any lidar, any azimuths and numbers of packets,  *)
(* and any loss and reordering the assumptions allow.                      *)
THEOREM CloudsWhole == DecoderSpec => []CloudsAreFrames
<1>1. DecoderInv => CloudsAreFrames
  <2> SUFFICES ASSUME DecoderInv PROVE CloudsAreFrames OBVIOUS
  <2>1. /\ Now \in Decodings /\ rough \in BOOLEAN /\ newest \in Int /\ newest >= -1
        /\ lidar \in {"RSBP", "byNum", "RSM1", "RSM2"}
    BY DEF DecoderInv, DecoderBasic, Mems
  <2>2. CASE lidar = "RSBP"
    <3>1. Frame(newest) \in Int BY <2>1, <2>2, FrameFirst
    <3>2. /\ Ordered(Now, over, Frame(newest))
          /\ ~rough => AllWhole(Now) /\ Stamped(Now)
      BY <2>2 DEF DecoderInv, AngleKept
    <3>3. NotCut /\ (~rough => Whole) BY <2>1, <3>1, <3>2, RisingNotCut, AllAreWhole
    <3> QED BY <2>2, <3>2, <3>3, NowIs DEF CloudsAreFrames, Stamped
  <2>3. CASE lidar = "byNum"
    <3>1. NumKept(Now, rough) BY <2>3 DEF DecoderInv
    <3>2. \A i \in DOMAIN Clouds : \E n \in SplitBlks : Clouds[i].size <= n
      <4>1. /\ Len(put) \in Nat /\ DOMAIN put = 1 .. Len(put)
            /\ DOMAIN Clouds = IF cloud = NoPoints THEN 1 .. Len(put) ELSE 1 .. Len(put) + 1
            /\ \A i \in 1 .. Len(put) : Clouds[i] = put[i].cloud
            /\ cloud # NoPoints => Clouds[Len(put) + 1] = cloud
        BY <2>1, CloudsAre
      <4>2. \A i \in 1 .. Len(put) : \E n \in SplitBlks : put[i].cloud.size <= n
        BY <3>1, <4>1, NowIs DEF NumKept
      <4>3. \E n \in SplitBlks : cloud.size <= n
        <5>1. PICK n \in SplitBlks : strategy.blks_ < n BY <3>1, NowIs DEF NumKept
        <5>2. cloud.size <= strategy.blks_ + 1 BY <3>1, NowIs DEF NumKept
        <5>3. cloud.size \in Nat /\ strategy.blks_ \in Nat
          BY <2>1 DEF Now, Decodings, AnyCloud, AnyStrategy
        <5>4. n \in Nat BY <5>1, DecoderAssumption
        <5>5. cloud.size <= n BY <5>1, <5>2, <5>3, <5>4
        <5> QED BY <5>1, <5>5
      <4> SUFFICES ASSUME NEW i \in DOMAIN Clouds
                   PROVE  \E n \in SplitBlks : Clouds[i].size <= n
        OBVIOUS
      <4>4. CASE i \in 1 .. Len(put) BY <4>1, <4>2, <4>4
      <4>5. CASE i \notin 1 .. Len(put)
        <5>1. cloud # NoPoints /\ i = Len(put) + 1 BY <4>1, <4>5
        <5> QED BY <4>1, <4>3, <5>1
      <4> QED BY <4>4, <4>5
    <3>3. ~rough => Stamped(Now) BY <3>1 DEF NumKept
    <3> QED BY <2>3, <3>2, <3>3, NowIs DEF CloudsAreFrames, Stamped
  <2>4. CASE lidar \in Mems
    <3>1. MemsKept(lidar, Now, over, newest, recent, rough) BY <2>4 DEF DecoderInv
    <3>2. ASSUME lidar = "RSM2" \/ ~rough
          PROVE  NotCut /\ (~rough => Whole /\ Stamped(Now))
      <4>1. CASE recent = {}
        <5>1. cloud = NoPoints /\ put = <<>> BY <3>1, <3>2, <4>1, NowIs DEF MemsKept, NothingYet
        <5>2. DOMAIN Clouds = {}
          <6>1. Clouds = Handed BY <5>1 DEF Clouds, Handed
          <6> QED BY <5>1, <6>1, EmptyDomain DEF Handed
        <5> QED BY <5>1, <5>2, NowIs, EmptyDomain DEF NotCut, Whole, Stamped
      <4>2. CASE recent # {}
        <5>1. UnderWay(lidar, Now, over, newest, recent, rough)
          BY <3>1, <3>2, <4>2 DEF MemsKept
        <5>2. PICK p \in Around(newest) \cap Nat : TRUE BY <5>1 DEF UnderWay, PrevKnown
        <5>3. newest \div FrameLen \in Int BY <2>1, <5>2, FrameLenIs
        <5>4. /\ Ordered(Now, over, newest \div FrameLen)
              /\ ~rough => AllWhole(Now) /\ Stamped(Now)
          BY <5>1 DEF UnderWay
        <5>5. NotCut BY <2>1, <5>3, <5>4, RisingNotCut
        <5>6. ~rough => Whole BY <2>1, <5>4, AllAreWhole
        <5> QED BY <5>4, <5>5, <5>6
      <4> QED BY <4>1, <4>2
    <3>3. lidar # "byNum" /\ lidar # "RSBP" BY <2>4 DEF Mems
    <3> QED BY <3>2, <3>3, NowIs DEF CloudsAreFrames, Stamped
  <2> QED BY <2>1, <2>2, <2>3, <2>4 DEF Mems
<1> QED BY <1>1, DecoderInvariance, PTL

-----------------------------------------------------------------------------
(* The lidar process as a whole: what holds of a part holds of the process. *)

(* The types of the state of all three parts.                              *)
THEOREM LidarTypesCorrect == RslidarSpec => []TypesOK
BY RslidarImplementsDriver, RslidarImplementsNode, RslidarImplementsDecoder,
   TypeCorrect, NodeTypeCorrect, DecoderTypeCorrect, PTL DEF TypesOK

(* From the socket to the publishers: packets are decoded in order, each   *)
(* buffer and each cloud has one owner, the clouds are frames, and they are *)
(* published once and in order.                                            *)
THEOREM LidarProcessCorrect ==
  RslidarSpec => [](HandledInOrder /\ BufferExclusive /\ CloudsAreFrames
                    /\ CloudExclusive /\ PublishedInOrder)
BY RslidarImplementsDriver, RslidarImplementsNode, RslidarImplementsDecoder,
   DecodedInOrder, OneBufferOwner, CloudsWhole, OneOwner, InOrder, PTL
=============================================================================
