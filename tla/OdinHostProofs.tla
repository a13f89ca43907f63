---------------------------- MODULE OdinHostProofs ----------------------------
(***************************************************************************)
(* Proofs about try_process_pair(), for queues of any size, any difference *)
(* of stamps and any stamps; and about the connections and threads of      *)
(* host_sdk_sample, for any number of connections, samples and commands,   *)
(* any size of the IMU queue, and an SDK that may report a second device.  *)
(***************************************************************************)
EXTENDS MCOdinHost, TLAPS

-----------------------------------------------------------------------------
(* The pairing of images and clouds.                                        *)

(* Each queue holds stamps in order, none younger than the last one queued  *)
(* and none as old as the pair processed last.                              *)
Ordered ==
  \A k \in Sensor :
    /\ processed[k] <= last[k]
    /\ \A i, j \in 1 .. Len(queue[k]) : i < j => queue[k][i] < queue[k][j]
    /\ \A i \in 1 .. Len(queue[k]) : processed[k] < queue[k][i] /\ queue[k][i] <= last[k]

(* What main() looked at is newer than what it processed, and an overflow   *)
(* since can only have put newer messages in front.                         *)
LookedAt ==
  pairing \in {"compare", "drop", "remove"} =>
    \A k \in Sensor : /\ queue[k] # <<>>
                      /\ processed[k] < front[k] /\ front[k] <= queue[k][1]

PairInv ==
  /\ PairTypeOK
  /\ queue \in [Sensor -> Seq(1 .. MaxStamp)]
  /\ processed \in [Sensor -> 0 .. MaxStamp]
  /\ Ordered /\ LookedAt

-----------------------------------------------------------------------------
(* A full queue makes room: what is left is a suffix of what there was, and *)
(* one message fits.                                                        *)
LEMMA RoomIsSuffix ==
  ASSUME NEW q \in Seq(1 .. MaxStamp), Len(q) <= MaxQueueSize
  PROVE  /\ Room(q) \in Seq(1 .. MaxStamp)
         /\ Len(Room(q)) + 1 <= MaxQueueSize
         /\ \E d \in {0, 1} : /\ Len(Room(q)) = Len(q) - d
                              /\ \A i \in 1 .. Len(Room(q)) : Room(q)[i] = q[i + d]
<1>1. CASE Len(q) >= MaxQueueSize
  <2>1. q # <<>>
    BY <1>1, PairQueueAssumption
  <2>2. /\ Tail(q) \in Seq(1 .. MaxStamp) /\ Len(Tail(q)) = Len(q) - 1
        /\ \A i \in 1 .. Len(Tail(q)) : Tail(q)[i] = q[i + 1]
    BY <2>1
  <2>3. Room(q) = Tail(q)
    BY <1>1 DEF Room
  <2> QED BY <1>1, <2>2, <2>3, PairQueueAssumption
<1>2. CASE ~(Len(q) >= MaxQueueSize)
  <2>1. Room(q) = q
    BY <1>2 DEF Room
  <2> QED BY <1>2, <2>1, PairQueueAssumption
<1> QED BY <1>1, <1>2

(* Messages are stamps, and a queue that is not empty has a front.          *)
LEMMA ElementOfSeq ==
  ASSUME NEW S, NEW q \in Seq(S)
  PROVE  /\ Len(q) \in Nat
         /\ \A i \in 1 .. Len(q) : q[i] \in S
         /\ q # <<>> => 1 \in 1 .. Len(q) /\ Head(q) = q[1]
  OBVIOUS

LEMMA Elements ==
  ASSUME NEW q \in Seq(1 .. MaxStamp)
  PROVE  /\ Len(q) \in Nat
         /\ \A i \in 1 .. Len(q) : q[i] \in 1 .. MaxStamp /\ q[i] \in Nat
         /\ q # <<>> => 1 \in 1 .. Len(q) /\ Head(q) = q[1]
<1>1. \A i \in 1 .. MaxStamp : i \in Nat
  BY PairQueueAssumption
<1>2. /\ Len(q) \in Nat
      /\ \A i \in 1 .. Len(q) : q[i] \in 1 .. MaxStamp
      /\ q # <<>> => 1 \in 1 .. Len(q) /\ Head(q) = q[1]
  BY ElementOfSeq
<1> QED BY <1>1, <1>2

(* Taking the front leaves the rest in place.                               *)
LEMMA TailIsSuffix ==
  ASSUME NEW q \in Seq(1 .. MaxStamp), q # <<>>
  PROVE  /\ Tail(q) \in Seq(1 .. MaxStamp) /\ Len(Tail(q)) = Len(q) - 1
         /\ \A i \in 1 .. Len(Tail(q)) : Tail(q)[i] = q[i + 1]
  OBVIOUS

LEMMA InitInv == PairInit => PairInv
<1> SUFFICES ASSUME PairInit PROVE PairInv
  OBVIOUS
<1>1. \A k \in Sensor : queue[k] = <<>> /\ processed[k] = 0 /\ last[k] = 0
  BY DEF PairInit, Nothing
<1>2. Nothing \in [Sensor -> 0 .. MaxStamp] /\ <<>> \in Seq(1 .. MaxStamp)
  BY PairQueueAssumption DEF Nothing
<1> QED BY <1>1, <1>2, PairQueueAssumption DEF PairInit, PairInv, PairTypeOK, Ordered, LookedAt

(* A message arrives behind the newer ones, at any moment of the pairing.   *)
LEMMA ArriveStep ==
  ASSUME PairInv, NEW k \in Sensor, NEW t \in 1 .. MaxStamp, Arrive(k, t)
  PROVE  PairInv'
<1> DEFINE r == Room(queue[k])
<1>1. /\ queue[k] \in Seq(1 .. MaxStamp) /\ Len(queue[k]) <= MaxQueueSize
      /\ last[k] \in 0 .. MaxStamp /\ t > last[k]
  BY DEF PairInv, PairTypeOK, Arrive
<1>2. /\ r \in Seq(1 .. MaxStamp) /\ Len(r) + 1 <= MaxQueueSize
      /\ \E d \in {0, 1} : /\ Len(r) = Len(queue[k]) - d
                           /\ \A i \in 1 .. Len(r) : r[i] = queue[k][i + d]
  BY <1>1, RoomIsSuffix
<1> DEFINE q == Append(r, t)
<1>3. /\ queue' = [queue EXCEPT ![k] = q] /\ last' = [last EXCEPT ![k] = t]
      /\ UNCHANGED <<pairing, front, processed>>
  BY DEF Arrive
<1>4. PICK d \in {0, 1} : /\ Len(r) = Len(queue[k]) - d
                          /\ \A i \in 1 .. Len(r) : r[i] = queue[k][i + d]
  BY <1>2
<1> HIDE DEF r
<1>5. /\ q \in Seq(1 .. MaxStamp) /\ Len(q) = Len(r) + 1 /\ q[Len(q)] = t
      /\ \A i \in 1 .. Len(r) : q[i] = r[i]
  BY <1>2
<1> HIDE DEF q
<1>6. \A s \in Sensor : queue'[s] = (IF s = k THEN q ELSE queue[s])
                        /\ last'[s] = (IF s = k THEN t ELSE last[s])
  BY <1>3 DEF PairInv, PairTypeOK
<1>7. /\ \A i, j \in 1 .. Len(queue[k]) : i < j => queue[k][i] < queue[k][j]
      /\ \A i \in 1 .. Len(queue[k]) : processed[k] < queue[k][i] /\ queue[k][i] <= last[k]
      /\ processed[k] \in 0 .. MaxStamp
  BY DEF PairInv, Ordered
<1>8. \A i \in 1 .. Len(r) : i + d \in 1 .. Len(queue[k]) /\ q[i] = queue[k][i + d]
  BY <1>1, <1>2, <1>4, <1>5
<1>9. processed[k] < t
  BY <1>1, <1>7 DEF PairInv, Ordered
<1>10. \A i \in 1 .. Len(q) : /\ q[i] <= t /\ processed[k] < q[i]
                              /\ i <= Len(r) => q[i] <= last[k] /\ q[i] < t
  <2> SUFFICES ASSUME NEW i \in 1 .. Len(q)
               PROVE  /\ q[i] <= t /\ processed[k] < q[i]
                      /\ i <= Len(r) => q[i] <= last[k] /\ q[i] < t
    OBVIOUS
  <2>1. Len(r) \in Nat /\ i \in Nat /\ i >= 1
    BY <1>2, <1>5
  <2>2. CASE i <= Len(r)
    <3>1. i \in 1 .. Len(r)
      BY <2>1, <2>2
    <3>2. i + d \in 1 .. Len(queue[k]) /\ q[i] = queue[k][i + d]
      BY <3>1, <1>8
    <3>3. processed[k] < q[i] /\ q[i] <= last[k]
      BY <3>2, <1>7
    <3>4. q[i] \in Nat
      BY <1>5, Elements
    <3> QED BY <3>3, <3>4, <1>1, PairQueueAssumption
  <2>3. CASE i > Len(r)
    <3>1. i = Len(q)
      BY <2>1, <2>3, <1>5
    <3> QED BY <3>1, <2>1, <2>3, <1>5, <1>9
  <2> QED BY <2>1, <2>2, <2>3
<1>11. \A i, j \in 1 .. Len(q) : i < j => q[i] < q[j]
  <2> SUFFICES ASSUME NEW i \in 1 .. Len(q), NEW j \in 1 .. Len(q), i < j PROVE q[i] < q[j]
    OBVIOUS
  <2>1. Len(r) \in Nat /\ i \in Nat /\ j \in Nat /\ i >= 1 /\ i <= Len(r) /\ j <= Len(r) + 1
    BY <1>2, <1>5
  <2>2. CASE j = Len(r) + 1
    BY <2>1, <2>2, <1>5, <1>10
  <2>3. CASE j # Len(r) + 1
    <3>1. i \in 1 .. Len(r) /\ j \in 1 .. Len(r)
      BY <2>1, <2>3
    <3>2. /\ i + d \in 1 .. Len(queue[k]) /\ q[i] = queue[k][i + d]
          /\ j + d \in 1 .. Len(queue[k]) /\ q[j] = queue[k][j + d] /\ i + d < j + d
      BY <3>1, <1>8, <2>1
    <3> QED BY <3>2, <1>7
  <2> QED BY <2>2, <2>3
<1>12. PairTypeOK' /\ (queue \in [Sensor -> Seq(1 .. MaxStamp)])' /\ processed' = processed
  BY <1>2, <1>3, <1>5, <1>6 DEF PairInv, PairTypeOK
<1>13. Ordered'
  BY <1>3, <1>6, <1>9, <1>10, <1>11 DEF PairInv, Ordered
<1>14. LookedAt'
  <2> SUFFICES ASSUME pairing \in {"compare", "drop", "remove"}, NEW s \in Sensor
               PROVE  queue'[s] # <<>> /\ processed[s] < front[s] /\ front[s] <= queue'[s][1]
    BY <1>3 DEF LookedAt
  <2>1. queue[s] # <<>> /\ processed[s] < front[s] /\ front[s] <= queue[s][1]
    BY DEF PairInv, LookedAt
  <2>2. CASE s # k
    BY <2>1, <2>2, <1>6
  <2>3. CASE s = k
    <3>1. q # <<>> /\ queue'[s] = q
      BY <2>3, <1>2, <1>5, <1>6
    <3>2. queue[k][1] <= q[1]
      <4>1. 1 \in 1 .. Len(queue[k]) /\ queue[k][1] \in 1 .. MaxStamp
        <5>1. queue[k] # <<>>
          BY <2>1, <2>3
        <5> QED BY <1>1, <5>1, Elements
      <4>2. CASE Len(r) = 0
        <5>1. q[1] = t
          BY <4>2, <1>5
        <5>2. queue[k][1] <= last[k] /\ queue[k][1] \in Nat
          BY <4>1, <1>1, <1>7, Elements
        <5> QED BY <5>1, <5>2, <1>1
      <4>3. CASE Len(r) # 0
        <5>1. 1 \in 1 .. Len(r) /\ 1 + d \in 1 .. Len(queue[k]) /\ q[1] = queue[k][1 + d]
          BY <4>3, <1>2, <1>8
        <5>2. queue[k][1] \in Nat /\ queue[k][1 + d] \in Nat
          BY <4>1, <5>1, <1>1, Elements
        <5>3. 1 = 1 + d \/ queue[k][1] < queue[k][1 + d]
          BY <4>1, <5>1, <1>7
        <5> QED BY <5>1, <5>2, <5>3
      <4> QED BY <4>2, <4>3
    <3>3. front[s] \in Nat /\ q[1] \in Nat /\ queue[s][1] \in Nat
      <4>1. front[s] \in 0 .. MaxStamp
        BY DEF PairInv, PairTypeOK
      <4>2. q[1] \in 1 .. MaxStamp
        BY <3>1, <1>5, Elements
      <4>3. queue[s][1] \in 1 .. MaxStamp
        BY <1>1, <2>1, <2>3, Elements
      <4> QED BY <4>1, <4>2, <4>3
    <3> QED BY <2>1, <2>3, <3>1, <3>2, <3>3
  <2> QED BY <2>2, <2>3
<1> QED BY <1>12, <1>13, <1>14 DEF PairInv

(* What main() does with the fronts: what remains is what it did not look   *)
(* at, and newer.                                                           *)
LEMMA PairingStep ==
  ASSUME PairInv, Pairing
  PROVE  PairInv'
<1> USE DEF PairInv
<1>1. CASE Call
  BY <1>1 DEF Call, PairTypeOK, Ordered, LookedAt
<1>2. CASE Look
  <2>1. CASE \A k \in Sensor : queue[k] # <<>>
    <3>1. \A k \in Sensor : Head(queue[k]) = queue[k][1] /\ queue[k][1] \in 1 .. MaxStamp
                            /\ 1 \in 1 .. Len(queue[k])
      BY <2>1, Elements DEF PairTypeOK
    <3>2. front' = [k \in Sensor |-> Head(queue[k])] /\ pairing' = "compare"
          /\ UNCHANGED <<queue, last, processed>>
      BY <1>2, <2>1 DEF Look
    <3> QED BY <2>1, <3>1, <3>2 DEF PairTypeOK, Ordered, LookedAt
  <2>2. CASE ~ \A k \in Sensor : queue[k] # <<>>
    <3>1. front' = Nothing /\ pairing' = "idle" /\ UNCHANGED <<queue, last, processed>>
      BY <1>2, <2>2 DEF Look
    <3>2. Nothing \in [Sensor -> 0 .. MaxStamp]
      BY PairQueueAssumption DEF Nothing
    <3> QED BY <3>1, <3>2 DEF PairTypeOK, Ordered, LookedAt
  <2> QED BY <2>1, <2>2
<1>3. CASE Compare
  BY <1>3 DEF Compare, PairTypeOK, Ordered, LookedAt
<1>4. CASE Drop
  <2>1. PICK k \in Sensor : queue' = [queue EXCEPT ![k] = Tail(@)]
    BY <1>4 DEF Drop, Sensor
  <2>2. /\ Tail(queue[k]) \in Seq(1 .. MaxStamp) /\ Len(Tail(queue[k])) = Len(queue[k]) - 1
        /\ \A i \in 1 .. Len(Tail(queue[k])) : Tail(queue[k])[i] = queue[k][i + 1]
    BY <1>4, TailIsSuffix DEF Drop, LookedAt
  <2>3. pairing' = "look" /\ UNCHANGED <<last, front, processed>>
    BY <1>4 DEF Drop
  <2>4. \A s \in Sensor : queue'[s] = IF s = k THEN Tail(queue[k]) ELSE queue[s]
    BY <2>1
  <2>5. PairTypeOK' /\ (queue \in [Sensor -> Seq(1 .. MaxStamp)])'
    <3>1. (queue \in [Sensor -> Seq(1 .. MaxStamp)])'
      BY <2>1, <2>2
    <3>2. \A s \in Sensor : queue'[s] \in Seq(1 .. MaxStamp) /\ Len(queue'[s]) <= MaxQueueSize
      <4> SUFFICES ASSUME NEW s \in Sensor
                   PROVE  queue'[s] \in Seq(1 .. MaxStamp) /\ Len(queue'[s]) <= MaxQueueSize
        OBVIOUS
      <4>1. queue[s] \in Seq(1 .. MaxStamp) /\ Len(queue[s]) <= MaxQueueSize /\ Len(queue[s]) \in Nat
        BY Elements DEF PairTypeOK
      <4>2. CASE s = k
        <5>1. Len(Tail(queue[k])) <= MaxQueueSize
          BY <2>2, <4>1, <4>2, PairQueueAssumption
        <5> QED BY <2>2, <2>4, <4>2, <5>1
      <4>3. CASE s # k
        BY <2>4, <4>1, <4>3
      <4> QED BY <4>2, <4>3
    <3> QED BY <2>3, <3>1, <3>2 DEF PairTypeOK
  <2>6. Ordered'
    <3> SUFFICES ASSUME NEW s \in Sensor PROVE
          /\ processed[s] <= last[s]
          /\ \A i, j \in 1 .. Len(queue'[s]) : i < j => queue'[s][i] < queue'[s][j]
          /\ \A i \in 1 .. Len(queue'[s]) : processed[s] < queue'[s][i] /\ queue'[s][i] <= last[s]
      BY <2>3 DEF Ordered
    <3>1. CASE s # k
      BY <2>4, <3>1 DEF Ordered
    <3>2. CASE s = k
      <4>1. queue'[s] = Tail(queue[k]) /\ Len(queue[k]) \in Nat
        BY <2>4, <3>2, Elements DEF PairTypeOK
      <4>2. \A i \in 1 .. Len(Tail(queue[k])) :
              i + 1 \in 1 .. Len(queue[k]) /\ Tail(queue[k])[i] = queue[k][i + 1]
        BY <2>2, <4>1
      <4>3. \A i, j \in 1 .. Len(Tail(queue[k])) : i < j => i + 1 < j + 1
        BY <2>2, <4>1
      <4> QED BY <3>2, <4>1, <4>2, <4>3 DEF Ordered
    <3> QED BY <3>1, <3>2
  <2>7. LookedAt' /\ (processed \in [Sensor -> 0 .. MaxStamp])'
    BY <2>3 DEF LookedAt
  <2> QED BY <2>5, <2>6, <2>7
<1>5. CASE Remove
  <2>1. \A k \in Sensor :
          /\ Tail(queue[k]) \in Seq(1 .. MaxStamp) /\ Len(Tail(queue[k])) = Len(queue[k]) - 1
          /\ \A i \in 1 .. Len(Tail(queue[k])) : Tail(queue[k])[i] = queue[k][i + 1]
    BY <1>5, TailIsSuffix DEF Remove, LookedAt
  <2>2. /\ queue' = [k \in Sensor |-> Tail(queue[k])] /\ processed' = front
        /\ pairing' = "look" /\ UNCHANGED <<last, front>>
    BY <1>5 DEF Remove
  <2>3. PairTypeOK' /\ (queue \in [Sensor -> Seq(1 .. MaxStamp)])'
        /\ (processed \in [Sensor -> 0 .. MaxStamp])'
    <3>1. (queue \in [Sensor -> Seq(1 .. MaxStamp)])' /\ (processed \in [Sensor -> 0 .. MaxStamp])'
      BY <2>1, <2>2 DEF PairTypeOK
    <3>2. \A k \in Sensor : queue'[k] \in Seq(1 .. MaxStamp) /\ Len(queue'[k]) <= MaxQueueSize
      <4> SUFFICES ASSUME NEW k \in Sensor
                   PROVE  queue'[k] \in Seq(1 .. MaxStamp) /\ Len(queue'[k]) <= MaxQueueSize
        OBVIOUS
      <4>1. Len(queue[k]) <= MaxQueueSize /\ Len(queue[k]) \in Nat
        BY Elements DEF PairTypeOK
      <4> QED BY <2>1, <2>2, <4>1, PairQueueAssumption
    <3> QED BY <2>2, <3>1, <3>2 DEF PairTypeOK
  <2>4. Ordered'
    <3> SUFFICES ASSUME NEW k \in Sensor
                 PROVE  /\ front[k] <= last[k]
                        /\ \A i, j \in 1 .. Len(Tail(queue[k])) :
                             i < j => Tail(queue[k])[i] < Tail(queue[k])[j]
                        /\ \A i \in 1 .. Len(Tail(queue[k])) :
                             front[k] < Tail(queue[k])[i] /\ Tail(queue[k])[i] <= last[k]
      BY <2>2 DEF Ordered
    <3>1. /\ queue[k] \in Seq(1 .. MaxStamp) /\ queue[k] # <<>> /\ front[k] <= queue[k][1]
          /\ front[k] \in Nat /\ last[k] \in Nat
      BY <1>5 DEF Remove, LookedAt, PairTypeOK
    <3>2. /\ 1 \in 1 .. Len(queue[k]) /\ Len(queue[k]) \in Nat
          /\ queue[k][1] <= last[k] /\ queue[k][1] \in Nat
      BY <3>1, Elements DEF Ordered
    <3>3. \A i \in 1 .. Len(Tail(queue[k])) :
            /\ i + 1 \in 1 .. Len(queue[k]) /\ 1 < i + 1 /\ Tail(queue[k])[i] = queue[k][i + 1]
            /\ queue[k][i + 1] \in Nat /\ queue[k][1] < queue[k][i + 1]
            /\ queue[k][i + 1] <= last[k]
      <4> SUFFICES ASSUME NEW i \in 1 .. Len(Tail(queue[k]))
                   PROVE  /\ i + 1 \in 1 .. Len(queue[k]) /\ 1 < i + 1
                          /\ Tail(queue[k])[i] = queue[k][i + 1]
                          /\ queue[k][i + 1] \in Nat /\ queue[k][1] < queue[k][i + 1]
                          /\ queue[k][i + 1] <= last[k]
        OBVIOUS
      <4>1. i + 1 \in 1 .. Len(queue[k]) /\ 1 < i + 1 /\ Tail(queue[k])[i] = queue[k][i + 1]
        BY <2>1, <3>2
      <4>2. queue[k][i + 1] \in Nat
        BY <3>1, <4>1, Elements
      <4>3. queue[k][1] < queue[k][i + 1] /\ queue[k][i + 1] <= last[k]
        BY <3>2, <4>1 DEF Ordered
      <4> QED BY <4>1, <4>2, <4>3
    <3>4. \A i, j \in 1 .. Len(Tail(queue[k])) : i < j => queue[k][i + 1] < queue[k][j + 1]
      <4>1. \A i, j \in 1 .. Len(Tail(queue[k])) : i < j => i + 1 < j + 1
        BY <2>1, <3>2
      <4> QED BY <3>3, <4>1 DEF Ordered
    <3> QED BY <3>1, <3>2, <3>3, <3>4
  <2> QED BY <2>2, <2>3, <2>4 DEF LookedAt
<1> QED BY <1>1, <1>2, <1>3, <1>4, <1>5 DEF Pairing

LEMMA NextInv == PairInv /\ [PairNext]_pairVars => PairInv'
<1> SUFFICES ASSUME PairInv, [PairNext]_pairVars PROVE PairInv'
  OBVIOUS
<1>1. CASE Pairing
  BY <1>1, PairingStep
<1>2. ASSUME NEW k \in Sensor, NEW t \in 1 .. MaxStamp, Arrive(k, t) PROVE PairInv'
  BY <1>2, ArriveStep
<1>3. CASE UNCHANGED pairVars
  BY <1>3 DEF pairVars, PairInv, PairTypeOK, Ordered, LookedAt
<1> QED BY <1>1, <1>2, <1>3 DEF PairNext

(* The queues stay ordered and bounded, and what main() looked at is not    *)
(* newer than what is in front when it removes.                             *)
THEOREM PairInvariance == PairSpec => []PairInv
BY InitInv, NextInv, PTL DEF PairSpec

(* pop_front() in try_process_pair() never meets an empty deque, although   *)
(* the look and the removal are two critical sections and the SDK threads   *)
(* drop messages in between.                                                *)
THEOREM PopSafety == PairSpec => []PopIsSafe
<1>1. PairInv => PopIsSafe
  BY DEF PairInv, LookedAt, PopIsSafe
<1> QED BY <1>1, PairInvariance, PTL

(* No image and no cloud is rendered twice, or after a newer one.           *)
THEOREM PairsMoveForward == PairSpec => PairsAdvance
<1>1. PairInv /\ [PairNext]_pairVars
        => [processed' # processed => \A k \in Sensor : processed'[k] > processed[k]]_pairVars
  <2> SUFFICES ASSUME PairInv, [PairNext]_pairVars, processed' # processed
               PROVE  \A k \in Sensor : processed'[k] > processed[k]
    OBVIOUS
  <2>1. Remove
    BY DEF PairNext, Pairing, Arrive, Call, Look, Compare, Drop, pairVars
  <2> QED BY <2>1 DEF Remove, PairInv, LookedAt
<1> QED BY <1>1, PairInvariance, PTL DEF PairSpec, PairsAdvance

-----------------------------------------------------------------------------
(* Connections and threads.                                                 *)

(* The callback that reports a loss, from its first to its last step.       *)
Detaching == {"detached", "stopImu", "notifyImu", "joinImu", "stopMonitor", "joinMonitor",
              "clearAll"}
Attaching == {"attach", "created", "open", "setup", "connect", "connected", "startImu",
              "startMonitor", "rejoinMonitor", "createMonitor"}
Place == {"idle"} \cup Attaching \cup Detaching

Flags ==
  /\ deviceConnected \in BOOLEAN /\ deviceDisconnected \in BOOLEAN
  /\ g_connection_timeout \in BOOLEAN /\ g_imu_thread_running \in BOOLEAN
  /\ g_param_monitor_running \in BOOLEAN /\ g_map_transfer_in_progress \in BOOLEAN

TypeInv ==
  /\ program \in {"runs", "exited", "terminated"}
  /\ dev \in Place
  /\ attached \in 0 .. 2 /\ connection \in Nat \ {0}
  /\ attached + connection <= MaxConnections + 2
  /\ odinDevice \in {"null", "created", "open"}
  /\ data \in {"idle", "push", "notify"} /\ accepted \in 0 .. MaxConnections + 2
  /\ data = "push" => accepted # 0
  /\ imu \in {"none", "check", "lock", "test", "sleep", "asleep", "publish", "ended"}
  /\ monitor \in {"none", "check", "ended"}
  /\ main \in {"wait", "loop", "service", "command"}
  /\ g_imu_queue \in Seq(1 .. MaxConnections + 2) /\ Len(g_imu_queue) <= IMU_QUEUE_MAX_SIZE
  /\ transfers \in Nat

(* The IMU thread's flag says whether it is there, except while the thread  *)
(* is being joined; connected means that the thread is or will be started.  *)
ImuFlag ==
  /\ g_imu_thread_running => imu \notin {"none", "ended"}
  /\ dev \notin {"notifyImu", "joinImu"} => (g_imu_thread_running <=> imu # "none")
  /\ dev \in {"notifyImu", "joinImu", "stopMonitor", "joinMonitor", "clearAll"}
       => ~g_imu_thread_running
  /\ dev \in {"idle", "attach", "created", "open", "setup", "connect"}
       => (g_imu_thread_running <=> deviceConnected)
  /\ dev \in {"startMonitor", "rejoinMonitor", "createMonitor"} => g_imu_thread_running

(* So does the monitor's.                                                   *)
MonitorFlag ==
  /\ dev \notin {"rejoinMonitor", "joinMonitor"} => (g_param_monitor_running <=> monitor # "none")
  /\ dev \in {"rejoinMonitor", "joinMonitor", "createMonitor", "clearAll"} => ~g_param_monitor_running
  /\ dev \in {"idle", "attach", "created", "open", "setup", "connect"}
       => (g_param_monitor_running <=> deviceConnected)

ConnectedInv ==
  /\ dev \in {"connected", "startImu", "startMonitor", "rejoinMonitor", "createMonitor"}
       => deviceConnected
  /\ dev \in Detaching => ~deviceConnected

ThreadInv == Flags /\ TypeInv /\ ImuFlag /\ MonitorFlag /\ ConnectedInv /\ program # "terminated"

(* Unless a loss of the device is just being handled, what is published,    *)
(* queued or brought belongs to the current connection, with one exception: *)
(* a sample let in before a loss that was reported during its data          *)
(* callback.  That callback is the only one, so the sample is ahead of all  *)
(* others: nothing is queued or published before it gets to the queue, and  *)
(* nothing is published before it is taken from there.                      *)
FreshInv ==
  /\ ~CallbacksOverlap /\ data # "idle" => deviceConnected
  /\ dev \notin Detaching =>
       /\ data = "push" /\ accepted # connection =>
            CallbacksOverlap /\ g_imu_queue = <<>> /\ imu # "publish"
       /\ \A i \in 1 .. Len(g_imu_queue) :
            g_imu_queue[i] # connection => CallbacksOverlap /\ i = 1 /\ imu # "publish"
       /\ imu = "publish" /\ imu_sample # connection => CallbacksOverlap

-----------------------------------------------------------------------------
(* What the queue operations of the two callbacks and the IMU thread do.    *)
LEMMA PushedQueue ==
  ASSUME NEW S, NEW q \in Seq(S), NEW s \in S, Len(q) <= IMU_QUEUE_MAX_SIZE
  PROVE  /\ Pushed(q, s) \in Seq(S) /\ Len(Pushed(q, s)) <= IMU_QUEUE_MAX_SIZE
         /\ \A i \in 1 .. Len(Pushed(q, s)) :
              Pushed(q, s)[i] = s \/ \E j \in 1 .. Len(q) : j >= i /\ Pushed(q, s)[i] = q[j]
         /\ q = <<>> => Len(Pushed(q, s)) = 1
<1> DEFINE r == IF Len(q) >= IMU_QUEUE_MAX_SIZE THEN Tail(q) ELSE q
<1>1. /\ r \in Seq(S) /\ Len(r) + 1 <= IMU_QUEUE_MAX_SIZE
      /\ \A i \in 1 .. Len(r) : \E j \in 1 .. Len(q) : j >= i /\ r[i] = q[j]
      /\ Len(r) <= Len(q) /\ Len(r) \in Nat /\ Len(q) \in Nat
  <2>1. CASE Len(q) >= IMU_QUEUE_MAX_SIZE
    <3>1. q # <<>>
      BY <2>1, OdinHostAssumption
    <3>2. /\ Tail(q) \in Seq(S) /\ Len(Tail(q)) = Len(q) - 1
          /\ \A i \in 1 .. Len(Tail(q)) : i + 1 \in 1 .. Len(q) /\ Tail(q)[i] = q[i + 1]
      BY <3>1
    <3> QED BY <2>1, <3>2, OdinHostAssumption
  <2>2. CASE ~(Len(q) >= IMU_QUEUE_MAX_SIZE)
    BY <2>2, OdinHostAssumption
  <2> QED BY <2>1, <2>2
<1>2. Pushed(q, s) = Append(r, s)
  BY DEF Pushed
<1> HIDE DEF r
<1>3. /\ Append(r, s) \in Seq(S) /\ Len(Append(r, s)) = Len(r) + 1
      /\ \A i \in 1 .. Len(r) : Append(r, s)[i] = r[i]
      /\ Append(r, s)[Len(r) + 1] = s
  BY <1>1
<1>4. \A i \in 1 .. Len(r) + 1 : i \in 1 .. Len(r) \/ i = Len(r) + 1
  BY <1>1
<1> QED BY <1>1, <1>2, <1>3, <1>4

LEMMA TakenQueue ==
  ASSUME NEW S, NEW q \in Seq(S), q # <<>>, Len(q) <= IMU_QUEUE_MAX_SIZE
  PROVE  /\ Tail(q) \in Seq(S) /\ Len(Tail(q)) <= IMU_QUEUE_MAX_SIZE
         /\ \A i \in 1 .. Len(Tail(q)) : i + 1 \in 1 .. Len(q) /\ Tail(q)[i] = q[i + 1]
         /\ 1 \in 1 .. Len(q) /\ Head(q) = q[1]
<1>1. /\ Tail(q) \in Seq(S) /\ Len(Tail(q)) = Len(q) - 1 /\ Len(q) \in Nat
      /\ \A i \in 1 .. Len(Tail(q)) : i + 1 \in 1 .. Len(q) /\ Tail(q)[i] = q[i + 1]
      /\ 1 \in 1 .. Len(q) /\ Head(q) = q[1]
  OBVIOUS
<1> QED BY <1>1, OdinHostAssumption

(* An empty queue is a queue of this connection.                            *)
LEMMA EmptyQueue ==
  /\ <<>> \in Seq(1 .. MaxConnections + 2) /\ Len(<<>>) <= IMU_QUEUE_MAX_SIZE
  /\ \A i \in 1 .. Len(<<>>) : FALSE
BY OdinHostAssumption

-----------------------------------------------------------------------------
LEMMA InitThreads == Init => ThreadInv
<1> SUFFICES ASSUME Init PROVE ThreadInv
  OBVIOUS
<1>1. TypeInv
  BY EmptyQueue, OdinHostAssumption DEF Init, TypeInv, Place
<1>3. Flags
  BY DEF Init, Flags
<1>2. ImuFlag /\ MonitorFlag /\ ConnectedInv /\ program # "terminated"
  BY DEF Init, ImuFlag, MonitorFlag, ConnectedInv, Detaching
<1> QED BY <1>1, <1>2, <1>3 DEF ThreadInv

(* The device callback up to the start of the threads.                      *)
LEMMA AttachThreads ==
  ASSUME ThreadInv, Attach \/ Exit \/ Create \/ ConnectionTimeout \/ InTime \/ Open \/ Setup
                    \/ SetConnected
  PROVE  ThreadInv'
<1> USE DEF ThreadInv, Flags, TypeInv, ImuFlag, MonitorFlag, ConnectedInv, Place, Attaching, Detaching,
            deviceVars, linkVars, dataVars, imuVars, monitorVars, mainVars
<1>1. CASE Attach
  <2>1. TypeInv'
    <3>1. attached' \in 0 .. 2 /\ attached' + connection' <= MaxConnections + 2
      BY <1>1, OdinHostAssumption DEF Attach
    <3> QED BY <1>1, <3>1 DEF Attach
  <2>2. ImuFlag'
    BY <1>1 DEF Attach
  <2>3. MonitorFlag'
    BY <1>1 DEF Attach
  <2>4. ConnectedInv' /\ program' # "terminated"
    BY <1>1 DEF Attach
  <2>5. Flags'
    BY <1>1 DEF Attach
  <2> QED BY <2>1, <2>2, <2>3, <2>4, <2>5
<1>2. CASE Exit
  BY <1>2 DEF Exit
<1>3. CASE Create
  BY <1>3 DEF Create, DeviceStep
<1>4. CASE ConnectionTimeout
  BY <1>4 DEF ConnectionTimeout
<1>5. CASE InTime
  BY <1>5 DEF InTime, DeviceStep
<1>6. CASE Open
  BY <1>6 DEF Open, DeviceStep
<1>7. CASE Setup
  BY <1>7 DEF Setup, DeviceStep
<1>8. CASE SetConnected
  <2>1. TypeInv'
    BY <1>8 DEF SetConnected
  <2>2. ImuFlag'
    BY <1>8 DEF SetConnected
  <2>3. MonitorFlag'
    BY <1>8 DEF SetConnected
  <2>4. ConnectedInv' /\ program' # "terminated"
    BY <1>8 DEF SetConnected
  <2>5. Flags'
    BY <1>8 DEF SetConnected
  <2> QED BY <2>1, <2>2, <2>3, <2>4, <2>5
<1> QED BY <1>1, <1>2, <1>3, <1>4, <1>5, <1>6, <1>7, <1>8

(* The device callback where it starts and joins threads.                   *)
LEMMA DeviceThreads ==
  ASSUME ThreadInv, StartImu \/ StopOldMonitor \/ JoinMonitor \/ CreateMonitor \/ Detach
                    \/ SetDisconnected \/ StopImu \/ NotifyImu \/ JoinImu \/ StopMonitor \/ ClearAll
  PROVE  ThreadInv'
<1> USE DEF ThreadInv, Flags, TypeInv, ImuFlag, MonitorFlag, ConnectedInv, Place, Attaching, Detaching,
            deviceVars, linkVars, dataVars, imuVars, monitorVars, mainVars
<1>1. CASE StartImu
  <2>1. TypeInv'
    BY <1>1 DEF StartImu
  <2>2. ImuFlag'
    BY <1>1 DEF StartImu
  <2>3. MonitorFlag'
    BY <1>1 DEF StartImu
  <2>4. ConnectedInv' /\ program' # "terminated"
    BY <1>1 DEF StartImu
  <2>5. Flags'
    BY <1>1 DEF StartImu
  <2> QED BY <2>1, <2>2, <2>3, <2>4, <2>5
<1>2. CASE StopOldMonitor
  <2>1. TypeInv'
    BY <1>2 DEF StopOldMonitor
  <2>2. ImuFlag'
    BY <1>2 DEF StopOldMonitor
  <2>3. MonitorFlag'
    BY <1>2 DEF StopOldMonitor
  <2>4. ConnectedInv' /\ program' # "terminated"
    BY <1>2 DEF StopOldMonitor
  <2>5. Flags'
    BY <1>2 DEF StopOldMonitor
  <2> QED BY <2>1, <2>2, <2>3, <2>4, <2>5
<1>3. CASE JoinMonitor
  BY <1>3 DEF JoinMonitor
<1>4. CASE CreateMonitor
  BY <1>4 DEF CreateMonitor
<1>5. CASE Detach
  <2>1. TypeInv'
    BY <1>5 DEF Detach
  <2>2. ImuFlag'
    BY <1>5 DEF Detach
  <2>3. MonitorFlag'
    BY <1>5 DEF Detach
  <2>4. ConnectedInv' /\ program' # "terminated"
    BY <1>5 DEF Detach
  <2>5. Flags'
    BY <1>5 DEF Detach
  <2> QED BY <2>1, <2>2, <2>3, <2>4, <2>5
<1>6. CASE SetDisconnected
  BY <1>6 DEF SetDisconnected
<1>7. CASE StopImu
  <2>1. TypeInv'
    BY <1>7 DEF StopImu
  <2>2. ImuFlag'
    BY <1>7 DEF StopImu
  <2>3. MonitorFlag'
    BY <1>7 DEF StopImu
  <2>4. ConnectedInv' /\ program' # "terminated"
    BY <1>7 DEF StopImu
  <2>5. Flags'
    BY <1>7 DEF StopImu
  <2> QED BY <2>1, <2>2, <2>3, <2>4, <2>5
<1>8. CASE NotifyImu
  <2>1. TypeInv'
    BY <1>8 DEF NotifyImu, Notified
  <2>2. ImuFlag'
    BY <1>8 DEF NotifyImu, Notified
  <2>3. MonitorFlag'
    BY <1>8 DEF NotifyImu
  <2>4. ConnectedInv' /\ program' # "terminated"
    BY <1>8 DEF NotifyImu
  <2>5. Flags'
    BY <1>8 DEF NotifyImu
  <2> QED BY <2>1, <2>2, <2>3, <2>4, <2>5
<1>9. CASE JoinImu
  BY <1>9, EmptyQueue DEF JoinImu, Cleared
<1>10. CASE StopMonitor
  BY <1>10 DEF StopMonitor
<1>11. CASE ClearAll
  BY <1>11, EmptyQueue DEF ClearAll, Cleared
<1> QED BY <1>1, <1>2, <1>3, <1>4, <1>5, <1>6, <1>7, <1>8, <1>9, <1>10, <1>11

(* The other threads.                                                       *)
LEMMA OtherThreads ==
  ASSUME ThreadInv, CheckConnected \/ Deliver \/ ImuThread \/ ImuSpurious \/ MonitorCheck
                    \/ Main \/ TransferEnds
  PROVE  ThreadInv'
<1> USE DEF ThreadInv, Flags, TypeInv, ImuFlag, MonitorFlag, ConnectedInv, Place, Attaching, Detaching,
            deviceVars, linkVars, dataVars, imuVars, monitorVars, mainVars
<1>1. CASE CheckConnected
  <2>1. connection \in 1 .. MaxConnections + 2
    BY OdinHostAssumption
  <2> QED BY <1>1, <2>1 DEF CheckConnected
<1>2. CASE Push
  <2>1. accepted \in 1 .. MaxConnections + 2
    BY <1>2, OdinHostAssumption DEF Push
  <2>2. /\ g_imu_queue' \in Seq(1 .. MaxConnections + 2)
        /\ Len(g_imu_queue') <= IMU_QUEUE_MAX_SIZE
    BY <1>2, <2>1, PushedQueue DEF Push
  <2> QED BY <1>2, <2>2, OdinHostAssumption DEF Push
<1>3. CASE NotifyOne
  BY <1>3 DEF NotifyOne, Notified
<1>4. CASE ImuCheck \/ ImuLock \/ ImuWait \/ ImuSleep \/ ImuEnd \/ ImuSpurious
  BY <1>4 DEF ImuCheck, ImuLock, ImuWait, ImuSleep, ImuEnd, ImuSpurious, ImuStep
<1>5. CASE ImuTake
  <2>1. /\ g_imu_queue' \in Seq(1 .. MaxConnections + 2)
        /\ Len(g_imu_queue') <= IMU_QUEUE_MAX_SIZE
    BY <1>5, TakenQueue DEF ImuTake
  <2> QED BY <1>5, <2>1 DEF ImuTake
<1>6. CASE ImuPublish
  BY <1>6 DEF ImuPublish
<1>7. CASE MonitorCheck
  BY <1>7 DEF MonitorCheck
<1>8. CASE MainStarts \/ ServiceCall \/ ServiceReturn \/ CommandCheck \/ CommandOther
  BY <1>8 DEF MainStarts, ServiceCall, ServiceReturn, CommandCheck, CommandOther, MainStep
<1>9. CASE SaveMap \/ TransferEnds
  <2>1. TypeInv'
    BY <1>9 DEF SaveMap, TransferEnds
  <2>2. ImuFlag'
    BY <1>9 DEF SaveMap, TransferEnds
  <2>3. MonitorFlag'
    BY <1>9 DEF SaveMap, TransferEnds
  <2>4. ConnectedInv' /\ program' # "terminated"
    BY <1>9 DEF SaveMap, TransferEnds
  <2>5. Flags'
    BY <1>9 DEF SaveMap, TransferEnds
  <2> QED BY <2>1, <2>2, <2>3, <2>4, <2>5
<1> QED BY <1>1, <1>2, <1>3, <1>4, <1>5, <1>6, <1>7, <1>8, <1>9 DEF Deliver, ImuThread, Main

LEMMA NextThreads == ThreadInv /\ [Next]_vars => ThreadInv'
<1> SUFFICES ASSUME ThreadInv, [Next]_vars PROVE ThreadInv'
  OBVIOUS
<1>1. CASE UNCHANGED vars
  BY <1>1 DEF ThreadInv, Flags, TypeInv, ImuFlag, MonitorFlag, ConnectedInv, vars, deviceVars, linkVars,
              dataVars, imuVars, monitorVars, mainVars
<1>2. CASE Next
  BY <1>2, AttachThreads, DeviceThreads, OtherThreads DEF Next, Device
<1> QED BY <1>1, <1>2

(* Whatever comes, goes and fails, the threads and their flags agree with   *)
(* the place of the device callback.                                        *)
THEOREM ThreadInvariance == Spec => []ThreadInv
BY InitThreads, NextThreads, PTL DEF Spec

(* No thread is started over one that has not been joined.                  *)
THEOREM NoTermination == Spec => []NoTerminate
<1>1. ThreadInv => NoTerminate
  BY DEF ThreadInv, NoTerminate
<1> QED BY <1>1, ThreadInvariance, PTL

(* Between two device callbacks the threads are there exactly while a       *)
(* device is connected.                                                     *)
THEOREM ThreadsFollow == Spec => []ThreadsFollowConnection
<1>1. ThreadInv => ThreadsFollowConnection
  BY DEF ThreadInv, Flags, TypeInv, ImuFlag, MonitorFlag, ThreadsFollowConnection
<1> QED BY <1>1, ThreadInvariance, PTL

(* The state is well typed, and the IMU queue bounded.                      *)
THEOREM TypeCorrect == Spec => []TypeOK
<1>1. ThreadInv => TypeOK
  BY DEF ThreadInv, Flags, TypeInv, TypeOK
<1> QED BY <1>1, ThreadInvariance, PTL

-----------------------------------------------------------------------------
(* Steps keep what is on its way in the current connection, or ahead of     *)
(* what is.                                                                 *)
LEMMA FreshStep ==
  ASSUME ThreadInv, FreshInv, [Next]_vars
  PROVE  FreshInv'
<1> USE DEF ThreadInv, FreshInv, Detaching
<1>1. ASSUME UNCHANGED <<data, accepted, deviceConnected, g_imu_queue, connection, imu, imu_sample>>,
             dev' \notin Detaching => dev \notin Detaching
      PROVE  FreshInv'
  BY <1>1
<1>2. CASE UNCHANGED vars
  BY <1>1, <1>2 DEF vars, deviceVars, linkVars, dataVars, imuVars
<1>3. CASE Attach \/ Exit \/ Create \/ ConnectionTimeout \/ InTime \/ Open \/ Setup
  BY <1>1, <1>3 DEF Attach, Exit, Create, ConnectionTimeout, InTime, Open, Setup, DeviceStep,
                    deviceVars, linkVars, dataVars, imuVars
<1>4. CASE SetConnected
  BY <1>4 DEF SetConnected, dataVars, imuVars
<1>5. CASE StartImu
  BY <1>5 DEF StartImu, dataVars, linkVars
<1>6. CASE StopOldMonitor \/ CreateMonitor
  BY <1>1, <1>6 DEF StopOldMonitor, CreateMonitor, deviceVars, linkVars, dataVars, imuVars
<1>7. CASE JoinMonitor
  BY <1>1, <1>7 DEF JoinMonitor, deviceVars, linkVars, dataVars, imuVars
<1>8. CASE Detach
  BY <1>8 DEF Detach, dataVars, imuVars
<1>9. CASE SetDisconnected \/ StopMonitor
  BY <1>1, <1>9 DEF SetDisconnected, StopMonitor, linkVars, dataVars, imuVars
<1>10. CASE StopImu \/ NotifyImu \/ JoinImu
  BY <1>10 DEF StopImu, NotifyImu, JoinImu, linkVars, dataVars, ConnectedInv
<1>11. CASE ClearAll
  <2>1. imu # "publish" /\ ~deviceConnected
    BY <1>11 DEF ClearAll, ImuFlag, ConnectedInv
  <2>2. g_imu_queue' = <<>> /\ UNCHANGED <<data, accepted, deviceConnected, imu>>
    BY <1>11 DEF ClearAll, Cleared, linkVars, dataVars
  <2> QED BY <2>1, <2>2, EmptyQueue
<1>12. CASE CheckConnected
  <2>1. UNCHANGED <<dev, deviceConnected, g_imu_queue, connection, imu, imu_sample>>
    BY <1>12 DEF CheckConnected, deviceVars, linkVars, imuVars
  <2>2. data' = "push" => deviceConnected /\ accepted' = connection
    BY <1>12 DEF CheckConnected
  <2>3. data' # "idle" => deviceConnected
    BY <1>12 DEF CheckConnected
  <2> QED BY <2>1, <2>2, <2>3
<1>13. CASE Push
  <2>1. /\ UNCHANGED <<dev, deviceConnected, connection, imu, imu_sample>>
        /\ data = "push" /\ data' = "notify" /\ g_imu_queue' = Pushed(g_imu_queue, accepted)
    BY <1>13 DEF Push, deviceVars, linkVars
  <2>2. /\ g_imu_queue \in Seq(1 .. MaxConnections + 2) /\ Len(g_imu_queue) <= IMU_QUEUE_MAX_SIZE
        /\ accepted \in 1 .. MaxConnections + 2
    BY <2>1, OdinHostAssumption DEF TypeInv
  <2>3. /\ g_imu_queue' \in Seq(1 .. MaxConnections + 2)
        /\ \A i \in 1 .. Len(g_imu_queue') :
             \/ g_imu_queue'[i] = accepted
             \/ \E j \in 1 .. Len(g_imu_queue) : j >= i /\ g_imu_queue'[i] = g_imu_queue[j]
        /\ g_imu_queue = <<>> => Len(g_imu_queue') = 1
    <3> DEFINE c == 1 .. MaxConnections + 2
               b == Pushed(g_imu_queue, accepted)
    <3>3. g_imu_queue \in Seq(c) /\ accepted \in c /\ Len(g_imu_queue) <= IMU_QUEUE_MAX_SIZE
      BY <2>2
    <3> HIDE DEF c
    <3>1. /\ b \in Seq(c)
          /\ \A i \in 1 .. Len(b) :
               b[i] = accepted \/ \E j \in 1 .. Len(g_imu_queue) : j >= i /\ b[i] = g_imu_queue[j]
          /\ g_imu_queue = <<>> => Len(b) = 1
      BY ONLY <3>3, PushedQueue
    <3>2. g_imu_queue' = b
      BY <2>1
    <3> HIDE DEF b
    <3> QED BY <3>1, <3>2 DEF c
  <2>4. ASSUME dev \notin Detaching, NEW i \in 1 .. Len(g_imu_queue'), g_imu_queue'[i] # connection
        PROVE  CallbacksOverlap /\ i = 1 /\ imu # "publish"
    <3>1. CASE accepted # connection
      BY <2>1, <2>3, <2>4, <3>1
    <3>2. CASE accepted = connection
      <4>1. PICK j \in 1 .. Len(g_imu_queue) : j >= i /\ g_imu_queue'[i] = g_imu_queue[j]
        BY <2>3, <2>4, <3>2
      <4>2. CallbacksOverlap /\ j = 1 /\ imu # "publish"
        BY <2>4, <4>1
      <4> QED BY <2>3, <4>1, <4>2
    <3> QED BY <3>1, <3>2
  <2> QED BY <2>1, <2>4
<1>14. CASE NotifyOne
  BY <1>14 DEF NotifyOne, Notified, deviceVars, linkVars
<1>15. CASE ImuCheck \/ ImuLock \/ ImuWait \/ ImuSleep \/ ImuEnd \/ ImuSpurious
  BY <1>15 DEF ImuCheck, ImuLock, ImuWait, ImuSleep, ImuEnd, ImuSpurious, ImuStep,
               deviceVars, linkVars, dataVars
<1>16. CASE ImuTake
  <2>1. /\ 1 \in 1 .. Len(g_imu_queue) /\ imu_sample' = g_imu_queue[1]
        /\ g_imu_queue' \in Seq(1 .. MaxConnections + 2)
        /\ \A i \in 1 .. Len(g_imu_queue') :
             i + 1 \in 1 .. Len(g_imu_queue) /\ g_imu_queue'[i] = g_imu_queue[i + 1]
    BY <1>16, TakenQueue DEF ImuTake, TypeInv
  <2>2. /\ UNCHANGED <<dev, data, accepted, deviceConnected, connection>>
        /\ g_imu_queue # <<>>
    BY <1>16 DEF ImuTake, deviceVars, linkVars, dataVars
  <2>3. \A i \in 1 .. Len(g_imu_queue') : i + 1 # 1
    BY <2>1
  <2> QED BY <2>1, <2>2, <2>3
<1>17. CASE ImuPublish
  BY <1>17 DEF ImuPublish, deviceVars, linkVars, dataVars
<1>18. CASE MonitorCheck \/ SaveMap \/ TransferEnds
  BY <1>1, <1>18 DEF MonitorCheck, SaveMap, TransferEnds, deviceVars, linkVars, dataVars, imuVars
<1>19. CASE MainStarts \/ ServiceCall \/ ServiceReturn \/ CommandCheck \/ CommandOther
  BY <1>1, <1>19 DEF MainStarts, ServiceCall, ServiceReturn, CommandCheck, CommandOther, MainStep,
                     deviceVars, linkVars, dataVars, imuVars
<1> QED BY <1>2, <1>3, <1>4, <1>5, <1>6, <1>7, <1>8, <1>9, <1>10, <1>11, <1>12, <1>13, <1>14,
           <1>15, <1>16, <1>17, <1>18, <1>19 DEF Next, Device, Deliver, ImuThread, Main

(* So, while connected, only the first of what is on its way can be of an   *)
(* earlier connection.                                                      *)
LEMMA FreshOnTheWay == ThreadInv /\ FreshInv => AtMostOneStale
<1> SUFFICES ASSUME ThreadInv, FreshInv, deviceConnected,
                    NEW i \in 1 .. Len(OnTheWay), OnTheWay[i] # connection
             PROVE  CallbacksOverlap /\ i = 1
  BY DEF AtMostOneStale
<1> DEFINE p == IF imu = "publish" THEN <<imu_sample>> ELSE <<>>
           q == g_imu_queue
           a == IF data = "push" THEN <<accepted>> ELSE <<>>
<1>1. /\ Len(p) \in Nat /\ Len(p) <= 1 /\ (imu # "publish" => Len(p) = 0)
      /\ Len(a) \in Nat /\ Len(a) <= 1 /\ (data # "push" => Len(a) = 0)
      /\ imu = "publish" => Len(p) = 1 /\ p[1] = imu_sample
      /\ data = "push" => Len(a) = 1 /\ a[1] = accepted
  <2>1. CASE imu = "publish" /\ data = "push"
    BY <2>1
  <2>2. CASE imu = "publish" /\ data # "push"
    BY <2>2
  <2>3. CASE imu # "publish" /\ data = "push"
    BY <2>3
  <2>4. CASE imu # "publish" /\ data # "push"
    BY <2>4
  <2> QED BY <2>1, <2>2, <2>3, <2>4
<1>2. q \in Seq(1 .. MaxConnections + 2) /\ Len(q) \in Nat /\ (q = <<>> => Len(q) = 0)
  BY DEF ThreadInv, TypeInv
<1>3. OnTheWay = (p \o q) \o a
  BY DEF OnTheWay
<1>4. /\ data = "push" /\ accepted # connection => CallbacksOverlap /\ q = <<>> /\ imu # "publish"
      /\ \A k \in 1 .. Len(q) : q[k] # connection => CallbacksOverlap /\ k = 1 /\ imu # "publish"
      /\ imu = "publish" /\ imu_sample # connection => CallbacksOverlap
  BY DEF ThreadInv, ConnectedInv, FreshInv
<1> DEFINE S == {imu_sample, accepted} \cup (1 .. MaxConnections + 2)
<1>5. p \in Seq(S) /\ q \in Seq(S) /\ a \in Seq(S)
  <2>1. imu_sample \in S /\ accepted \in S /\ \A k \in 1 .. MaxConnections + 2 : k \in S
    OBVIOUS
  <2>7. \A k \in 1 .. Len(q) : q[k] \in 1 .. MaxConnections + 2
    <3> HIDE DEF S
    <3> QED BY <1>2, ElementOfSeq
  <2>2. q = [k \in 1 .. Len(q) |-> q[k]]
    BY <1>2
  <2> HIDE DEF S, q
  <2>3. <<imu_sample>> \in Seq(S) /\ <<accepted>> \in Seq(S) /\ <<>> \in Seq(S)
    BY <2>1
  <2>4. p \in Seq(S) /\ a \in Seq(S)
    BY <2>3
  <2>5. \A k \in 1 .. Len(q) : q[k] \in S
    BY <2>1, <2>7
  <2>6. q \in Seq(S)
    BY <1>2, <2>2, <2>5
  <2> QED BY <2>4, <2>6
<1> HIDE DEF p, q, a, S
<1>6. /\ Len(OnTheWay) = Len(p) + Len(q) + Len(a)
      /\ i <= Len(p) => OnTheWay[i] = p[i]
      /\ i > Len(p) /\ i <= Len(p) + Len(q) => OnTheWay[i] = q[i - Len(p)]
      /\ i > Len(p) + Len(q) => OnTheWay[i] = a[i - Len(p) - Len(q)]
  BY <1>3, <1>5
<1>7. CASE i <= Len(p)
  BY <1>1, <1>4, <1>6, <1>7
<1>8. CASE i > Len(p) /\ i <= Len(p) + Len(q)
  <2>1. i - Len(p) \in 1 .. Len(q)
    BY <1>1, <1>2, <1>8
  <2> QED BY <1>1, <1>4, <1>6, <1>8, <2>1
<1>9. CASE i > Len(p) + Len(q)
  <2>3. i \in Nat /\ i <= Len(p) + Len(q) + Len(a)
    BY <1>1, <1>2, <1>6
  <2>1. data = "push" /\ i = Len(p) + Len(q) + 1
    BY <1>1, <1>2, <1>9, <2>3
  <2>2. OnTheWay[i] = accepted
    BY <1>1, <1>2, <1>6, <1>9, <2>1
  <2> QED BY <1>1, <1>2, <1>4, <2>1, <2>2
<1> QED BY <1>1, <1>2, <1>6, <1>7, <1>8, <1>9

(* However devices come and go, no queue carries samples from one           *)
(* connection into another; a sample caught between the look at             *)
(* deviceConnected and the queue gets there alone and ahead of all others,  *)
(* and only if the SDK reports a loss during a data callback.               *)
THEOREM StaleOnlyFirst == Spec => []AtMostOneStale
<1>1. Init => FreshInv
  BY EmptyQueue DEF Init, FreshInv
<1>2. ThreadInv /\ FreshInv /\ [Next]_vars => FreshInv'
  BY FreshStep
<1>3. ThreadInv /\ FreshInv => AtMostOneStale
  BY FreshOnTheWay
<1> QED BY <1>1, <1>2, <1>3, ThreadInvariance, PTL DEF Spec

-----------------------------------------------------------------------------
(* The process that holds both, as it is model-checked: its steps are steps *)
(* of the one or the other, so what is invariant of each is invariant of    *)
(* it; its state is well typed.                                             *)
THEOREM ProcessTypeCorrect == OdinSpec => []TypesOK
<1>1. OdinInit => Init /\ PairInit
  BY DEF OdinInit
<1>2. [OdinNext]_odinVars => [Next]_vars /\ [PairNext]_pairVars
  BY DEF OdinNext, odinVars, hostVars
<1>3. OdinSpec => Init /\ [][Next]_vars /\ PairInit /\ [][PairNext]_pairVars
  BY <1>1, <1>2, PTL DEF OdinSpec
<1>4. ThreadInv /\ PairInv => TypesOK
  BY DEF ThreadInv, Flags, TypeInv, TypeOK, PairInv, TypesOK
<1> QED BY <1>3, <1>4, ThreadInvariance, PairInvariance, PTL DEF Spec, PairSpec
=============================================================================
