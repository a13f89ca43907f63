---------------------------- MODULE IkdTreeProofs ----------------------------
(***************************************************************************)
(* Proofs about the rebuild thread of ikd-Tree against the searches and    *)
(* insertions of the mapping thread, for any points and boxes, any number  *)
(* of searches at once and any number of insertions.                       *)
(***************************************************************************)
EXTENDS IkdTree, FiniteSetTheorems, TLAPS

(* Where the rebuild thread holds working_flag_mutex; where the searches    *)
(* are shut out; and from the start of a rebuild to its end.                *)
Working == {"lockSearch", "flatten", "unlockSearch", "replay", "waitSearch", "exchange",
            "reopen", "release"}
Closed == {"flatten", "unlockSearch", "exchange", "reopen"}
Rebuilding == Working \cup {"build"}
Counted == {s \in Searchers : search[s] = "counted"}

Types ==
  /\ tree \in {0, 1} /\ live \subseteq Points /\ new \subseteq Points
  /\ Rebuild_Ptr \in {"null", "child", "root"}
  /\ Rebuild_Logger \in Seq(Operation)
  /\ rebuild_flag \in BOOLEAN /\ working_flag_mutex \in BOOLEAN /\ search_flag_mutex \in BOOLEAN
  /\ printed \in BOOLEAN /\ unlogged \in BOOLEAN
  /\ search \in [Searchers -> {"out", "check", "look", "wait", "free", "counted"}]
  /\ reads \in [Readers -> {0, 1, None}]
  /\ thread \in Rebuilding \cup {"idle", "clearFlag", "discard"}
  /\ main \in {"scan", "join", "map", "range", "ranging", "both", "delete", "deleteLocked",
               "add", "addLocked"}
  /\ point \in Points

(* The flag, the mutex and the pointer follow the rebuild thread.           *)
TurnInv ==
  /\ rebuild_flag <=> thread \notin {"idle", "discard"}
  /\ working_flag_mutex <=> thread \in Working
  /\ thread \in Rebuilding => Rebuild_Ptr # "null"

(* Searches run only while the mapping thread waits for them, and then      *)
(* nobody asks for a rebuild: a search is uncounted, or holds a pointer to  *)
(* the old tree, only when the exchange is over for this scan.  One that is *)
(* counted is in the tree the father leads to.                              *)
Settled == Rebuild_Ptr = "null" \/ thread \in {"reopen", "release"}
SearchInv ==
  /\ \A s \in Searchers :
       /\ search[s] # "out" => main = "join"
       /\ search[s] = "free" => Settled
       /\ search[s] = "look" /\ reads[s] # tree => Settled
       /\ search[s] = "counted" => reads[s] = tree
  /\ search_flag_mutex => main = "ranging"
  /\ search_flag_mutex /\ thread # "reopen" => reads["range"] = tree

(* The counter is the number of searches counted, or -1 when there is none. *)
CounterInv ==
  IF thread \in Closed THEN search_mutex_counter = -1 /\ Counted = {}
                       ELSE search_mutex_counter = Cardinality(Counted)

(* What the operations of the logger, in order, make of a set of points:    *)
(* a point is there if one adds it, or it was there, and none later deletes *)
(* it.                                                                      *)
Deletes(o, p) == o.op = "delete" /\ o.at = Box[p]
Adds(o, p) == o.op = "add" /\ o.at = p
Replayed(S, log) ==
  {p \in Points :
     \/ \E i \in 1 .. Len(log) :
          Adds(log[i], p) /\ \A j \in 1 .. Len(log) : j > i => ~Deletes(log[j], p)
     \/ p \in S /\ \A j \in 1 .. Len(log) : ~Deletes(log[j], p)}

(* From the copy to the exchange the logger holds what the copy lacks.      *)
LogInv ==
  ~printed /\ ~unlogged =>
    /\ thread \in {"lockSearch", "flatten", "waitSearch", "exchange"} => Rebuild_Logger = <<>>
    /\ thread \in {"unlockSearch", "build", "replay", "waitSearch", "exchange"}
         => Replayed(new, Rebuild_Logger) = live

TreeInv == Types /\ TurnInv /\ SearchInv /\ CounterInv /\ LogInv

-----------------------------------------------------------------------------
(* The algebra of the logger.                                               *)

LEMMA OperationKinds ==
  ASSUME NEW o \in Operation
  PROVE  \/ o.op = "add" /\ o.at \in Points
         \/ o.op = "delete"
BY DEF Operation

LEMMA RunIsSubset ==
  ASSUME NEW S \in SUBSET Points, NEW o \in Operation
  PROVE  Run(S, o) \in SUBSET Points
BY OperationKinds DEF Run

(* An operation adds its point, and deletes the points of its box.          *)
LEMMA RunMembers ==
  ASSUME NEW S \in SUBSET Points, NEW o \in Operation, NEW p \in Points
  PROVE  p \in Run(S, o) <=> Adds(o, p) \/ (p \in S /\ ~Deletes(o, p))
<1>1. CASE o.op = "add" BY <1>1 DEF Run, Adds, Deletes
<1>2. CASE o.op = "delete" BY <1>2 DEF Run, Adds, Deletes
<1> QED BY <1>1, <1>2, OperationKinds

LEMMA ReplayedEmpty ==
  ASSUME NEW S \in SUBSET Points
  PROVE  Replayed(S, <<>>) = S
BY DEF Replayed

LEMMA AppendElements ==
  ASSUME NEW T, NEW q \in Seq(T), NEW e \in T
  PROVE  /\ Append(q, e) \in Seq(T) /\ Len(q) \in Nat /\ Len(Append(q, e)) = Len(q) + 1
         /\ \A i \in 1 .. Len(q) : Append(q, e)[i] = q[i]
         /\ Append(q, e)[Len(q) + 1] = e
         /\ q \o <<e>> = Append(q, e)
OBVIOUS

LEMMA TailElements ==
  ASSUME NEW T, NEW q \in Seq(T), q # <<>>
  PROVE  /\ Tail(q) \in Seq(T) /\ Len(q) \in Nat \ {0} /\ Len(Tail(q)) = Len(q) - 1
         /\ \A i \in 1 .. Len(Tail(q)) : Tail(q)[i] = q[i + 1]
         /\ Head(q) = q[1] /\ Head(q) \in T
OBVIOUS

(* What is logged last is done last.                                        *)
LEMMA ReplayedAppend ==
  ASSUME NEW S \in SUBSET Points, NEW log \in Seq(Operation), NEW o \in Operation
  PROVE  Replayed(S, Append(log, o)) = Run(Replayed(S, log), o)
<1> DEFINE n == Len(log)
           longer == Append(log, o)
<1>1. /\ n \in Nat /\ Len(longer) = n + 1 /\ longer[n + 1] = o
      /\ \A i \in 1 .. n : longer[i] = log[i]
  BY AppendElements
<1>2. \A i \in 1 .. n + 1 : i \in 1 .. n \/ i = n + 1
  BY <1>1
<1>3. 1 .. n \subseteq 1 .. n + 1 /\ n + 1 \in 1 .. n + 1
  BY <1>1
<1>4. \A i \in 1 .. n : n + 1 > i
  BY <1>1
<1>5. \A j \in 1 .. n + 1 : ~(j > n + 1)
  BY <1>1
<1>6. Replayed(S, log) \in SUBSET Points
  BY DEF Replayed
<1> HIDE DEF n, longer
<1>7. ASSUME NEW p \in Points
      PROVE  p \in Replayed(S, longer) <=> Adds(o, p) \/ (p \in Replayed(S, log) /\ ~Deletes(o, p))
  <2>1. p \in Replayed(S, longer) <=>
          \/ \E i \in 1 .. n + 1 : Adds(longer[i], p)
                                   /\ \A j \in 1 .. n + 1 : j > i => ~Deletes(longer[j], p)
          \/ p \in S /\ \A j \in 1 .. n + 1 : ~Deletes(longer[j], p)
    BY <1>1 DEF Replayed
  <2>2. p \in Replayed(S, log) <=>
          \/ \E i \in 1 .. n : Adds(log[i], p) /\ \A j \in 1 .. n : j > i => ~Deletes(log[j], p)
          \/ p \in S /\ \A j \in 1 .. n : ~Deletes(log[j], p)
    BY DEF Replayed, n
  <2>3. (\A j \in 1 .. n + 1 : ~Deletes(longer[j], p))
          <=> ~Deletes(o, p) /\ \A j \in 1 .. n : ~Deletes(log[j], p)
    BY <1>1, <1>2, <1>3
  <2>4. ASSUME NEW i \in 1 .. n
        PROVE  (\A j \in 1 .. n + 1 : j > i => ~Deletes(longer[j], p))
                 <=> ~Deletes(o, p) /\ \A j \in 1 .. n : j > i => ~Deletes(log[j], p)
    BY <1>1, <1>2, <1>3, <1>4
  <2>5. Adds(longer[n + 1], p) /\ (\A j \in 1 .. n + 1 : j > n + 1 => ~Deletes(longer[j], p))
          <=> Adds(o, p)
    BY <1>1, <1>5
  <2>6. (\E i \in 1 .. n + 1 : Adds(longer[i], p)
                               /\ \A j \in 1 .. n + 1 : j > i => ~Deletes(longer[j], p))
          <=> \/ Adds(o, p)
              \/ ~Deletes(o, p) /\ \E i \in 1 .. n :
                   Adds(log[i], p) /\ \A j \in 1 .. n : j > i => ~Deletes(log[j], p)
    BY <1>1, <1>2, <1>3, <2>4, <2>5
  <2> QED BY <2>1, <2>2, <2>3, <2>6
<1>8. ASSUME NEW p \in Points
      PROVE  p \in Replayed(S, longer) <=> p \in Run(Replayed(S, log), o)
  BY <1>6, <1>7, RunMembers
<1>9. Replayed(S, longer) \subseteq Points /\ Run(Replayed(S, log), o) \subseteq Points
  BY <1>6, RunIsSubset DEF Replayed
<1> QED BY <1>8, <1>9 DEF longer

(* What was logged first can be done first, and forgotten.                  *)
LEMMA ReplayedHead ==
  ASSUME NEW S \in SUBSET Points, NEW log \in Seq(Operation), log # <<>>
  PROVE  Replayed(Run(S, Head(log)), Tail(log)) = Replayed(S, log)
<1> DEFINE n == Len(log) - 1
           rest == Tail(log)
           o == Head(log)
<1>1. /\ n \in Nat /\ Len(log) = n + 1 /\ Len(rest) = n /\ o = log[1] /\ o \in Operation
      /\ \A i \in 1 .. n : rest[i] = log[i + 1]
  BY TailElements
<1>2. \A i \in 1 .. n : i + 1 \in 1 .. n + 1 /\ i + 1 > 1
  BY <1>1
<1>3. \A i \in 1 .. n + 1 : i = 1 \/ (i > 1 /\ i - 1 \in 1 .. n /\ (i - 1) + 1 = i)
  BY <1>1
<1>4. 1 \in 1 .. n + 1
  BY <1>1
<1>5. \A i, j \in 1 .. n : j > i <=> j + 1 > i + 1
  BY <1>1
<1>6. ~(1 > 1) /\ \A i \in 1 .. n : ~(1 > i + 1)
  BY <1>1
<1>7. Run(S, o) \in SUBSET Points
  BY <1>1, RunIsSubset
<1> HIDE DEF n, rest, o
<1>8. ASSUME NEW p \in Points
      PROVE  p \in Replayed(Run(S, o), rest) <=> p \in Replayed(S, log)
  <2>1. p \in Replayed(S, log) <=>
          \/ \E i \in 1 .. n + 1 : Adds(log[i], p)
                                   /\ \A j \in 1 .. n + 1 : j > i => ~Deletes(log[j], p)
          \/ p \in S /\ \A j \in 1 .. n + 1 : ~Deletes(log[j], p)
    BY <1>1 DEF Replayed
  <2>2. p \in Replayed(Run(S, o), rest) <=>
          \/ \E i \in 1 .. n : Adds(rest[i], p) /\ \A j \in 1 .. n : j > i => ~Deletes(rest[j], p)
          \/ p \in Run(S, o) /\ \A j \in 1 .. n : ~Deletes(rest[j], p)
    BY <1>1 DEF Replayed
  <2>3. (\A j \in 1 .. n + 1 : ~Deletes(log[j], p))
          <=> ~Deletes(o, p) /\ \A j \in 1 .. n : ~Deletes(rest[j], p)
    <3>1. ASSUME \A j \in 1 .. n + 1 : ~Deletes(log[j], p)
          PROVE  ~Deletes(o, p) /\ \A j \in 1 .. n : ~Deletes(rest[j], p)
      BY <1>1, <1>2, <1>4, <3>1
    <3>2. ASSUME ~Deletes(o, p), \A j \in 1 .. n : ~Deletes(rest[j], p), NEW j \in 1 .. n + 1
          PROVE  ~Deletes(log[j], p)
      <4>1. CASE j = 1 BY <1>1, <3>2, <4>1
      <4>2. CASE j # 1
        <5>1. j - 1 \in 1 .. n /\ (j - 1) + 1 = j BY <1>3, <4>2
        <5>2. rest[j - 1] = log[j] BY <1>1, <5>1
        <5> QED BY <3>2, <5>1, <5>2
      <4> QED BY <4>1, <4>2
    <3> QED BY <3>1, <3>2
  <2>4. (\A j \in 1 .. n + 1 : j > 1 => ~Deletes(log[j], p))
          <=> \A j \in 1 .. n : ~Deletes(rest[j], p)
    <3>1. ASSUME \A j \in 1 .. n + 1 : j > 1 => ~Deletes(log[j], p), NEW j \in 1 .. n
          PROVE  ~Deletes(rest[j], p)
      BY <1>1, <1>2, <3>1
    <3>2. ASSUME \A j \in 1 .. n : ~Deletes(rest[j], p), NEW j \in 1 .. n + 1, j > 1
          PROVE  ~Deletes(log[j], p)
      <4>1. j - 1 \in 1 .. n /\ (j - 1) + 1 = j BY <1>3, <1>6, <3>2
      <4>2. rest[j - 1] = log[j] BY <1>1, <4>1
      <4> QED BY <3>2, <4>1, <4>2
    <3> QED BY <3>1, <3>2
  <2>5. ASSUME NEW i \in 1 .. n
        PROVE  (\A j \in 1 .. n + 1 : j > i + 1 => ~Deletes(log[j], p))
                 <=> \A j \in 1 .. n : j > i => ~Deletes(rest[j], p)
    BY <1>1, <1>2, <1>3, <1>5, <1>6
  <2>6. (\E i \in 1 .. n + 1 : Adds(log[i], p)
                               /\ \A j \in 1 .. n + 1 : j > i => ~Deletes(log[j], p))
          <=> \/ Adds(o, p) /\ \A j \in 1 .. n : ~Deletes(rest[j], p)
              \/ \E i \in 1 .. n :
                   Adds(rest[i], p) /\ \A j \in 1 .. n : j > i => ~Deletes(rest[j], p)
    <3> DEFINE Survives(i) == Adds(log[i], p)
                              /\ \A j \in 1 .. n + 1 : j > i => ~Deletes(log[j], p)
    <3>1. Survives(1) <=> Adds(o, p) /\ \A j \in 1 .. n : ~Deletes(rest[j], p)
      BY <1>1, <2>4
    <3>2. ASSUME NEW i \in 1 .. n
          PROVE  Survives(i + 1)
                   <=> Adds(rest[i], p) /\ \A j \in 1 .. n : j > i => ~Deletes(rest[j], p)
      BY <1>1, <2>5
    <3> HIDE DEF Survives
    <3>3. (\E i \in 1 .. n + 1 : Survives(i)) <=> Survives(1) \/ \E i \in 1 .. n : Survives(i + 1)
      BY <1>2, <1>3, <1>4
    <3>4. (\E i \in 1 .. n + 1 : Survives(i))
            <=> \/ Adds(o, p) /\ \A j \in 1 .. n : ~Deletes(rest[j], p)
                \/ \E i \in 1 .. n :
                     Adds(rest[i], p) /\ \A j \in 1 .. n : j > i => ~Deletes(rest[j], p)
      BY <3>1, <3>2, <3>3
    <3> QED BY <3>4 DEF Survives
  <2>7. p \in Run(S, o) <=> Adds(o, p) \/ (p \in S /\ ~Deletes(o, p))
    BY <1>1, RunMembers
  <2> QED BY <2>1, <2>2, <2>3, <2>6, <2>7
<1>9. Replayed(Run(S, o), rest) \subseteq Points /\ Replayed(S, log) \subseteq Points
  BY DEF Replayed
<1> QED BY <1>8, <1>9 DEF o, rest

(* The operations Add_Points makes under the mutex.                         *)
Logged(ops) ==
  \/ \E o \in Operation : ops = <<o>>
  \/ \E o1, o2 \in Operation : ops = <<o1, o2>>

LEMMA ConcatPair ==
  ASSUME NEW T, NEW q \in Seq(T), NEW e \in T, NEW f \in T
  PROVE  q \o <<e, f>> = Append(Append(q, e), f)
<1> DEFINE l == q \o <<e, f>>
           r == Append(Append(q, e), f)
<1>1. /\ l \in Seq(T) /\ Len(l) = Len(q) + 2 /\ Len(q) \in Nat
      /\ \A i \in 1 .. Len(q) : l[i] = q[i]
      /\ l[Len(q) + 1] = e /\ l[Len(q) + 2] = f
  OBVIOUS
<1>2. /\ r \in Seq(T) /\ Len(r) = Len(q) + 2
      /\ \A i \in 1 .. Len(q) : r[i] = q[i]
      /\ r[Len(q) + 1] = e /\ r[Len(q) + 2] = f
  OBVIOUS
<1> HIDE DEF l, r
<1>3. \A i \in 1 .. Len(q) + 2 : i \in 1 .. Len(q) \/ i = Len(q) + 1 \/ i = Len(q) + 2
  BY <1>1
<1>4. \A i \in 1 .. Len(q) + 2 : l[i] = r[i]
  BY <1>1, <1>2, <1>3
<1>5. l = r
  BY <1>1, <1>2, <1>4
<1> QED BY <1>5 DEF l, r

LEMMA ReplayedRunAll ==
  ASSUME NEW S \in SUBSET Points, NEW log \in Seq(Operation), NEW ops, Logged(ops)
  PROVE  /\ log \o ops \in Seq(Operation)
         /\ RunAll(S, ops) \in SUBSET Points
         /\ Replayed(S, log \o ops) = RunAll(Replayed(S, log), ops)
<1>1. ASSUME NEW o \in Operation, ops = <<o>>
      PROVE  /\ log \o ops \in Seq(Operation)
             /\ RunAll(S, ops) \in SUBSET Points
             /\ Replayed(S, log \o ops) = RunAll(Replayed(S, log), ops)
  <2>1. log \o ops = Append(log, o) /\ Append(log, o) \in Seq(Operation)
    BY <1>1, AppendElements
  <2>2. \A points : RunAll(points, ops) = Run(points, o)
    BY <1>1 DEF RunAll
  <2> QED BY <2>1, <2>2, ReplayedAppend, RunIsSubset
<1>2. ASSUME NEW o \in Operation, NEW p \in Operation, ops = <<o, p>>
      PROVE  /\ log \o ops \in Seq(Operation)
             /\ RunAll(S, ops) \in SUBSET Points
             /\ Replayed(S, log \o ops) = RunAll(Replayed(S, log), ops)
  <2>1. log \o ops = Append(Append(log, o), p)
    BY <1>2, ConcatPair
  <2>2. Append(log, o) \in Seq(Operation)
    BY AppendElements
  <2>3. Append(Append(log, o), p) \in Seq(Operation)
    BY <2>2, AppendElements
  <2>4. \A points : RunAll(points, ops) = Run(Run(points, o), p)
    BY <1>2 DEF RunAll
  <2>5. Run(S, o) \in SUBSET Points
    BY RunIsSubset
  <2>6. Run(Run(S, o), p) \in SUBSET Points
    BY <2>5, RunIsSubset
  <2>7. Replayed(S, Append(Append(log, o), p)) = Run(Replayed(S, Append(log, o)), p)
    BY <2>2, ReplayedAppend
  <2>8. Replayed(S, Append(log, o)) = Run(Replayed(S, log), o)
    BY ReplayedAppend
  <2> QED BY <2>1, <2>3, <2>4, <2>6, <2>7, <2>8
<1> QED BY <1>1, <1>2 DEF Logged

(* What Add_Points does to the tree are operations.                         *)
LEMMA PointOperations ==
  ASSUME point \in Points
  PROVE  /\ Add \in Operation /\ Delete \in Operation
         /\ Logged(<<Add>>) /\ Logged(<<Delete>>) /\ Logged(<<Delete, Add>>)
<1>1. Add \in Operation /\ Delete \in Operation
  BY DEF Add, Delete, Operation
<1> HIDE DEF Add, Delete
<1> QED BY <1>1 DEF Logged

-----------------------------------------------------------------------------
(* The searchers counted.                                                   *)
LEMMA CountedFinite == IsFiniteSet(Counted) /\ Cardinality(Counted) \in Nat
<1>1. Counted \subseteq Searchers /\ IsFiniteSet(Searchers)
  BY IkdTreeAssumption DEF Counted
<1> QED BY <1>1, FS_Subset, FS_CardinalityType

LEMMA InitInv == Init => TreeInv
<1> SUFFICES ASSUME Init PROVE TreeInv
  OBVIOUS
<1>1. Types
  <2>1. <<>> \in Seq(Operation)
    OBVIOUS
  <2> QED BY <2>1 DEF Init, Types, None, Rebuilding, Working
<1>2. TurnInv
  BY DEF Init, TurnInv, Working, Rebuilding
<1>3. SearchInv
  BY DEF Init, SearchInv, Readers
<1>4. Counted = {}
  BY DEF Init, Counted
<1>5. CounterInv
  BY <1>4, FS_EmptySet DEF Init, CounterInv, Closed
<1>6. LogInv
  BY DEF Init, LogInv
<1> QED BY <1>1, <1>2, <1>3, <1>5, <1>6 DEF TreeInv

-----------------------------------------------------------------------------
(* The rebuild thread.                                                      *)

(* While a search is shut out or the thread does not touch the tree, the    *)
(* searches go on as they were.                                             *)
LEMMA SearchersKeep ==
  ASSUME UNCHANGED search
  PROVE  Counted' = Counted
BY DEF Counted

LEMMA ThreadTypes ==
  ASSUME TreeInv, Thread \/ WaitForSearches
  PROVE  Types' /\ TurnInv'
<1> USE DEF TreeInv, Types, TurnInv, Working, Rebuilding, ThreadStep, treeVars, logVars,
            threadVars, searchVars, mainVars
<1>1. CASE TakeRequest BY <1>1 DEF TakeRequest
<1>2. CASE WaitForSearches BY <1>2 DEF WaitForSearches, LockSearch
<1>3. CASE Flatten BY <1>3 DEF Flatten
<1>4. CASE UnlockSearch BY <1>4 DEF UnlockSearch
<1>5. CASE LockWorking BY <1>5 DEF LockWorking
<1>6. CASE PopOperation
  <2>1. Tail(Rebuild_Logger) \in Seq(Operation) /\ Head(Rebuild_Logger) \in Operation
    BY <1>6, TailElements DEF PopOperation
  <2>2. Run(new, Head(Rebuild_Logger)) \subseteq Points
    BY <2>1, RunIsSubset
  <2> QED BY <1>6, <2>1, <2>2 DEF PopOperation
<1>7. CASE LoggerEmpty BY <1>7 DEF LoggerEmpty
<1>8. CASE Exchange BY <1>8 DEF Exchange
<1>9. CASE Reopen BY <1>9 DEF Reopen
<1>10. CASE Release BY <1>10 DEF Release
<1>11. CASE ClearFlag BY <1>11 DEF ClearFlag
<1>12. CASE Discard BY <1>12 DEF Discard
<1> QED BY <1>1, <1>2, <1>3, <1>4, <1>5, <1>6, <1>7, <1>8, <1>9, <1>10, <1>11, <1>12
        DEF Thread

LEMMA ThreadSearches ==
  ASSUME TreeInv, Thread \/ WaitForSearches
  PROVE  SearchInv' /\ CounterInv'
<1>1. UNCHANGED <<search, reads, main>>
  BY DEF Thread, WaitForSearches, TakeRequest, LockSearch, Flatten, UnlockSearch, LockWorking,
         PopOperation, LoggerEmpty, Exchange, Reopen, Release, ClearFlag, Discard,
         searchVars, mainVars
<1>2. Counted' = Counted
  BY <1>1, SearchersKeep
<1> USE DEF TreeInv, SearchInv, Settled, CounterInv, Closed, ThreadStep, treeVars, logVars,
            threadVars, searchVars, mainVars
<1>3. CASE WaitForSearches
  <2>1. Counted = {}
    BY <1>3, CountedFinite, FS_EmptySet DEF WaitForSearches, LockSearch
  <2> QED BY <1>1, <1>2, <1>3, <2>1 DEF WaitForSearches, LockSearch
<1>4. CASE UnlockSearch \/ Reopen
  <2>1. Counted = {} /\ search_mutex_counter' = 0
    BY <1>4 DEF UnlockSearch, Reopen
  <2>2. Cardinality(Counted') = 0
    BY <1>2, <2>1, FS_EmptySet
  <2>3. CounterInv'
    BY <1>4, <2>1, <2>2 DEF UnlockSearch, Reopen
  <2>4. SearchInv'
    BY <1>1, <1>4 DEF UnlockSearch, Reopen
  <2> QED BY <2>3, <2>4
<1>5. CASE Exchange
  <2>1. \A s \in Searchers : search[s] # "counted"
    BY <1>5 DEF Exchange, Counted
  <2> QED BY <1>1, <1>2, <1>5, <2>1 DEF Exchange
<1>6. CASE TakeRequest \/ Flatten \/ LockWorking \/ PopOperation \/ LoggerEmpty
           \/ Release \/ ClearFlag \/ Discard
  <2>1. /\ UNCHANGED <<tree, search_flag_mutex, search_mutex_counter>>
        /\ thread' \in Closed <=> thread \in Closed
        /\ thread = "reopen" => thread' = "reopen"
        /\ Settled => Settled'
    BY <1>6 DEF TakeRequest, Flatten, LockWorking, PopOperation, LoggerEmpty, Release,
                ClearFlag, Discard
  <2> QED BY <1>1, <1>2, <2>1
<1> QED BY <1>3, <1>4, <1>5, <1>6 DEF Thread

(* A turn copies what is live when nothing is logged; every operation it    *)
(* takes from the logger brings the copy nearer to the tree.                *)
LEMMA ThreadLog ==
  ASSUME TreeInv, Thread \/ WaitForSearches
  PROVE  LogInv'
<1> USE DEF TreeInv, LogInv, ThreadStep, treeVars, logVars, threadVars, searchVars, mainVars
<1>1. CASE TakeRequest BY <1>1 DEF TakeRequest, Types
<1>2. CASE WaitForSearches BY <1>2 DEF WaitForSearches, LockSearch
<1>3. CASE Flatten
  <2>1. Replayed(live, <<>>) = live
    BY ReplayedEmpty DEF Types
  <2> QED BY <1>3, <2>1 DEF Flatten
<1>4. CASE UnlockSearch BY <1>4 DEF UnlockSearch
<1>5. CASE LockWorking BY <1>5 DEF LockWorking
<1>6. CASE PopOperation
  <2>1. Replayed(new', Rebuild_Logger') = Replayed(new, Rebuild_Logger)
    BY <1>6, ReplayedHead DEF PopOperation, Types
  <2> QED BY <1>6, <2>1 DEF PopOperation
<1>7. CASE LoggerEmpty BY <1>7 DEF LoggerEmpty
<1>8. CASE Exchange BY <1>8 DEF Exchange
<1>9. CASE Reopen \/ Release \/ ClearFlag \/ Discard
  BY <1>9 DEF Reopen, Release, ClearFlag, Discard
<1> QED BY <1>1, <1>2, <1>3, <1>4, <1>5, <1>6, <1>7, <1>8, <1>9 DEF Thread

-----------------------------------------------------------------------------
(* The searches.                                                            *)
LEMMA SearchStep ==
  ASSUME TreeInv, Search
  PROVE  TreeInv'
<1>1. PICK s \in Searchers : SearchBy(s)
  BY DEF Search
<1>2. s \in Readers /\ s # "range"
  BY IkdTreeAssumption DEF Readers
<1>3. /\ UNCHANGED <<treeVars, Rebuild_Ptr, logVars, working_flag_mutex, search_flag_mutex,
                     threadVars, mainVars>>
      /\ search[s] # "out"
  BY <1>1 DEF SearchBy, SearchLook, SearchCheck, SearchEnter, SearchLeave
<1>4. TurnInv' /\ LogInv' /\ (Settled <=> Settled')
  BY <1>3 DEF TreeInv, TurnInv, LogInv, Settled, treeVars, logVars, threadVars, mainVars
<1>5. /\ search' = [search EXCEPT ![s] = search'[s]]
      /\ search'[s] \in {"out", "look", "wait", "free", "counted"}
      /\ reads' = [reads EXCEPT ![s] = reads'[s]]
      /\ reads'[s] \in {reads[s], tree, None}
      /\ search'[s] \in {"look", "counted"} => reads'[s] = tree
      /\ search'[s] = "free" => Settled
  <2>1. CASE SearchLook(s)
    BY <1>2, <2>1 DEF TreeInv, Types, SearchLook
  <2>2. CASE SearchCheck(s)
    <3>1. search[s] = "look" /\ reads[s] # tree => Settled
      BY DEF TreeInv, SearchInv
    <3>2. CASE /\ Rebuild_Ptr # "null" /\ reads[s] = tree
               /\ search' = [search EXCEPT ![s] = "wait"]
               /\ reads' = [reads EXCEPT ![s] = None]
      BY <1>2, <3>2 DEF TreeInv, Types
    <3>3. CASE /\ Rebuild_Ptr = "null" \/ reads[s] # tree
               /\ search' = [search EXCEPT ![s] = "free"]
               /\ \E t \in {reads[s], tree} : reads' = [reads EXCEPT ![s] = t]
      <4>1. PICK t \in {reads[s], tree} : reads' = [reads EXCEPT ![s] = t]
        BY <3>3
      <4>2. search[s] = "look"
        BY <2>2 DEF SearchCheck
      <4>3. reads'[s] = t /\ search'[s] = "free"
        BY <1>2, <3>3, <4>1 DEF TreeInv, Types
      <4>4. Settled
        BY <3>1, <3>3, <4>2 DEF Settled
      <4> QED BY <3>3, <4>1, <4>3, <4>4
    <3> QED BY <2>2, <3>2, <3>3 DEF SearchCheck
  <2>3. CASE SearchEnter(s)
    BY <1>2, <2>3 DEF TreeInv, Types, SearchEnter
  <2>4. CASE SearchLeave(s)
    BY <1>2, <2>4 DEF TreeInv, Types, SearchLeave
  <2> QED BY <1>1, <2>1, <2>2, <2>3, <2>4 DEF SearchBy
<1>6. Types'
  <2>1. reads'[s] \in {0, 1, None}
    BY <1>2, <1>5 DEF TreeInv, Types
  <2>2. reads' \in [Readers -> {0, 1, None}]
    BY <1>5, <2>1 DEF TreeInv, Types
  <2> QED BY <1>3, <1>5, <2>2 DEF TreeInv, Types, treeVars, logVars, threadVars, mainVars
<1>7. SearchInv'
  <2>1. reads'["range"] = reads["range"] /\ main' = main /\ tree' = tree
        /\ thread' = thread /\ search_flag_mutex' = search_flag_mutex
    BY <1>2, <1>3, <1>5 DEF TreeInv, Types, Readers, treeVars, threadVars, mainVars
  <2>2. ASSUME NEW r \in Searchers
        PROVE  /\ search'[r] # "out" => main = "join"
               /\ search'[r] = "free" => Settled
               /\ search'[r] = "look" /\ reads'[r] # tree => Settled
               /\ search'[r] = "counted" => reads'[r] = tree
    <3>1. CASE r = s
      BY <1>3, <1>5, <3>1 DEF TreeInv, SearchInv
    <3>2. CASE r # s
      <4>1. search'[r] = search[r] /\ reads'[r] = reads[r]
        BY <1>2, <1>5, <3>2 DEF TreeInv, Types, Readers
      <4> QED BY <4>1 DEF TreeInv, SearchInv
    <3> QED BY <3>1, <3>2
  <2> QED BY <1>4, <2>1, <2>2 DEF TreeInv, SearchInv
<1>8. CounterInv'
  <2>1. thread' = thread
    BY <1>3 DEF threadVars
  <2>2. CASE SearchLook(s) \/ SearchCheck(s) \/ (SearchLeave(s) /\ search[s] = "free")
    <3>1. search[s] # "counted" /\ search'[s] # "counted" /\ UNCHANGED search_mutex_counter
      BY <2>2 DEF SearchLook, SearchCheck, SearchLeave, TreeInv, Types
    <3>2. Counted' = Counted
      BY <3>1, <1>5 DEF Counted, TreeInv, Types
    <3> QED BY <2>1, <3>1, <3>2 DEF TreeInv, CounterInv
  <2>3. CASE SearchEnter(s)
    <3>1. search[s] # "counted" /\ search'[s] = "counted"
          /\ search_mutex_counter # -1 /\ search_mutex_counter' = search_mutex_counter + 1
      BY <2>3 DEF SearchEnter, TreeInv, Types
    <3>2. Counted' = Counted \cup {s} /\ s \notin Counted
      BY <3>1, <1>5 DEF Counted, TreeInv, Types
    <3>3. Cardinality(Counted') = Cardinality(Counted) + 1
      BY <3>2, CountedFinite, FS_AddElement
    <3> QED BY <2>1, <3>1, <3>3 DEF TreeInv, CounterInv
  <2>4. CASE SearchLeave(s) /\ search[s] = "counted"
    <3>1. search'[s] = "out" /\ search_mutex_counter' = search_mutex_counter - 1
      BY <2>4 DEF SearchLeave, TreeInv, Types
    <3>2. Counted' = Counted \ {s} /\ s \in Counted
      BY <2>4, <3>1, <1>5 DEF Counted, TreeInv, Types
    <3>3. Cardinality(Counted') = Cardinality(Counted) - 1
      BY <3>2, CountedFinite, FS_RemoveElement
    <3> QED BY <2>1, <3>1, <3>2, <3>3 DEF TreeInv, CounterInv
  <2> QED BY <1>1, <2>2, <2>3, <2>4 DEF SearchBy, SearchLeave
<1> QED BY <1>4, <1>6, <1>7, <1>8 DEF TreeInv

-----------------------------------------------------------------------------
(* The mapping thread.                                                      *)
Scan == StartSearches \/ Join \/ EndScan
        \/ \E p \in Points, downsample \in BOOLEAN : NextPoint(p, downsample)
Ranges == EnterRange \/ LeaveRange
Descent(o, from, to) ==
  Descend(o, from, to) \/ DescendToRebuilt(from, to) \/ DescendLocked(o, from, to)

(* What the thread does without touching the tree or its pointers.          *)
LEMMA ScanStep ==
  ASSUME TreeInv, Scan \/ Ranges
  PROVE  TreeInv'
<1>1. /\ UNCHANGED <<treeVars, Rebuild_Ptr, logVars, working_flag_mutex, search_mutex_counter,
                     threadVars, unlogged>>
      /\ UNCHANGED search \/ StartSearches
  BY DEF Scan, Ranges, StartSearches, Join, EndScan, NextPoint, EnterRange, LeaveRange, searchVars
<1>2. UNCHANGED <<tree, live, Rebuild_Ptr, rebuild_flag, Rebuild_Logger, working_flag_mutex,
                  search_mutex_counter, thread, new, printed, unlogged>>
  BY <1>1 DEF treeVars, logVars, threadVars
<1>3. TurnInv' /\ LogInv'
  BY <1>2 DEF TreeInv, TurnInv, LogInv
<1>4. Counted' = Counted
  <2>1. CASE StartSearches
    <3>1. \A s \in Searchers : search[s] = "out" /\ search'[s] = "check"
      BY <2>1 DEF StartSearches, TreeInv, SearchInv
    <3> QED BY <3>1 DEF Counted
  <2>2. CASE UNCHANGED search
    BY <2>2 DEF Counted
  <2> QED BY <1>1, <2>1, <2>2
<1>5. CounterInv'
  BY <1>2, <1>4 DEF TreeInv, CounterInv
<1>6. Types'
  <2>1. CASE Scan
    <3>1. reads' \in [Readers -> {0, 1, None}]
      BY <2>1 DEF TreeInv, Types, Scan, StartSearches, Join, EndScan, NextPoint, searchVars
    <3> QED BY <1>2, <2>1, <3>1 DEF TreeInv, Types, Scan, StartSearches, Join, EndScan,
                                    NextPoint, searchVars
  <2>2. CASE EnterRange
    <3>1. reads' \in [Readers -> {0, 1, None}]
      BY <2>2 DEF TreeInv, Types, EnterRange
    <3> QED BY <1>2, <2>2, <3>1 DEF TreeInv, Types, EnterRange
  <2>3. CASE LeaveRange
    <3>1. reads' \in [Readers -> {0, 1, None}]
      BY <2>3 DEF TreeInv, Types, LeaveRange
    <3>2. main' \in {"map", "both", "delete", "add"} /\ point' \in Points
          /\ search_flag_mutex' = FALSE /\ search' = search
      BY <2>3 DEF LeaveRange
    <3> QED BY <1>2, <3>1, <3>2 DEF TreeInv, Types
  <2> QED BY <2>1, <2>2, <2>3 DEF Ranges
<1>7. SearchInv'
  <2>1. CASE StartSearches
    <3>1. \A s \in Searchers : search'[s] = "check"
      BY <2>1 DEF StartSearches
    <3>2. ~search_flag_mutex /\ main' = "join" /\ UNCHANGED search_flag_mutex
      BY <2>1 DEF StartSearches, TreeInv, SearchInv
    <3> QED BY <3>1, <3>2 DEF SearchInv
  <2>2. CASE ~StartSearches
    <3>1. \A s \in Searchers : search'[s] = "out"
      <4>1. \A s \in Searchers : search[s] = "out"
        BY <2>2 DEF Scan, Ranges, Join, EndScan, NextPoint, EnterRange, LeaveRange,
                    TreeInv, SearchInv
      <4> QED BY <1>1, <2>2, <4>1
    <3>2. search_flag_mutex' => main' = "ranging" /\ reads'["range"] = tree'
      <4>1. ~search_flag_mutex \/ LeaveRange
        BY <2>2 DEF Scan, Ranges, Join, EndScan, NextPoint, EnterRange, TreeInv, SearchInv
      <4>2. CASE Scan
        BY <2>2, <4>1, <4>2 DEF Scan, Join, EndScan, NextPoint, LeaveRange
      <4>3. CASE EnterRange
        BY <1>2, <4>1, <4>3 DEF EnterRange, LeaveRange
      <4>4. CASE LeaveRange
        BY <4>4 DEF LeaveRange
      <4> QED BY <4>2, <4>3, <4>4 DEF Ranges
    <3> QED BY <3>1, <3>2 DEF SearchInv
  <2> QED BY <2>1, <2>2
<1> QED BY <1>3, <1>5, <1>6, <1>7 DEF TreeInv

(* An operation under the mutex is made on the tree and, while a copy of it *)
(* is built, logged.                                                        *)
LEMMA LockedStep ==
  ASSUME TreeInv, NEW ops, Logged(ops), Locked(ops), UNCHANGED <<threadVars, unlogged>>
  PROVE  LogInv' /\ Rebuild_Logger' \in Seq(Operation) /\ live' \subseteq Points
<1>1. /\ live \in SUBSET Points /\ new \in SUBSET Points /\ Rebuild_Logger \in Seq(Operation)
  BY DEF TreeInv, Types
<1>2. /\ live' = RunAll(live, ops) /\ RunAll(live, ops) \in SUBSET Points
      /\ Rebuild_Logger \o ops \in Seq(Operation)
      /\ Replayed(new, Rebuild_Logger \o ops) = RunAll(Replayed(new, Rebuild_Logger), ops)
  BY <1>1, ReplayedRunAll DEF Locked
<1>3. Rebuild_Logger' \in {Rebuild_Logger, Rebuild_Logger \o ops}
      /\ (rebuild_flag => Rebuild_Logger' = Rebuild_Logger \o ops)
  BY DEF Locked
<1>4. thread' = thread /\ new' = new /\ printed' = printed /\ unlogged' = unlogged
      /\ thread \notin Working
  BY DEF Locked, TreeInv, TurnInv, threadVars
<1>5. thread = "build" => rebuild_flag
  BY DEF TreeInv, TurnInv
<1>6. LogInv'
  <2>1. thread' \notin {"lockSearch", "flatten", "unlockSearch", "replay", "waitSearch", "exchange"}
    BY <1>4 DEF Working
  <2>2. ASSUME thread' = "build", ~printed', ~unlogged'
        PROVE  Replayed(new', Rebuild_Logger') = live'
    <3>1. Replayed(new, Rebuild_Logger) = live
      BY <1>4, <2>2 DEF TreeInv, LogInv
    <3>2. Rebuild_Logger' = Rebuild_Logger \o ops
      BY <1>3, <1>4, <1>5, <2>2
    <3> QED BY <1>2, <1>4, <3>1, <3>2
  <2> QED BY <2>1, <2>2 DEF LogInv
<1> QED BY <1>1, <1>2, <1>3, <1>6

(* Insertions and deletions, on the tree and on the subtree being rebuilt.  *)
LEMMA MappingStep ==
  ASSUME TreeInv, NEW o \in Operation, NEW from \in {"delete", "deleteLocked", "add", "addLocked"},
         NEW to \in {"deleteLocked", "add", "addLocked", "map"}, Descent(o, from, to)
  PROVE  TreeInv'
<1>1. /\ UNCHANGED <<tree, rebuild_flag, working_flag_mutex, search_flag_mutex,
                     search_mutex_counter, thread, new, printed, search, reads, point>>
      /\ main = from /\ main' = to
      /\ MayRequest \/ UNCHANGED Rebuild_Ptr
  BY DEF Descent, Descend, DescendToRebuilt, DescendLocked, treeVars, logVars, threadVars, searchVars
<1>2. /\ Rebuild_Ptr' \in {"null", "child", "root"}
      /\ Rebuild_Ptr # "null" => Rebuild_Ptr' # "null"
  BY <1>1 DEF MayRequest, TreeInv, Types
<1>3. TurnInv'
  BY <1>1, <1>2 DEF TreeInv, TurnInv
<1>4. Counted' = Counted
  BY <1>1 DEF Counted
<1>5. CounterInv'
  BY <1>1, <1>4 DEF TreeInv, CounterInv
<1>6. SearchInv'
  <2>0. main \notin {"join", "ranging"}
    BY <1>1
  <2>1. ~search_flag_mutex /\ \A s \in Searchers : search[s] = "out"
    BY <2>0 DEF TreeInv, SearchInv
  <2> QED BY <1>1, <2>1 DEF TreeInv, SearchInv
<1>7. LogInv' /\ Rebuild_Logger' \in Seq(Operation) /\ live' \subseteq Points
      /\ unlogged' \in BOOLEAN
  <2>1. CASE Descend(o, from, to)
    <3>1. live' = Run(live, o) /\ Rebuild_Logger' = Rebuild_Logger /\ Rebuild_Ptr # "child"
          /\ unlogged' = (unlogged \/ (Rebuild_Ptr = "root" /\ rebuild_flag))
      BY <2>1 DEF Descend, logVars
    <3>2. ~unlogged' => thread \notin Rebuilding
      BY <3>1 DEF TreeInv, Types, TurnInv, Rebuilding, Working
    <3>3. LogInv'
      BY <1>1, <3>2 DEF LogInv, Rebuilding, Working
    <3>4. Run(live, o) \subseteq Points
      BY RunIsSubset DEF TreeInv, Types
    <3> QED BY <3>1, <3>3, <3>4 DEF TreeInv, Types
  <2>2. CASE DescendToRebuilt(from, to)
    BY <1>1, <2>2 DEF DescendToRebuilt, TreeInv, Types, LogInv, treeVars, logVars
  <2>3. CASE DescendLocked(o, from, to)
    <3>1. Logged(<<o>>)
      BY DEF Logged
    <3>2. Locked(<<o>>) /\ UNCHANGED <<threadVars, unlogged>>
      BY <2>3 DEF DescendLocked
    <3> QED BY <3>1, <3>2, LockedStep DEF TreeInv, Types
  <2> QED BY <2>1, <2>2, <2>3 DEF Descent
<1>8. Types'
  <2>1. main' \in {"map", "deleteLocked", "add", "addLocked"}
    BY <1>1
  <2> QED BY <1>1, <1>2, <1>7, <2>1 DEF TreeInv, Types
<1> QED BY <1>3, <1>5, <1>6, <1>7, <1>8 DEF TreeInv

LEMMA AddPointsStep ==
  ASSUME TreeInv, AddBoth \/ DeleteFirst \/ AddLast
  PROVE  TreeInv'
<1>1. Add \in Operation /\ Delete \in Operation /\ Logged(<<Add>>) /\ Logged(<<Delete, Add>>)
  BY PointOperations DEF TreeInv, Types
<1>2. CASE AddBoth
  <2>1. PICK ops : Logged(ops) /\ Locked(ops)
    BY <1>1, <1>2 DEF AddBoth
  <2>2. /\ UNCHANGED <<tree, Rebuild_Ptr, rebuild_flag, working_flag_mutex, search_flag_mutex,
                       search_mutex_counter, threadVars, searchVars, point, unlogged>>
        /\ main = "both" /\ main' = "map"
    BY <1>2 DEF AddBoth
  <2>3. LogInv' /\ Rebuild_Logger' \in Seq(Operation) /\ live' \subseteq Points
    BY <2>1, <2>2, LockedStep
  <2>4. Types' /\ TurnInv'
    BY <2>2, <2>3 DEF TreeInv, Types, TurnInv, threadVars, searchVars
  <2>5. Counted' = Counted
    BY <2>2 DEF Counted, searchVars
  <2>6. CounterInv'
    BY <2>2, <2>5 DEF TreeInv, CounterInv, threadVars
  <2>7. SearchInv'
    <3>1. ~search_flag_mutex /\ \A s \in Searchers : search[s] = "out"
      BY <2>2 DEF TreeInv, SearchInv
    <3> QED BY <2>2, <3>1 DEF TreeInv, SearchInv, threadVars, searchVars
  <2> QED BY <2>3, <2>4, <2>6, <2>7 DEF TreeInv
<1>3. CASE DeleteFirst
  <2>1. \/ Descent(Delete, "delete", "add")
        \/ Descent(Delete, "delete", "deleteLocked")
        \/ Descent(Delete, "deleteLocked", "add")
    BY <1>3 DEF DeleteFirst, Descent
  <2> HIDE DEF Delete
  <2> QED BY <1>1, <2>1, MappingStep
<1>4. CASE AddLast
  <2>1. \/ Descent(Add, "add", "map")
        \/ Descent(Add, "add", "addLocked")
        \/ Descent(Add, "addLocked", "map")
    BY <1>4 DEF AddLast, Descent
  <2> HIDE DEF Add
  <2> QED BY <1>1, <2>1, MappingStep
<1> QED BY <1>2, <1>3, <1>4

-----------------------------------------------------------------------------
LEMMA NextInv == TreeInv /\ [Next]_vars => TreeInv'
<1> SUFFICES ASSUME TreeInv, [Next]_vars PROVE TreeInv'
  OBVIOUS
<1>1. CASE Thread \/ WaitForSearches
  BY <1>1, ThreadTypes, ThreadSearches, ThreadLog DEF TreeInv
<1>2. CASE Search
  BY <1>2, SearchStep
<1>3. CASE Scan \/ Ranges
  BY <1>3, ScanStep
<1>4. CASE AddBoth \/ DeleteFirst \/ AddLast
  BY <1>4, AddPointsStep
<1>5. CASE UNCHANGED vars
  BY <1>5 DEF TreeInv, Types, TurnInv, SearchInv, Settled, CounterInv, LogInv, Counted, vars,
              treeVars, logVars, threadVars, searchVars, mainVars
<1> QED BY <1>1, <1>2, <1>3, <1>4, <1>5 DEF Next, AddPoints, Scan, Ranges

(* What the places of the threads, the two mutexes, the counter of the      *)
(* searches, the logger and the copy have to do with each other.            *)
THEOREM TreeInvariance == Spec => []TreeInv
BY InitInv, NextInv, PTL DEF Spec

(* Types; the counter is between -1 and the number of searches.             *)
THEOREM TypeCorrect == Spec => []TypeOK
<1>1. TreeInv => search_mutex_counter \in -1 .. Cardinality(Searchers)
  <2>1. Cardinality(Counted) <= Cardinality(Searchers) /\ Cardinality(Searchers) \in Nat
    BY IkdTreeAssumption, FS_Subset, FS_CardinalityType DEF Counted
  <2> QED BY <2>1, CountedFinite DEF TreeInv, CounterInv
<1>2. TreeInv => TypeOK
  BY <1>1 DEF TreeInv, Types, TypeOK, Rebuilding, Working
<1> QED BY <1>2, TreeInvariance, PTL

(* However searches, insertions and the rebuild interleave, no nearest-     *)
(* neighbour search, counted or not, is in the subtree while                *)
(* multi_thread_rebuild() flattens or exchanges it, and no counted one is   *)
(* in the old tree when its nodes are deleted.                              *)
THEOREM Exclusion == Spec => []SearchesExcluded
<1>1. TreeInv => SearchesExcluded
  <2> SUFFICES ASSUME TreeInv PROVE SearchesExcluded
    OBVIOUS
  <2>1. thread \in {"flatten", "exchange"} => \A s \in Searchers : ~Within(s)
    BY DEF TreeInv, SearchInv, Settled, CounterInv, TurnInv, Closed, Counted, Rebuilding,
           Working, Within
  <2>2. tree # 1 - tree
    BY DEF TreeInv, Types
  <2>3. \A s \in Searchers : search[s] = "counted" => reads[s] # 1 - tree
    BY <2>2 DEF TreeInv, SearchInv
  <2>4. thread = "discard" /\ search_flag_mutex => reads["range"] # 1 - tree
    BY <2>2 DEF TreeInv, SearchInv
  <2> QED BY <2>1, <2>3, <2>4 DEF SearchesExcluded
<1> QED BY <1>1, TreeInvariance, PTL

(* The copy that replaces the tree has the points the tree has, whatever    *)
(* was inserted and replaced while it was built, unless the logger was not  *)
(* empty at the start or Add_by_point missed it.                            *)
THEOREM Faithful == Spec => []ExchangeIsFaithful
<1>1. TreeInv => ExchangeIsFaithful
  <2> SUFFICES ASSUME TreeInv, thread = "exchange", ~printed, ~unlogged PROVE new = live
    BY DEF ExchangeIsFaithful
  <2>1. Rebuild_Logger = <<>> /\ Replayed(new, Rebuild_Logger) = live
    BY DEF TreeInv, LogInv
  <2>2. Replayed(new, <<>>) = new
    BY ReplayedEmpty DEF TreeInv, Types
  <2> QED BY <2>1, <2>2
<1> QED BY <1>1, TreeInvariance, PTL
=============================================================================
