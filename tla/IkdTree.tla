------------------------------ MODULE IkdTree ------------------------------
(***************************************************************************)
(* ikd_Tree.cpp as laserMapping.cpp uses it: the mapping thread searches   *)
(* the tree in parallel for each scan and then adds the scan's points,     *)
(* while the tree's own thread rebuilds one unbalanced subtree at a time.  *)
(*                                                                         *)
(* The model follows one subtree of 1500 points or more, rebuilt by itself *)
(* ("child") or with the whole tree ("root").  A tree is the set of those  *)
(* arriving points it holds undeleted; its other points keep flatten() from*)
(* ever finding none.  A point is its distance from the middle of the      *)
(* downsampling box it is in.                                              *)
(***************************************************************************)
EXTENDS Integers, Sequences, FiniteSets

CONSTANTS
  Points,      \* the points that arrive
  Box,         \* [Points -> boxes of edge downsample_size]
  Searchers,   \* threads of the parallel search
  MaxAdds      \* bound: points added

ASSUME IkdTreeAssumption ==
  /\ Points \subseteq Int /\ Box \in [Points -> {Box[p] : p \in Points}]
  /\ IsFiniteSet(Searchers) /\ "range" \notin Searchers
  /\ MaxAdds \in Nat

VARIABLES
  tree,                  \* the tree the father's pointer leads to, 0 or 1
  live,                  \* the points it holds
  Rebuild_Ptr,           \* "null", or the subtree to rebuild: "child", "root"
  rebuild_flag,
  Rebuild_Logger,        \* operations to be repeated on the new tree
  working_flag_mutex,    \* held by the rebuild thread?
  search_flag_mutex,     \* held by a range search?
  search_mutex_counter,
  thread,                \* where multi_thread_rebuild() is
  new,                   \* Rebuild_PCL_Storage, then new_root_node
  printed,               \* history: "ERROR!!!" was printed in this turn
  search,                \* where each search is
  reads,                 \* the tree whose pointer each search has, None outside
  main,                  \* where the mapping thread is
  point, found,          \* the point being added, Downsample_Storage
  adds, unlogged         \* history: points added; an operation missed the log in this turn

treeVars == <<tree, live>>
logVars == <<rebuild_flag, Rebuild_Logger>>
threadVars == <<thread, new, printed>>
searchVars == <<search, reads>>
mainVars == <<main, point, found, adds, unlogged>>
vars == <<treeVars, Rebuild_Ptr, logVars, working_flag_mutex, search_flag_mutex,
          search_mutex_counter, threadVars, searchVars, mainVars>>

None == 2
Readers == Searchers \cup {"range"}
Operation == [op : {"add"}, at : Points] \cup [op : {"delete"}, at : {Box[p] : p \in Points}]

Init ==
  /\ tree = 0 /\ live \in SUBSET Points
  /\ Rebuild_Ptr = "null"
  /\ rebuild_flag = FALSE /\ Rebuild_Logger = <<>>
  /\ working_flag_mutex = FALSE /\ search_flag_mutex = FALSE
  /\ search_mutex_counter = 0
  /\ thread = "idle" /\ new = {} /\ printed = FALSE
  /\ search = [s \in Searchers |-> "out"] /\ reads = [r \in Readers |-> None]
  /\ main = "scan" /\ point \in Points /\ found = {} /\ adds = 0 /\ unlogged = FALSE

(* Add_by_point, and Delete_by_range for downsampling.                      *)
Run(points, o) ==
  IF o.op = "add" THEN points \cup {o.at} ELSE {p \in points : Box[p] # o.at}

-----------------------------------------------------------------------------
(* multi_thread_rebuild().  A turn in which nothing is to be rebuilt leaves *)
(* no trace.                                                                *)

ThreadStep(from, to) == thread = from /\ thread' = to

(* Mutant: the rebuild waits until the logger is empty. *)
TakeRequestEmpty ==
  /\ ThreadStep("idle", "lockSearch")
  /\ Rebuild_Ptr # "null" /\ ~working_flag_mutex /\ Rebuild_Logger = <<>>
  /\ working_flag_mutex' = TRUE
  /\ rebuild_flag' = TRUE
  /\ printed' = FALSE
  /\ UNCHANGED <<treeVars, Rebuild_Ptr, Rebuild_Logger, search_flag_mutex,
                 search_mutex_counter, new, searchVars, mainVars>>

(* Both mutexes are taken; a logger that is not empty is only reported.     *)
TakeRequest ==
  /\ ThreadStep("idle", "lockSearch")
  /\ Rebuild_Ptr # "null" /\ ~working_flag_mutex
  /\ working_flag_mutex' = TRUE
  /\ rebuild_flag' = TRUE
  /\ printed' = (Rebuild_Logger # <<>>)
  /\ UNCHANGED <<treeVars, Rebuild_Ptr, Rebuild_Logger, search_flag_mutex,
                 search_mutex_counter, new, searchVars, mainVars>>

(* Mutant: the searches under way are not waited for. *)
LockSearchAtOnce(from, to) ==
  /\ ThreadStep(from, to)
  /\ ~search_flag_mutex
  /\ search_mutex_counter' = -1
  /\ UNCHANGED <<treeVars, Rebuild_Ptr, logVars, working_flag_mutex, search_flag_mutex,
                 new, printed, searchVars, mainVars>>

LockSearch(from, to) ==
  /\ ThreadStep(from, to)
  /\ ~search_flag_mutex /\ search_mutex_counter = 0
  /\ search_mutex_counter' = -1
  /\ UNCHANGED <<treeVars, Rebuild_Ptr, logVars, working_flag_mutex, search_flag_mutex,
                 new, printed, searchVars, mainVars>>

Flatten ==
  /\ ThreadStep("flatten", "unlockSearch")
  /\ new' = live
  /\ UNCHANGED <<treeVars, Rebuild_Ptr, logVars, working_flag_mutex, search_flag_mutex,
                 search_mutex_counter, printed, searchVars, mainVars>>

(* The searches may go on; after copying, the operations as well.           *)
UnlockSearch ==
  /\ ThreadStep("unlockSearch", "build")
  /\ ~search_flag_mutex
  /\ search_mutex_counter' = 0
  /\ working_flag_mutex' = FALSE
  /\ UNCHANGED <<treeVars, Rebuild_Ptr, logVars, search_flag_mutex, new, printed,
                 searchVars, mainVars>>

(* BuildTree works on the copy; then the logger is looked at.               *)
LockWorking ==
  /\ ThreadStep("build", "replay")
  /\ ~working_flag_mutex
  /\ working_flag_mutex' = TRUE
  /\ UNCHANGED <<treeVars, Rebuild_Ptr, logVars, search_flag_mutex, search_mutex_counter,
                 new, printed, searchVars, mainVars>>

(* An operation is popped under both mutexes and run without them.          *)
PopOperation ==
  /\ ThreadStep("replay", "build")
  /\ Rebuild_Logger # <<>>
  /\ new' = Run(new, Head(Rebuild_Logger))
  /\ Rebuild_Logger' = Tail(Rebuild_Logger)
  /\ working_flag_mutex' = FALSE
  /\ UNCHANGED <<treeVars, Rebuild_Ptr, rebuild_flag, search_flag_mutex,
                 search_mutex_counter, printed, searchVars, mainVars>>

(* The working mutex is kept from here to the end of the exchange.          *)
LoggerEmpty ==
  /\ ThreadStep("replay", "waitSearch")
  /\ Rebuild_Logger = <<>>
  /\ UNCHANGED <<treeVars, Rebuild_Ptr, logVars, working_flag_mutex, search_flag_mutex,
                 search_mutex_counter, new, printed, searchVars, mainVars>>

(* The father's pointer, then Root_Node, lead to the new tree.              *)
Exchange ==
  /\ ThreadStep("exchange", "reopen")
  /\ tree' = 1 - tree
  /\ live' = new
  /\ UNCHANGED <<Rebuild_Ptr, logVars, working_flag_mutex, search_flag_mutex,
                 search_mutex_counter, new, printed, searchVars, mainVars>>

Reopen ==
  /\ ThreadStep("reopen", "release")
  /\ ~search_flag_mutex
  /\ search_mutex_counter' = 0
  /\ UNCHANGED <<treeVars, Rebuild_Ptr, logVars, working_flag_mutex, search_flag_mutex,
                 new, printed, searchVars, mainVars>>

Release ==
  /\ ThreadStep("release", "clearFlag")
  /\ Rebuild_Ptr' = "null"
  /\ working_flag_mutex' = FALSE
  /\ UNCHANGED <<treeVars, logVars, search_flag_mutex, search_mutex_counter, new, printed,
                 searchVars, mainVars>>

(* rebuild_flag is cleared when the mutex that protects it has been left.   *)
ClearFlag ==
  /\ ThreadStep("clearFlag", "discard")
  /\ rebuild_flag' = FALSE
  /\ UNCHANGED <<treeVars, Rebuild_Ptr, Rebuild_Logger, working_flag_mutex,
                 search_flag_mutex, search_mutex_counter, new, printed, searchVars, mainVars>>

(* delete_tree_nodes(&old_root_node); rebuild_ptr_mutex_lock is left.       *)
Discard ==
  /\ ThreadStep("discard", "idle")
  /\ new' = {} /\ printed' = FALSE /\ unlogged' = FALSE
  /\ UNCHANGED <<treeVars, Rebuild_Ptr, logVars, working_flag_mutex, search_flag_mutex,
                 search_mutex_counter, searchVars, main, point, found, adds>>

-----------------------------------------------------------------------------
(* Nearest_Search() and Search(), in the parallel loop over a scan.         *)

(* On its way down a search loads the pointer to the subtree and, below the *)
(* root, reads the box of the node it leads to, counted or not.             *)
SearchLook(s) ==
  /\ search[s] = "check"
  /\ search' = [search EXCEPT ![s] = "look"]
  /\ reads' = [reads EXCEPT ![s] = tree]
  /\ UNCHANGED <<treeVars, Rebuild_Ptr, logVars, working_flag_mutex, search_flag_mutex,
                 search_mutex_counter, threadVars, mainVars>>

(* Then *Rebuild_Ptr is compared with the pointer, without a mutex; the     *)
(* search goes in uncounted if there is none or they differ, which they do  *)
(* if the exchange came between the loads.  The compiler may use the        *)
(* pointer loaded before or load it anew.  It loads Rebuild_Ptr once, for   *)
(* the test and for the comparison (the build has -O3; one that loaded it   *)
(* twice could follow a null pointer).                                      *)
SearchCheck(s) ==
  /\ search[s] = "look"
  /\ \/ /\ Rebuild_Ptr # "null" /\ reads[s] = tree
        /\ search' = [search EXCEPT ![s] = "wait"]
        /\ reads' = [reads EXCEPT ![s] = None]
     \/ /\ Rebuild_Ptr = "null" \/ reads[s] # tree
        /\ search' = [search EXCEPT ![s] = "free"]
        /\ \E t \in {reads[s], tree} : reads' = [reads EXCEPT ![s] = t]
  /\ UNCHANGED <<treeVars, Rebuild_Ptr, logVars, working_flag_mutex, search_flag_mutex,
                 search_mutex_counter, threadVars, mainVars>>

SearchEnter(s) ==
  /\ search[s] = "wait" /\ ~search_flag_mutex /\ search_mutex_counter # -1
  /\ search_mutex_counter' = search_mutex_counter + 1
  /\ search' = [search EXCEPT ![s] = "counted"]
  /\ reads' = [reads EXCEPT ![s] = tree]
  /\ UNCHANGED <<treeVars, Rebuild_Ptr, logVars, working_flag_mutex, search_flag_mutex,
                 threadVars, mainVars>>

(* Mutant: a search is counted out that was not counted. *)
SearchLeaveCounted(s) ==
  /\ search[s] \in {"free", "counted"}
  /\ search_mutex_counter' = search_mutex_counter - 1
  /\ search' = [search EXCEPT ![s] = "out"]
  /\ reads' = [reads EXCEPT ![s] = None]
  /\ UNCHANGED <<treeVars, Rebuild_Ptr, logVars, working_flag_mutex, search_flag_mutex,
                 threadVars, mainVars>>

SearchLeave(s) ==
  /\ \/ search[s] = "free" /\ UNCHANGED search_mutex_counter
     \/ search[s] = "counted" /\ ~search_flag_mutex
        /\ search_mutex_counter' = search_mutex_counter - 1
  /\ search' = [search EXCEPT ![s] = "out"]
  /\ reads' = [reads EXCEPT ![s] = None]
  /\ UNCHANGED <<treeVars, Rebuild_Ptr, logVars, working_flag_mutex, search_flag_mutex,
                 threadVars, mainVars>>

-----------------------------------------------------------------------------
(* The mapping thread: the searches of a scan, joined, then Add_Points().   *)

StartSearches ==
  /\ main = "scan" /\ main' = "join"
  /\ search' = [s \in Searchers |-> "check"]
  /\ UNCHANGED <<treeVars, Rebuild_Ptr, logVars, working_flag_mutex, search_flag_mutex,
                 search_mutex_counter, threadVars, reads, point, found, adds, unlogged>>

Join ==
  /\ main = "join" /\ main' = "map"
  /\ \A s \in Searchers : search[s] = "out"
  /\ UNCHANGED <<treeVars, Rebuild_Ptr, logVars, working_flag_mutex, search_flag_mutex,
                 search_mutex_counter, threadVars, searchVars, point, found, adds, unlogged>>

EndScan ==
  /\ main = "map" /\ main' = "scan"
  /\ UNCHANGED <<treeVars, Rebuild_Ptr, logVars, working_flag_mutex, search_flag_mutex,
                 search_mutex_counter, threadVars, searchVars, point, found, adds, unlogged>>

(* The next point, in PointToAdd (downsampled, after a search of its box)   *)
(* or PointNoNeedDownsample.                                                *)
NextPoint(p, downsample) ==
  /\ main = "map" /\ adds < MaxAdds
  /\ main' = CASE downsample -> "range"
               [] ~downsample /\ Rebuild_Ptr = "root" -> "both"
               [] OTHER -> "add"
  /\ point' = p /\ found' = {} /\ adds' = adds + 1
  /\ reads' = [reads EXCEPT !["range"] = IF downsample THEN tree ELSE None]
  /\ UNCHANGED <<treeVars, Rebuild_Ptr, logVars, working_flag_mutex, search_flag_mutex,
                 search_mutex_counter, threadVars, search, unlogged>>

(* Search_by_range compares in the same way: a subtree being rebuilt is     *)
(* searched under search_flag_mutex, the whole tree without; the counter is *)
(* not looked at.                                                           *)
EnterRange ==
  /\ main = "range" /\ main' = "ranging"
  /\ \/ /\ Rebuild_Ptr = "child" /\ reads["range"] = tree
        /\ ~search_flag_mutex /\ search_flag_mutex' = TRUE
        /\ UNCHANGED reads
     \/ /\ Rebuild_Ptr # "child" \/ reads["range"] # tree
        /\ \E t \in {reads["range"], tree} : reads' = [reads EXCEPT !["range"] = t]
        /\ UNCHANGED search_flag_mutex
  /\ UNCHANGED <<treeVars, Rebuild_Ptr, logVars, working_flag_mutex, search_mutex_counter,
                 threadVars, search, point, found, adds, unlogged>>

(* The point nearest to the middle is to be the only one of its box; where  *)
(* that is so already nothing changes.                                      *)
Nearest(p, S) == p \in S /\ \A q \in S : p <= q
LeaveRange ==
  LET there == {p \in live : Box[p] = Box[point]}
      kept == Cardinality(there) <= 1 /\ point' # point
  IN  /\ main = "ranging"
      /\ found' = there
      /\ \E nearest \in Points : Nearest(nearest, there \cup {point}) /\ point' = nearest
      /\ main' = CASE kept -> "map"
                   [] ~kept /\ Rebuild_Ptr = "root" -> "both"
                   [] ~kept /\ Rebuild_Ptr # "root" /\ there # {} -> "delete"
                   [] OTHER -> "add"
      /\ search_flag_mutex' = FALSE
      /\ reads' = [reads EXCEPT !["range"] = None]
      /\ UNCHANGED <<treeVars, Rebuild_Ptr, logVars, working_flag_mutex,
                     search_mutex_counter, threadVars, search, adds, unlogged>>

Delete == [op |-> "delete", at |-> Box[point]]
Add == [op |-> "add", at |-> point]

(* One operation, or the deletion and the insertion that replace a point.   *)
RunAll(points, ops) ==
  IF Len(ops) = 1 THEN Run(points, ops[1]) ELSE Run(Run(points, ops[1]), ops[2])

(* Mutant: an operation on the tree is not logged. *)
LockedUnlogged(ops) ==
  /\ ~working_flag_mutex
  /\ live' = RunAll(live, ops)
  /\ UNCHANGED Rebuild_Logger

(* Operations on a tree being rebuilt wait for working_flag_mutex and are   *)
(* logged if rebuild_flag says so by then.                                  *)
Locked(ops) ==
  /\ ~working_flag_mutex
  /\ live' = RunAll(live, ops)
  /\ Rebuild_Logger' = IF rebuild_flag THEN Rebuild_Logger \o ops ELSE Rebuild_Logger

(* The whole tree is being rebuilt: one critical section for both.          *)
AddBoth ==
  /\ main = "both" /\ main' = "map"
  /\ Locked(IF found = {} THEN <<Add>> ELSE <<Delete, Add>>)
  /\ UNCHANGED <<tree, Rebuild_Ptr, rebuild_flag, working_flag_mutex, search_flag_mutex,
                 search_mutex_counter, threadVars, searchVars, point, found, adds, unlogged>>

(* Rebuild(): an operation that is allowed to rebuild may ask for a subtree *)
(* it has passed, if the rebuild thread is between turns (trylock) and none *)
(* as large is asked for.                                                   *)
MayRequest ==
  \/ UNCHANGED Rebuild_Ptr
  \/ thread = "idle" /\ Rebuild_Ptr = "null" /\ Rebuild_Ptr' \in {"child", "root"}
  \/ thread = "idle" /\ Rebuild_Ptr = "child" /\ Rebuild_Ptr' = "root"

(* An operation goes down from the root.  On the way the pointer to the     *)
(* subtree is compared with Rebuild_Ptr, on the way back Rebuild() may be   *)
(* called.  Nothing is compared with the root any more.  An operation that  *)
(* the exchange overtakes between the loads goes on in the new tree, where  *)
(* it would be after the wait as well.                                      *)
Descend(o, from, to) ==
  /\ main = from /\ Rebuild_Ptr # "child"
  /\ main' = to
  /\ live' = Run(live, o)
  /\ unlogged' = (unlogged \/ (Rebuild_Ptr = "root" /\ rebuild_flag))
  /\ MayRequest
  /\ UNCHANGED <<tree, logVars, working_flag_mutex, search_flag_mutex,
                 search_mutex_counter, threadVars, searchVars, point, found, adds>>

DescendToRebuilt(from, to) ==
  /\ main = from /\ Rebuild_Ptr = "child"
  /\ main' = to
  /\ UNCHANGED <<treeVars, Rebuild_Ptr, logVars, working_flag_mutex, search_flag_mutex,
                 search_mutex_counter, threadVars, searchVars, point, found, adds, unlogged>>

DescendLocked(o, from, to) ==
  /\ main = from /\ main' = to
  /\ Locked(<<o>>)
  /\ MayRequest
  /\ UNCHANGED <<tree, rebuild_flag, working_flag_mutex, search_flag_mutex,
                 search_mutex_counter, threadVars, searchVars, point, found, adds, unlogged>>

DeleteFirst ==
  \/ Descend(Delete, "delete", "add")
  \/ DescendToRebuilt("delete", "deleteLocked")
  \/ DescendLocked(Delete, "deleteLocked", "add")

AddLast ==
  \/ Descend(Add, "add", "map")
  \/ DescendToRebuilt("add", "addLocked")
  \/ DescendLocked(Add, "addLocked", "map")

-----------------------------------------------------------------------------
WaitForSearches ==
  \/ LockSearch("lockSearch", "flatten")
  \/ LockSearch("waitSearch", "exchange")
Thread ==
  \/ TakeRequest \/ Flatten \/ UnlockSearch \/ LockWorking \/ PopOperation
  \/ LoggerEmpty \/ Exchange \/ Reopen \/ Release \/ ClearFlag \/ Discard
SearchBy(s) == SearchLook(s) \/ SearchCheck(s) \/ SearchEnter(s) \/ SearchLeave(s)
Search == \E s \in Searchers : SearchBy(s)
AddPoints == EnterRange \/ LeaveRange \/ AddBoth \/ DeleteFirst \/ AddLast

Next ==
  \/ WaitForSearches \/ Thread
  \/ Search
  \/ StartSearches \/ Join \/ EndScan
  \/ \E p \in Points, downsample \in BOOLEAN : NextPoint(p, downsample)
  \/ AddPoints

Spec == Init /\ [][Next]_vars

(* Threads run on.  The rebuild thread looks every microsecond whether      *)
(* there are searches, which pause for the milliseconds in which points are *)
(* added: it will look then.                                                *)
FairSpec ==
  /\ Spec
  /\ WF_vars(Thread) /\ SF_vars(WaitForSearches) /\ SF_vars(TakeRequest)
  /\ \A s \in Searchers : WF_vars(SearchBy(s))
  /\ WF_vars(AddPoints) /\ WF_vars(Join)

-----------------------------------------------------------------------------
TypeOK ==
  /\ tree \in {0, 1} /\ live \subseteq Points /\ new \subseteq Points
  /\ Rebuild_Ptr \in {"null", "child", "root"}
  /\ Rebuild_Logger \in Seq(Operation)
  /\ {rebuild_flag, working_flag_mutex, search_flag_mutex, printed, unlogged} \subseteq BOOLEAN
  /\ search_mutex_counter \in -1 .. Cardinality(Searchers)
  /\ search \in [Searchers -> {"out", "check", "look", "wait", "free", "counted"}]
  /\ reads \in [Readers -> {0, 1, None}]
  /\ thread \in {"idle", "lockSearch", "flatten", "unlockSearch", "build", "replay",
                 "waitSearch", "exchange", "reopen", "release", "clearFlag", "discard"}
  /\ main \in {"scan", "join", "map", "range", "ranging", "both", "delete", "deleteLocked",
               "add", "addLocked"}

(* No nearest-neighbour search is in the subtree while it is flattened      *)
(* (which pushes deletions down) or exchanged, counted or not; and none     *)
(* that is counted is in the discarded tree when its nodes are deleted,     *)
(* nor a range search that takes the mutex.  A search that had the pointer  *)
(* before the exchange may still look at the box of a discarded node, or go *)
(* in uncounted.                                                            *)
Within(s) == search[s] \in {"free", "counted"}
SearchesExcluded ==
  /\ thread \in {"flatten", "exchange"} => \A s \in Searchers : ~Within(s)
  /\ thread = "discard" => \A s \in Searchers : search[s] = "counted" => reads[s] # 1 - tree
  /\ thread = "discard" /\ search_flag_mutex => reads["range"] # 1 - tree

(* Points added or replaced while the copy was being built are in the new   *)
(* tree when it takes the old one's place: the exchange neither loses nor   *)
(* revives one, if the turn found the logger empty and no operation missed  *)
(* it.                                                                      *)
ExchangeIsFaithful == thread = "exchange" /\ ~printed /\ ~unlogged => new = live

(* multi_thread_rebuild() takes it as an error to find operations in the    *)
(* logger when it starts to copy.                                           *)
LoggerStartsEmpty == ~printed

(* A rebuild that was asked for is done.                                    *)
RebuildEnds == Rebuild_Ptr # "null" ~> Rebuild_Ptr = "null"

=============================================================================
