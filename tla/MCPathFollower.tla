--------------------------- MODULE MCPathFollower ---------------------------
(* pathFollower with small speeds, and the views it can have.               *)
EXTENDS PathFollower

(* Ahead, to the back where a two-way vehicle turns round, behind while     *)
(* slowing down for the end, and near it.                                   *)
MCSeen ==
  {[dir |-> "ahead", near |-> FALSE, end |-> 2], [dir |-> "back", near |-> FALSE, end |-> 2],
   [dir |-> "behind", near |-> FALSE, end |-> 1], [dir |-> "ahead", near |-> TRUE, end |-> 1]}
MCSpeed == {0, 3}
=============================================================================
