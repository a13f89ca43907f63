------------------------------ MODULE MCRslidar ------------------------------
(***************************************************************************)
(* The lidar process on a small instance: the driver's packets             *)
(* (LidarDriver), its decoders (Decoder) and the node's clouds             *)
(* (RslidarNode).  Each keeps state of its own and takes any behaviour     *)
(* from the others, so a behaviour explores one of them: focus says which, *)
(* and the others stay where they began.                                   *)
(***************************************************************************)
EXTENDS LidarDriver, RslidarNode, Decoder

CONSTANTS LastBuffer, LastCloud   \* bounds: as many as can be referred to at once
MCBuffer == 1 .. LastBuffer
MCCloud == 1 .. LastCloud
MCSplitBlks == {6, 13}

VARIABLE focus

driverVars == vars
rslidarVars == <<focus, driverVars, nodeVars, decoderVars>>

RslidarInit ==
  /\ focus \in {"driver", "node", "decoder"}
  /\ Init
  /\ NodeInit
  /\ DecoderInit
  /\ focus # "decoder" => /\ lidar = "RSM1" /\ ~wait_for_difop /\ newest = -1
                          /\ split_blks_per_frame_ = CHOOSE n \in SplitBlks : TRUE

RslidarNext ==
  /\ UNCHANGED focus
  /\ \/ focus = "driver" /\ Next /\ UNCHANGED <<nodeVars, decoderVars>>
     \/ focus = "node" /\ NodeNext /\ UNCHANGED <<driverVars, decoderVars>>
     \/ focus = "decoder" /\ DecoderNext /\ UNCHANGED <<driverVars, nodeVars>>

RslidarSpec ==
  /\ RslidarInit /\ [][RslidarNext]_rslidarVars
  /\ WF_driverVars(focus = "driver" /\ RecvWork)
  /\ WF_driverVars(focus = "driver" /\ HandleStep)
  /\ WF_driverVars(focus = "driver" /\ StopHandle)
  /\ WF_driverVars(focus = "driver" /\ StopClear)
  /\ WF_nodeVars(focus = "node" /\ MainStep)
  /\ WF_nodeVars(focus = "node" /\ SplitGet)
  /\ WF_nodeVars(focus = "node" /\ ProcessStep)

(* The state of all three is well typed.                                   *)
TypesOK == TypeOK /\ NodeTypeOK /\ DecoderTypeOK
=============================================================================
