----------------------------- MODULE MCOdinHost -----------------------------
(***************************************************************************)
(* The process of host_sdk_sample on a small instance: its threads and     *)
(* connections (OdinHost: two connections, a queue of one sample that      *)
(* overflows, a second device, a save_map command) and its pairing of      *)
(* images with clouds (PairQueue: queues of two, stamps up to five, so     *)
(* that a queue overflows between a look and a removal).  They share no    *)
(* state, so a behaviour explores one of the two: focus says which.        *)
(***************************************************************************)
EXTENDS OdinHost, PairQueue

VARIABLE focus

hostVars == vars
odinVars == <<focus, hostVars, pairVars>>

OdinInit == focus \in {"host", "pairs"} /\ Init /\ PairInit
OdinNext ==
  /\ UNCHANGED focus
  /\ \/ focus = "host" /\ Next /\ UNCHANGED pairVars
     \/ focus = "pairs" /\ PairNext /\ UNCHANGED hostVars

OdinSpec ==
  /\ OdinInit /\ [][OdinNext]_odinVars
  /\ WF_hostVars(focus = "host" /\ Device)
  /\ WF_hostVars(focus = "host" /\ Deliver)
  /\ WF_hostVars(focus = "host" /\ ImuThread)
  /\ WF_hostVars(focus = "host" /\ MonitorCheck)
  /\ WF_pairVars(focus = "pairs" /\ Pairing)

(* The state of both is well typed.                                        *)
TypesOK == TypeOK /\ PairTypeOK
=============================================================================
