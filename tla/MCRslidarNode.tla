---------------------------- MODULE MCRslidarNode ----------------------------
(* RslidarNode with cloud queues of two entries.                           *)
EXTENDS RslidarNode

CONSTANT LastCloud   \* bound: as many clouds as can be referred to at once
MCCloud == 1 .. LastCloud
=============================================================================
