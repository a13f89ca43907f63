----------------------------- MODULE MCSuperLio -----------------------------
(* Super-LIO on a short time line.                                          *)
EXTENDS SuperLio
=============================================================================
