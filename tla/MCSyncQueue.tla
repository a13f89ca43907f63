----------------------------- MODULE MCSyncQueue -----------------------------
(* SyncQueue with four slots, so that head_ and tail_ wrap, and batches of *)
(* at most two of the three entries that fit.                              *)
EXTENDS SyncQueue

CONSTANTS p1, p2, none
MCValue == {p1, p2}
=============================================================================
