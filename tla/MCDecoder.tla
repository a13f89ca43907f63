----------------------------- MODULE MCDecoder -----------------------------
(* Turns of five azimuths with two blocks in a packet, frames of ten        *)
(* packets.                                                                 *)
EXTENDS Decoder

MCSplitBlks == {6, 13}
=============================================================================
