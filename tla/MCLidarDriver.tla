---------------------------- MODULE MCLidarDriver ----------------------------
(* LidarDriver on a small ring and a small buffer pool.  Buffers are       *)
(* numbers, so that a new buffer can be the first one nobody refers to.    *)
EXTENDS LidarDriver

CONSTANT LastBuffer   \* bound: as many buffers as can be referred to at once
MCBuffer == 1 .. LastBuffer
=============================================================================
