---------------------------- MODULE MCRecvStream ----------------------------
(* RecvStream for TLC.  The sizes keep the code's relations: the largest   *)
(* frame is one byte smaller than BufferSize, and a header is smaller.     *)
EXTENDS RecvStream
=============================================================================
