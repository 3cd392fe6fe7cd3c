--------------------------- MODULE MCSendBufferPool ---------------------------
(* SendBufferPool for TLC: threads, chunks and buffers are interchangeable. *)
EXTENDS SendBufferPool, TLC

Symmetry ==
  Permutations(Threads) \union Permutations(Chunks) \union Permutations(Buffers)
=============================================================================
