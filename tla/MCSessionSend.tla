---------------------------- MODULE MCSessionSend ----------------------------
(* SessionSend for TLC: model values for threads and packets. *)
EXTENDS SessionSend, TLC

Symmetry == Permutations(Threads)
=============================================================================
