----------------------------- MODULE MCStreams -----------------------------
(* Streams for TLC: threads are interchangeable, paths have one character. *)
EXTENDS Streams, TLC

ThreadSymmetry == Permutations(Threads)
OneChar == [n \in Names |-> 1]
=============================================================================
