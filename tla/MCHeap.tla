------------------------------- MODULE MCHeap -------------------------------
(* Heap for TLC: threads are interchangeable. *)
EXTENDS Heap, TLC

ThreadSymmetry == Permutations(Threads)
=============================================================================
