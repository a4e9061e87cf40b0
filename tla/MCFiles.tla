------------------------------- MODULE MCFiles ------------------------------
(* Files for TLC: interchangeable names of one character. *)
EXTENDS Files, TLC

MCPathLen == [n \in Names |-> 1]

(* One back, and one past a byte. *)
MCOffsets == {-1, 2}

NameSymmetry == Permutations(Names)
=============================================================================
