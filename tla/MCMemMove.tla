----------------------------- MODULE MCMemMove -----------------------------
(* MemMove for TLC: a memory of a few bytes. *)
EXTENDS MemMove

CharsHere == {1, 2, -1}
=============================================================================
