------------------------------ MODULE MCLineIO ------------------------------
(* LineIO for TLC: short inputs of newlines, NUL and other characters. *)
EXTENDS LineIO

CONSTANT x   \* any other character

CutLine == <<x, NUL, NL>>
Short == <<x, NL>>
=============================================================================
