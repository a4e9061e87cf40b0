----------------------------- MODULE MCProcess -----------------------------
(* Process for TLC: up to two arguments, up to three environment pointers, and short
   auxiliary vectors. *)
EXTENDS Process

ArgvHere == {<<>>, <<7, 8>>}
EnvpHere == {<<>>, <<2, 1>>, <<1, 2, 3>>}
AuxvHere == {<<>>, <<<<1, 6>>, <<2, 4>>, <<3, 5>>>>, <<<<2, 9>>, <<4, 1>>, <<2, 4>>>>}
CodesHere == {1, 256, -1}
=============================================================================
