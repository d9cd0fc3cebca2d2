--------------------------- MODULE MCReplayChannel ---------------------------
(* Instance of ReplayChannel for TLC: a window of three in a four-bit word,*)
(* so that every jump length, the mask and the shift past the word occur.   *)
EXTENDS ReplayChannel
=============================================================================
