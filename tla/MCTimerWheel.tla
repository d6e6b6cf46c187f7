---------------------------- MODULE MCTimerWheel ----------------------------
(* A wheel of three slots of two milliseconds.                              *)
EXTENDS TimerWheel
=============================================================================
