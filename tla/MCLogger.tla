------------------------------ MODULE MCLogger ------------------------------
(* Two writers, blocks of four characters, logs of two and three: a log may *)
(* straddle two blocks, and two blocks are already one too many.            *)
EXTENDS Logger
=============================================================================
