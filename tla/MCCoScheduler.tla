--------------------------- MODULE MCCoScheduler ---------------------------
(* Two schedulers, the coroutines of the second, the accepting one, adding   *)
(* to the first.                                                             *)
EXTENDS CoScheduler

CONSTANTS s1, s2

PostsAcross == {<<s2, s1>>}
=============================================================================
