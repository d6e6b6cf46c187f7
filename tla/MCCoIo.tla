------------------------------- MODULE MCCoIo -------------------------------
(* One scheduler with its acceptor, a pipe that is written and a socket that *)
(* is read; tasks add tasks to the scheduler they run on, as a server with   *)
(* one thread does.                                                          *)
EXTENDS CoIo

CONSTANTS p, k

PostsToSelf == {<<s, s>> : s \in Scheds}
Directions == [fd \in Fds |-> IF fd = p THEN "WRITE" ELSE "READ"]
=============================================================================
