---------------------------- MODULE TaskExecutor ----------------------------
(***************************************************************************)
(* What an event loop promises to those who hand it callbacks, without the *)
(* mutex, the eventfd and the two lists it is built from: a first-in       *)
(* first-out executor.  Callbacks may be accepted at any time, before the  *)
(* executor starts and after it has finished; they are run one at a time,  *)
(* in the order of acceptance, and only between start and finish.          *)
(***************************************************************************)
EXTENDS Sequences

CONSTANT Calls   \* the callbacks that clients may hand over

VARIABLES
    queue,       \* accepted, not yet begun
    ran,         \* begun, in that order
    phase        \* "new", "running", "finished"

tvars == <<queue, ran, phase>>

TInit == queue = <<>> /\ ran = <<>> /\ phase = "new"

Start == /\ phase = "new"
         /\ phase' = "running"
         /\ UNCHANGED <<queue, ran>>

Accept(k) == /\ queue' = Append(queue, k)
             /\ UNCHANGED <<ran, phase>>

RunFirst == /\ phase = "running"
            /\ queue # <<>>
            /\ ran' = Append(ran, Head(queue))
            /\ queue' = Tail(queue)
            /\ UNCHANGED phase

Finish == /\ phase = "running"
          /\ phase' = "finished"
          /\ UNCHANGED <<queue, ran>>

TNext == Start \/ (\E k \in Calls : Accept(k)) \/ RunFirst \/ Finish

TSpec == TInit /\ [][TNext]_tvars
=============================================================================
