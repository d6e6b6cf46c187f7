---------------------------- MODULE MCEventLoop ----------------------------
(* A small instance of EventLoop: two client threads, a few callbacks.      *)
EXTENDS EventLoop
=============================================================================
