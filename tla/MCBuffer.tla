------------------------------ MODULE MCBuffer ------------------------------
(* A buffer of four bytes at first, used as the code uses its buffers: the  *)
(* input and the output of a TCPConnection and the one of an HTTP request.  *)
EXTENDS Buffer

ConnectionInput == {"push_from", "pop"}
ConnectionOutput == {"push", "pop_to"}
HttpBuffer == {"push_from", "push", "pop_to"}

AllUses == {ConnectionInput, ConnectionOutput, HttpBuffer}
OutputOnly == {ConnectionOutput}
=============================================================================
