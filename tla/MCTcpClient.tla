----------------------------- MODULE MCTcpClient -----------------------------
(* The delays of the code in units of 500 ms, so six retries before the      *)
(* exception.                                                                *)
EXTENDS TcpClient
=============================================================================
