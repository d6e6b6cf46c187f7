--------------------------- MODULE MCTcpConnection ---------------------------
(* Two fd numbers, so that an accepted connection often reuses the fd of one *)
(* that was closed, and a table of connections that can be full.             *)
EXTENDS TcpConnection
=============================================================================
