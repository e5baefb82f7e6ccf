---------------------------- MODULE MCTcpServer ----------------------------
(* Model checking of TcpServer: the bounds are in the .cfg files. *)
EXTENDS TcpServer
=============================================================================
