---------------------------- MODULE MCTcpServer ----------------------------
(* TLC instance of TcpServer; liveness is checked, so there is no symmetry. *)
EXTENDS TcpServer
=============================================================================
