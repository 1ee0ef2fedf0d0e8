--------------------------- MODULE MCMcpHttpServer ---------------------------
(* One connection that carries two requests with the same id, two threads and   *)
(* a queue that fills up.                                                       *)
EXTENDS McpHttpServer
=============================================================================
