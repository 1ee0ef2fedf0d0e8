---------------------------- MODULE MCHttpServer ----------------------------
(* Reads end between the lines of the headers, or anywhere in a body.          *)
EXTENDS HttpServer
=============================================================================
