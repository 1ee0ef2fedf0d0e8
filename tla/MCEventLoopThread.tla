------------------------- MODULE MCEventLoopThread -------------------------
(* TLC instance of EventLoopThread. *)
EXTENDS EventLoopThread
=============================================================================
