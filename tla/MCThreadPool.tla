---------------------------- MODULE MCThreadPool ----------------------------
(* TLC instance of ThreadPool; liveness is checked, so there is no symmetry. *)
EXTENDS ThreadPool
=============================================================================
