------------------------- MODULE MCMpmcBoundedQueue -------------------------
(* Two producers and two consumers on a ring of two slots.                   *)
EXTENDS MpmcBoundedQueue
=============================================================================
