---------------------------- MODULE MCAsyncLogger ----------------------------
(* A queue of one task and batches of two events, so that both fill up.        *)
EXTENDS AsyncLogger
=============================================================================
