------------------------------ MODULE MCDBPool ------------------------------
(* TLC instance of DBPool.  In the safety run Conn holds one address per place *)
(* of the pool and one per thread that can be discarding.                      *)
EXTENDS DBPool, TLC

Symmetry == Permutations(Conn) \union Permutations(Borrowers) \union Permutations(Creators)
=============================================================================
