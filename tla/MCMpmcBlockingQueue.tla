------------------------ MODULE MCMpmcBlockingQueue ------------------------
(* TLC instance of MpmcBlockingQueue.  Producers are interchangeable, and so *)
(* are consumers and items: only their identity is ever compared.            *)
EXTENDS MpmcBlockingQueue, TLC

ThreadSymmetry == Permutations(Producers) \union Permutations(Consumers) \union Permutations(Item)
=============================================================================
