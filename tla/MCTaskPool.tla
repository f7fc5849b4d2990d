----------------------------- MODULE MCTaskPool -----------------------------
(* TLC instances of TaskPool.                                              *)
EXTENDS TaskPool, TLC

ThreadSymmetry == Permutations(Workers) \cup Permutations(Producers)
=============================================================================
