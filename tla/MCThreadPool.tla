--------------------------- MODULE MCThreadPool ---------------------------
(* ThreadPool on small instances.                                          *)
EXTENDS ThreadPool, TLC

Symmetry == Permutations(Tasks) \cup Permutations(Clients)
============================================================================
