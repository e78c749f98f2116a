--------------------------- MODULE MCCacheEngine ---------------------------
(* CacheEngine on a small instance: see the README for the bounds.         *)
EXTENDS CacheEngine, TLC

Symmetry == Permutations(Ops) \cup Permutations(Keys) \cup Permutations(Workers)
=============================================================================
