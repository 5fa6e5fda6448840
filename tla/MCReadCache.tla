------------------------------ MODULE MCReadCache ------------------------------
(* What TLC needs on top of ReadCache.                                     *)
EXTENDS ReadCache, TLC

CacheSymmetry == Permutations(Readers) \cup Permutations(Values)
=============================================================================
