---------------------------- MODULE MCQueryCache ----------------------------
(* Symmetry for the runs of QueryCache. *)
EXTENDS QueryCache, TLC

CacheSymmetry == Permutations(Reads) \cup Permutations(Keys)
=============================================================================
