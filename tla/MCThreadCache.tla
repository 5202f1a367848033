---------------------------- MODULE MCThreadCache ----------------------------
(* Instances of ThreadCache: names of runtimes and loads can be exchanged.  *)
EXTENDS ThreadCache, TLC

Interchangeable == Permutations(Runtimes) \union Permutations(Loads)
=============================================================================
