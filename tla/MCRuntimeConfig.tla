--------------------------- MODULE MCRuntimeConfig ---------------------------
(* Model-checking instance of RuntimeConfig: two tenants, two calls at a time, two master keys. *)
EXTENDS RuntimeConfig, TLC

MCValues == {1}

Symmetry == Permutations(Tenants) \cup Permutations(Readers) \cup Permutations(Masters)
=============================================================================
