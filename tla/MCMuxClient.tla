----------------------------- MODULE MCMuxClient -----------------------------
(* Model-checking instance of MuxClient. *)
EXTENDS MuxClient, TLC

CallSymmetry == Permutations(Calls)
=============================================================================
