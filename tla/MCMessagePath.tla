---------------------------- MODULE MCMessagePath ----------------------------
(* Model-checking instance of MessagePath. *)
EXTENDS MessagePath
=============================================================================
