-------------------------- MODULE MCStreamConsumer --------------------------
(* Model-checking instance of StreamConsumer. *)
EXTENDS StreamConsumer
=============================================================================
