-------------------------- MODULE MCSendPipeline --------------------------
(* SendPipeline for model checking. *)
EXTENDS SendPipeline, TLC

CONSTANTS f1, f2

=============================================================================
