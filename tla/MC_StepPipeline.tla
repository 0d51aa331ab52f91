-------------------------- MODULE MC_StepPipeline --------------------------
(* Instances of StepPipeline for TLC. *)
EXTENDS StepPipeline
=============================================================================
