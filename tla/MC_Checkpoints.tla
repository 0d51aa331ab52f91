-------------------------- MODULE MC_Checkpoints --------------------------
(* Instances of Checkpoints for TLC. *)
EXTENDS Checkpoints
=============================================================================
