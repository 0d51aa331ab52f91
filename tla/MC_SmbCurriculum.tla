-------------------------- MODULE MC_SmbCurriculum --------------------------
(* Instances of SmbCurriculum for TLC. *)
EXTENDS SmbCurriculum
=============================================================================
