----------------------- MODULE MC_BackwardCurriculum -----------------------
(* Instances of BackwardCurriculum for TLC. *)
EXTENDS BackwardCurriculum
=============================================================================
