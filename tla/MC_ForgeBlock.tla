--------------------------- MODULE MC_ForgeBlock ---------------------------
(* Instances of ForgeBlock for TLC. *)
EXTENDS ForgeBlock
=============================================================================
