--------------------------- MODULE MC_RunLockCli ---------------------------
(* Instances of RunLockCli for TLC. *)
EXTENDS RunLockCli
=============================================================================
