---------------------------- MODULE MC_RunLock ----------------------------
(* Instances of RunLock for TLC. *)
EXTENDS RunLock
=============================================================================
