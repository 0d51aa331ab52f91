------------------------ MODULE MC_WinnerRetention ------------------------
(* Instances of WinnerRetention for TLC. *)
EXTENDS WinnerRetention
=============================================================================
