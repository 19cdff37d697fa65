-------------------------- MODULE MCRefusalHistory --------------------------
(* RefusalHistory for TLC: its constants are all set in the cfg. *)
EXTENDS RefusalHistory
=============================================================================
