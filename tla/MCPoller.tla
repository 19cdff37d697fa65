------------------------------ MODULE MCPoller ------------------------------
(* An instance of Poller for TLC; its values are in the configurations. *)
EXTENDS Poller
=============================================================================
