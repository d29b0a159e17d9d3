---------------------------- MODULE MCDacPolling ----------------------------
(* Instances of DacPolling for TLC. *)
EXTENDS DacPolling
=============================================================================
