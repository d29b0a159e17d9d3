------------------------ MODULE MCDriverLifecycle -------------------------
(* Instances of DriverLifecycle for TLC: the configurations set the modes. *)
EXTENDS DriverLifecycle
=============================================================================
