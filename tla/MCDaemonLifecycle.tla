------------------------- MODULE MCDaemonLifecycle -------------------------
(* Instances of DaemonLifecycle for TLC. *)
EXTENDS DaemonLifecycle

CONSTANTS a, b
=============================================================================
