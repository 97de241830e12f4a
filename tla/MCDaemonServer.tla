-------------------------- MODULE MCDaemonServer ---------------------------
(* TLC's instances of DaemonServer. *)
EXTENDS DaemonServer, TLC

CONSTANTS c1, c2, c3, light

ConnSymmetry == Permutations(Conns)
=============================================================================
