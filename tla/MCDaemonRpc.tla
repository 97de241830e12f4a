---------------------------- MODULE MCDaemonRpc ----------------------------
(* Instances of DaemonRpc for TLC. *)
EXTENDS DaemonRpc, TLC

CONSTANTS a, b, s

CallSymmetry == Permutations({a, b})
=============================================================================
