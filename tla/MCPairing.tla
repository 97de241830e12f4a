----------------------------- MODULE MCPairing -----------------------------
(* TLC's instance of Pairing. *)
EXTENDS Pairing

CONSTANTS daemon, lamp, plug, a, b

\* The lamp may be given the plug's alias.
MCNamesFor == [d \in Devices |-> IF d = lamp THEN {a, b} ELSE {b}]
=============================================================================
