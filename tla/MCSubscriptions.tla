-------------------------- MODULE MCSubscriptions --------------------------
(* TLC's instance of Subscriptions: two lights behind a bridge and a plug. *)
EXTENDS Subscriptions

CONSTANTS l1, l2, bridge, plug, light, lamp, outlet

MCDeviceOf == [p \in Points |-> IF p = outlet THEN plug ELSE bridge]
MCLastValue == [p \in Points |-> IF p = outlet THEN 0 ELSE IF p = lamp THEN 1 ELSE 2]
=============================================================================
