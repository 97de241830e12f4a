--------------------------- MODULE MCEntityClient ---------------------------
(* TLC's instances of EntityClient. *)
EXTENDS EntityClient

CONSTANTS t1, t2, bridge, plug, bulb, fan, heater

MCPairings == <<bridge, plug>>
MCHomeOf == [e \in Entities |-> IF e = fan THEN plug ELSE bridge]
MCLastConfig == [d \in Devices |-> IF d = bridge THEN 2 ELSE 1]
MCLastValue == [e \in Entities |-> IF e = bulb THEN 2 ELSE 1]
MCLockKeys == [e \in Entities |-> {e}]

\* A slot is an accessory of its own; the bridge gains a heater.
MCAidOf == [s \in Slots |-> s]

\* The bulb is replaced: it comes back under the same name in a new slot.
MCLayoutOf ==
    [d \in Devices |-> [n \in 1 .. LastConfig[d] |-> [s \in Slots |->
        CASE d = bridge /\ n = 1 /\ s = 1 -> bulb
          [] d = bridge /\ n > 1 /\ s = 3 -> bulb
          [] d = bridge /\ n > 1 /\ s = 2 -> heater
          [] d = plug /\ s = 2 -> fan
          [] OTHER -> Nobody]]]

TaskSymmetry == Permutations(Tasks)
=============================================================================
