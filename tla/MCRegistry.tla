----------------------------- MODULE MCRegistry -----------------------------
(* TLC's instance of Registry: lamps, a lamp called "Lamp 2", and a bridge. *)
EXTENDS Registry

CONSTANTS single, second, bridge, light, sensor, lamp, hub

Light(slug) == [domain |-> light, slug |-> slug]

MCServicesOf ==
    [d \in Devices |->
        CASE d = single -> <<Light(<<lamp>>)>>
          [] d = second -> <<Light(<<lamp, 2>>), [domain |-> sensor, slug |-> <<lamp, 2>>]>>
          [] d = bridge -> <<[domain |-> NoDomain, slug |-> <<hub>>],
                             Light(<<lamp>>), Light(<<lamp>>)>>]

MCNames == {<<light, lamp>>, <<light, lamp, 3>>}
MCSections ==
    {[entity_id |-> n, alias |-> NoName] : n \in Names}
        \cup {[entity_id |-> NoName, alias |-> <<light, lamp>>]}
=============================================================================
