----------------------------- MODULE MCCommands -----------------------------
(* TLC's instance of Commands: a lamp, a strip of two outlets, a lock, a heater with a fan. *)
EXTENDS Commands, TLC

CONSTANTS t1, t2

At(device, service, type, char, low, high, whole, writable) ==
    [device |-> device, service |-> service, type |-> type, char |-> char, low |-> low,
     high |-> high, whole |-> whole, writable |-> writable]

MCInfoOf ==
    <<At("lamp", 1, "Lightbulb", "On", 0, 2, FALSE, TRUE),
      At("lamp", 1, "Lightbulb", "Brightness", 0, 200, TRUE, TRUE),
      At("lamp", 1, "Lightbulb", "Hue", 0, 720, FALSE, TRUE),
      At("lamp", 1, "Lightbulb", "Saturation", 0, 200, FALSE, TRUE),
      At("lamp", 1, "Lightbulb", "ColorTemperature", 280, 1000, TRUE, TRUE),
      At("strip", 2, "Outlet", "On", 0, 2, FALSE, TRUE),
      At("strip", 3, "Outlet", "On", 0, 2, FALSE, TRUE),
      At("door", 4, "LockMechanism", "LockMechanismTargetState", 0, 2, TRUE, TRUE),
      At("heater", 5, "Thermostat", "TemperatureTarget", 21, 76, FALSE, TRUE),
      At("heater", 5, "Thermostat", "HeatingCoolingTarget", 0, 6, TRUE, FALSE),
      At("heater", 6, "Fan", "On", 0, 2, FALSE, TRUE)>>

MCServiceOf ==
    [light |-> 1, first |-> 2, second |-> 3, lock |-> 4, climate |-> 5]
MCNamesOf ==
    [e \in {"light", "first", "second", "lock", "climate"} |->
        IF e = "light" THEN {"light", "ceiling"} ELSE {e}]

MCInitialValue == [p \in Points |-> IF InfoOf[p].low > 0 THEN InfoOf[p].low ELSE 0]

By(front, op, entity, name, token, args) ==
    [front |-> front, op |-> op, entity |-> entity, name |-> name, point |-> NoPoint,
     token |-> token, args |-> args]

\* Red and pale blue, brightnesses around a half, kelvins in and out of range.
Colour(front, name, hue, saturation) ==
    By(front, "set_hue_saturation", "light", name, FALSE, [hue |-> hue, saturation |-> saturation])

MCOrders ==
    {Colour("daemon", name, 2, 200) : name \in {"light", "ceiling"}}
    \cup {Colour(front, "light", 480, 61) : front \in {"daemon", "direct"}}
    \cup {By("daemon", "set_brightness", "light", "light", FALSE, [brightness |-> v]) :
             v \in {-3, 99, 101, 207}}
    \cup {By("mcp", "set_light", "light", "light", FALSE, a) :
             a \in {[on |-> 2, kelvin |-> 2700], [brightness |-> 20, kelvin |-> 0],
                    [on |-> 2, brightness |-> 150, kelvin |-> 9000]}}
    \cup {By("mcp", "set_light", "second", "second", FALSE, [on |-> 2, brightness |-> 20])}
    \cup {By("daemon", "turn_on", e, e, FALSE, [on |-> 2]) : e \in {"first", "second", "climate"}}
    \cup {By(front, "set_lock", "lock", "lock", token, [locked |-> 0]) :
             front \in {"daemon", "mcp"}, token \in BOOLEAN}
    \cup {By("direct", "set_lock", "lock", "lock", FALSE, [locked |-> 2])}
    \cup {By("mcp", "set_climate", "climate", "climate", FALSE, [celsius |-> v, mode |-> 2]) :
             v \in {13, 43}}
    \cup {[By("daemon", "put_characteristic", "light", "light", FALSE, [value |-> 300])
             EXCEPT !.point = p] : p \in {2, 3}}

TaskSymmetry == Permutations(Tasks)
=============================================================================
