------------------------------ MODULE Commands ------------------------------
(***************************************************************************)
(* The commands that change an accessory: turn_on, set_brightness and the  *)
(* other shortcuts of HomeKitClient, as the daemon's handlers, a command   *)
(* with --no-daemon and the MCP tools call them.  A command is a list of   *)
(* writes of one characteristic each (src/homekit/core/aliases.py), gated  *)
(* by the policy and by the configuration.                                 *)
(*                                                                         *)
(* Entities are known and the layouts fixed (EntityClient has the rest).   *)
(* Numbers are in halves, so that 5 stands for 2.5.  A daemon runs the     *)
(* commands under one lock key one after the other (DaemonServer); the     *)
(* other processes take no lock.                                           *)
(***************************************************************************)
EXTENDS Integers, SequencesExt, FiniteSetsExt

CONSTANTS
    Tasks,        \* commands under way, in any process
    Orders,       \* the commands that may be given, see IsOrder
    Points,       \* characteristics: naturals, in the accessory's order
    InfoOf,       \* what the layout says of a characteristic, see Info
    ServiceOf,    \* the service of an entity
    NamesOf,      \* the id and the aliases of an entity
    NoPoint,      \* a command that names an entity names no characteristic
    Rules,        \* what the policy table may say of lock.unlock
    InitialValue, \* the value of a characteristic at first
    MaxCalls      \* bound: commands

\* The parameter of a command that writes one characteristic.
ParamOf == [turn_on |-> "on", turn_off |-> "on", set_brightness |-> "brightness",
            set_color_temperature |-> "kelvin", set_target_temperature |-> "celsius",
            set_target_mode |-> "mode", set_lock |-> "locked", set_position |-> "percent",
            set_rotation_speed |-> "speed", put_characteristic |-> "value"]

\* The others write several; the tools set_light and set_climate only those given.
Takes(c) ==
    CASE c.op = "set_light" -> DOMAIN c.args \subseteq {"on", "brightness", "kelvin"}
      [] c.op = "set_climate" -> DOMAIN c.args \subseteq {"celsius", "mode"}
      [] c.op = "set_hue_saturation" -> DOMAIN c.args = {"hue", "saturation"}
      [] OTHER -> c.op \in DOMAIN ParamOf /\ DOMAIN c.args = {ParamOf[c.op]}

\* A characteristic: its device and service, their types, the bounds and the format.
Info == [device : STRING, service : Nat, type : STRING, char : STRING, low : Int, high : Int,
         whole : BOOLEAN, writable : BOOLEAN]

IsWhole(n) == n % 2 = 0

\* The device of an entity.
DeviceOf(e) == (CHOOSE i \in Range(InfoOf) : i.service = ServiceOf[e]).device

\* front: the process; name: what it calls the entity; token: a confirmation token is given;
\* args: the parameters given; point: the characteristic of a raw write.
IsOrder(c) ==
    /\ c.front \in {"daemon", "direct", "mcp"}
    /\ c.entity \in DOMAIN NamesOf /\ c.name \in NamesOf[c.entity]
    /\ c.args \in [DOMAIN c.args -> Int] /\ Takes(c)
    /\ c.token \in BOOLEAN
    /\ IF c.op = "put_characteristic"
       THEN c.point \in Points /\ InfoOf[c.point].device = DeviceOf(c.entity)
       ELSE c.point = NoPoint

ASSUME CommandsAssumption ==
    /\ Points \subseteq Nat /\ NoPoint \notin Points
    /\ InfoOf \in [Points -> Info] /\ InitialValue \in [Points -> Int]
    /\ \A p \in Points :
          /\ InfoOf[p].low <= InfoOf[p].high
          /\ InfoOf[p].whole => IsWhole(InfoOf[p].low) /\ IsWhole(InfoOf[p].high)
    \* Services are numbered in the accessory's order.
    /\ \A p, q \in Points :
          InfoOf[p].device = InfoOf[q].device /\ p < q => InfoOf[p].service <= InfoOf[q].service
    /\ \A e \in DOMAIN NamesOf : \E p \in Points : InfoOf[p].service = ServiceOf[e]
    /\ \A c \in Orders : IsOrder(c)
    /\ Rules \subseteq {"allow", "confirmation_required", "disabled"}
    /\ MaxCalls \in Nat

VARIABLES
    rule,     \* what [dangerous_operations] says of lock.unlock
    allowed,  \* the flags of [mcp]: "writes", "raw"
    value,    \* the accessories' characteristics
    task,     \* the commands
    calls,
    excused   \* history: devices whose colour was left by a failure or an overlap

vars == <<rule, allowed, value, task, calls, excused>>

-----------------------------------------------------------------------------
(* aliases.py *)

\* The AliasSpec behind a parameter.
AliasSpec(param) ==
    CASE param = "on" -> [char |-> "On", types |-> {"Lightbulb", "Switch", "Outlet", "Fan", "FanV2"}]
      [] param = "brightness" -> [char |-> "Brightness", types |-> {"Lightbulb"}]
      [] param = "kelvin" -> [char |-> "ColorTemperature", types |-> {"Lightbulb"}]
      [] param = "hue" -> [char |-> "Hue", types |-> {"Lightbulb"}]
      [] param = "saturation" -> [char |-> "Saturation", types |-> {"Lightbulb"}]
      [] param = "celsius" -> [char |-> "TemperatureTarget", types |-> {"Thermostat"}]
      [] param = "mode" -> [char |-> "HeatingCoolingTarget", types |-> {"Thermostat"}]
      [] param = "locked" -> [char |-> "LockMechanismTargetState", types |-> {"LockMechanism"}]
      [] param = "percent" ->
            [char |-> "PositionTarget",
             types |-> {"WindowCovering", "Window", "Door", "GarageDoorOpener"}]
      [] param = "speed" -> [char |-> "RotationSpeed", types |-> {"Fan", "FanV2"}]

\* int(): the fraction is cut off.
Whole(v) == IF v >= 0 THEN v - (v % 2) ELSE v + (v % 2)

\* round(): to the nearest integer, and from the middle to the even one.
Rounded(v) == IF IsWhole(v) THEN v ELSE IF (v - 1) % 4 = 0 THEN v - 1 ELSE v + 1

\* kelvin_to_mirek of a whole number of kelvins, rounded likewise.
Mirek(kelvin) ==
    LET low == 1000000 \div kelvin
        rest == 2 * (1000000 % kelvin)
    IN  IF rest < kelvin \/ (rest = kelvin /\ IsWhole(low)) THEN 2 * low ELSE 2 * low + 2

\* The number a method of the client takes from its argument.
Converted(param, v) ==
    CASE param = "brightness" -> Rounded(v)
      [] param = "kelvin" -> Mirek(v)
      [] param \in {"mode", "percent", "speed"} -> Whole(v)
      [] OTHER -> v

\* Mutant: only the upper bound is looked at.
CapOnly(v, p) == Min({v, InfoOf[p].high})

\* clamp.  A characteristic without bounds has them beyond every argument.
Clamped(v, p) == Max({InfoOf[p].low, Min({v, InfoOf[p].high})})

\* The rest of _set_alias on the value: a truth value is written as it is.
Coerced(param, v, p) ==
    CASE param \in {"on", "value"} -> v
      [] param \notin {"on", "value"} /\ InfoOf[p].whole -> Whole(Clamped(Converted(param, v), p))
      [] OTHER -> Clamped(Converted(param, v), p)

\* The characteristics a parameter may mean on an accessory.
Bearers(device, param) ==
    {p \in Points : /\ InfoOf[p].device = device /\ InfoOf[p].char = AliasSpec(param).char
                    /\ InfoOf[p].type \in AliasSpec(param).types}

\* Mutant: the accessory's last service counts.
LastOf(ps) == Max(ps)

\* find_characteristic takes the accessory's first service of the right type.
FirstOf(ps) == Min(ps)

-----------------------------------------------------------------------------
(* The commands. *)

Given(c, param) == IF param \in DOMAIN c.args THEN <<param>> ELSE <<>>

\* The parameters a command writes, in the order of the code; those not given are left out.
Plan(c) ==
    CASE c.op = "set_light" -> Given(c, "on") \o Given(c, "brightness") \o Given(c, "kelvin")
      [] c.op = "set_climate" -> Given(c, "celsius") \o Given(c, "mode")
      [] c.op = "set_hue_saturation" -> <<"hue", "saturation">>
      [] OTHER -> <<ParamOf[c.op]>>

\* Policy.enforce on lock.unlock, _require_writes of the tools and the check of raw write.
\* No command consults the rules for garage.open and security_system.disarm.
Blocked(c) ==
    \/ c.front = "mcp" /\ "writes" \notin allowed
    \/ c.op = "put_characteristic" /\ "raw" \notin allowed
    \/ /\ c.op = "set_lock" /\ c.args["locked"] = 0
       /\ rule = "disabled" \/ (rule = "confirmation_required" /\ ~c.token)

Idle == [pc |-> "idle"]
Busy(t) == task[t].pc \in {"sent", "applied", "refused"}

\* The daemon's lock key: the name of the entity, or the device's id.
Key(c) == IF c.op = "put_characteristic" THEN DeviceOf(c.entity) ELSE c.name
SameKey(c, d) == c.front = "daemon" /\ d.front = "daemon" /\ Key(c) = Key(d)

\* Mutant: only the raw writes take the lock.
RawKeyFree(c) == c.op = "put_characteristic" =>
    \A t \in Tasks : Busy(t) => ~SameKey(c, task[t].order)

KeyFree(c) == \A t \in Tasks : Busy(t) => ~SameKey(c, task[t].order)

Colours(c) == c.op = "set_hue_saturation"
Colouring(device) ==
    {t \in Tasks : Busy(t) /\ Colours(task[t].order) /\ DeviceOf(task[t].order.entity) = device}

\* Two commands colour one lamp under different keys or in different processes, or a raw
\* write sets one half of a colour.
Disturbs(c) ==
    \/ Colours(c) /\ \E t \in Colouring(DeviceOf(c.entity)) : ~SameKey(c, task[t].order)
    \/ c.op = "put_characteristic" /\ InfoOf[c.point].char \in {"Hue", "Saturation"}

-----------------------------------------------------------------------------
(* The writes of a command, one after the other. *)

\* The characteristic of the next write, if there is one and it can be written.
Targets(r) ==
    LET c == r.order
        ps == Bearers(DeviceOf(c.entity), Plan(c)[r.n])
    IN  CASE c.op = "put_characteristic" -> {c.point}
          [] c.op # "put_characteristic" /\ ps = {} -> {}
          [] OTHER -> {FirstOf(ps)} \cap {p \in Points : InfoOf[p].writable}

\* kelvin_to_mirek raises on zero and below.
Valid(r) == Plan(r.order)[r.n] = "kelvin" => r.order.args["kelvin"] > 0

HalfDone(r, outcome) == Colours(r.order) /\ (outcome = "failed" \/ FALSE \in Range(r.told))

\* The command ends; without are the devices already excused.
Ends(t, r, outcome, without) ==
    /\ task' = [task EXCEPT ![t] = [r EXCEPT !.pc = outcome]]
    /\ excused' = without \cup (IF HalfDone(r, outcome) THEN {DeviceOf(r.order.entity)} ELSE {})

\* The next write is sent, or the command ends: with its results, or with an exception.
Proceeds(t, r, without) ==
    \/ r.n > Len(Plan(r.order)) /\ Ends(t, r, "returned", without)
    \/ /\ r.n <= Len(Plan(r.order))
       /\ ~Valid(r) \/ Targets(r) = {}
       /\ Ends(t, r, "failed", without)
    \/ /\ r.n <= Len(Plan(r.order)) /\ Valid(r)
       /\ \E p \in Targets(r) : task' = [task EXCEPT ![t] = [r EXCEPT !.pc = "sent", !.point = p]]
       /\ excused' = without

\* The parameter being written and what is sent for it.
Param(r) == Plan(r.order)[r.n]
Sent(r) == Coerced(Param(r), r.order.args[Param(r)], r.point)

Init ==
    /\ rule \in Rules
    /\ allowed \in SUBSET {"writes", "raw"}
    /\ value = InitialValue
    /\ task = [t \in Tasks |-> Idle]
    /\ calls = 0
    /\ excused = {}

\* A command begins, once its lock is free.
Call(t) ==
    /\ ~Busy(t) /\ calls < MaxCalls
    /\ calls' = calls + 1
    /\ \E c \in Orders :
         LET r == [pc |-> "sent", order |-> c, n |-> 1, point |-> NoPoint, told |-> <<>>,
                   applied |-> {}]
         IN  /\ KeyFree(c)
             /\ \/ Blocked(c) /\ Ends(t, r, "blocked", excused)
                \/ /\ ~Blocked(c)
                   /\ Proceeds(t, r, IF Disturbs(c) THEN excused \cup {DeviceOf(c.entity)}
                                     ELSE excused)
    /\ UNCHANGED <<rule, allowed, value>>

\* The accessory takes the write.
Applies(t) ==
    /\ task[t].pc = "sent"
    /\ value' = [value EXCEPT ![task[t].point] = Sent(task[t])]
    /\ task' = [task EXCEPT ![t].pc = "applied", ![t].applied = @ \cup {task[t].n}]
    /\ UNCHANGED <<rule, allowed, calls, excused>>

\* It answers with a status that is not zero.
Refuses(t) ==
    /\ task[t].pc = "sent"
    /\ task' = [task EXCEPT ![t].pc = "refused"]
    /\ UNCHANGED <<rule, allowed, value, calls, excused>>

\* Mutant: the status in the answer is not looked at.
AlwaysSuccess(r) == TRUE

\* CharacteristicWriteResult.success.
Success(r) == r.pc = "applied"

\* Mutant: only successes are kept.
KeepsSuccesses(told, success) == IF success THEN Append(told, success) ELSE told

\* results.append, where a tool has several.
Told(told, success) == Append(told, success)

\* write_characteristic returns, and the command goes on to its next write.
WriteReturns(t) ==
    /\ task[t].pc \in {"applied", "refused"}
    /\ Proceeds(t, [task[t] EXCEPT !.told = Told(@, Success(task[t])), !.n = @ + 1], excused)
    /\ UNCHANGED <<rule, allowed, value, calls>>

\* It raises: the accessory was not reached, its answer was lost, or said -70404.
WriteRaises(t) ==
    /\ Busy(t)
    /\ Ends(t, task[t], "failed", excused)
    /\ UNCHANGED <<rule, allowed, value, calls>>

Next == \E t \in Tasks : Call(t) \/ Applies(t) \/ Refuses(t) \/ WriteReturns(t) \/ WriteRaises(t)

Spec == Init /\ [][Next]_vars

-----------------------------------------------------------------------------
(* Properties. *)

Outcomes == {"returned", "failed", "blocked"}
Record ==
    [pc : {"sent", "applied", "refused"} \cup Outcomes, order : Orders, n : Nat,
     point : Points \cup {NoPoint}, told : Seq(BOOLEAN), applied : SUBSET (1 .. 3)]

TypeOK ==
    /\ rule \in Rules /\ allowed \subseteq {"writes", "raw"}
    /\ value \in [Points -> Int]
    /\ task \in [Tasks -> {Idle} \cup Record]
    /\ \A t \in Tasks : Busy(t) => /\ task[t].n \in 1 .. Len(Plan(task[t].order))
                                  /\ Len(task[t].told) = task[t].n - 1
    /\ calls \in 0 .. MaxCalls
    /\ excused \subseteq {InfoOf[p].device : p \in Points}

\* The colours that may be asked of a device, and the one it came with.
HuePoint(device) == FirstOf(Bearers(device, "hue"))
SaturationPoint(device) == FirstOf(Bearers(device, "saturation"))
Pairs(device) ==
    {<<InitialValue[HuePoint(device)], InitialValue[SaturationPoint(device)]>>}
      \cup {<<Coerced("hue", c.args["hue"], HuePoint(device)),
              Coerced("saturation", c.args["saturation"], SaturationPoint(device))>> :
                 c \in {o \in Orders : Colours(o) /\ DeviceOf(o.entity) = device}}

\* A lamp at rest shows a colour that somebody asked for, never the hue of one request
\* with the saturation of another, as long as its colour is set through the daemon under
\* one name and no write of it fails.
ColourWhole ==
    \A device \in {InfoOf[p].device : p \in Points} \ excused :
        Bearers(device, "hue") # {} /\ Bearers(device, "saturation") # {}
        /\ Colouring(device) = {} =>
            <<value[HuePoint(device)], value[SaturationPoint(device)]>> \in Pairs(device)

\* The results that the user is shown: of a colour only the second.
Reported(r) == IF Colours(r.order) THEN {r.told[Len(r.told)]} ELSE Range(r.told)

\* What a command tells is what it did: a success of every result means that every write
\* was taken, except a hue that was refused before its saturation was taken; a failure
\* among the results was not taken; and a command that the policy or the configuration
\* blocks has changed nothing.
OutcomeTrue ==
    \A t \in Tasks :
        LET r == task[t] IN
        /\ r.pc = "returned" /\ Reported(r) = {TRUE} =>
              \/ r.applied = 1 .. Len(Plan(r.order))
              \/ Colours(r.order) /\ r.applied = {2}
        /\ r.pc = "returned" => \A i \in DOMAIN r.told : ~r.told[i] => i \notin r.applied
        /\ r.pc = "blocked" => r.applied = {}

\* A shortcut sends a value that the characteristic can take, and at most a half away from
\* what was asked for unless that is out of its bounds, whatever fractions, roundings and
\* conversions meet there: of kelvins, the mireks are those whose product is a million.
SentInRange ==
    \A t \in Tasks :
        task[t].pc = "sent" /\ Param(task[t]) \notin {"on", "value"} =>
            LET r == task[t]
                i == InfoOf[r.point]
                arg == r.order.args[Param(r)]
                scale == IF Param(r) = "kelvin" THEN arg ELSE 1
                asked == IF Param(r) = "kelvin" THEN 2 * 1000000 ELSE arg
            IN  /\ Sent(r) \in i.low .. i.high /\ (i.whole => IsWhole(Sent(r)))
                /\ asked \in scale * i.low .. scale * i.high =>
                      scale * Sent(r) - asked \in -scale .. scale

\* A write reaches a characteristic of the entity's own service, if that has one of the
\* kind and no earlier service of its accessory has: the first outlet of a strip takes the
\* writes of them all, and the fan of a heater those of its thermostat.
ReachesOwnService ==
    \A t \in Tasks :
        task[t].pc = "sent" /\ task[t].order.op # "put_characteristic" =>
            LET r == task[t]
                own == ServiceOf[r.order.entity]
                services == {InfoOf[p].service : p \in Bearers(DeviceOf(r.order.entity), Param(r))}
            IN  own \in services /\ (\A s \in services : own <= s) => InfoOf[r.point].service = own
=============================================================================
