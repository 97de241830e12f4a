--------------------------- MODULE CommandsProofs ---------------------------
(***************************************************************************)
(* Theorems about the commands, for any accessories, commands, processes   *)
(* and bounds.                                                             *)
(***************************************************************************)
EXTENDS Commands, WellFoundedInduction, SequenceTheorems, TLAPS

-----------------------------------------------------------------------------
(* The inductive invariant. *)

\* The results of a command so far, and the writes the accessory took.
Answered(r) == \A i \in 1 .. Len(r.told) : r.told[i] <=> i \in r.applied

Sane(r) ==
    /\ Answered(r)
    /\ r.pc \in {"sent", "applied", "refused"} =>
          /\ Valid(r) /\ r.point \in Targets(r)
          /\ r.applied \subseteq 1 .. r.n /\ (r.n \in r.applied <=> r.pc = "applied")
    /\ r.pc = "returned" => /\ Len(r.told) = Len(Plan(r.order))
                            /\ r.applied \subseteq 1 .. Len(r.told)
    /\ r.pc = "blocked" => r.applied = {}

Base ==
    /\ TypeOK
    /\ \A t \in Tasks : task[t] # Idle => Sane(task[t])

\* A lamp whose colour is not excused has at most one command that colours it, which
\* leaves there what it was asked for, and no raw write of a colour.
Lamp(device) == Bearers(device, "hue") # {} /\ Bearers(device, "saturation") # {}
Shown(device) == <<value[HuePoint(device)], value[SaturationPoint(device)]>>

Alone(device) == \A t, u \in Colouring(device) : t = u
Raw(device) == \A t \in Tasks :
    Busy(t) /\ task[t].order.op = "put_characteristic" /\ InfoOf[task[t].order.point].device = device
        => InfoOf[task[t].order.point].char \notin {"Hue", "Saturation"}
Rest(device) == Colouring(device) = {} => Shown(device) \in Pairs(device)
Midway(device) == \A t \in Colouring(device) :
    LET c == task[t].order IN
    /\ 1 \in task[t].applied =>
          value[HuePoint(device)] = Coerced("hue", c.args["hue"], HuePoint(device))
    /\ 2 \in task[t].applied =>
          value[SaturationPoint(device)]
              = Coerced("saturation", c.args["saturation"], SaturationPoint(device))

Coloured(device) == Alone(device) /\ Raw(device) /\ Rest(device) /\ Midway(device)

ColourInv ==
    \A device \in {InfoOf[p].device : p \in Points} \ excused : Lamp(device) => Coloured(device)

IInv == Base /\ ColourInv

-----------------------------------------------------------------------------
(* The conversions of the arguments. *)

\* Min and Max of two numbers.
LEMMA MinMax ==
    ASSUME NEW a \in Int, NEW b \in Int
    PROVE  Min({a, b}) = (IF a <= b THEN a ELSE b) /\ Max({a, b}) = (IF a >= b THEN a ELSE b)
<1>1. \E x \in {a, b} : \A y \in {a, b} : x <= y
    OBVIOUS
<1>2. \E x \in {a, b} : \A y \in {a, b} : x >= y
    OBVIOUS
<1> QED
    BY <1>1, <1>2 DEF Min, Max

\* The bounds of a characteristic, even where it takes whole numbers.
LEMMA Bounds ==
    ASSUME NEW p \in Points
    PROVE  /\ p \in Nat /\ InfoOf[p] \in Info
           /\ InfoOf[p].low \in Int /\ InfoOf[p].high \in Int /\ InfoOf[p].low <= InfoOf[p].high
           /\ InfoOf[p].whole => InfoOf[p].low % 2 = 0 /\ InfoOf[p].high % 2 = 0
<1>1. InfoOf[p] \in Info /\ p \in Nat /\ InfoOf[p].low <= InfoOf[p].high
      /\ (InfoOf[p].whole => InfoOf[p].low % 2 = 0 /\ InfoOf[p].high % 2 = 0)
    BY CommandsAssumption DEF IsWhole
<1> QED
    BY <1>1 DEF Info

\* A value that is clamped is the bound it exceeds, or itself.
LEMMA ClampedIs ==
    ASSUME NEW p \in Points, NEW v \in Int
    PROVE  /\ v < InfoOf[p].low => Clamped(v, p) = InfoOf[p].low
           /\ v > InfoOf[p].high => Clamped(v, p) = InfoOf[p].high
           /\ v \in InfoOf[p].low .. InfoOf[p].high => Clamped(v, p) = v
<1> DEFINE low == InfoOf[p].low
           high == InfoOf[p].high
           m == Min({v, high})
<1>1. low \in Int /\ high \in Int /\ low <= high
    BY Bounds
<1>2. m = (IF v <= high THEN v ELSE high)
    BY <1>1, MinMax
<1>3. m \in Int /\ Clamped(v, p) = Max({low, m})
    BY <1>1, <1>2 DEF Clamped
<1>4. Clamped(v, p) = IF low >= m THEN low ELSE m
    BY <1>1, <1>3, MinMax
<1> HIDE DEF low, high, m
<1>5. (v < low => Clamped(v, p) = low) /\ (v > high => Clamped(v, p) = high)
      /\ (v \in low .. high => Clamped(v, p) = v)
    BY <1>1, <1>2, <1>4
<1> QED
    BY <1>5 DEF low, high

\* What int() and round() do: a whole number, at most a half away.
LEMMA WholeIs ==
    ASSUME NEW v \in Int
    PROVE  /\ Whole(v) \in Int /\ Whole(v) % 2 = 0 /\ (v % 2 = 0 => Whole(v) = v)
           /\ v - Whole(v) \in -1 .. 1
BY DEF Whole

LEMMA RoundedIs ==
    ASSUME NEW v \in Int
    PROVE  Rounded(v) \in Int /\ Rounded(v) % 2 = 0 /\ v - Rounded(v) \in -1 .. 1
BY DEF Rounded, IsWhole

\* kelvin_to_mirek: the product with the kelvins misses a million by half of them at most.
LEMMA MirekIs ==
    ASSUME NEW k \in Int, k > 0
    PROVE  /\ Mirek(k) \in Int /\ Mirek(k) % 2 = 0
           /\ k * Mirek(k) - 2000000 \in -k .. k
<1> DEFINE low == 1000000 \div k
           rest == 1000000 % k
<1>1. low \in Int /\ rest \in 0 .. k - 1 /\ 1000000 = k * low + rest
    OBVIOUS
<1>2. Mirek(k) = IF 2 * rest < k \/ (2 * rest = k /\ IsWhole(low)) THEN 2 * low ELSE 2 * low + 2
    BY DEF Mirek
<1>3. k * (2 * low) = 2 * (k * low) /\ k * (2 * low + 2) = 2 * (k * low) + 2 * k
    BY <1>1
<1> HIDE DEF low, rest
<1>4. CASE 2 * rest < k \/ (2 * rest = k /\ IsWhole(low))
  <2>1. Mirek(k) = 2 * low
    BY <1>2, <1>4
  <2>2. k * Mirek(k) - 2000000 = - (2 * rest)
    BY <1>1, <1>3, <2>1
  <2> QED
    BY <1>1, <1>4, <2>1, <2>2
<1>5. CASE ~(2 * rest < k \/ (2 * rest = k /\ IsWhole(low)))
  <2>1. Mirek(k) = 2 * low + 2
    BY <1>2, <1>5
  <2>2. k * Mirek(k) - 2000000 = 2 * k - 2 * rest
    BY <1>1, <1>3, <2>1
  <2> QED
    BY <1>1, <1>5, <2>1, <2>2
<1> QED
    BY <1>4, <1>5

\* The number that a method takes from its argument is at most a half away, and whole if it
\* is another one; a colour temperature is whole.
LEMMA ConvertedIs ==
    ASSUME NEW param, NEW v \in Int, param = "kelvin" => v > 0
    PROVE  /\ Converted(param, v) \in Int
           /\ param # "kelvin" =>
                 /\ v - Converted(param, v) \in -1 .. 1
                 /\ Converted(param, v) = v \/ Converted(param, v) % 2 = 0
           /\ param = "kelvin" => Converted(param, v) = Mirek(v) /\ Mirek(v) % 2 = 0
<1>1. CASE param = "kelvin"
    BY <1>1, MirekIs DEF Converted
<1>2. CASE param = "brightness"
    BY <1>2, RoundedIs DEF Converted
<1>3. CASE param \in {"mode", "percent", "speed"}
    BY <1>3, WholeIs DEF Converted
<1>4. CASE param \notin {"kelvin", "brightness", "mode", "percent", "speed"}
    BY <1>4 DEF Converted
<1> QED
    BY <1>1, <1>2, <1>3, <1>4

\* A product is monotone in its second factor.
LEMMA Monotone ==
    ASSUME NEW k \in Int, k > 0, NEW a \in Int, NEW b \in Int, a <= b
    PROVE  k * a <= k * b
<1>1. k * (b - a) >= 0 /\ k * (b - a) = k * b - k * a
    OBVIOUS
<1>2. k * a \in Int /\ k * b \in Int
    OBVIOUS
<1> QED
    BY <1>1, <1>2

\* What _set_alias sends: in range, whole where it must be, and as near to what was asked for
\* as a conversion and the bounds allow.
LEMMA CoercedIs ==
    ASSUME NEW param, NEW p \in Points, NEW v \in Int, param = "kelvin" => v > 0
    PROVE  /\ Coerced(param, v, p) \in Int
           /\ param \notin {"on", "value"} =>
                 /\ Coerced(param, v, p) \in InfoOf[p].low .. InfoOf[p].high
                 /\ InfoOf[p].whole => IsWhole(Coerced(param, v, p))
                 /\ param # "kelvin" /\ v \in InfoOf[p].low .. InfoOf[p].high
                       => Coerced(param, v, p) - v \in -1 .. 1
                 /\ param = "kelvin" /\ 2000000 \in v * InfoOf[p].low .. v * InfoOf[p].high
                       => v * Coerced(param, v, p) - 2000000 \in -v .. v
<1>1. CASE param \in {"on", "value"}
    BY <1>1 DEF Coerced
<1>2. CASE param \notin {"on", "value"}
  <2> DEFINE low == InfoOf[p].low
             high == InfoOf[p].high
             m == Converted(param, v)
             s == Clamped(m, p)
             out == Coerced(param, v, p)
  <2>1. low \in Int /\ high \in Int /\ low <= high
        /\ (InfoOf[p].whole => low % 2 = 0 /\ high % 2 = 0)
      BY Bounds
  <2>2. m \in Int
      BY ConvertedIs
  <2>3. /\ m < low => s = low
        /\ m > high => s = high
        /\ low <= m /\ m <= high => s = m
      BY <2>1, <2>2, ClampedIs
  <2>4. s \in low .. high /\ s \in Int
      BY <2>1, <2>2, <2>3
  <2>5. out = IF InfoOf[p].whole THEN Whole(s) ELSE s
      BY <1>2 DEF Coerced
  <2>6. /\ Whole(s) \in Int /\ Whole(s) % 2 = 0 /\ (s % 2 = 0 => Whole(s) = s)
        /\ s - Whole(s) \in -1 .. 1
      BY <2>4, WholeIs
  <2>7. out \in low .. high /\ out \in Int /\ (InfoOf[p].whole => out % 2 = 0)
    <3>1. InfoOf[p].whole => Whole(s) \in low .. high
      <4> HIDE DEF low, high, s
      <4> QED
        BY <2>1, <2>4, <2>6 DEF Whole
    <3> QED
      BY <2>4, <2>5, <2>6, <3>1
  <2>8. CASE param # "kelvin"
    <3>1. v - m \in -1 .. 1 /\ (m = v \/ m % 2 = 0)
        BY <2>8, ConvertedIs
    <3> HIDE DEF low, high, m, s, out
    <3>2. v \in low .. high => s - v \in -1 .. 1
        BY <2>1, <2>2, <2>3, <3>1
    <3>3. v \in low .. high /\ InfoOf[p].whole => s = v \/ s % 2 = 0
        BY <2>1, <2>2, <2>3, <3>1
    <3>4. v \in low .. high => out - v \in -1 .. 1
        BY <2>4, <2>5, <2>6, <3>2, <3>3
    <3> QED
        BY <1>2, <2>7, <2>8, <3>4 DEF low, high, out, IsWhole
  <2>9. CASE param = "kelvin"
    <3>1. m % 2 = 0 /\ v > 0 /\ v * m - 2000000 \in -v .. v
        BY <2>9, ConvertedIs, MirekIs
    <3> HIDE DEF low, high, m, s, out
    <3>2. out = s
        BY <2>1, <2>2, <2>3, <2>4, <2>5, <2>6, <3>1
    <3>3. (m < low => v * m <= v * low) /\ (m > high => v * high <= v * m)
        BY <2>1, <2>2, <3>1, Monotone
    <3>4. PICK a \in Int, b \in Int, c \in Int : a = v * low /\ b = v * high /\ c = v * m
        BY <2>1, <2>2
    <3>5. v * s = IF m < low THEN a ELSE IF m > high THEN b ELSE c
        BY <2>1, <2>2, <2>3, <3>4
    <3>6. 2000000 \in a .. b => v * s - 2000000 \in -v .. v
      <4>1. c - 2000000 \in -v .. v /\ (m < low => c <= a) /\ (m > high => b <= c)
        BY <3>1, <3>3, <3>4
      <4>2. PICK x \in Int : x = v * s
        BY <2>4
      <4> QED
        BY <2>1, <2>2, <3>1, <3>5, <4>1, <4>2
    <3> QED
        BY <1>2, <2>7, <2>9, <3>2, <3>4, <3>6 DEF low, high, out, IsWhole
  <2> QED
      BY <2>8, <2>9
<1> QED
    BY <1>1, <1>2

-----------------------------------------------------------------------------
(* Commands and their writes. *)

\* The first of some characteristics is one of them.
LEMMA FirstIs ==
    ASSUME NEW ps \in SUBSET Points, ps # {}
    PROVE  FirstOf(ps) \in ps /\ \A q \in ps : FirstOf(ps) <= q
<1>1. ps \subseteq Nat
    BY CommandsAssumption
<1>2. \E x \in ps : \A y \in ps : ~(<<y, x>> \in OpToRel(<, Nat))
    BY <1>1, NatLessThanWellFounded, WFMin
<1>3. PICK x \in ps : \A y \in ps : ~(y < x)
    BY <1>1, <1>2 DEF OpToRel
<1>4. \A y \in ps : x <= y
    BY <1>1, <1>3
<1> QED
    BY <1>4 DEF FirstOf, Min

\* An entity is at home on a device that has characteristics.
LEMMA DeviceIs ==
    ASSUME NEW e \in DOMAIN NamesOf
    PROVE  DeviceOf(e) \in {InfoOf[p].device : p \in Points}
<1>1. PICK p \in Points : InfoOf[p].service = ServiceOf[e]
    BY CommandsAssumption
<1>2. DOMAIN InfoOf = Points
    BY CommandsAssumption
<1>3. \E i \in Range(InfoOf) : i.service = ServiceOf[e]
    BY <1>1, <1>2 DEF Range
<1>4. (CHOOSE i \in Range(InfoOf) : i.service = ServiceOf[e]) \in Range(InfoOf)
    BY <1>3
<1> QED
    BY <1>2, <1>4 DEF Range, DeviceOf

LEMMA Concat ==
    ASSUME NEW S, NEW a \in Seq(S), NEW b \in Seq(S)
    PROVE  a \o b \in Seq(S) /\ Len(a \o b) = Len(a) + Len(b)
BY ConcatProperties

Params == {"on", "brightness", "kelvin", "hue", "saturation", "celsius", "mode", "locked",
           "percent", "speed", "value"}

\* The parameters a command writes are given; only a colour has a hue and a saturation,
\* in that order, and only a raw write has a bare value.
LEMMA PlanIs ==
    ASSUME NEW c \in Orders
    PROVE  /\ Plan(c) \in Seq(DOMAIN c.args) /\ Len(Plan(c)) \in 0 .. 3
           /\ Colours(c) => Plan(c) = <<"hue", "saturation">> /\ DOMAIN c.args = {"hue", "saturation"}
           /\ ~Colours(c) => "hue" \notin DOMAIN c.args /\ "saturation" \notin DOMAIN c.args
           /\ DOMAIN c.args \subseteq Params
           /\ "value" \in DOMAIN c.args => c.op = "put_characteristic"
<1>1. Takes(c)
    BY CommandsAssumption DEF IsOrder
<1>0. PICK S : S = DOMAIN c.args
    OBVIOUS
<1>2. \A param : Given(c, param) \in Seq(S) /\ Len(Given(c, param)) \in 0 .. 1
  <2> TAKE param
  <2>1. CASE param \in DOMAIN c.args
    <3>1. Given(c, param) = <<param>> /\ Len(<<param>>) = 1
        BY <2>1 DEF Given
    <3>2. param \in S
        BY <1>0, <2>1
    <3> QED
        BY <3>1, <3>2
  <2>2. CASE param \notin DOMAIN c.args
      BY <2>2 DEF Given
  <2> QED
      BY <2>1, <2>2
<1>3. CASE c.op = "set_light"
  <2> DEFINE a == Given(c, "on")
             b == Given(c, "brightness")
             k == Given(c, "kelvin")
  <2>1. Plan(c) = a \o b \o k
      BY <1>3 DEF Plan
  <2>2. DOMAIN c.args \subseteq {"on", "brightness", "kelvin"}
      BY <1>1, <1>3 DEF Takes
  <2>3. a \in Seq(S) /\ b \in Seq(S) /\ k \in Seq(S)
        /\ Len(a) \in 0 .. 1 /\ Len(b) \in 0 .. 1 /\ Len(k) \in 0 .. 1
      BY <1>2
  <2>4. a \o b \in Seq(S) /\ Len(a \o b) = Len(a) + Len(b)
      BY <2>3, Concat
  <2>5. a \o b \o k \in Seq(S) /\ Len(a \o b \o k) = Len(a) + Len(b) + Len(k)
      BY <2>3, <2>4, Concat
  <2>6. Len(a \o b \o k) \in 0 .. 3
    <3>1. PICK x \in 0 .. 1, y \in 0 .. 1, z \in 0 .. 1 : Len(a) = x /\ Len(b) = y /\ Len(k) = z
        BY <2>3
    <3> HIDE DEF a, b, k
    <3> QED
        BY <2>5, <3>1
  <2> QED
      BY <1>0, <1>3, <2>1, <2>2, <2>5, <2>6 DEF Colours, Params
<1>4. CASE c.op = "set_climate"
  <2>1. Plan(c) = Given(c, "celsius") \o Given(c, "mode")
      BY <1>4 DEF Plan
  <2>2. DOMAIN c.args \subseteq {"celsius", "mode"}
      BY <1>1, <1>4 DEF Takes
  <2>3. Plan(c) \in Seq(S) /\ Len(Plan(c)) \in 0 .. 2
      BY <1>2, <2>1, Concat
  <2> QED
      BY <1>0, <1>4, <2>2, <2>3 DEF Colours, Params
<1>5. CASE c.op = "set_hue_saturation"
  <2>1. Plan(c) = <<"hue", "saturation">> /\ DOMAIN c.args = {"hue", "saturation"}
      BY <1>1, <1>5 DEF Takes, Plan
  <2>2. Plan(c) \in Seq(S) /\ Len(Plan(c)) = 2
      BY <1>0, <2>1
  <2> QED
      BY <1>0, <1>5, <2>1, <2>2 DEF Colours, Params
<1>6. CASE c.op \notin {"set_light", "set_climate", "set_hue_saturation"}
  <2>1. c.op \in DOMAIN ParamOf /\ DOMAIN c.args = {ParamOf[c.op]}
      BY <1>1, <1>6 DEF Takes
  <2>2. Plan(c) = <<ParamOf[c.op]>>
      BY <1>6 DEF Plan
  <2>3. Plan(c) \in Seq(S) /\ Len(Plan(c)) = 1
      BY <1>0, <2>1, <2>2
  <2>4. ParamOf[c.op] \in Params \ {"hue", "saturation"}
        /\ (ParamOf[c.op] = "value" => c.op = "put_characteristic")
      BY <2>1 DEF ParamOf, Params
  <2> QED
      BY <1>0, <1>6, <2>1, <2>3, <2>4 DEF Colours, Params
<1> QED
    BY <1>3, <1>4, <1>5, <1>6

\* The characteristic of a write belongs to the entity's accessory, and is the first of its
\* kind there or that of the raw write.
LEMMA TargetIs ==
    ASSUME NEW r, r.order \in Orders, NEW p \in Targets(r)
    PROVE  /\ p \in Points /\ InfoOf[p].device = DeviceOf(r.order.entity)
           /\ r.order.op = "put_characteristic" => p = r.order.point
           /\ r.order.op # "put_characteristic" =>
                 LET ps == Bearers(DeviceOf(r.order.entity), Param(r))
                 IN  p = FirstOf(ps) /\ p \in ps /\ \A q \in ps : p <= q
<1> DEFINE c == r.order
           ps == Bearers(DeviceOf(c.entity), Plan(c)[r.n])
<1>1. CASE c.op = "put_characteristic"
  <2>1. p = c.point
      BY <1>1 DEF Targets
  <2> QED
      BY <1>1, <2>1, CommandsAssumption DEF IsOrder
<1>2. CASE c.op # "put_characteristic"
  <2>1. ps # {} /\ p = FirstOf(ps)
      BY <1>2 DEF Targets
  <2>2. ps \subseteq Points /\ \A q \in ps : InfoOf[q].device = DeviceOf(c.entity)
      BY DEF Bearers
  <2>3. p \in ps /\ \A q \in ps : p <= q
      BY <2>1, <2>2, FirstIs
  <2> QED
      BY <1>2, <2>1, <2>2, <2>3 DEF Param
<1> QED
    BY <1>1, <1>2

-----------------------------------------------------------------------------
(* Base. *)

Devs == {InfoOf[p].device : p \in Points}

\* A command between two writes.
Ready(r) ==
    /\ r \in Record /\ r.n \in 1 .. Len(Plan(r.order)) + 1
    /\ Len(r.told) = r.n - 1 /\ r.applied \subseteq 1 .. r.n - 1 /\ Answered(r)

\* What is known of a command that is not idle.
LEMMA TaskIs ==
    ASSUME Base, NEW t \in Tasks, task[t].pc # "idle"
    PROVE  task[t] \in Record /\ Sane(task[t])
<1>1. task[t] \in {Idle} \cup Record
    BY DEF Base, TypeOK
<1>2. task[t] # Idle
    BY DEF Idle
<1> QED
    BY <1>1, <1>2 DEF Base

LEMMA BusyIs ==
    ASSUME Base, NEW t \in Tasks, Busy(t)
    PROVE  /\ task[t] \in Record /\ Sane(task[t]) /\ task[t].order \in Orders
           /\ task[t].pc \in {"sent", "applied", "refused"}
           /\ task[t].n \in 1 .. Len(Plan(task[t].order)) /\ Len(task[t].told) = task[t].n - 1
<1>1. task[t].pc # "idle" /\ task[t].pc \in {"sent", "applied", "refused"}
    BY DEF Busy
<1>2. task[t] \in Record /\ Sane(task[t])
    BY <1>1, TaskIs
<1> QED
    BY <1>1, <1>2 DEF Base, TypeOK, Record

\* A step that replaces one command by a sound one.
LEMMA BaseStep ==
    ASSUME Base, NEW t \in Tasks, NEW u \in Record, task' = [task EXCEPT ![t] = u], Sane(u),
           u.pc \in {"sent", "applied", "refused"} =>
                u.n \in 1 .. Len(Plan(u.order)) /\ Len(u.told) = u.n - 1,
           UNCHANGED <<rule, allowed>>, value' \in [Points -> Int], calls' \in 0 .. MaxCalls,
           excused' \subseteq Devs
    PROVE  Base'
<1>1. task \in [Tasks -> {Idle} \cup Record]
    BY DEF Base, TypeOK
<1>2. task' \in [Tasks -> {Idle} \cup Record] /\ task'[t] = u
      /\ \A s \in Tasks \ {t} : task'[s] = task[s]
    BY <1>1
<1>3. ASSUME NEW s \in Tasks, task'[s].pc \in {"sent", "applied", "refused"}
      PROVE  task'[s].n \in 1 .. Len(Plan(task'[s].order)) /\ Len(task'[s].told) = task'[s].n - 1
  <2>1. CASE s = t
      BY <1>2, <1>3, <2>1
  <2>2. CASE s # t
      BY <1>2, <1>3, <2>2, BusyIs DEF Busy
  <2> QED
      BY <2>1, <2>2
<1>4. TypeOK'
  <2>1. rule' \in Rules /\ allowed' \subseteq {"writes", "raw"}
      BY DEF Base, TypeOK
  <2> QED
      BY <1>2, <1>3, <2>1 DEF TypeOK, Busy, Devs
<1>5. ASSUME NEW s \in Tasks, task'[s] # Idle
      PROVE  Sane(task'[s])
  <2>1. CASE s = t
      BY <1>2, <2>1
  <2>2. CASE s # t
      BY <1>2, <1>5, <2>2 DEF Base
  <2> QED
      BY <2>1, <2>2
<1> QED
    BY <1>4, <1>5 DEF Base

\* A command that ends, or goes on to its next write.
LEMMA EndIs ==
    ASSUME NEW r \in Record, NEW outcome \in Outcomes
    PROVE  LET u == [r EXCEPT !.pc = outcome] IN
           /\ u \in Record /\ u.pc = outcome /\ u.order = r.order /\ u.n = r.n
           /\ u.told = r.told /\ u.applied = r.applied
BY DEF Record

LEMMA NextIs ==
    ASSUME NEW r \in Record, NEW p \in Points
    PROVE  LET u == [r EXCEPT !.pc = "sent", !.point = p] IN
           /\ u \in Record /\ u.pc = "sent" /\ u.order = r.order /\ u.n = r.n /\ u.point = p
           /\ u.told = r.told /\ u.applied = r.applied
BY DEF Record

\* How a command goes on: with its next write, or to an end, after which a colour that was
\* not set as a whole is excused.
Follows(r, u) == u.order = r.order /\ u.n = r.n /\ u.told = r.told /\ u.applied = r.applied

HalfKnown(r, u) ==
    Colours(r.order) /\ (u.pc = "failed" \/ FALSE \in Range(r.told))
        => DeviceOf(r.order.entity) \in excused'

LEMMA EndsIs ==
    ASSUME NEW t \in Tasks, NEW r, Ready(r), NEW outcome \in Outcomes,
           outcome = "returned" => r.n > Len(Plan(r.order)),
           outcome = "blocked" => r.applied = {},
           NEW without \in SUBSET Devs, Ends(t, r, outcome, without)
    PROVE  /\ without \subseteq excused' /\ excused' \subseteq Devs
           /\ \E u \in Record :
                 /\ task' = [task EXCEPT ![t] = u] /\ u.pc = outcome /\ Follows(r, u) /\ Sane(u)
                 /\ HalfKnown(r, u)
<1> DEFINE u == [r EXCEPT !.pc = outcome]
<1>0. r \in Record /\ r.n \in 1 .. Len(Plan(r.order)) + 1 /\ Len(r.told) = r.n - 1
      /\ r.applied \subseteq 1 .. r.n - 1 /\ Answered(r)
    BY DEF Ready
<1>1. u \in Record /\ u.pc = outcome /\ Follows(r, u)
    BY <1>0, EndIs DEF Follows
<1>2. task' = [task EXCEPT ![t] = u]
    BY DEF Ends
<1>3. excused' = without \cup (IF HalfDone(r, outcome) THEN {DeviceOf(r.order.entity)} ELSE {})
    BY DEF Ends
<1>4. r.order \in Orders
    BY <1>0 DEF Record
<1>5. DeviceOf(r.order.entity) \in Devs
    BY <1>4, DeviceIs, CommandsAssumption DEF IsOrder, Devs
<1>6. without \subseteq excused' /\ excused' \subseteq Devs
    BY <1>3, <1>5
<1>7. HalfKnown(r, u)
    BY <1>1, <1>3 DEF HalfKnown, HalfDone
<1> HIDE DEF u
<1>8. Answered(u)
    BY <1>0, <1>1 DEF Answered, Follows
<1>9. outcome = "returned" => r.n = Len(Plan(r.order)) + 1
  <2>1. Len(Plan(r.order)) \in 0 .. 3
      BY <1>4, PlanIs
  <2> QED
      BY <1>0, <2>1
<1>10. Sane(u)
  <2>1. u.pc = "returned" => Len(u.told) = Len(Plan(u.order)) /\ u.applied \subseteq 1 .. Len(u.told)
    <3>1. Len(Plan(r.order)) \in 0 .. 3
        BY <1>4, PlanIs
    <3>2. ASSUME outcome = "returned"
          PROVE  Len(r.told) = Len(Plan(r.order)) /\ r.applied \subseteq 1 .. Len(r.told)
        BY <1>0, <1>9, <3>1, <3>2
    <3> QED
        BY <1>1, <3>2 DEF Follows
  <2> QED
      BY <1>1, <1>8, <2>1 DEF Sane, Outcomes, Follows
<1> QED
    BY <1>1, <1>2, <1>6, <1>7, <1>10

LEMMA ProceedsIs ==
    ASSUME NEW t \in Tasks, NEW r, Ready(r), NEW without \in SUBSET Devs, Proceeds(t, r, without)
    PROVE  /\ without \subseteq excused' /\ excused' \subseteq Devs
           /\ \E u \in Record :
                 /\ task' = [task EXCEPT ![t] = u] /\ Follows(r, u) /\ Sane(u)
                 /\ \/ u.pc = "sent" /\ u.n \in 1 .. Len(Plan(u.order)) /\ Len(u.told) = u.n - 1
                    \/ u.pc \in {"returned", "failed"} /\ HalfKnown(r, u)
<1>0. r \in Record /\ r.n \in 1 .. Len(Plan(r.order)) + 1 /\ Len(r.told) = r.n - 1
      /\ r.applied \subseteq 1 .. r.n - 1 /\ Answered(r) /\ r.order \in Orders
    BY DEF Ready, Record
<1>1. CASE r.n > Len(Plan(r.order)) /\ Ends(t, r, "returned", without)
  <2>1. "returned" \in Outcomes
      BY DEF Outcomes
  <2> QED
      BY <1>1, <2>1, EndsIs
<1>2. CASE Ends(t, r, "failed", without)
  <2>1. "failed" \in Outcomes
      BY DEF Outcomes
  <2> QED
      BY <1>2, <2>1, EndsIs
<1>3. ASSUME r.n <= Len(Plan(r.order)), Valid(r), NEW p \in Targets(r),
             task' = [task EXCEPT ![t] = [r EXCEPT !.pc = "sent", !.point = p]],
             excused' = without
      PROVE  /\ without \subseteq excused' /\ excused' \subseteq Devs
             /\ \E u \in Record :
                   /\ task' = [task EXCEPT ![t] = u] /\ Follows(r, u) /\ Sane(u)
                   /\ u.pc = "sent" /\ u.n \in 1 .. Len(Plan(u.order)) /\ Len(u.told) = u.n - 1
  <2> DEFINE u == [r EXCEPT !.pc = "sent", !.point = p]
  <2>1. p \in Points
      BY <1>0, TargetIs
  <2>2. u \in Record /\ u.pc = "sent" /\ u.point = p /\ Follows(r, u)
      BY <1>0, <2>1, NextIs DEF Follows
  <2>3. task' = [task EXCEPT ![t] = u]
      BY <1>3
  <2> HIDE DEF u
  <2>4. Len(Plan(r.order)) \in 0 .. 3
      BY <1>0, PlanIs
  <2>5. u.n \in 1 .. Len(Plan(u.order)) /\ Len(u.told) = u.n - 1
      BY <1>0, <1>3, <2>2, <2>4 DEF Follows
  <2>6. Answered(u) /\ u.applied \subseteq 1 .. u.n /\ u.n \notin u.applied
      BY <1>0, <2>2, <2>4 DEF Answered, Follows
  <2>7. Valid(u) /\ u.point \in Targets(u)
      BY <1>3, <2>2 DEF Valid, Targets, Follows
  <2>8. Sane(u)
      BY <2>2, <2>6, <2>7 DEF Sane
  <2> QED
      BY <1>3, <2>2, <2>3, <2>5, <2>8
<1>4. \/ r.n > Len(Plan(r.order)) /\ Ends(t, r, "returned", without)
      \/ Ends(t, r, "failed", without)
      \/ /\ r.n <= Len(Plan(r.order)) /\ Valid(r) /\ excused' = without
         /\ \E p \in Targets(r) : task' = [task EXCEPT ![t] = [r EXCEPT !.pc = "sent", !.point = p]]
    BY DEF Proceeds
<1>5. CASE /\ r.n <= Len(Plan(r.order)) /\ Valid(r) /\ excused' = without
           /\ \E p \in Targets(r) : task' = [task EXCEPT ![t] = [r EXCEPT !.pc = "sent", !.point = p]]
  <2>1. PICK p \in Targets(r) : task' = [task EXCEPT ![t] = [r EXCEPT !.pc = "sent", !.point = p]]
      BY <1>5
  <2> QED
      BY <1>3, <1>5, <2>1
<1> QED
    BY <1>1, <1>2, <1>4, <1>5

LEMMA Appended ==
    ASSUME NEW s \in Seq(BOOLEAN), NEW x \in BOOLEAN, NEW n \in Nat, Len(s) = n - 1
    PROVE  /\ Append(s, x) \in Seq(BOOLEAN) /\ Len(Append(s, x)) = n /\ Append(s, x)[n] = x
           /\ \A i \in 1 .. n - 1 : Append(s, x)[i] = s[i]
BY AppendProperties

\* A command that has the answer to its write is ready for the next.
LEMMA ReadyIs ==
    ASSUME Base, NEW t \in Tasks, task[t].pc \in {"applied", "refused"}
    PROVE  LET r == [task[t] EXCEPT !.told = Told(@, Success(task[t])), !.n = @ + 1] IN
           Ready(r) /\ r.order = task[t].order /\ r.applied = task[t].applied
<1> DEFINE b == task[t]
           told == Append(b.told, b.pc = "applied")
           r == [b EXCEPT !.told = told, !.n = b.n + 1]
<1>1. Busy(t)
    BY DEF Busy
<1>2. /\ b \in Record /\ Sane(b) /\ b.order \in Orders /\ b.pc \in {"applied", "refused"}
      /\ b.n \in 1 .. Len(Plan(b.order)) /\ Len(b.told) = b.n - 1
    BY <1>1, BusyIs
<1>3. [task[t] EXCEPT !.told = Told(@, Success(task[t])), !.n = @ + 1] = r
    BY <1>2 DEF Told, Success, Record
<1> HIDE DEF b
<1>4. Len(Plan(b.order)) \in 0 .. 3
    BY <1>2, PlanIs
<1>5. b.told \in Seq(BOOLEAN) /\ b.n \in Nat
    BY <1>2 DEF Record
<1>6. PICK success \in BOOLEAN : success <=> b.pc = "applied"
    OBVIOUS
<1>7. (b.pc = "applied") = success
    BY <1>6
<1>8. told = Append(b.told, success)
    BY <1>7
<1>9. /\ told \in Seq(BOOLEAN) /\ Len(told) = b.n /\ told[b.n] = success
      /\ \A i \in 1 .. b.n - 1 : told[i] = b.told[i]
    BY <1>2, <1>5, <1>8, Appended
<1> HIDE DEF told
<1>10. /\ r \in Record /\ r.told = told /\ r.n = b.n + 1 /\ r.order = b.order
       /\ r.applied = b.applied
  <2>1. PICK n \in Nat : n = b.n + 1
      BY <1>5
  <2>2. r = [b EXCEPT !.told = told, !.n = n]
      BY <2>1
  <2> HIDE DEF r
  <2>3. r \in Record /\ r.told = told /\ r.n = n /\ r.order = b.order /\ r.applied = b.applied
      BY <1>2, <1>9, <2>2 DEF Record
  <2> QED
      BY <2>1, <2>3
<1> HIDE DEF r
<1>11. /\ b.applied \subseteq 1 .. b.n /\ (b.n \in b.applied <=> success)
       /\ \A i \in 1 .. b.n - 1 : b.told[i] <=> i \in b.applied
    BY <1>2, <1>6 DEF Sane, Answered
<1>12. Answered(r)
  <2>1. ASSUME NEW i \in 1 .. b.n
        PROVE  told[i] <=> i \in b.applied
    <3>1. CASE i = b.n
        BY <1>9, <1>11, <3>1
    <3>2. CASE i # b.n
        BY <1>5, <1>9, <1>11, <3>2
    <3> QED
        BY <3>1, <3>2
  <2> QED
      BY <1>9, <1>10, <2>1 DEF Answered
<1>13. r.n \in 1 .. Len(Plan(r.order)) + 1 /\ Len(r.told) = r.n - 1 /\ r.applied \subseteq 1 .. r.n - 1
    BY <1>2, <1>4, <1>9, <1>10, <1>11
<1>14. Ready(r) /\ r.order = b.order /\ r.applied = b.applied
    BY <1>10, <1>12, <1>13 DEF Ready
<1> QED
    BY <1>3, <1>14 DEF b

\* What the steps of a command do to it.
LEMMA CallIs ==
    ASSUME Base, NEW t \in Tasks, Call(t)
    PROVE  /\ ~Busy(t) /\ excused \subseteq excused' /\ excused' \subseteq Devs
           /\ \E c \in Orders, u \in Record :
                 /\ task' = [task EXCEPT ![t] = u] /\ u.order = c /\ u.applied = {} /\ Sane(u)
                 /\ \/ /\ u.pc = "sent" /\ u.n \in 1 .. Len(Plan(u.order)) /\ Len(u.told) = u.n - 1
                       /\ KeyFree(c) /\ (Disturbs(c) => DeviceOf(c.entity) \in excused')
                    \/ u.pc \in Outcomes
<1> DEFINE New(c) == [pc |-> "sent", order |-> c, n |-> 1, point |-> NoPoint, told |-> <<>>,
                      applied |-> {}]
           Without(c) == IF Disturbs(c) THEN excused \cup {DeviceOf(c.entity)} ELSE excused
<1>1. PICK c \in Orders :
         KeyFree(c) /\ (Ends(t, New(c), "blocked", excused) \/ Proceeds(t, New(c), Without(c)))
    BY DEF Call
<1> DEFINE r == New(c)
           without == Without(c)
<1>2. Ready(r) /\ r.order = c /\ r.applied = {}
  <2>1. r \in Record /\ r.n = 1 /\ r.told = <<>> /\ r.applied = {} /\ r.order = c
      BY DEF Record
  <2>2. Len(Plan(c)) \in 0 .. 3 /\ Len(<<>>) = 0
      BY PlanIs
  <2> HIDE DEF New
  <2>3. Answered(r)
      BY <2>1 DEF Answered
  <2> QED
      BY <2>1, <2>2, <2>3 DEF Ready
<1>3. excused \subseteq Devs
    BY DEF Base, TypeOK, Devs
<1>4. without \subseteq Devs /\ excused \subseteq without
      /\ (Disturbs(c) => DeviceOf(c.entity) \in without)
  <2>1. DeviceOf(c.entity) \in Devs
      BY DeviceIs, CommandsAssumption DEF IsOrder, Devs
  <2> QED
      BY <1>3, <2>1
<1>5. ~Busy(t)
    BY DEF Call
<1> HIDE DEF New, Without, r, without
<1>6. CASE Ends(t, New(c), "blocked", excused)
  <2>1. Ends(t, r, "blocked", excused) /\ "blocked" \in Outcomes
      BY <1>6 DEF r, Outcomes
  <2>2. excused \subseteq excused' /\ excused' \subseteq Devs
      BY <1>2, <1>3, <2>1, EndsIs
  <2>3. PICK u \in Record : task' = [task EXCEPT ![t] = u] /\ u.pc = "blocked" /\ Follows(r, u) /\ Sane(u)
      BY <1>2, <1>3, <2>1, EndsIs
  <2>4. u.order = c /\ u.applied = {} /\ u.pc \in Outcomes
      BY <1>2, <2>1, <2>3 DEF Follows
  <2> QED
      BY <1>5, <2>2, <2>3, <2>4
<1>7. CASE Proceeds(t, New(c), Without(c))
  <2>1. Proceeds(t, r, without)
      BY <1>7 DEF r, without
  <2>2. without \subseteq excused' /\ excused' \subseteq Devs
      BY <1>2, <1>4, <2>1, ProceedsIs
  <2>3. PICK u \in Record :
           /\ task' = [task EXCEPT ![t] = u] /\ Follows(r, u) /\ Sane(u)
           /\ \/ u.pc = "sent" /\ u.n \in 1 .. Len(Plan(u.order)) /\ Len(u.told) = u.n - 1
              \/ u.pc \in {"returned", "failed"}
      BY <1>2, <1>4, <2>1, ProceedsIs
  <2>4. u.order = c /\ u.applied = {}
      BY <1>2, <2>3 DEF Follows
  <2>5. u.pc \in {"returned", "failed"} => u.pc \in Outcomes
      BY DEF Outcomes
  <2> QED
      BY <1>1, <1>4, <1>5, <2>2, <2>3, <2>4, <2>5
<1> QED
    BY <1>1, <1>6, <1>7

LEMMA ReturnIs ==
    ASSUME Base, NEW t \in Tasks, WriteReturns(t)
    PROVE  /\ excused \subseteq excused' /\ excused' \subseteq Devs
           /\ \E u \in Record :
                 /\ task' = [task EXCEPT ![t] = u] /\ Sane(u)
                 /\ u.order = task[t].order /\ u.applied = task[t].applied
                 /\ \/ u.pc = "sent" /\ u.n \in 1 .. Len(Plan(u.order)) /\ Len(u.told) = u.n - 1
                    \/ u.pc \in {"returned", "failed"} /\ HalfKnown(u, u)
<1> DEFINE r == [task[t] EXCEPT !.told = Told(@, Success(task[t])), !.n = @ + 1]
<1>1. Ready(r) /\ r.order = task[t].order /\ r.applied = task[t].applied
    BY ReadyIs DEF WriteReturns
<1>2. Proceeds(t, r, excused)
    BY DEF WriteReturns
<1>3. excused \subseteq Devs
    BY DEF Base, TypeOK, Devs
<1> HIDE DEF r
<1>4. excused \subseteq excused' /\ excused' \subseteq Devs
    BY <1>1, <1>2, <1>3, ProceedsIs
<1>5. PICK u \in Record :
         /\ task' = [task EXCEPT ![t] = u] /\ Follows(r, u) /\ Sane(u)
         /\ \/ u.pc = "sent" /\ u.n \in 1 .. Len(Plan(u.order)) /\ Len(u.told) = u.n - 1
            \/ u.pc \in {"returned", "failed"} /\ HalfKnown(r, u)
    BY <1>1, <1>2, <1>3, ProceedsIs
<1>6. HalfKnown(r, u) => HalfKnown(u, u)
    BY <1>5 DEF HalfKnown, Follows
<1> QED
    BY <1>1, <1>4, <1>5, <1>6 DEF Follows

\* A command that raises.
LEMMA RaiseIs ==
    ASSUME Base, NEW t \in Tasks, WriteRaises(t)
    PROVE  /\ excused \subseteq excused' /\ excused' \subseteq Devs
           /\ \E u \in Record :
                 /\ task' = [task EXCEPT ![t] = u] /\ Sane(u)
                 /\ u.order = task[t].order /\ u.applied = task[t].applied
                 /\ u.pc = "failed" /\ HalfKnown(u, u)
<1> DEFINE r == task[t]
           u == [r EXCEPT !.pc = "failed"]
<1>1. Busy(t) /\ Ends(t, r, "failed", excused)
    BY DEF WriteRaises
<1>2. r \in Record /\ Sane(r) /\ r.order \in Orders /\ r.pc \in {"sent", "applied", "refused"}
    BY <1>1, BusyIs
<1>3. "failed" \in Outcomes
    BY DEF Outcomes
<1>4. u \in Record /\ u.pc = "failed" /\ Follows(r, u)
    BY <1>2, <1>3, EndIs DEF Follows
<1>5. task' = [task EXCEPT ![t] = u]
      /\ excused' = excused \cup (IF HalfDone(r, "failed") THEN {DeviceOf(r.order.entity)} ELSE {})
    BY <1>1 DEF Ends
<1>6. DeviceOf(r.order.entity) \in Devs
    BY <1>2, DeviceIs, CommandsAssumption DEF IsOrder, Devs
<1>7. excused \subseteq excused' /\ excused' \subseteq Devs
    BY <1>5, <1>6 DEF Base, TypeOK, Devs
<1> HIDE DEF r, u
<1>8. HalfKnown(u, u)
    BY <1>4, <1>5 DEF HalfKnown, HalfDone, Follows
<1>9. Sane(u)
    BY <1>2, <1>4 DEF Sane, Answered, Follows
<1> QED
    BY <1>4, <1>5, <1>7, <1>8, <1>9 DEF Follows, r

\* An accessory takes a write, or does not.
LEMMA AppliesIs ==
    ASSUME Base, NEW t \in Tasks, Applies(t)
    PROVE  /\ Busy(t) /\ task[t].point \in Points /\ Sent(task[t]) \in Int
           /\ value' = [value EXCEPT ![task[t].point] = Sent(task[t])]
           /\ \E u \in Record :
                 /\ task' = [task EXCEPT ![t] = u] /\ Sane(u) /\ u.pc = "applied"
                 /\ u.order = task[t].order /\ u.applied = task[t].applied \cup {task[t].n}
                 /\ u.n \in 1 .. Len(Plan(u.order)) /\ Len(u.told) = u.n - 1
<1> DEFINE r == task[t]
           taken == r.applied \cup {r.n}
           u == [r EXCEPT !.pc = "applied", !.applied = taken]
<1>1. Busy(t)
    BY DEF Applies, Busy
<1>2. /\ r \in Record /\ Sane(r) /\ r.order \in Orders /\ r.pc = "sent"
      /\ r.n \in 1 .. Len(Plan(r.order)) /\ Len(r.told) = r.n - 1
    BY <1>1, BusyIs DEF Applies
<1>3. Len(Plan(r.order)) \in 0 .. 3
    BY <1>2, PlanIs
<1>4. task \in [Tasks -> {Idle} \cup Record]
    BY DEF Base, TypeOK
<1>5. task' = [task EXCEPT ![t] = u]
    BY <1>2, <1>4 DEF Applies, Record
<1>6. taken \subseteq 1 .. 3 /\ taken \subseteq 1 .. r.n /\ r.n \in taken
  <2>1. r.n \in 1 .. 3
    <3>1. PICK len \in 0 .. 3 : len = Len(Plan(r.order))
        BY <1>3
    <3>2. r.n \in 1 .. len
        BY <1>2, <3>1
    <3> QED
        BY <3>2
  <2>2. r.applied \subseteq 1 .. r.n /\ r.applied \subseteq 1 .. 3
      BY <1>2 DEF Sane, Record
  <2> QED
      BY <2>1, <2>2
<1>7. /\ u \in Record /\ u.pc = "applied" /\ u.order = r.order /\ u.n = r.n /\ u.told = r.told
      /\ u.applied = taken /\ u.point = r.point
    BY <1>2, <1>6 DEF Record
<1>8. r.point \in Targets(r) /\ Valid(r) /\ r.point \in Points
    BY <1>2, TargetIs DEF Sane
<1>9. Sent(r) \in Int
  <2>1. Plan(r.order) \in Seq(DOMAIN r.order.args)
      BY <1>2, PlanIs
  <2>2. Param(r) \in DOMAIN r.order.args
      BY <1>2, <1>3, <2>1 DEF Param
  <2>3. r.order.args[Param(r)] \in Int
      BY <1>2, <2>2, CommandsAssumption DEF IsOrder
  <2>4. Param(r) = "kelvin" => r.order.args[Param(r)] > 0
      BY <1>8 DEF Valid, Param
  <2> QED
      BY <1>8, <2>3, <2>4, CoercedIs DEF Sent
<1>10. value' = [value EXCEPT ![task[t].point] = Sent(task[t])]
    BY DEF Applies
<1> HIDE DEF u, taken
<1>11. Sane(u)
  <2>1. Answered(u)
    <3>1. \A i \in 1 .. r.n - 1 : i \in taken <=> i \in r.applied
        BY <1>2 DEF taken
    <3> QED
        BY <1>2, <1>7, <3>1 DEF Sane, Answered
  <2>2. Valid(u) /\ u.point \in Targets(u)
      BY <1>7, <1>8 DEF Valid, Targets
  <2> QED
      BY <1>6, <1>7, <2>1, <2>2 DEF Sane
<1> QED
    BY <1>1, <1>2, <1>5, <1>7, <1>8, <1>9, <1>10, <1>11 DEF taken

LEMMA RefusesIs ==
    ASSUME Base, NEW t \in Tasks, Refuses(t)
    PROVE  Busy(t) /\ \E u \in Record :
              /\ task' = [task EXCEPT ![t] = u] /\ Sane(u) /\ u.pc = "refused"
              /\ u.order = task[t].order /\ u.applied = task[t].applied
              /\ u.n \in 1 .. Len(Plan(u.order)) /\ Len(u.told) = u.n - 1
<1> DEFINE r == task[t]
           u == [r EXCEPT !.pc = "refused"]
<1>1. Busy(t)
    BY DEF Refuses, Busy
<1>2. /\ r \in Record /\ Sane(r) /\ r.pc = "sent"
      /\ r.n \in 1 .. Len(Plan(r.order)) /\ Len(r.told) = r.n - 1
    BY <1>1, BusyIs DEF Refuses
<1>3. task' = [task EXCEPT ![t] = u]
    BY DEF Refuses
<1>4. /\ u \in Record /\ u.pc = "refused" /\ u.order = r.order /\ u.n = r.n /\ u.told = r.told
      /\ u.applied = r.applied /\ u.point = r.point
    BY <1>2 DEF Record
<1> HIDE DEF u
<1>5. Sane(u)
    BY <1>2, <1>4 DEF Sane, Answered, Valid, Targets
<1> QED
    BY <1>1, <1>2, <1>3, <1>4, <1>5

LEMMA BaseNext ==
    ASSUME Base, [Next]_vars
    PROVE  Base'
<1>1. value \in [Points -> Int] /\ calls \in 0 .. MaxCalls /\ excused \subseteq Devs
    BY DEF Base, TypeOK, Devs
<1>2. ASSUME NEW t \in Tasks, Call(t)
      PROVE  Base'
  <2>1. calls' \in 0 .. MaxCalls
      BY <1>1, <1>2, CommandsAssumption DEF Call
  <2>2. UNCHANGED <<rule, allowed, value>>
      BY <1>2 DEF Call
  <2>3. excused' \subseteq Devs /\ \E u \in Record :
           /\ task' = [task EXCEPT ![t] = u] /\ Sane(u)
           /\ \/ u.pc = "sent" /\ u.n \in 1 .. Len(Plan(u.order)) /\ Len(u.told) = u.n - 1
              \/ u.pc \in Outcomes
      BY <1>2, CallIs
  <2> QED
      BY <1>1, <2>1, <2>2, <2>3, BaseStep DEF Outcomes
<1>3. ASSUME NEW t \in Tasks, WriteReturns(t)
      PROVE  Base'
  <2>1. UNCHANGED <<rule, allowed, value, calls>>
      BY <1>3 DEF WriteReturns
  <2>2. excused' \subseteq Devs /\ \E u \in Record :
           /\ task' = [task EXCEPT ![t] = u] /\ Sane(u)
           /\ \/ u.pc = "sent" /\ u.n \in 1 .. Len(Plan(u.order)) /\ Len(u.told) = u.n - 1
              \/ u.pc \in {"returned", "failed"}
      BY <1>3, ReturnIs
  <2> QED
      BY <1>1, <2>1, <2>2, BaseStep
<1>4. ASSUME NEW t \in Tasks, WriteRaises(t)
      PROVE  Base'
  <2>1. UNCHANGED <<rule, allowed, value, calls>>
      BY <1>4 DEF WriteRaises
  <2> QED
      BY <1>1, <1>4, <2>1, RaiseIs, BaseStep
<1>5. ASSUME NEW t \in Tasks, Applies(t)
      PROVE  Base'
  <2>1. UNCHANGED <<rule, allowed, calls, excused>>
      BY <1>5 DEF Applies
  <2>2. value' \in [Points -> Int]
      BY <1>1, <1>5, AppliesIs
  <2> QED
      BY <1>1, <1>5, <2>1, <2>2, AppliesIs, BaseStep
<1>6. ASSUME NEW t \in Tasks, Refuses(t)
      PROVE  Base'
  <2>1. UNCHANGED <<rule, allowed, value, calls, excused>>
      BY <1>6 DEF Refuses
  <2> QED
      BY <1>1, <1>6, <2>1, RefusesIs, BaseStep
<1>7. CASE UNCHANGED vars
    BY <1>7 DEF vars, Base, TypeOK, Busy
<1> QED
    BY <1>2, <1>3, <1>4, <1>5, <1>6, <1>7 DEF Next

LEMMA BaseInit ==
    ASSUME Init
    PROVE  Base
<1>1. \A t \in Tasks : task[t] = Idle /\ task[t].pc = "idle"
    BY DEF Init, Idle
<1> QED
    BY <1>1, CommandsAssumption DEF Init, Base, TypeOK, Busy

-----------------------------------------------------------------------------
(* What Base says of the properties. *)

LEMMA BaseOutcome ==
    ASSUME Base
    PROVE  OutcomeTrue
<1> SUFFICES ASSUME NEW t \in Tasks
             PROVE  LET r == task[t] IN
                    /\ r.pc = "returned" /\ Reported(r) = {TRUE} =>
                          \/ r.applied = 1 .. Len(Plan(r.order))
                          \/ Colours(r.order) /\ r.applied = {2}
                    /\ r.pc = "returned" => \A i \in DOMAIN r.told : ~r.told[i] => i \notin r.applied
                    /\ r.pc = "blocked" => r.applied = {}
    BY DEF OutcomeTrue
<1> DEFINE r == task[t]
<1>1. r.pc = "blocked" => r.applied = {}
    BY TaskIs DEF Sane
<1>2. ASSUME r.pc = "returned"
      PROVE  /\ Reported(r) = {TRUE} => \/ r.applied = 1 .. Len(Plan(r.order))
                                        \/ Colours(r.order) /\ r.applied = {2}
             /\ \A i \in DOMAIN r.told : ~r.told[i] => i \notin r.applied
  <2>1. r \in Record /\ Sane(r)
      BY <1>2, TaskIs
  <2>2. r.told \in Seq(BOOLEAN) /\ r.order \in Orders /\ DOMAIN r.told = 1 .. Len(r.told)
      BY <2>1 DEF Record
  <2>3. /\ Len(r.told) = Len(Plan(r.order)) /\ r.applied \subseteq 1 .. Len(r.told)
        /\ \A i \in 1 .. Len(r.told) : r.told[i] <=> i \in r.applied
      BY <1>2, <2>1 DEF Sane, Answered
  <2>4. CASE Colours(r.order)
    <3>1. Len(Plan(r.order)) = 2
        BY <2>2, <2>4, PlanIs
    <3>2. Reported(r) = {TRUE} => r.told[2] = TRUE
        BY <2>3, <2>4, <3>1 DEF Reported
    <3>3. Reported(r) = {TRUE} => 2 \in r.applied
        BY <2>3, <3>1, <3>2
    <3>4. r.applied \subseteq {1, 2} /\ 1 .. Len(Plan(r.order)) = {1, 2}
        BY <2>3, <3>1
    <3> QED
        BY ZenonT(60), <2>2, <2>3, <2>4, <3>3, <3>4
  <2>5. CASE ~Colours(r.order)
    <3>1. Reported(r) = {TRUE} => \A i \in 1 .. Len(r.told) : r.told[i] = TRUE
        BY <2>2, <2>5 DEF Reported, Range
    <3>2. Reported(r) = {TRUE} => r.applied = 1 .. Len(Plan(r.order))
        BY <2>3, <3>1
    <3> QED
        BY <2>2, <2>3, <3>2
  <2> QED
      BY <2>4, <2>5
<1> QED
    BY <1>1, <1>2

LEMMA BaseRange ==
    ASSUME Base
    PROVE  SentInRange
<1> SUFFICES ASSUME NEW t \in Tasks, task[t].pc = "sent", Param(task[t]) \notin {"on", "value"}
             PROVE  LET r == task[t]
                        i == InfoOf[r.point]
                        arg == r.order.args[Param(r)]
                        scale == IF Param(r) = "kelvin" THEN arg ELSE 1
                        asked == IF Param(r) = "kelvin" THEN 2 * 1000000 ELSE arg
                    IN  /\ Sent(r) \in i.low .. i.high /\ (i.whole => IsWhole(Sent(r)))
                        /\ asked \in scale * i.low .. scale * i.high =>
                              scale * Sent(r) - asked \in -scale .. scale
    BY DEF SentInRange
<1> DEFINE r == task[t]
           arg == r.order.args[Param(r)]
           low == InfoOf[r.point].low
           high == InfoOf[r.point].high
<1>1. Busy(t)
    BY DEF Busy
<1>2. /\ r \in Record /\ Sane(r) /\ r.order \in Orders /\ r.pc = "sent"
      /\ r.n \in 1 .. Len(Plan(r.order))
    BY <1>1, BusyIs
<1>3. r.point \in Targets(r) /\ Valid(r) /\ r.point \in Points
    BY <1>2, TargetIs DEF Sane
<1>4. Param(r) \in DOMAIN r.order.args
  <2>1. Plan(r.order) \in Seq(DOMAIN r.order.args)
      BY <1>2, PlanIs
  <2> QED
      BY <1>2, <2>1 DEF Param
<1>5. arg \in Int /\ (Param(r) = "kelvin" => arg > 0)
    BY <1>2, <1>3, <1>4, CommandsAssumption DEF IsOrder, Valid, Param
<1>6. low \in Int /\ high \in Int
    BY <1>3, Bounds
<1>7. /\ Sent(r) \in low .. high /\ Sent(r) \in Int
      /\ InfoOf[r.point].whole => IsWhole(Sent(r))
      /\ Param(r) # "kelvin" /\ arg \in low .. high => Sent(r) - arg \in -1 .. 1
      /\ Param(r) = "kelvin" /\ 2000000 \in arg * low .. arg * high
            => arg * Sent(r) - 2000000 \in -arg .. arg
    BY <1>3, <1>5, CoercedIs DEF Sent
<1>8. 2 * 1000000 = 2000000 /\ 1 * low = low /\ 1 * high = high /\ 1 * Sent(r) = Sent(r)
    BY <1>6, <1>7
<1> QED
    BY <1>7, <1>8

LEMMA BaseService ==
    ASSUME Base
    PROVE  ReachesOwnService
<1> SUFFICES ASSUME NEW t \in Tasks, task[t].pc = "sent",
                    task[t].order.op # "put_characteristic",
                    NEW own, own = ServiceOf[task[t].order.entity],
                    NEW ps, ps = Bearers(DeviceOf(task[t].order.entity), Param(task[t])),
                    NEW q \in ps, InfoOf[q].service = own,
                    \A s \in {InfoOf[p].service : p \in ps} : own <= s
             PROVE  InfoOf[task[t].point].service = own
    BY DEF ReachesOwnService
<1> DEFINE r == task[t]
<1>1. Busy(t)
    BY DEF Busy
<1>2. Sane(r) /\ r.order \in Orders /\ r.pc = "sent"
    BY <1>1, BusyIs
<1>3. r.point \in ps /\ \A p \in ps : r.point <= p
    BY <1>2, TargetIs DEF Sane
<1>4. ps \subseteq Points /\ \A p \in ps : InfoOf[p].device = DeviceOf(r.order.entity)
    BY DEF Bearers
<1>5. /\ r.point \in Nat /\ q \in Nat /\ InfoOf[q].service \in Nat
      /\ InfoOf[r.point].service \in Nat
    BY <1>3, <1>4, Bounds DEF Info
<1>6. InfoOf[r.point].service <= InfoOf[q].service
  <2>1. CASE r.point = q
      BY <1>5, <2>1
  <2>2. CASE r.point < q
      BY <1>3, <1>4, <2>2, CommandsAssumption
  <2> QED
      BY <1>3, <1>5, <2>1, <2>2
<1> QED
    BY SMTT(60), <1>3, <1>5, <1>6

-----------------------------------------------------------------------------
(* Colours. *)

\* The characteristics of a lamp's colour.
LEMMA LampIs ==
    ASSUME NEW d, Lamp(d)
    PROVE  /\ HuePoint(d) \in Points /\ SaturationPoint(d) \in Points
           /\ InfoOf[HuePoint(d)].char = "Hue" /\ InfoOf[SaturationPoint(d)].char = "Saturation"
           /\ InfoOf[HuePoint(d)].device = d /\ InfoOf[SaturationPoint(d)].device = d
           /\ HuePoint(d) # SaturationPoint(d)
<1>1. HuePoint(d) \in Bearers(d, "hue") /\ SaturationPoint(d) \in Bearers(d, "saturation")
  <2>1. Bearers(d, "hue") \subseteq Points /\ Bearers(d, "saturation") \subseteq Points
      BY DEF Bearers
  <2> QED
      BY <2>1, FirstIs DEF Lamp, HuePoint, SaturationPoint
<1>2. AliasSpec("hue").char = "Hue" /\ AliasSpec("saturation").char = "Saturation"
    BY DEF AliasSpec
<1>3. /\ HuePoint(d) \in Points /\ SaturationPoint(d) \in Points
      /\ InfoOf[HuePoint(d)].char = "Hue" /\ InfoOf[SaturationPoint(d)].char = "Saturation"
      /\ InfoOf[HuePoint(d)].device = d /\ InfoOf[SaturationPoint(d)].device = d
    BY <1>1, <1>2 DEF Bearers
<1> QED
    BY <1>3

\* Only a colour and a raw write reach a hue or a saturation.
LEMMA ReachesColour ==
    ASSUME NEW r, r.order \in Orders, r.n \in 1 .. Len(Plan(r.order)), NEW p \in Targets(r),
           r.order.op # "put_characteristic", InfoOf[p].char \in {"Hue", "Saturation"}
    PROVE  Colours(r.order)
<1>1. p \in Bearers(DeviceOf(r.order.entity), Param(r))
    BY TargetIs
<1>2. Param(r) \in DOMAIN r.order.args
  <2>1. Plan(r.order) \in Seq(DOMAIN r.order.args)
      BY PlanIs
  <2> QED
      BY <2>1 DEF Param
<1>3. Param(r) \in Params \ {"value"}
    BY <1>2, PlanIs
<1>4. AliasSpec(Param(r)).char \in {"Hue", "Saturation"}
    BY <1>1 DEF Bearers
<1>5. Param(r) \in {"hue", "saturation"}
    BY <1>3, <1>4 DEF Params, AliasSpec
<1> QED
    BY <1>2, <1>5, PlanIs

\* Of a lamp at rest, one command leaves, and what it asked for is shown.
LEMMA Asked ==
    ASSUME NEW d, NEW c \in Orders, Colours(c), DeviceOf(c.entity) = d,
           value[HuePoint(d)] = Coerced("hue", c.args["hue"], HuePoint(d)),
           value[SaturationPoint(d)] = Coerced("saturation", c.args["saturation"], SaturationPoint(d))
    PROVE  Shown(d) \in Pairs(d)
BY DEF Shown, Pairs

\* A command of the lamps stays, in another stage, as far as it was.
LEMMA ColourStays ==
    ASSUME IInv, NEW t \in Tasks, NEW u \in Record, task' = [task EXCEPT ![t] = u],
           Busy(t), u.pc \in {"sent", "applied", "refused"},
           u.order = task[t].order, u.applied = task[t].applied,
           value' = value, excused \subseteq excused'
    PROVE  ColourInv'
<1>1. task \in [Tasks -> {Idle} \cup Record]
    BY DEF IInv, Base, TypeOK
<1>2. \A s \in Tasks : /\ Busy(s)' <=> Busy(s)
                       /\ Busy(s) => /\ task'[s].order = task[s].order
                                     /\ task'[s].applied = task[s].applied
    BY <1>1 DEF Busy
<1>3. \A d : Colouring(d)' = Colouring(d)
    BY <1>2 DEF Colouring
<1>4. \A d : Colouring(d) \subseteq {s \in Tasks : Busy(s)}
    BY DEF Colouring
<1> SUFFICES ASSUME NEW d \in Devs \ excused', Lamp(d)
             PROVE  Coloured(d)'
    BY DEF ColourInv, Devs
<1>5. Coloured(d)
    BY DEF IInv, ColourInv, Devs
<1>6. Alone(d)'
    BY <1>3, <1>5 DEF Alone, Coloured
<1>7. Raw(d)'
    BY <1>2, <1>5 DEF Raw, Coloured
<1>8. Rest(d)'
    BY <1>3, <1>5 DEF Rest, Shown, Coloured
<1>9. Midway(d)'
    BY <1>2, <1>3, <1>4, <1>5 DEF Midway, Coloured
<1> QED
    BY <1>6, <1>7, <1>8, <1>9 DEF Coloured

\* A command ends.
LEMMA ColourEnds ==
    ASSUME IInv, NEW t \in Tasks, NEW u \in Record, task' = [task EXCEPT ![t] = u],
           u.pc \in Outcomes, value' = value, excused \subseteq excused',
           Busy(t) => u.order = task[t].order /\ u.applied = task[t].applied,
           Busy(t) /\ Colours(u.order) => DeviceOf(u.order.entity) \in excused' \/ {1, 2} \subseteq u.applied
    PROVE  ColourInv'
<1>1. task \in [Tasks -> {Idle} \cup Record]
    BY DEF IInv, Base, TypeOK
<1>2. ~Busy(t)' /\ \A s \in Tasks \ {t} : task'[s] = task[s] /\ (Busy(s)' <=> Busy(s))
    BY <1>1 DEF Busy, Outcomes
<1>3. \A d : Colouring(d)' = Colouring(d) \ {t}
    BY <1>2 DEF Colouring
<1>4. \A d : Colouring(d) \subseteq Tasks
    BY DEF Colouring
<1> SUFFICES ASSUME NEW d \in Devs \ excused', Lamp(d)
             PROVE  Coloured(d)'
    BY DEF ColourInv, Devs
<1>5. Coloured(d)
    BY DEF IInv, ColourInv, Devs
<1>6. Alone(d)'
    BY <1>3, <1>5 DEF Alone, Coloured
<1>7. Raw(d)'
    BY <1>2, <1>5 DEF Raw, Coloured
<1>8. Rest(d)'
  <2> SUFFICES ASSUME Colouring(d)' = {}
               PROVE  Shown(d) \in Pairs(d)
      BY DEF Rest, Shown
  <2>1. CASE t \notin Colouring(d)
      BY <1>3, <1>5, <2>1 DEF Rest, Coloured
  <2>2. CASE t \in Colouring(d)
    <3>1. Busy(t) /\ Colours(task[t].order) /\ DeviceOf(task[t].order.entity) = d
        BY <2>2 DEF Colouring
    <3>2. {1, 2} \subseteq task[t].applied
        BY <3>1
    <3>3. task[t].order \in Orders
        BY <3>1, BusyIs DEF IInv
    <3>4. /\ value[HuePoint(d)] = Coerced("hue", task[t].order.args["hue"], HuePoint(d))
          /\ value[SaturationPoint(d)]
                = Coerced("saturation", task[t].order.args["saturation"], SaturationPoint(d))
        BY <1>5, <2>2, <3>2 DEF Midway, Coloured
    <3> QED
        BY <3>1, <3>3, <3>4, Asked
  <2> QED
      BY <2>1, <2>2
<1>9. Midway(d)'
    BY <1>2, <1>3, <1>4, <1>5 DEF Midway, Coloured
<1> QED
    BY <1>6, <1>7, <1>8, <1>9 DEF Coloured

\* A command begins.
LEMMA ColourBegins ==
    ASSUME IInv, NEW t \in Tasks, NEW u \in Record, task' = [task EXCEPT ![t] = u],
           ~Busy(t), u.pc = "sent", u.applied = {}, value' = value, excused \subseteq excused',
           u.order \in Orders,
           KeyFree(u.order), Disturbs(u.order) => DeviceOf(u.order.entity) \in excused'
    PROVE  ColourInv'
<1> DEFINE c == u.order
<1>1. task \in [Tasks -> {Idle} \cup Record]
    BY DEF IInv, Base, TypeOK
<1>2. Busy(t)' /\ task'[t] = u
      /\ \A s \in Tasks \ {t} : task'[s] = task[s] /\ (Busy(s)' <=> Busy(s))
    BY <1>1 DEF Busy
<1>3. ASSUME NEW d
      PROVE  Colouring(d)' = Colouring(d) \cup (IF Colours(c) /\ DeviceOf(c.entity) = d THEN {t} ELSE {})
    BY <1>2 DEF Colouring
<1>4. ASSUME NEW d
      PROVE  t \notin Colouring(d) /\ Colouring(d) \subseteq Tasks
    BY DEF Colouring
<1> SUFFICES ASSUME NEW d \in Devs \ excused', Lamp(d)
             PROVE  Coloured(d)'
    BY DEF ColourInv, Devs
<1>5. Coloured(d)
    BY DEF IInv, ColourInv, Devs
<1>6. Colours(c) /\ DeviceOf(c.entity) = d => Colouring(d) = {}
  <2> SUFFICES ASSUME Colours(c), DeviceOf(c.entity) = d, NEW s \in Colouring(d)
               PROVE  FALSE
      OBVIOUS
  <2>1. s \in Tasks /\ Busy(s) /\ ~SameKey(c, task[s].order)
      BY DEF Colouring, KeyFree
  <2>2. Disturbs(c)
      BY <2>1 DEF Disturbs
  <2> QED
      BY <2>2
<1>7. Alone(d)'
    BY <1>3, <1>5, <1>6 DEF Alone, Coloured
<1>8. Raw(d)'
  <2> SUFFICES ASSUME NEW s \in Tasks, Busy(s)', task'[s].order.op = "put_characteristic",
                      InfoOf[task'[s].order.point].device = d
               PROVE  InfoOf[task'[s].order.point].char \notin {"Hue", "Saturation"}
      BY DEF Raw
  <2>1. CASE s # t
      BY <1>2, <1>5, <2>1 DEF Raw, Coloured
  <2>2. CASE s = t
    <3>1. InfoOf[c.point].device = DeviceOf(c.entity)
        BY <1>2, <2>2, CommandsAssumption DEF IsOrder
    <3>2. ~Disturbs(c)
        BY <1>2, <2>2, <3>1
    <3> QED
        BY <1>2, <2>2, <3>2 DEF Disturbs
  <2> QED
      BY <2>1, <2>2
<1>9. Rest(d)'
    BY <1>3, <1>5 DEF Rest, Shown, Coloured
<1>10. Midway(d)'
    BY <1>2, <1>3, <1>4, <1>5 DEF Midway, Coloured
<1> QED
    BY <1>7, <1>8, <1>9, <1>10 DEF Coloured

\* An accessory takes a write.
LEMMA ColourApplies ==
    ASSUME IInv, NEW t \in Tasks, Applies(t)
    PROVE  ColourInv'
<1> DEFINE r == task[t]
           c == r.order
           p == r.point
<1>1. /\ Busy(t) /\ value' = [value EXCEPT ![p] = Sent(r)] /\ p \in Points /\ excused' = excused
      /\ \E u \in Record :
            /\ task' = [task EXCEPT ![t] = u] /\ u.pc = "applied"
            /\ u.order = c /\ u.applied = r.applied \cup {r.n}
    BY AppliesIs DEF IInv, Applies
<1>2. PICK u \in Record : /\ task' = [task EXCEPT ![t] = u] /\ u.pc = "applied"
                          /\ u.order = c /\ u.applied = r.applied \cup {r.n}
    BY <1>1
<1>3. task \in [Tasks -> {Idle} \cup Record] /\ value \in [Points -> Int]
    BY DEF IInv, Base, TypeOK
<1>4. task'[t] = u /\ \A s \in Tasks \ {t} : task'[s] = task[s]
    BY <1>2, <1>3
<1>5. \A s \in Tasks : (Busy(s)' <=> Busy(s)) /\ task'[s].order = task[s].order
    BY <1>1, <1>2, <1>4 DEF Busy
<1>6. ASSUME NEW d
      PROVE  Colouring(d)' = Colouring(d)
    BY <1>5 DEF Colouring
<1>7. /\ r.pc = "sent" /\ c \in Orders /\ p \in Targets(r) /\ r.n \in 1 .. Len(Plan(c))
      /\ r.applied \subseteq 1 .. r.n /\ r.n \notin r.applied
    BY <1>1, BusyIs DEF IInv, Sane, Applies
<1>8. p \in Points /\ InfoOf[p].device = DeviceOf(c.entity)
    BY <1>7, TargetIs
<1> SUFFICES ASSUME NEW d \in Devs \ excused', Lamp(d)
             PROVE  Coloured(d)'
    BY DEF ColourInv, Devs
<1>9. Coloured(d)
    BY <1>1 DEF IInv, ColourInv, Devs
<1>10. Alone(d)'
    BY <1>6, <1>9 DEF Alone, Coloured
<1>11. Raw(d)'
    BY <1>5, <1>9 DEF Raw, Coloured
<1> DEFINE hue == HuePoint(d)
           sat == SaturationPoint(d)
<1>12. /\ hue \in Points /\ sat \in Points /\ hue # sat
       /\ InfoOf[hue].char = "Hue" /\ InfoOf[sat].char = "Saturation"
       /\ InfoOf[hue].device = d /\ InfoOf[sat].device = d
    BY LampIs
<1>13. CASE t \notin Colouring(d)
  <2>1. p \notin {hue, sat}
    <3> SUFFICES ASSUME p \in {hue, sat}
                 PROVE  FALSE
        OBVIOUS
    <3>1. InfoOf[p].char \in {"Hue", "Saturation"} /\ DeviceOf(c.entity) = d
        BY <1>8, <1>12
    <3>2. c.op # "put_characteristic"
      <4>1. c.op = "put_characteristic" => p = c.point
          BY <1>7, TargetIs
      <4> QED
          BY <1>1, <1>8, <1>9, <3>1, <4>1 DEF Raw, Coloured
    <3>3. Colours(c)
        BY <1>7, <3>1, <3>2, ReachesColour
    <3> QED
        BY <1>1, <1>13, <3>1, <3>3 DEF Colouring
  <2>2. value'[hue] = value[hue] /\ value'[sat] = value[sat]
      BY <1>1, <1>3, <1>12, <2>1
  <2>3. Rest(d)'
      BY <1>6, <1>9, <2>2 DEF Rest, Shown, Coloured
  <2>4. Midway(d)'
    <3> SUFFICES ASSUME NEW s \in Colouring(d)
                 PROVE  /\ 1 \in task'[s].applied =>
                              value'[hue] = Coerced("hue", task'[s].order.args["hue"], hue)
                        /\ 2 \in task'[s].applied =>
                              value'[sat] = Coerced("saturation", task'[s].order.args["saturation"], sat)
        BY <1>6 DEF Midway
    <3>1. s \in Tasks /\ s # t /\ task'[s] = task[s]
        BY <1>4, <1>13 DEF Colouring
    <3> QED
        BY <1>9, <2>2, <3>1 DEF Midway, Coloured
  <2> QED
      BY <1>10, <1>11, <2>3, <2>4 DEF Coloured
<1>14. CASE t \in Colouring(d)
  <2>1. Colours(c) /\ DeviceOf(c.entity) = d
      BY <1>14 DEF Colouring
  <2>2. c.op # "put_characteristic" /\ Plan(c) = <<"hue", "saturation">> /\ r.n \in {1, 2}
    <3>1. Plan(c) = <<"hue", "saturation">>
        BY <1>7, <2>1, PlanIs
    <3>2. r.n \in 1 .. 2
        BY <1>7, <3>1
    <3> QED
        BY <2>1, <3>1, <3>2 DEF Colours
  <2>3. Rest(d)'
      BY <1>6, <1>14 DEF Rest
  <2>4. \A s \in Colouring(d) : s = t
      BY <1>9, <1>14 DEF Alone, Coloured
  <2>5. p = FirstOf(Bearers(d, Param(r)))
      BY <1>7, <2>1, <2>2, TargetIs
  <2>6. CASE r.n = 1
    <3>1. Param(r) = "hue" /\ p = hue
        BY <2>2, <2>5, <2>6 DEF Param, HuePoint
    <3>2. value'[hue] = Coerced("hue", c.args["hue"], hue)
        BY <1>1, <1>3, <3>1 DEF Sent
    <3>3. 2 \notin u.applied
        BY <1>2, <1>7, <2>6
    <3> QED
        BY <1>4, <1>2, <1>6, <1>10, <1>11, <2>3, <2>4, <3>2, <3>3 DEF Midway, Coloured
  <2>7. CASE r.n = 2
    <3>1. Param(r) = "saturation" /\ p = sat
        BY <2>2, <2>5, <2>7 DEF Param, SaturationPoint
    <3>2. value'[sat] = Coerced("saturation", c.args["saturation"], sat)
        BY <1>1, <1>3, <3>1 DEF Sent
    <3>3. 1 \in u.applied => value'[hue] = Coerced("hue", c.args["hue"], hue)
      <4>1. 1 \in u.applied => 1 \in r.applied
          BY <1>2, <2>7
      <4>2. value'[hue] = value[hue]
          BY <1>1, <1>3, <1>12, <3>1
      <4> QED
          BY <1>9, <1>14, <4>1, <4>2 DEF Midway, Coloured
    <3> QED
        BY <1>4, <1>2, <1>6, <1>10, <1>11, <2>3, <2>4, <3>2, <3>3 DEF Midway, Coloured
  <2> QED
      BY <2>2, <2>6, <2>7
<1> QED
    BY <1>13, <1>14

LEMMA ColourNext ==
    ASSUME IInv, [Next]_vars
    PROVE  ColourInv'
<1>1. ASSUME NEW t \in Tasks, Call(t)
      PROVE  ColourInv'
  <2>1. value' = value
      BY <1>1 DEF Call
  <2>2. ~Busy(t) /\ excused \subseteq excused'
      BY <1>1, CallIs DEF IInv
  <2>3. PICK c \in Orders, u \in Record :
           /\ task' = [task EXCEPT ![t] = u] /\ u.order = c /\ u.applied = {}
           /\ \/ u.pc = "sent" /\ KeyFree(c) /\ (Disturbs(c) => DeviceOf(c.entity) \in excused')
              \/ u.pc \in Outcomes
      BY <1>1, CallIs DEF IInv
  <2>4. CASE u.pc = "sent" /\ KeyFree(c) /\ (Disturbs(c) => DeviceOf(c.entity) \in excused')
      BY <2>1, <2>2, <2>3, <2>4, ColourBegins
  <2>5. CASE u.pc \in Outcomes
      BY <2>1, <2>2, <2>3, <2>5, ColourEnds
  <2> QED
      BY <2>3, <2>4, <2>5
<1>2. ASSUME NEW t \in Tasks, WriteReturns(t)
      PROVE  ColourInv'
  <2>1. value' = value /\ Busy(t)
      BY <1>2 DEF WriteReturns, Busy
  <2>2. excused \subseteq excused'
      BY <1>2, ReturnIs DEF IInv
  <2>3. PICK u \in Record :
           /\ task' = [task EXCEPT ![t] = u] /\ Sane(u)
           /\ u.order = task[t].order /\ u.applied = task[t].applied
           /\ \/ u.pc = "sent"
              \/ u.pc \in {"returned", "failed"} /\ HalfKnown(u, u)
      BY <1>2, ReturnIs DEF IInv
  <2>4. CASE u.pc = "sent"
      BY <2>1, <2>2, <2>3, <2>4, ColourStays
  <2>5. CASE u.pc \in {"returned", "failed"} /\ HalfKnown(u, u)
    <3>1. ASSUME Colours(u.order), DeviceOf(u.order.entity) \notin excused'
          PROVE  {1, 2} \subseteq u.applied
      <4>1. u.pc = "returned" /\ FALSE \notin Range(u.told)
          BY <2>5, <3>1 DEF HalfKnown
      <4>2. u.order \in Orders /\ u.told \in Seq(BOOLEAN)
          BY DEF Record
      <4>3. Len(u.told) = 2
          BY <2>3, <3>1, <4>1, <4>2, PlanIs DEF Sane
      <4>4. u.told[1] = TRUE /\ u.told[2] = TRUE
        <5>1. DOMAIN u.told = 1 .. 2
            BY <4>2, <4>3
        <5>2. \A i \in 1 .. 2 : u.told[i] \in BOOLEAN /\ u.told[i] \in Range(u.told)
            BY <4>2, <4>3, <5>1 DEF Range
        <5>3. \A x : x \in BOOLEAN /\ x \in Range(u.told) => x = TRUE
            BY <4>1
        <5>4. 1 \in 1 .. 2 /\ 2 \in 1 .. 2
            OBVIOUS
        <5> QED
            BY <5>2, <5>3, <5>4, Zenon
      <4> QED
          BY <2>3, <4>3, <4>4 DEF Sane, Answered
    <3>2. u.pc \in Outcomes
        BY <2>5 DEF Outcomes
    <3> QED
        BY <2>1, <2>2, <2>3, <3>1, <3>2, ColourEnds
  <2> QED
      BY <2>3, <2>4, <2>5
<1>3. ASSUME NEW t \in Tasks, WriteRaises(t)
      PROVE  ColourInv'
  <2>1. value' = value
      BY <1>3 DEF WriteRaises
  <2>2. excused \subseteq excused'
      BY <1>3, RaiseIs DEF IInv
  <2>3. PICK u \in Record :
           /\ task' = [task EXCEPT ![t] = u] /\ u.order = task[t].order
           /\ u.applied = task[t].applied /\ u.pc = "failed" /\ HalfKnown(u, u)
      BY <1>3, RaiseIs DEF IInv
  <2>4. u.pc \in Outcomes /\ (Colours(u.order) => DeviceOf(u.order.entity) \in excused')
      BY <2>3 DEF Outcomes, HalfKnown
  <2> QED
      BY <2>1, <2>2, <2>3, <2>4, ColourEnds
<1>4. ASSUME NEW t \in Tasks, Refuses(t)
      PROVE  ColourInv'
  <2>1. value' = value /\ excused' = excused
      BY <1>4 DEF Refuses
  <2> QED
      BY <1>4, <2>1, RefusesIs, ColourStays DEF IInv
<1>5. CASE UNCHANGED vars
    BY <1>5 DEF vars, IInv, ColourInv, Coloured, Alone, Raw, Rest, Midway, Shown, Colouring, Busy
<1> QED
    BY <1>1, <1>2, <1>3, <1>4, <1>5, ColourApplies DEF Next

LEMMA ColourInit ==
    ASSUME Init
    PROVE  ColourInv
<1>1. \A t \in Tasks : ~Busy(t)
    BY DEF Init, Idle, Busy
<1>2. ASSUME NEW d
      PROVE  Colouring(d) = {} /\ Shown(d) \in Pairs(d)
    BY <1>1 DEF Init, Colouring, Shown, Pairs
<1> QED
    BY <1>1, <1>2 DEF ColourInv, Coloured, Alone, Raw, Rest, Midway

-----------------------------------------------------------------------------
(* Theorems. *)

\* Inductive invariant: every command's results say which of its writes were taken, the
\* write under way is one it may send, and a lamp that nothing excuses has at most one
\* command that colours it, which leaves what it was asked for.
THEOREM Invariance == Spec => []IInv
<1>1. Init => IInv
    BY BaseInit, ColourInit DEF IInv
<1>2. IInv /\ [Next]_vars => IInv'
    BY BaseNext, ColourNext DEF IInv
<1> QED
    BY <1>1, <1>2, PTL DEF Spec

\* Type correctness.
THEOREM TypeCorrect == Spec => []TypeOK
<1>1. IInv => TypeOK
    BY DEF IInv, Base
<1> QED
    BY <1>1, Invariance, PTL

\* A lamp at rest shows a colour that somebody asked for, if its colour is set through the
\* daemon under one name and no write of it fails.
THEOREM OneColour == Spec => []ColourWhole
<1>1. IInv => ColourWhole
    BY DEF IInv, ColourInv, Coloured, Rest, Shown, Lamp, ColourWhole
<1> QED
    BY <1>1, Invariance, PTL

\* What a command tells is what it did.
THEOREM Truthful == Spec => []OutcomeTrue
<1>1. IInv => OutcomeTrue
    BY BaseOutcome DEF IInv
<1> QED
    BY <1>1, Invariance, PTL

\* A shortcut sends a value in range, as near to what was asked for as halves allow.
THEOREM InRange == Spec => []SentInRange
<1>1. IInv => SentInRange
    BY BaseRange DEF IInv
<1> QED
    BY <1>1, Invariance, PTL

\* A write reaches the entity's own service, unless that has no characteristic of the kind
\* or an earlier service of its accessory has one.
THEOREM RightService == Spec => []ReachesOwnService
<1>1. IInv => ReachesOwnService
    BY BaseService DEF IInv
<1> QED
    BY <1>1, Invariance, PTL
=============================================================================
