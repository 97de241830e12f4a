------------------------- MODULE SubscriptionsProofs -------------------------
(***************************************************************************)
(* Theorems about the events on their way to the listeners, for every set  *)
(* of listeners, devices and points and every number of changes.           *)
(***************************************************************************)
EXTENDS Subscriptions, TLAPS

\* A callback is connected exactly while its forwarder loops over its queue, and who does not
\* listen has no forwarder.
Paired ==
    /\ \A l \in Listeners, d \in Devices :
          /\ <<l, d>> \in callbacks <=> pc[l][d] = "forwarding"
          /\ pc[l][d] # "forwarding" => inner[l][d] = <<>>
    /\ \A l \in Listeners : phase[l] = "idle" => \A d \in Devices : pc[l][d] = "none"

\* The flags a listener has set stand until somebody else clears them.
FlagsStand ==
    \A l \in Listeners, p \in Points :
        /\ phase[l] = "listening" /\ p \in want[l] /\ <<l, p>> \notin shed
        /\ pc[l][DeviceOf[p]] \in {"answering", "forwarding"}
        => p \in subscribed

\* A flag that is set and not given up belongs to somebody.
FlagsOwned ==
    \A p \in subscribed \ stuck : \E l \in Listeners :
        p \in want[l] /\ pc[l][DeviceOf[p]] \in {"answering", "forwarding", "unsubscribing"}

\* An event tells of a change that was made, and travels with its own device's.
Past(s) == \A i \in 1..Len(s) : s[i].value <= value[s[i].point]
Of(s, d) == \A i \in 1..Len(s) : DeviceOf[s[i].point] = d
EventsTrue ==
    /\ \A l \in Listeners : Past(yielded[l])
    /\ \A l \in Listeners, d \in Devices : Past(inner[l][d]) /\ Of(inner[l][d], d)
    /\ \A d \in Devices : Past(wire[d]) /\ Of(wire[d], d)

\* The changes on their way to l are split, in order, between the three queues.
OnTheWay(l, p, y, z) ==
    /\ y \in Nat /\ z \in Nat /\ since[l][p] <= y /\ y <= z /\ z <= value[p]
    /\ Carries(yielded[l], p, since[l][p], since[l][p], y)
    /\ Carries(inner[l][DeviceOf[p]], p, since[l][p], y, z)
    /\ Carries(wire[DeviceOf[p]], p, since[l][p], z, value[p])
Split ==
    \A l \in Listeners, p \in Points : Attends(l, p) =>
        \E y, z \in 0 .. value[p] : OnTheWay(l, p, y, z)

IInv == TypeOK /\ Paired /\ FlagsStand /\ FlagsOwned /\ EventsTrue /\ Split

-----------------------------------------------------------------------------
(* Sequences of events. *)

LEMMA Appended ==
  ASSUME NEW s \in Seq(Event), NEW e \in Event
  PROVE  /\ Append(s, e) \in Seq(Event) /\ Len(s) \in Nat /\ Len(Append(s, e)) = Len(s) + 1
         /\ Append(s, e)[Len(s) + 1] = e
         /\ \A i \in 1..Len(s) : Append(s, e)[i] = s[i] /\ s[i] \in Event
OBVIOUS

LEMMA Beheaded ==
  ASSUME NEW s \in Seq(Event), s # <<>>
  PROVE  /\ Head(s) = s[1] /\ Head(s) \in Event /\ Tail(s) \in Seq(Event)
         /\ Len(s) \in Nat \ {0} /\ Len(Tail(s)) = Len(s) - 1
         /\ \A i \in 1..Len(s) - 1 : Tail(s)[i] = s[i + 1] /\ s[i + 1] \in Event
OBVIOUS

\* A queue without a later change carries none.
LEMMA CarriesNone ==
  ASSUME NEW s \in Seq(Event), NEW p \in Points, NEW n \in Nat,
         \A i \in 1..Len(s) : s[i].point = p => s[i].value <= n
  PROVE  Carries(s, p, n, n, n)
<1>1. \A i \in 1..Len(s) : s[i] \in Event
  OBVIOUS
<1>2. \A i \in 1..Len(s) : ~(s[i].point = p /\ s[i].value > n)
  BY <1>1 DEF Event
<1> QED
  BY <1>2 DEF Carries

\* The next change goes to the end of a queue.
LEMMA CarriesNext ==
  ASSUME NEW s \in Seq(Event), NEW e \in Event, NEW p \in Points,
         NEW first \in Nat, NEW from \in Nat, NEW to \in Nat, first <= to, from <= to,
         Carries(s, p, first, from, to), e.point = p, e.value = to + 1
  PROVE  Carries(Append(s, e), p, first, from, to + 1)
<1> DEFINE q == Append(s, e)
<1>1. /\ Len(s) \in Nat /\ Len(q) = Len(s) + 1 /\ q[Len(s) + 1] = e
      /\ \A i \in 1..Len(s) : q[i] = s[i] /\ s[i].value \in Nat
  BY Appended DEF Event
<1> HIDE DEF q
<1>2. \A i \in 1..Len(q) : (i \in 1..Len(s) /\ q[i] = s[i]) \/ (i = Len(s) + 1 /\ q[i] = e)
  BY <1>1
<1>3. e.value > first /\ e.value \in from + 1 .. to + 1
  OBVIOUS
<1>4. \A n \in from + 1 .. to : n \in from + 1 .. to + 1
  OBVIOUS
<1>5. \A i \in 1..Len(q) : q[i].point = p /\ q[i].value > first => q[i].value \in from + 1 .. to + 1
  BY <1>2, <1>3, <1>4 DEF Carries
<1>6. \A n \in from + 1 .. to + 1 :
         \E i \in 1..Len(q) : (q[i].point = p /\ q[i].value > first) /\ q[i].value = n
  <2> SUFFICES ASSUME NEW n \in from + 1 .. to + 1
               PROVE  \E i \in 1..Len(q) : (q[i].point = p /\ q[i].value > first) /\ q[i].value = n
    OBVIOUS
  <2>1. CASE n = to + 1
    <3>1. Len(s) + 1 \in 1..Len(q)
      BY <1>1
    <3> QED
      BY <1>1, <1>3, <2>1, <3>1
  <2>2. CASE n \in from + 1 .. to
    <3>1. PICK i \in 1..Len(s) : s[i].point = p /\ s[i].value > first /\ s[i].value = n
      BY <2>2 DEF Carries
    <3>2. i \in 1..Len(q) /\ q[i] = s[i]
      BY <1>1
    <3> QED
      BY <3>1, <3>2
  <2> QED
    BY <2>1, <2>2
<1>7. \A i, j \in 1..Len(q) :
         (q[i].point = p /\ q[i].value > first) /\ (q[j].point = p /\ q[j].value > first) /\ i < j
         => q[i].value < q[j].value
  <2> SUFFICES ASSUME NEW i \in 1..Len(q), NEW j \in 1..Len(q), i < j,
                      q[i].point = p, q[i].value > first, q[j].point = p, q[j].value > first
               PROVE  q[i].value < q[j].value
    OBVIOUS
  <2>1. i \in 1..Len(s) /\ q[i] = s[i]
    BY <1>1, <1>2
  <2>2. CASE j \in 1..Len(s)
    BY <1>1, <2>1, <2>2 DEF Carries
  <2>3. CASE j = Len(s) + 1
    <3>1. s[i].value \in from + 1 .. to
      BY <2>1 DEF Carries
    <3> QED
      BY <1>1, <2>1, <2>3, <3>1
  <2> QED
    BY <1>2, <2>2, <2>3
<1> QED
  BY <1>5, <1>6, <1>7 DEF Carries, q

\* Any other event at the end of a queue makes no difference.
LEMMA CarriesOther ==
  ASSUME NEW s \in Seq(Event), NEW e \in Event, NEW p, NEW first \in Nat, NEW from, NEW to,
         Carries(s, p, first, from, to), ~(e.point = p /\ e.value > first)
  PROVE  Carries(Append(s, e), p, first, from, to)
<1> DEFINE q == Append(s, e)
<1>1. /\ Len(s) \in Nat /\ Len(q) = Len(s) + 1 /\ q[Len(s) + 1] = e
      /\ \A i \in 1..Len(s) : q[i] = s[i]
  BY Appended
<1> HIDE DEF q
<1>2. \A i \in 1..Len(q) : q[i].point = p /\ q[i].value > first => i \in 1..Len(s) /\ q[i] = s[i]
  BY <1>1
<1>3. \A i \in 1..Len(s) : i \in 1..Len(q) /\ q[i] = s[i]
  BY <1>1
<1> QED
  BY <1>2, <1>3 DEF Carries, q

\* What is at the head of a queue is its first change, or none of those.
LEMMA CarriesHead ==
  ASSUME NEW s \in Seq(Event), s # <<>>, NEW p, NEW first \in Nat, NEW from \in Nat, NEW to \in Nat,
         Carries(s, p, first, from, to), Head(s).point = p, Head(s).value > first
  PROVE  /\ Head(s).value = from + 1 /\ from + 1 <= to
         /\ Carries(Tail(s), p, first, from + 1, to)
<1> DEFINE q == Tail(s)
<1>1. /\ Head(s) = s[1] /\ Len(s) \in Nat \ {0} /\ Len(q) = Len(s) - 1
      /\ \A i \in 1..Len(q) : q[i] = s[i + 1]
      /\ \A i \in 1..Len(s) : s[i].value \in Nat
  <2>1. \A i \in 1..Len(s) : s[i] \in Event
    OBVIOUS
  <2> QED
    BY <2>1, Beheaded DEF Event
<1> HIDE DEF q
<1>2. \A i \in 1..Len(q) : i + 1 \in 1..Len(s) /\ q[i] = s[i + 1] /\ 1 < i + 1
  BY <1>1
<1>3. s[1].value \in from + 1 .. to /\ 1 \in 1..Len(s)
  BY <1>1 DEF Carries
<1>4. from + 1 \in from + 1 .. to
  BY <1>3
<1>5. PICK k \in 1..Len(s) : s[k].point = p /\ s[k].value > first /\ s[k].value = from + 1
  BY <1>4 DEF Carries
<1>6. k = 1
  <2> SUFFICES ASSUME 1 < k PROVE FALSE
    BY <1>1
  <2>1. s[1].value < s[k].value
    BY <1>1, <1>3, <1>5 DEF Carries
  <2> QED
    BY <1>3, <1>5, <2>1
<1>7. s[1].value = from + 1
  BY <1>5, <1>6
<1>8. \A i \in 1..Len(q) : q[i].point = p /\ q[i].value > first => q[i].value \in from + 2 .. to
  <2> SUFFICES ASSUME NEW i \in 1..Len(q), q[i].point = p, q[i].value > first
               PROVE  q[i].value \in from + 2 .. to
    OBVIOUS
  <2>1. s[i + 1].value \in from + 1 .. to
    BY <1>2 DEF Carries
  <2>2. s[1].value < s[i + 1].value
    BY <1>1, <1>2, <1>3 DEF Carries
  <2> QED
    BY <1>2, <1>7, <2>1, <2>2
<1>9. \A n \in from + 2 .. to :
         \E i \in 1..Len(q) : (q[i].point = p /\ q[i].value > first) /\ q[i].value = n
  <2> SUFFICES ASSUME NEW n \in from + 2 .. to
               PROVE  \E i \in 1..Len(q) : (q[i].point = p /\ q[i].value > first) /\ q[i].value = n
    OBVIOUS
  <2>1. n \in from + 1 .. to /\ n # from + 1
    OBVIOUS
  <2>2. PICK i \in 1..Len(s) : s[i].point = p /\ s[i].value > first /\ s[i].value = n
    BY <2>1 DEF Carries
  <2>3. i # 1
    BY <1>7, <2>1, <2>2
  <2>4. i - 1 \in 1..Len(q) /\ (i - 1) + 1 = i
    BY <1>1, <2>3
  <2>5. q[i - 1] = s[i]
    BY <1>1, <2>4
  <2> QED
    BY <2>2, <2>4, <2>5
<1>10. \A i, j \in 1..Len(q) :
          (q[i].point = p /\ q[i].value > first) /\ (q[j].point = p /\ q[j].value > first) /\ i < j
          => q[i].value < q[j].value
  <2> SUFFICES ASSUME NEW i \in 1..Len(q), NEW j \in 1..Len(q), i < j,
                      q[i].point = p, q[i].value > first, q[j].point = p, q[j].value > first
               PROVE  q[i].value < q[j].value
    OBVIOUS
  <2>1. i + 1 < j + 1 /\ i + 1 \in 1..Len(s) /\ j + 1 \in 1..Len(s)
    BY <1>2
  <2>2. q[i] = s[i + 1] /\ q[j] = s[j + 1]
    BY <1>2
  <2> QED
    BY SMTT(60), <2>1, <2>2 DEF Carries
<1>11. (from + 1) + 1 = from + 2
  OBVIOUS
<1> QED
  BY <1>1, <1>3, <1>7, <1>8, <1>9, <1>10, <1>11 DEF Carries, q

LEMMA CarriesRest ==
  ASSUME NEW s \in Seq(Event), s # <<>>, NEW p, NEW first \in Nat, NEW from, NEW to,
         Carries(s, p, first, from, to), ~(Head(s).point = p /\ Head(s).value > first)
  PROVE  Carries(Tail(s), p, first, from, to)
<1> DEFINE q == Tail(s)
<1>1. /\ Head(s) = s[1] /\ Len(s) \in Nat \ {0} /\ Len(q) = Len(s) - 1
      /\ \A i \in 1..Len(q) : q[i] = s[i + 1]
  BY Beheaded
<1> HIDE DEF q
<1>2. \A i \in 1..Len(q) : i + 1 \in 1..Len(s) /\ q[i] = s[i + 1]
  BY <1>1
<1>3. \A i \in 1..Len(s) : s[i].point = p /\ s[i].value > first => i - 1 \in 1..Len(q) /\ q[i - 1] = s[i]
  <2> SUFFICES ASSUME NEW i \in 1..Len(s), s[i].point = p, s[i].value > first
               PROVE  i - 1 \in 1..Len(q) /\ q[i - 1] = s[i]
    OBVIOUS
  <2>1. i # 1
    BY <1>1
  <2>2. i - 1 \in 1..Len(q) /\ (i - 1) + 1 = i
    BY <1>1, <2>1
  <2> QED
    BY <1>1, <2>2
<1>4. \A i, j \in 1..Len(q) : i < j => i + 1 < j + 1
  BY <1>1
<1>5. \A i \in 1..Len(q) : q[i].point = p /\ q[i].value > first => q[i].value \in from + 1 .. to
  BY <1>2 DEF Carries
<1>6. \A n \in from + 1 .. to :
         \E i \in 1..Len(q) : (q[i].point = p /\ q[i].value > first) /\ q[i].value = n
  BY <1>3 DEF Carries
<1>7. \A i, j \in 1..Len(q) :
         (q[i].point = p /\ q[i].value > first) /\ (q[j].point = p /\ q[j].value > first) /\ i < j
         => q[i].value < q[j].value
  BY SMTT(60), <1>2, <1>4 DEF Carries
<1> QED
  BY <1>5, <1>6, <1>7 DEF Carries, q

\* Two queues one after the other carry what each of them carries.
LEMMA CarriesBoth ==
  ASSUME NEW s \in Seq(Event), NEW u \in Seq(Event), NEW p, NEW first \in Nat,
         NEW from \in Nat, NEW mid \in Nat, NEW to \in Nat, from <= mid, mid <= to,
         Carries(s, p, first, from, mid), Carries(u, p, first, mid, to)
  PROVE  Carries(s \o u, p, first, from, to)
<1> DEFINE q == s \o u
<1>1. /\ Len(s) \in Nat /\ Len(u) \in Nat /\ Len(q) = Len(s) + Len(u)
      /\ \A i \in 1..Len(s) : q[i] = s[i] /\ s[i].value \in Nat
      /\ \A i \in 1..Len(q) : i \in 1..Len(s) \/ (i - Len(s) \in 1..Len(u) /\ q[i] = u[i - Len(s)])
      /\ \A i \in 1..Len(u) : u[i].value \in Nat
  <2>1. (\A i \in 1..Len(s) : s[i] \in Event) /\ (\A i \in 1..Len(u) : u[i] \in Event)
    OBVIOUS
  <2>2. /\ Len(s) \in Nat /\ Len(u) \in Nat /\ Len(q) = Len(s) + Len(u)
        /\ \A i \in 1..Len(s) : q[i] = s[i]
        /\ \A i \in 1..Len(q) : i \in 1..Len(s) \/ (i - Len(s) \in 1..Len(u) /\ q[i] = u[i - Len(s)])
    OBVIOUS
  <2> HIDE DEF q
  <2> QED
    BY <2>1, <2>2 DEF Event
<1> HIDE DEF q
<1>2. /\ \A n \in from + 1 .. mid : n \in from + 1 .. to
      /\ \A n \in mid + 1 .. to : n \in from + 1 .. to
      /\ \A n \in from + 1 .. to : n \in from + 1 .. mid \/ n \in mid + 1 .. to
  OBVIOUS
<1>3. ASSUME NEW i \in 1..Len(q), q[i].point = p, q[i].value > first
      PROVE  q[i].value \in from + 1 .. to
  BY <1>1, <1>2, <1>3 DEF Carries
<1>4. ASSUME NEW n \in from + 1 .. to
      PROVE  \E i \in 1..Len(q) : (q[i].point = p /\ q[i].value > first) /\ q[i].value = n
  <2>1. CASE n \in from + 1 .. mid
    <3>1. PICK i \in 1..Len(s) : s[i].point = p /\ s[i].value > first /\ s[i].value = n
      BY <2>1 DEF Carries
    <3>2. i \in 1..Len(q) /\ q[i] = s[i]
      BY <1>1
    <3> QED
      BY <3>1, <3>2
  <2>2. CASE n \in mid + 1 .. to
    <3>1. PICK i \in 1..Len(u) : u[i].point = p /\ u[i].value > first /\ u[i].value = n
      BY <2>2 DEF Carries
    <3>2. Len(s) + i \in 1..Len(q) /\ (Len(s) + i) - Len(s) = i /\ Len(s) + i \notin 1..Len(s)
      BY <1>1
    <3>3. q[Len(s) + i] = u[i]
      BY <1>1, <3>2
    <3> QED
      BY <3>1, <3>2, <3>3
  <2> QED
    BY <1>2, <2>1, <2>2
<1>5. ASSUME NEW i \in 1..Len(q), NEW j \in 1..Len(q), i < j,
             q[i].point = p, q[i].value > first, q[j].point = p, q[j].value > first
      PROVE  q[i].value < q[j].value
  <2>1. CASE j \in 1..Len(s)
    <3>1. i \in 1..Len(s)
      BY <1>1, <1>5, <2>1
    <3> QED
      BY <1>1, <1>5, <2>1, <3>1 DEF Carries
  <2>2. CASE i \in 1..Len(s) /\ j \notin 1..Len(s)
    <3>1. q[i].value \in from + 1 .. mid
      BY <1>1, <1>5, <2>2 DEF Carries
    <3>2. q[j].value \in mid + 1 .. to
      BY <1>1, <1>5, <2>2 DEF Carries
    <3> QED
      BY SMTT(60), <3>1, <3>2
  <2>3. CASE i \notin 1..Len(s)
    <3>1. j \notin 1..Len(s)
      BY <1>1, <1>5, <2>3
    <3>2. /\ i - Len(s) \in 1..Len(u) /\ q[i] = u[i - Len(s)]
          /\ j - Len(s) \in 1..Len(u) /\ q[j] = u[j - Len(s)]
      BY <1>1, <2>3, <3>1
    <3>3. i - Len(s) < j - Len(s)
      BY <1>1, <1>5
    <3> QED
      BY SMTT(60), <1>5, <3>2, <3>3 DEF Carries
  <2> QED
    BY <2>1, <2>2, <2>3
<1> QED
  BY <1>3, <1>4, <1>5 DEF Carries, q

-----------------------------------------------------------------------------
(* Types. *)

\* A forwarder moves on.
LEMMA GoesType ==
  ASSUME TypeOK, NEW l \in Listeners, NEW d \in Devices,
         NEW to \in Live \cup {"none", "failed", "ended"}, Goes(l, d, to)
  PROVE  /\ pc' \in [Listeners -> [Devices -> Live \cup {"none", "failed", "ended"}]]
         /\ pc'[l][d] = to
         /\ \A m \in Listeners, e \in Devices : m # l \/ e # d => pc'[m][e] = pc[m][e]
BY DEF TypeOK, Goes

LEMMA ListenType ==
  ASSUME TypeOK, NEW l \in Listeners, Listen(l) \/ Leave(l) \/ Left(l)
  PROVE  TypeOK'
<1>1. CASE Listen(l)
  <2>1. PICK w \in Wishes :
          /\ want' = [want EXCEPT ![l] = w]
          /\ pc' = [pc EXCEPT ![l] = [d \in Devices |->
                       IF \E p \in w : DeviceOf[p] = d THEN "ready" ELSE "none"]]
    BY <1>1 DEF Listen
  <2>2. want' \in [Listeners -> SUBSET Points]
    BY <2>1, SubscriptionsAssumption DEF TypeOK
  <2>3. pc' \in [Listeners -> [Devices -> Live \cup {"none", "failed", "ended"}]]
    BY <2>1 DEF TypeOK, Live
  <2>4. listens' \in 0 .. MaxListens
    BY <1>1, SubscriptionsAssumption DEF Listen, TypeOK
  <2> QED
    BY <1>1, <2>2, <2>3, <2>4 DEF Listen, TypeOK, queues, pairing
<1>2. CASE Leave(l)
  BY <1>2 DEF Leave, TypeOK, pairing
<1>3. CASE Left(l)
  BY <1>3 DEF Left, TypeOK, queues, pairing
<1> QED
  BY <1>1, <1>2, <1>3

LEMMA ForwarderType ==
  ASSUME TypeOK, NEW l \in Listeners, NEW d \in Devices, Forwarder(l, d) \/ SubscribeFails(l, d)
  PROVE  TypeOK'
<1>1. \A m \in Listeners, e \in Devices : Wanted(m, e) \subseteq Points
  BY DEF Wanted, TypeOK
<1>2. MaxFaults \in Nat
  BY SubscriptionsAssumption
<1>3. CASE Subscribes(l, d) \/ Flagged(l, d)
  BY <1>1, <1>3, GoesType DEF Subscribes, Flagged, TypeOK, queues, pairing, Live
<1>4. CASE Connected(l, d)
  <2>1. since' \in [Listeners -> [Points -> Nat]]
    BY <1>4 DEF Connected, TypeOK
  <2>2. callbacks' \subseteq Listeners \X Devices
    BY <1>4 DEF Connected, TypeOK
  <2>3. pc' \in [Listeners -> [Devices -> Live \cup {"none", "failed", "ended"}]]
    BY <1>4, GoesType DEF Connected, Live
  <2> QED
    BY <1>4, <2>1, <2>2, <2>3 DEF Connected, TypeOK, queues
<1>5. CASE SubscribeFails(l, d)
  <2>1. pc' \in [Listeners -> [Devices -> Live \cup {"none", "failed", "ended"}]]
    BY <1>5, GoesType DEF SubscribeFails
  <2>2. faults' \in 0 .. MaxFaults
    BY <1>2, <1>5 DEF SubscribeFails, Fault, TypeOK
  <2> QED
    BY <1>1, <1>5, <2>1, <2>2 DEF SubscribeFails, TypeOK, queues, pairing
<1>6. CASE Forward(l, d)
  <2>1. /\ inner[l][d] \in Seq(Event) /\ inner[l][d] # <<>> /\ yielded[l] \in Seq(Event)
        /\ yielded' = [yielded EXCEPT ![l] = Append(@, Head(inner[l][d]))]
        /\ inner' = [inner EXCEPT ![l][d] = Tail(@)]
    BY <1>6 DEF Forward, TypeOK
  <2>2. Append(yielded[l], Head(inner[l][d])) \in Seq(Event) /\ Tail(inner[l][d]) \in Seq(Event)
    BY <2>1, Appended, Beheaded
  <2>3. yielded' \in [Listeners -> Seq(Event)] /\ inner' \in [Listeners -> [Devices -> Seq(Event)]]
    BY <2>1, <2>2 DEF TypeOK
  <2> QED
    BY <1>6, <2>3 DEF Forward, TypeOK, tasks, pairing
<1>7. CASE CutShort(l, d)
  BY <1>1, <1>7, GoesType DEF CutShort, TypeOK, queues, Live
<1>8. CASE Unwinds(l, d)
  <2>1. /\ callbacks' \subseteq Listeners \X Devices /\ shed' \subseteq Listeners \X Points
        /\ Goes(l, d, "unsubscribing")
    BY <1>8 DEF Unwinds, Disconnect, TypeOK
  <2>2. since' \in [Listeners -> [Points -> Nat]]
    BY <1>8 DEF Unwinds, TypeOK
  <2>3. inner' \in [Listeners -> [Devices -> Seq(Event)]]
    <3>1. <<>> \in Seq(Event)
      OBVIOUS
    <3> QED
      BY <1>8, <3>1 DEF Unwinds, TypeOK
  <2> QED
    BY <1>8, <2>1, <2>2, <2>3, GoesType DEF Unwinds, TypeOK, Live
<1>9. CASE Unsubscribed(l, d)
  <2>1. subscribed' \subseteq Points /\ shed' \subseteq Listeners \X Points /\ stuck' \subseteq Points
    BY <1>1, <1>9 DEF Unsubscribed, Clears, TypeOK
  <2>2. faults' \in 0 .. MaxFaults
    BY <1>2, <1>9 DEF Unsubscribed, Fault, TypeOK
  <2> QED
    BY <1>9, <2>1, <2>2, GoesType DEF Unsubscribed, TypeOK, queues, Live
<1> QED
  BY <1>3, <1>4, <1>5, <1>6, <1>7, <1>8, <1>9 DEF Forwarder

\* A change is told to the accessory's listeners if its flag is set.
LEMMA Changed ==
  ASSUME TypeOK, NEW p \in Points, Change(p)
  PROVE  /\ DeviceOf[p] \in Devices /\ value[p] \in Nat
         /\ [point |-> p, value |-> value[p] + 1] \in Event
         /\ value' = [value EXCEPT ![p] = @ + 1]
         /\ \A d \in Devices :
               wire'[d] = IF p \in subscribed /\ d = DeviceOf[p]
                          THEN Append(wire[d], [point |-> p, value |-> value[p] + 1]) ELSE wire[d]
         /\ UNCHANGED <<tasks, queues, pairing, listens, faults, since, shed, stuck>>
<1>1. /\ DeviceOf[p] \in Devices /\ value[p] \in Nat /\ value' = [value EXCEPT ![p] = @ + 1]
      /\ UNCHANGED <<tasks, queues, pairing, listens, faults, since, shed, stuck>>
  BY SubscriptionsAssumption DEF Change, TypeOK
<1>2. value'[p] = value[p] + 1
  BY <1>1 DEF TypeOK
<1>3. wire' = IF p \in subscribed
              THEN [wire EXCEPT ![DeviceOf[p]] = Append(@, [point |-> p, value |-> value'[p]])]
              ELSE wire
  BY DEF Change
<1>4. \A d \in Devices :
         wire'[d] = IF p \in subscribed /\ d = DeviceOf[p]
                    THEN Append(wire[d], [point |-> p, value |-> value[p] + 1]) ELSE wire[d]
  BY <1>1, <1>2, <1>3 DEF TypeOK
<1> QED
  BY <1>1, <1>4 DEF Event

\* What is dispatched moves from the wire to the queue of every callback.
LEMMA Dispatched ==
  ASSUME TypeOK, NEW d \in Devices, Dispatch(d)
  PROVE  /\ wire[d] \in Seq(Event) /\ wire[d] # <<>> /\ Head(wire[d]) \in Event
         /\ wire' = [wire EXCEPT ![d] = Tail(@)]
         /\ \A l \in Listeners, e \in Devices :
               inner'[l][e] = IF e = d /\ <<l, d>> \in callbacks
                              THEN Append(inner[l][e], Head(wire[d])) ELSE inner[l][e]
         /\ inner' \in [Listeners -> [Devices -> Seq(Event)]]
         /\ UNCHANGED <<tasks, yielded, pairing, value, listens, faults, since, shed, stuck>>
<1>1. wire[d] \in Seq(Event) /\ wire[d] # <<>> /\ Head(wire[d]) \in Event
  BY Beheaded DEF Dispatch, TypeOK
<1>2. inner' = [l \in Listeners |->
                   IF <<l, d>> \in callbacks
                   THEN [inner[l] EXCEPT ![d] = Append(@, Head(wire[d]))] ELSE inner[l]]
  BY DEF Dispatch, PutNowait
<1>3. \A l \in Listeners : Append(inner[l][d], Head(wire[d])) \in Seq(Event)
  BY <1>1, Appended DEF TypeOK
<1>4. \A l \in Listeners, e \in Devices :
         inner'[l][e] = IF e = d /\ <<l, d>> \in callbacks
                        THEN Append(inner[l][e], Head(wire[d])) ELSE inner[l][e]
  BY <1>2 DEF TypeOK
<1>5. inner' \in [Listeners -> [Devices -> Seq(Event)]]
  <2>1. \A l \in Listeners : inner[l] \in [Devices -> Seq(Event)]
    BY DEF TypeOK
  <2>2. \A l \in Listeners : [inner[l] EXCEPT ![d] = Append(@, Head(wire[d]))] \in [Devices -> Seq(Event)]
    BY <1>3, <2>1
  <2> QED
    BY <1>2, <2>1, <2>2
<1> QED
  BY <1>1, <1>4, <1>5 DEF Dispatch

LEMMA WireType ==
  ASSUME TypeOK, (\E p \in Points : Change(p)) \/ (\E d \in Devices : Dispatch(d))
  PROVE  TypeOK'
<1>1. ASSUME NEW p \in Points, Change(p) PROVE TypeOK'
  <2>1. value' \in [Points -> Nat]
    BY <1>1 DEF Change, TypeOK
  <2>2. wire' \in [Devices -> Seq(Event)]
    <3>1. [point |-> p, value |-> value'[p]] \in Event
      BY <1>1, <2>1 DEF Event
    <3>2. \A d \in Devices : Append(wire[d], [point |-> p, value |-> value'[p]]) \in Seq(Event)
      BY <3>1, Appended DEF TypeOK
    <3> QED
      BY <1>1, <3>2, Changed DEF Change, TypeOK
  <2> QED
    BY <1>1, <2>1, <2>2 DEF Change, TypeOK, tasks, queues, pairing
<1>2. ASSUME NEW d \in Devices, Dispatch(d) PROVE TypeOK'
  <2>1. wire' \in [Devices -> Seq(Event)]
    <3>1. Tail(wire[d]) \in Seq(Event) /\ wire' = [wire EXCEPT ![d] = Tail(@)]
      BY <1>2, Dispatched, Beheaded
    <3> QED
      BY <3>1 DEF TypeOK
  <2> QED
    BY <1>2, <2>1, Dispatched DEF TypeOK, tasks, pairing
<1> QED
  BY <1>1, <1>2

-----------------------------------------------------------------------------
(* The steps of a forwarder leave the other forwarders alone. *)

LEMMA ForwarderApart ==
  ASSUME TypeOK, NEW l \in Listeners, NEW d \in Devices, Forwarder(l, d) \/ SubscribeFails(l, d)
  PROVE  /\ phase[l] \in {"listening", "leaving"}
         /\ UNCHANGED <<phase, want, wire, value>>
         /\ \A m \in Listeners, e \in Devices : m # l \/ e # d =>
               /\ pc'[m][e] = pc[m][e] /\ inner'[m][e] = inner[m][e]
               /\ <<m, e>> \in callbacks' <=> <<m, e>> \in callbacks
         /\ \A m \in Listeners, p \in Points : m # l \/ p \notin Wanted(l, d) =>
               /\ since'[m][p] = since[m][p]
               /\ <<m, p>> \in shed => <<m, p>> \in shed'
         /\ \A m \in Listeners : m # l => yielded'[m] = yielded[m]
<1>1. phase[l] \in {"listening", "leaving"} /\ UNCHANGED <<phase, want, wire, value>>
  BY DEF Forwarder, Subscribes, Flagged, Connected, SubscribeFails, Forward, CutShort, Unwinds,
         Unsubscribed, Listening, Cancelled, tasks
<1>2. ASSUME NEW m \in Listeners, NEW e \in Devices, m # l \/ e # d
      PROVE  /\ pc'[m][e] = pc[m][e] /\ inner'[m][e] = inner[m][e]
             /\ <<m, e>> \in callbacks' <=> <<m, e>> \in callbacks
  <2>1. pc'[m][e] = pc[m][e]
    BY <1>2 DEF Forwarder, Subscribes, Flagged, Connected, SubscribeFails, Forward, CutShort, Unwinds,
                Disconnect, Unsubscribed, Goes, tasks, TypeOK
  <2>2. inner'[m][e] = inner[m][e]
    BY <1>2 DEF Forwarder, Subscribes, Flagged, Connected, SubscribeFails, Forward, CutShort, Unwinds,
                Unsubscribed, queues, TypeOK
  <2>3. <<m, e>> \in callbacks' <=> <<m, e>> \in callbacks
    BY <1>2 DEF Forwarder, Subscribes, Flagged, Connected, SubscribeFails, Forward, CutShort, Unwinds,
                Disconnect, Unsubscribed, pairing
  <2> QED
    BY <2>1, <2>2, <2>3
<1>3. ASSUME NEW m \in Listeners, NEW p \in Points, m # l \/ p \notin Wanted(l, d)
      PROVE  since'[m][p] = since[m][p] /\ (<<m, p>> \in shed => <<m, p>> \in shed')
  <2>1. since'[m][p] = since[m][p]
    BY <1>3 DEF Forwarder, Subscribes, Flagged, Connected, SubscribeFails, Forward, CutShort, Unwinds,
                Unsubscribed, TypeOK
  <2>2. <<m, p>> \in shed => <<m, p>> \in shed'
    BY <1>3 DEF Forwarder, Subscribes, Flagged, Connected, SubscribeFails, Forward, CutShort, Unwinds,
                Unsubscribed, Clears
  <2> QED
    BY <2>1, <2>2
<1>4. ASSUME NEW m \in Listeners, m # l PROVE yielded'[m] = yielded[m]
  BY <1>4 DEF Forwarder, Subscribes, Flagged, Connected, SubscribeFails, Forward, CutShort, Unwinds,
              Unsubscribed, queues, TypeOK
<1> QED
  BY <1>1, <1>2, <1>3, <1>4

\* Nor does a step of one listener touch another.
LEMMA ListenApart ==
  ASSUME TypeOK, NEW l \in Listeners, Listen(l) \/ Leave(l) \/ Left(l)
  PROVE  /\ UNCHANGED <<inner, pairing, wire, value, since, shed, stuck>>
         /\ \A m \in Listeners : m # l =>
               phase'[m] = phase[m] /\ want'[m] = want[m] /\ pc'[m] = pc[m] /\ yielded'[m] = yielded[m]
<1>1. UNCHANGED <<inner, pairing, wire, value, since, shed, stuck>>
  BY DEF Listen, Leave, Left, queues
<1>2. ASSUME NEW m \in Listeners, m # l
      PROVE  phase'[m] = phase[m] /\ want'[m] = want[m] /\ pc'[m] = pc[m] /\ yielded'[m] = yielded[m]
  BY <1>2 DEF Listen, Leave, Left, queues, TypeOK
<1> QED
  BY <1>1, <1>2

-----------------------------------------------------------------------------
(* Callbacks and forwarders. *)

LEMMA ForwarderPaired ==
  ASSUME TypeOK, Paired, NEW l \in Listeners, NEW d \in Devices,
         Forwarder(l, d) \/ SubscribeFails(l, d)
  PROVE  Paired'
<1>1. /\ <<l, d>> \in callbacks' <=> pc'[l][d] = "forwarding"
      /\ pc'[l][d] # "forwarding" => inner'[l][d] = <<>>
  <2>1. CASE Subscribes(l, d) \/ Flagged(l, d) \/ SubscribeFails(l, d) \/ CutShort(l, d) \/ Unsubscribed(l, d)
    <3>1. \E to \in {"subscribing", "answering", "failed", "ended"} : Goes(l, d, to)
      BY <2>1 DEF Subscribes, Flagged, SubscribeFails, CutShort, Unsubscribed
    <3>2. pc'[l][d] # "forwarding"
      BY <3>1, GoesType DEF Live
    <3>3. pc[l][d] # "forwarding" /\ inner' = inner /\ callbacks' = callbacks
      BY <2>1 DEF Subscribes, Flagged, SubscribeFails, CutShort, Unsubscribed, Listening, Cancelled,
                  queues, pairing
    <3> QED
      BY <3>2, <3>3 DEF Paired
  <2>2. CASE Connected(l, d)
    <3>1. pc'[l][d] = "forwarding" /\ <<l, d>> \in callbacks'
      BY <2>2, GoesType DEF Connected, Live
    <3> QED
      BY <3>1
  <2>3. CASE Forward(l, d)
    <3>1. pc[l][d] = "forwarding" /\ pc' = pc /\ callbacks' = callbacks
      BY <2>3 DEF Forward, Listening, tasks, pairing
    <3> QED
      BY <3>1 DEF Paired
  <2>4. CASE Unwinds(l, d)
    <3>1. pc'[l][d] = "unsubscribing" /\ <<l, d>> \notin callbacks'
      BY <2>4, GoesType DEF Unwinds, Disconnect, Live
    <3>2. inner'[l][d] = <<>>
      BY <2>4 DEF Unwinds, TypeOK
    <3> QED
      BY <3>1, <3>2
  <2> QED
    BY <2>1, <2>2, <2>3, <2>4 DEF Forwarder
<1>2. ASSUME NEW m \in Listeners, NEW e \in Devices
      PROVE  /\ <<m, e>> \in callbacks' <=> pc'[m][e] = "forwarding"
             /\ pc'[m][e] # "forwarding" => inner'[m][e] = <<>>
  BY <1>1, ForwarderApart DEF Paired
<1>3. ASSUME NEW m \in Listeners, phase'[m] = "idle" PROVE \A e \in Devices : pc'[m][e] = "none"
  <2>1. phase[m] = "idle" /\ m # l
    BY <1>3, ForwarderApart
  <2>2. \A e \in Devices : pc'[m][e] = pc[m][e]
    BY <2>1, ForwarderApart
  <2> QED
    BY <2>1, <2>2 DEF Paired
<1> QED
  BY <1>2, <1>3 DEF Paired

LEMMA ListenPaired ==
  ASSUME TypeOK, Paired, NEW l \in Listeners, Listen(l) \/ Leave(l) \/ Left(l)
  PROVE  Paired'
<1>1. inner' = inner /\ callbacks' = callbacks
  BY ListenApart DEF pairing
<1>2. \A d \in Devices : pc'[l][d] = "forwarding" <=> pc[l][d] = "forwarding"
  <2>1. CASE Listen(l)
    <3>1. \A d \in Devices : pc[l][d] = "none"
      BY <2>1 DEF Listen, Paired
    <3>2. \A d \in Devices : pc'[l][d] \in {"ready", "none"}
      BY <2>1 DEF Listen, TypeOK
    <3> QED
      BY <3>1, <3>2
  <2>2. CASE Leave(l)
    BY <2>2 DEF Leave
  <2>3. CASE Left(l)
    BY <2>3 DEF Left, TypeOK, Live
  <2> QED
    BY <2>1, <2>2, <2>3
<1>3. phase'[l] = "idle" => \A d \in Devices : pc'[l][d] = "none"
  BY DEF Listen, Leave, Left, TypeOK
<1> QED
  BY <1>1, <1>2, <1>3, ListenApart DEF Paired

\* What the accessories and the dispatcher do moves no forwarder.
LEMMA WirePaired ==
  ASSUME TypeOK, Paired, (\E p \in Points : Change(p)) \/ (\E d \in Devices : Dispatch(d))
  PROVE  Paired'
<1>1. ASSUME NEW p \in Points, Change(p) PROVE Paired'
  <2>1. UNCHANGED <<phase, pc, inner, callbacks>>
    BY <1>1 DEF Change, tasks, queues, pairing
  <2> QED
    BY <2>1 DEF Paired
<1>2. ASSUME NEW d \in Devices, Dispatch(d) PROVE Paired'
  <2>1. UNCHANGED <<phase, pc, callbacks>>
    BY <1>2 DEF Dispatch, tasks, pairing
  <2>2. ASSUME NEW l \in Listeners, NEW e \in Devices, pc[l][e] # "forwarding"
        PROVE  inner'[l][e] = <<>>
    <3>1. <<l, e>> \notin callbacks /\ inner[l][e] = <<>>
      BY <2>2 DEF Paired
    <3>2. ~(e = d /\ <<l, d>> \in callbacks)
      BY <3>1
    <3> QED
      BY <1>2, <3>1, <3>2, Dispatched
  <2> QED
    BY <2>1, <2>2 DEF Paired
<1> QED
  BY <1>1, <1>2

-----------------------------------------------------------------------------
(* The event flags. *)

\* A flag that goes was one of this forwarder's, whose pairing.unsubscribe has cleared it.
LEMMA FlagGoes ==
  ASSUME TypeOK, NEW l \in Listeners, NEW d \in Devices, Forwarder(l, d) \/ SubscribeFails(l, d),
         NEW p \in subscribed, p \notin subscribed'
  PROVE  Clears(l, d) /\ phase[l] = "leaving" /\ p \in Wanted(l, d)
<1>1. Unsubscribed(l, d)
  BY DEF Forwarder, Subscribes, Flagged, Connected, SubscribeFails, Forward, CutShort, Unwinds, pairing
<1>2. Clears(l, d)
  BY <1>1 DEF Unsubscribed
<1> QED
  BY <1>1, <1>2 DEF Unsubscribed, Cancelled, Clears, Given

LEMMA ForwarderFlagsStand ==
  ASSUME TypeOK, FlagsStand, NEW l \in Listeners, NEW d \in Devices,
         Forwarder(l, d) \/ SubscribeFails(l, d)
  PROVE  FlagsStand'
<1>0. /\ \A m \in Listeners, e \in Devices : m # l \/ e # d => pc'[m][e] = pc[m][e]
      /\ \A m \in Listeners, p \in Points :
            m # l \/ p \notin Wanted(l, d) => (<<m, p>> \in shed => <<m, p>> \in shed')
  BY ForwarderApart
<1> SUFFICES ASSUME NEW m \in Listeners, NEW p \in Points,
                    phase'[m] = "listening", p \in want'[m], <<m, p>> \notin shed',
                    pc'[m][DeviceOf[p]] \in {"answering", "forwarding"}
             PROVE  p \in subscribed'
  BY DEF FlagsStand
<1>1. phase' = phase /\ want' = want /\ DeviceOf[p] \in Devices
  BY ForwarderApart, SubscriptionsAssumption
<1>2. CASE m = l /\ DeviceOf[p] = d
  <2>1. p \in Wanted(l, d) /\ phase[l] = "listening"
    BY <1>1, <1>2 DEF Wanted
  <2>2. CASE Flagged(l, d)
    BY <2>1, <2>2 DEF Flagged
  <2>3. CASE Connected(l, d) \/ Forward(l, d)
    <3>1. /\ pc[l][d] \in {"answering", "forwarding"}
          /\ subscribed' = subscribed /\ shed' = shed
      BY <2>3 DEF Connected, Forward, Listening, pairing
    <3> QED
      BY <1>1, <1>2, <3>1 DEF FlagsStand
  <2>4. CASE Subscribes(l, d) \/ SubscribeFails(l, d)
    <3>1. pc'[l][d] \in {"subscribing", "failed"}
      BY <2>4, GoesType DEF Subscribes, SubscribeFails, Live
    <3> QED
      BY <1>2, <3>1
  <2>5. ~(CutShort(l, d) \/ Unwinds(l, d) \/ Unsubscribed(l, d))
    BY <2>1 DEF CutShort, Unwinds, Unsubscribed, Cancelled
  <2> QED
    BY <2>2, <2>3, <2>4, <2>5 DEF Forwarder
<1>3. CASE m # l \/ DeviceOf[p] # d
  <2>1. pc'[m][DeviceOf[p]] = pc[m][DeviceOf[p]]
    BY <1>0, <1>1, <1>3
  <2>2. m # l \/ p \notin Wanted(l, d)
    BY <1>3 DEF Wanted
  <2>3. <<m, p>> \notin shed
    BY <1>0, <2>2
  <2>4. p \in subscribed
    BY <1>1, <2>1, <2>3 DEF FlagsStand
  <2>5. SUFFICES ASSUME p \notin subscribed' PROVE FALSE
    OBVIOUS
  <2>6. Clears(l, d) /\ p \in Wanted(l, d)
    BY <2>4, <2>5, FlagGoes
  <2>7. m # l /\ DeviceOf[p] = d
    BY <2>2, <2>6 DEF Wanted
  <2>8. <<m, p>> \in (Listeners \ {l}) \X Wanted(l, d)
    BY <2>6, <2>7
  <2>9. <<m, p>> \in shed'
    BY <1>1, <2>1, <2>6, <2>7, <2>8 DEF Clears
  <2> QED
    BY <2>9
<1> QED
  BY <1>2, <1>3

LEMMA ForwarderFlagsOwned ==
  ASSUME TypeOK, FlagsOwned, NEW l \in Listeners, NEW d \in Devices,
         Forwarder(l, d) \/ SubscribeFails(l, d)
  PROVE  FlagsOwned'
<1> DEFINE Owns(m, p) == p \in want[m] /\ pc[m][DeviceOf[p]] \in {"answering", "forwarding", "unsubscribing"}
<1> SUFFICES ASSUME NEW p \in subscribed' \ stuck' PROVE \E m \in Listeners : Owns(m, p)'
  BY DEF FlagsOwned
<1>1. p \in Points /\ DeviceOf[p] \in Devices /\ want' = want
  BY ForwarderType, ForwarderApart, SubscriptionsAssumption DEF TypeOK
<1>2. stuck \subseteq stuck'
  BY DEF Forwarder, Subscribes, Flagged, Connected, SubscribeFails, Forward, CutShort, Unwinds,
         Unsubscribed
<1>3. CASE p \notin Wanted(l, d)
  <2>1. p \in subscribed
    BY <1>3 DEF Forwarder, Subscribes, Flagged, Connected, SubscribeFails, Forward, CutShort, Unwinds,
                Unsubscribed, Clears, pairing
  <2>2. PICK m \in Listeners : Owns(m, p)
    BY <1>2, <2>1 DEF FlagsOwned
  <2>3. m # l \/ DeviceOf[p] # d
    BY <1>3, <2>2 DEF Wanted
  <2>4. pc'[m][DeviceOf[p]] = pc[m][DeviceOf[p]]
    BY ZenonT(60), <1>1, <2>3, ForwarderApart
  <2> QED
    BY <1>1, <2>2, <2>4
<1>4. CASE p \in Wanted(l, d)
  <2>1. p \in want'[l] /\ DeviceOf[p] = d
    BY <1>1, <1>4 DEF Wanted
  <2>2. CASE Flagged(l, d) \/ Connected(l, d) \/ Unwinds(l, d)
    <3>1. pc'[l][d] \in {"answering", "forwarding", "unsubscribing"}
      BY <2>2, GoesType DEF Flagged, Connected, Unwinds, Disconnect, Live
    <3> QED
      BY <2>1, <3>1
  <2>3. CASE Forward(l, d)
    <3>1. pc'[l][d] = "forwarding"
      BY <2>3 DEF Forward, Listening, tasks
    <3> QED
      BY <2>1, <3>1
  <2>4. CASE SubscribeFails(l, d)
    BY <1>4, <2>4 DEF SubscribeFails
  <2>5. CASE Subscribes(l, d) \/ CutShort(l, d) \/ Unsubscribed(l, d)
    <3>1. p \in subscribed /\ pc[l][d] \in {"ready", "unsubscribing"}
      BY <1>4, <2>5 DEF Subscribes, Listening, CutShort, Cancelled, Unsubscribed, Clears, Given, pairing
    <3>2. PICK m \in Listeners : Owns(m, p)
      BY <1>2, <3>1 DEF FlagsOwned
    <3>3. CASE pc[l][d] = "unsubscribing"
      <4>1. Unsubscribed(l, d)
        BY <2>5, <3>3 DEF Subscribes, Listening, CutShort, Cancelled
      <4>2. p \notin subscribed' \/ p \in stuck'
        BY <1>4, <4>1 DEF Unsubscribed, Clears, Given
      <4> QED
        BY <4>2
    <3>4. CASE pc[l][d] = "ready"
      <4>1. m # l
        BY <2>1, <3>2, <3>4
      <4>2. pc'[m][DeviceOf[p]] = pc[m][DeviceOf[p]]
        BY ZenonT(60), <1>1, <4>1, ForwarderApart
      <4> QED
        BY <1>1, <3>2, <4>2
    <3> QED
      BY <3>1, <3>3, <3>4
  <2> QED
    BY <2>2, <2>3, <2>4, <2>5 DEF Forwarder
<1> QED
  BY <1>3, <1>4

LEMMA ListenFlags ==
  ASSUME TypeOK, Paired, FlagsStand, FlagsOwned, NEW l \in Listeners, Listen(l) \/ Leave(l) \/ Left(l)
  PROVE  FlagsStand' /\ FlagsOwned'
<1>1. /\ UNCHANGED <<subscribed, shed, stuck>>
      /\ \A m \in Listeners : m # l => phase'[m] = phase[m] /\ want'[m] = want[m] /\ pc'[m] = pc[m]
  BY ListenApart DEF pairing
<1>2. CASE Leave(l)
  <2>1. phase'[l] = "leaving" /\ want' = want /\ pc' = pc
    BY <1>2 DEF Leave, TypeOK
  <2> QED
    BY <1>1, <2>1 DEF FlagsStand, FlagsOwned
<1>3. CASE Listen(l) \/ Left(l)
  <2>1. \A d \in Devices : pc[l][d] \notin {"answering", "forwarding", "unsubscribing"}
    BY <1>3 DEF Listen, Left, Paired, Live
  <2>2. \A d \in Devices : pc'[l][d] \in {"ready", "none"}
    BY <1>3 DEF Listen, Left, TypeOK
  <2>3. \A p \in Points : DeviceOf[p] \in Devices
    BY SubscriptionsAssumption
  <2>4. FlagsStand'
    BY <1>1, <2>2, <2>3 DEF FlagsStand
  <2>5. FlagsOwned'
    <3> SUFFICES ASSUME NEW p \in subscribed \ stuck
                 PROVE  \E m \in Listeners :
                           p \in want'[m] /\ pc'[m][DeviceOf[p]] \in {"answering", "forwarding", "unsubscribing"}
      BY <1>1 DEF FlagsOwned
    <3>1. PICK m \in Listeners :
             p \in want[m] /\ pc[m][DeviceOf[p]] \in {"answering", "forwarding", "unsubscribing"}
      BY DEF FlagsOwned
    <3>2. DeviceOf[p] \in Devices
      BY <2>3 DEF TypeOK
    <3>3. m # l
      BY <2>1, <3>1, <3>2
    <3> QED
      BY <1>1, <3>1, <3>3
  <2> QED
    BY <2>4, <2>5
<1> QED
  BY <1>2, <1>3

LEMMA WireFlags ==
  ASSUME FlagsStand, FlagsOwned, (\E p \in Points : Change(p)) \/ (\E d \in Devices : Dispatch(d))
  PROVE  FlagsStand' /\ FlagsOwned'
<1>1. UNCHANGED <<phase, want, pc, subscribed, shed, stuck>>
  BY DEF Change, Dispatch, tasks, pairing
<1> QED
  BY <1>1 DEF FlagsStand, FlagsOwned

-----------------------------------------------------------------------------
(* The events in the queues. *)

LEMMA PastAppended ==
  ASSUME NEW s \in Seq(Event), NEW e \in Event, NEW d, Past(s), Of(s, d),
         e.value <= value[e.point], DeviceOf[e.point] = d
  PROVE  Past(Append(s, e)) /\ Of(Append(s, e), d)
<1> DEFINE q == Append(s, e)
<1>1. /\ Len(s) \in Nat /\ Len(q) = Len(s) + 1 /\ q[Len(s) + 1] = e
      /\ \A i \in 1..Len(s) : q[i] = s[i]
  BY Appended
<1> HIDE DEF q
<1>2. \A i \in 1..Len(q) : (i \in 1..Len(s) /\ q[i] = s[i]) \/ q[i] = e
  BY <1>1
<1> QED
  BY <1>2 DEF Past, Of, q

LEMMA PastBeheaded ==
  ASSUME NEW s \in Seq(Event), s # <<>>, NEW d, Past(s), Of(s, d)
  PROVE  /\ Head(s).value <= value[Head(s).point] /\ DeviceOf[Head(s).point] = d
         /\ Past(Tail(s)) /\ Of(Tail(s), d)
<1> DEFINE q == Tail(s)
<1>1. /\ Head(s) = s[1] /\ Len(s) \in Nat \ {0} /\ Len(q) = Len(s) - 1
      /\ \A i \in 1..Len(q) : q[i] = s[i + 1]
  BY Beheaded
<1> HIDE DEF q
<1>2. 1 \in 1..Len(s) /\ \A i \in 1..Len(q) : i + 1 \in 1..Len(s) /\ q[i] = s[i + 1]
  BY <1>1
<1> QED
  BY <1>1, <1>2 DEF Past, Of, q

\* Changes only add up.
LEMMA PastStays ==
  ASSUME TypeOK, TypeOK', NEW s \in Seq(Event), Past(s),
         \A q \in Points : value[q] <= value'[q]
  PROVE  \A i \in 1..Len(s) : s[i].value <= value'[s[i].point]
<1> SUFFICES ASSUME NEW i \in 1..Len(s) PROVE s[i].value <= value'[s[i].point]
  OBVIOUS
<1>1. s[i] \in Event
  OBVIOUS
<1>2. s[i].point \in Points /\ s[i].value \in Nat
  BY <1>1 DEF Event
<1>3. s[i].value <= value[s[i].point]
  BY DEF Past
<1>4. value[s[i].point] \in Nat /\ value'[s[i].point] \in Nat /\ value[s[i].point] <= value'[s[i].point]
  BY <1>2 DEF TypeOK
<1> QED
  BY <1>2, <1>3, <1>4

LEMMA ForwarderEvents ==
  ASSUME TypeOK, EventsTrue, NEW l \in Listeners, NEW d \in Devices,
         Forwarder(l, d) \/ SubscribeFails(l, d)
  PROVE  EventsTrue'
<1>1. value' = value /\ wire' = wire
  BY ForwarderApart
<1>2. CASE Forward(l, d)
  <2>1. /\ inner[l][d] \in Seq(Event) /\ inner[l][d] # <<>> /\ yielded[l] \in Seq(Event)
        /\ yielded'[l] = Append(yielded[l], Head(inner[l][d])) /\ inner'[l][d] = Tail(inner[l][d])
    BY <1>2 DEF Forward, TypeOK
  <2>2. Past(yielded[l]) /\ Past(inner[l][d]) /\ Of(inner[l][d], d)
    BY DEF EventsTrue
  <2>3. Head(inner[l][d]) \in Event /\ Head(inner[l][d]).value <= value[Head(inner[l][d]).point]
    BY <2>1, <2>2, Beheaded, PastBeheaded
  <2>4. Past(inner'[l][d]) /\ Of(inner'[l][d], d)
    BY <2>1, <2>2, PastBeheaded
  <2>5. Past(yielded'[l])
    <3> DEFINE s == yielded[l]
               e == Head(inner[l][d])
               q == Append(s, e)
    <3>1. /\ Len(s) \in Nat /\ Len(q) = Len(s) + 1 /\ q[Len(s) + 1] = e
          /\ \A i \in 1..Len(s) : q[i] = s[i]
      BY <2>1, <2>3, Appended
    <3>2. yielded'[l] = q /\ Past(s) /\ e.value <= value[e.point]
      BY <2>1, <2>2, <2>3
    <3> HIDE DEF q, s, e
    <3>3. \A i \in 1..Len(q) : (i \in 1..Len(s) /\ q[i] = s[i]) \/ q[i] = e
      BY <3>1
    <3> QED
      BY <3>2, <3>3 DEF Past
  <2>6. \A m \in Listeners : Past(yielded'[m])
    BY <2>5, ForwarderApart DEF EventsTrue
  <2>7. ASSUME NEW m \in Listeners, NEW e \in Devices PROVE Past(inner'[m][e]) /\ Of(inner'[m][e], e)
    <3>1. CASE m # l \/ e # d
      <4>1. inner'[m][e] = inner[m][e]
        BY <3>1, ForwarderApart
      <4> QED
        BY <4>1 DEF EventsTrue
    <3>2. CASE m = l /\ e = d
      BY <2>4, <3>2
    <3> QED
      BY <3>1, <3>2
  <2> QED
    BY <1>1, <2>6, <2>7 DEF EventsTrue, Past, Of
<1>3. CASE Unwinds(l, d)
  <2>1. inner'[l][d] = <<>> /\ yielded' = yielded
    BY <1>3 DEF Unwinds, TypeOK
  <2>2. Past(inner'[l][d]) /\ Of(inner'[l][d], d)
    BY <2>1 DEF Past, Of
  <2>3. ASSUME NEW m \in Listeners, NEW e \in Devices PROVE Past(inner'[m][e]) /\ Of(inner'[m][e], e)
    <3>1. CASE m # l \/ e # d
      <4>1. inner'[m][e] = inner[m][e]
        BY <3>1, ForwarderApart
      <4> QED
        BY <4>1 DEF EventsTrue
    <3>2. CASE m = l /\ e = d
      BY <2>2, <3>2
    <3> QED
      BY <3>1, <3>2
  <2> QED
    BY <1>1, <2>1, <2>3 DEF EventsTrue, Past, Of
<1>4. CASE ~Forward(l, d) /\ ~Unwinds(l, d)
  <2>1. inner' = inner /\ yielded' = yielded
    BY <1>4 DEF Forwarder, Subscribes, Flagged, Connected, SubscribeFails, CutShort, Unsubscribed, queues
  <2> QED
    BY <1>1, <2>1 DEF EventsTrue, Past, Of
<1> QED
  BY <1>2, <1>3, <1>4

LEMMA ListenEvents ==
  ASSUME TypeOK, EventsTrue, NEW l \in Listeners, Listen(l) \/ Leave(l) \/ Left(l)
  PROVE  EventsTrue'
<1>1. UNCHANGED <<inner, wire, value>>
  BY ListenApart
<1>2. \A m \in Listeners : yielded'[m] = yielded[m] \/ yielded'[m] = <<>>
  BY DEF Listen, Leave, Left, queues, TypeOK
<1>3. Past(<<>>)
  BY DEF Past
<1>4. \A m \in Listeners : Past(yielded'[m])
  BY <1>2, <1>3 DEF EventsTrue
<1> QED
  BY <1>1, <1>4 DEF EventsTrue, Past, Of

LEMMA WireEvents ==
  ASSUME TypeOK, TypeOK', EventsTrue, (\E p \in Points : Change(p)) \/ (\E d \in Devices : Dispatch(d))
  PROVE  EventsTrue'
<1>1. ASSUME NEW p \in Points, Change(p) PROVE EventsTrue'
  <2> DEFINE e == [point |-> p, value |-> value[p] + 1]
  <2>1. \A q \in Points : value[q] <= value'[q]
    <3>1. value \in [Points -> Nat] /\ value' = [value EXCEPT ![p] = @ + 1]
      BY <1>1, Changed DEF TypeOK
    <3> QED
      BY <3>1
  <2>2. yielded' = yielded /\ inner' = inner
    BY <1>1 DEF Change, queues
  <2>3. ASSUME NEW s \in Seq(Event), Past(s)
        PROVE  \A i \in 1..Len(s) : s[i].value <= value'[s[i].point]
    BY <2>1, <2>3, PastStays
  <2>4. \A l \in Listeners : Past(yielded[l])'
    BY <2>2, <2>3 DEF EventsTrue, TypeOK, Past
  <2>5. \A l \in Listeners, d \in Devices : Past(inner[l][d])' /\ Of(inner[l][d], d)'
    <3> SUFFICES ASSUME NEW l \in Listeners, NEW d \in Devices
                 PROVE  Past(inner[l][d])' /\ Of(inner[l][d], d)'
      OBVIOUS
    <3>1. inner[l][d] \in Seq(Event) /\ Past(inner[l][d]) /\ Of(inner[l][d], d)
      BY DEF EventsTrue, TypeOK
    <3>2. Past(inner[l][d])'
      BY <2>2, <2>3, <3>1 DEF Past
    <3> QED
      BY <2>2, <3>1, <3>2 DEF Of
  <2>6. ASSUME NEW d \in Devices PROVE Past(wire[d])' /\ Of(wire[d], d)'
    <3>1. wire[d] \in Seq(Event) /\ Past(wire[d]) /\ Of(wire[d], d)
      BY DEF EventsTrue, TypeOK
    <3>2. \A i \in 1..Len(wire[d]) : wire[d][i].value <= value'[wire[d][i].point]
      BY <2>3, <3>1
    <3>3. CASE wire'[d] = wire[d]
      BY <3>1, <3>2, <3>3 DEF Past, Of
    <3>4. CASE wire'[d] = Append(wire[d], e) /\ d = DeviceOf[p]
      <4>1. e \in Event /\ e.point = p /\ e.value <= value'[e.point] /\ DeviceOf[e.point] = d
        <5>1. value \in [Points -> Nat] /\ value' = [value EXCEPT ![p] = @ + 1] /\ e \in Event
          BY <1>1, Changed DEF TypeOK
        <5>2. e.point = p /\ e.value = value[p] + 1
          OBVIOUS
        <5>3. value'[p] = value[p] + 1 /\ value[p] \in Nat
          BY <5>1
        <5> HIDE DEF e
        <5> QED
          BY <3>4, <5>1, <5>2, <5>3
      <4> DEFINE s == wire[d]
                 q == Append(s, e)
      <4>2. /\ Len(s) \in Nat /\ Len(q) = Len(s) + 1 /\ q[Len(s) + 1] = e
            /\ \A i \in 1..Len(s) : q[i] = s[i]
        BY <3>1, <4>1, Appended
      <4>3. /\ wire'[d] = q /\ \A i \in 1..Len(s) : s[i].value <= value'[s[i].point]
            /\ \A i \in 1..Len(s) : DeviceOf[s[i].point] = d
        BY <3>1, <3>2, <3>4 DEF Of
      <4> HIDE DEF q, s, e
      <4>4. \A i \in 1..Len(q) : (i \in 1..Len(s) /\ q[i] = s[i]) \/ q[i] = e
        BY <4>2
      <4> QED
        BY <4>1, <4>3, <4>4 DEF Past, Of
    <3> QED
      BY <1>1, <3>3, <3>4, Changed
  <2> QED
    BY <2>4, <2>5, <2>6 DEF EventsTrue
<1>2. ASSUME NEW d \in Devices, Dispatch(d) PROVE EventsTrue'
  <2>1. /\ value' = value /\ yielded' = yielded
        /\ wire[d] \in Seq(Event) /\ wire[d] # <<>> /\ Head(wire[d]) \in Event
        /\ Past(wire[d]) /\ Of(wire[d], d)
    BY <1>2, Dispatched DEF EventsTrue
  <2>2. /\ Head(wire[d]).value <= value[Head(wire[d]).point] /\ DeviceOf[Head(wire[d]).point] = d
        /\ Past(Tail(wire[d])) /\ Of(Tail(wire[d]), d)
    BY <2>1, PastBeheaded
  <2>3. \A e \in Devices : Past(wire'[e]) /\ Of(wire'[e], e)
    BY ZenonT(60), <1>2, <2>2, Dispatched DEF EventsTrue, TypeOK
  <2>4. ASSUME NEW l \in Listeners, NEW e \in Devices PROVE Past(inner'[l][e]) /\ Of(inner'[l][e], e)
    <3>1. inner[l][e] \in Seq(Event) /\ Past(inner[l][e]) /\ Of(inner[l][e], e)
      BY DEF EventsTrue, TypeOK
    <3>2. CASE inner'[l][e] = inner[l][e]
      BY <3>1, <3>2
    <3>3. CASE e = d /\ inner'[l][e] = Append(inner[l][e], Head(wire[d]))
      BY <2>1, <2>2, <3>1, <3>3, PastAppended
    <3> QED
      BY ZenonT(60), <1>2, <3>2, <3>3, Dispatched
  <2> QED
    BY <2>1, <2>3, <2>4 DEF EventsTrue, Past, Of
<1> QED
  BY <1>1, <1>2

-----------------------------------------------------------------------------
(* The changes on their way. *)

LEMMA SplitStays ==
  ASSUME Split, NEW l \in Listeners, NEW p \in Points, Attends(l, p),
         since'[l][p] = since[l][p], value'[p] = value[p], yielded'[l] = yielded[l],
         inner'[l][DeviceOf[p]] = inner[l][DeviceOf[p]], wire'[DeviceOf[p]] = wire[DeviceOf[p]]
  PROVE  \E y, z \in 0 .. value'[p] : OnTheWay(l, p, y, z)'
<1>1. PICK y \in 0 .. value[p], z \in 0 .. value[p] : OnTheWay(l, p, y, z)
  BY DEF Split
<1>2. OnTheWay(l, p, y, z)'
  BY <1>1 DEF OnTheWay
<1> QED
  BY <1>1, <1>2

\* A listener starts, leaves or is done.
LEMMA ListenSplit ==
  ASSUME TypeOK, Paired, Split, NEW l \in Listeners, Listen(l) \/ Leave(l) \/ Left(l)
  PROVE  Split'
<1> SUFFICES ASSUME NEW m \in Listeners, NEW p \in Points, Attends(m, p)'
             PROVE  \E y, z \in 0 .. value'[p] : OnTheWay(m, p, y, z)'
  BY DEF Split
<1>1. UNCHANGED <<inner, callbacks, wire, value, since, shed>> /\ DeviceOf[p] \in Devices
  BY ListenApart, SubscriptionsAssumption DEF pairing
<1>2. /\ phase'[m] = "listening" /\ <<m, DeviceOf[p]>> \in callbacks
      /\ p \in want'[m] /\ <<m, p>> \notin shed
  BY <1>1 DEF Attends
<1>3. m # l
  <2>1. ~Listen(m)
    BY <1>1, <1>2 DEF Listen, Paired
  <2>2. Leave(m) \/ Left(m) => phase'[m] # "listening"
    BY DEF Leave, Left, TypeOK
  <2> QED
    BY <1>2, <2>1, <2>2
<1>4. phase'[m] = phase[m] /\ want'[m] = want[m] /\ yielded'[m] = yielded[m]
  BY <1>3, ListenApart
<1>5. Attends(m, p)
  BY <1>2, <1>4 DEF Attends
<1> QED
  BY <1>1, <1>4, <1>5, SplitStays

\* A callback is connected behind everything that was sent so far.
LEMMA ConnectedSplit ==
  ASSUME TypeOK, Paired, EventsTrue, NEW l \in Listeners, NEW d \in Devices, Connected(l, d),
         NEW p \in Wanted(l, d)
  PROVE  \E y, z \in 0 .. value'[p] : OnTheWay(l, p, y, z)'
<1>1. p \in Points /\ DeviceOf[p] = d /\ value[p] \in Nat
  BY DEF Wanted, TypeOK
<1>2. since'[l][p] = value[p] /\ UNCHANGED <<yielded, inner, wire, value>>
  BY <1>1 DEF Connected, queues, TypeOK
<1>3. ASSUME NEW s \in Seq(Event), Past(s) PROVE Carries(s, p, value[p], value[p], value[p])
  <2>1. \A i \in 1..Len(s) : s[i].point = p => s[i].value <= value[p]
    BY <1>3 DEF Past
  <2> QED
    BY <1>1, <2>1, CarriesNone
<1>4. /\ yielded[l] \in Seq(Event) /\ Past(yielded[l])
      /\ inner[l][d] \in Seq(Event) /\ Past(inner[l][d])
      /\ wire[d] \in Seq(Event) /\ Past(wire[d])
  BY DEF TypeOK, EventsTrue
<1>5. /\ Carries(yielded[l], p, value[p], value[p], value[p])
      /\ Carries(inner[l][d], p, value[p], value[p], value[p])
      /\ Carries(wire[d], p, value[p], value[p], value[p])
  BY <1>3, <1>4
<1>6. value'[p] = value[p] /\ yielded'[l] = yielded[l] /\ inner'[l][d] = inner[l][d] /\ wire'[d] = wire[d]
  BY <1>2
<1>7. PICK n \in 0 .. value[p] : n = value[p] /\ n \in Nat /\ n <= n
  BY <1>1
<1>8. OnTheWay(l, p, n, n)'
  BY <1>1, <1>2, <1>5, <1>6, <1>7 DEF OnTheWay
<1> QED
  BY <1>6, <1>7, <1>8

\* An event moves from the second queue to the third.
LEMMA ForwardSplit ==
  ASSUME TypeOK, EventsTrue, Split, NEW l \in Listeners, NEW d \in Devices, Forward(l, d),
         NEW p \in Points, Attends(l, p)
  PROVE  \E y, z \in 0 .. value'[p] : OnTheWay(l, p, y, z)'
<1> DEFINE e == Head(inner[l][d])
<1>1. /\ inner[l][d] \in Seq(Event) /\ inner[l][d] # <<>> /\ yielded[l] \in Seq(Event)
      /\ yielded'[l] = Append(yielded[l], e) /\ inner'[l][d] = Tail(inner[l][d])
      /\ \A f \in Devices : f # d => inner'[l][f] = inner[l][f]
      /\ UNCHANGED <<wire, value, since>>
  BY DEF Forward, TypeOK
<1>2. e \in Event /\ DeviceOf[e.point] = d
  BY <1>1, Beheaded, PastBeheaded DEF EventsTrue
<1>3. PICK y \in 0 .. value[p], z \in 0 .. value[p] : OnTheWay(l, p, y, z)
  BY DEF Split
<1>4. value[p] \in Nat /\ since[l][p] \in Nat /\ y \in Nat /\ z \in Nat /\ DeviceOf[p] \in Devices
  BY SubscriptionsAssumption DEF TypeOK
<1>5. /\ since[l][p] <= y /\ y <= z /\ z <= value[p]
      /\ Carries(yielded[l], p, since[l][p], since[l][p], y)
      /\ Carries(inner[l][DeviceOf[p]], p, since[l][p], y, z)
      /\ Carries(wire[DeviceOf[p]], p, since[l][p], z, value[p])
  BY <1>3 DEF OnTheWay
<1> HIDE DEF e
<1>6. CASE e.point = p /\ e.value > since[l][p]
  <2>1. DeviceOf[p] = d
    BY <1>2, <1>6
  <2>2. e.value = y + 1 /\ y + 1 <= z /\ Carries(Tail(inner[l][d]), p, since[l][p], y + 1, z)
    BY SMTT(60), <1>1, <1>4, <1>5, <1>6, <2>1, CarriesHead DEF e
  <2>3. Carries(Append(yielded[l], e), p, since[l][p], since[l][p], y + 1)
    BY <1>1, <1>2, <1>4, <1>5, <1>6, <2>2, CarriesNext
  <2>4. since'[l][p] = since[l][p] /\ value'[p] = value[p] /\ wire'[d] = wire[d]
    BY <1>1
  <2>5. y + 1 \in Nat /\ since[l][p] <= y + 1 /\ y + 1 \in 0 .. value'[p] /\ z \in 0 .. value'[p]
    BY <1>4, <1>5, <2>2, <2>4
  <2>6. OnTheWay(l, p, y + 1, z)'
    BY <1>1, <1>4, <1>5, <2>1, <2>2, <2>3, <2>4, <2>5 DEF OnTheWay
  <2> QED
    BY <2>5, <2>6
<1>7. CASE ~(e.point = p /\ e.value > since[l][p])
  <2>1. Carries(Append(yielded[l], e), p, since[l][p], since[l][p], y)
    BY <1>1, <1>2, <1>4, <1>5, <1>7, CarriesOther
  <2>2. Carries(inner'[l][DeviceOf[p]], p, since[l][p], y, z)
    <3>1. CASE DeviceOf[p] = d
      BY <1>1, <1>4, <1>5, <1>7, <3>1, CarriesRest DEF e
    <3>2. CASE DeviceOf[p] # d
      <4>1. inner'[l][DeviceOf[p]] = inner[l][DeviceOf[p]]
        BY <1>1, <1>4, <3>2
      <4> QED
        BY <1>5, <4>1
    <3> QED
      BY <3>1, <3>2
  <2>3. since'[l][p] = since[l][p] /\ value'[p] = value[p] /\ wire' = wire
    BY <1>1
  <2>4. OnTheWay(l, p, y, z)'
    BY <1>1, <1>4, <1>5, <2>1, <2>2, <2>3 DEF OnTheWay
  <2> QED
    BY <2>3, <2>4
<1> QED
  BY <1>6, <1>7

LEMMA ForwarderSplit ==
  ASSUME TypeOK, Paired, Paired', EventsTrue, Split, NEW l \in Listeners, NEW d \in Devices,
         Forwarder(l, d) \/ SubscribeFails(l, d)
  PROVE  Split'
<1>0. /\ UNCHANGED <<phase, want, wire, value>>
      /\ \A m \in Listeners, e \in Devices : m # l \/ e # d =>
            inner'[m][e] = inner[m][e] /\ (<<m, e>> \in callbacks' => <<m, e>> \in callbacks)
      /\ \A m \in Listeners, p \in Points : m # l \/ p \notin Wanted(l, d) =>
            since'[m][p] = since[m][p] /\ (<<m, p>> \in shed => <<m, p>> \in shed')
      /\ \A m \in Listeners : m # l => yielded'[m] = yielded[m]
  BY ForwarderApart
<1> SUFFICES ASSUME NEW m \in Listeners, NEW p \in Points, Attends(m, p)'
             PROVE  \E y, z \in 0 .. value'[p] : OnTheWay(m, p, y, z)'
  BY DEF Split
<1>1. /\ phase[m] = "listening" /\ <<m, DeviceOf[p]>> \in callbacks'
      /\ p \in want[m] /\ <<m, p>> \notin shed' /\ DeviceOf[p] \in Devices
  BY <1>0, SubscriptionsAssumption DEF Attends
<1>2. CASE m # l \/ DeviceOf[p] # d
  <2>1. m # l \/ p \notin Wanted(l, d)
    BY <1>2 DEF Wanted
  <2>2. <<m, p>> \notin shed /\ since'[m][p] = since[m][p]
    BY <1>0, <1>1, <2>1
  <2>3. <<m, DeviceOf[p]>> \in callbacks /\ inner'[m][DeviceOf[p]] = inner[m][DeviceOf[p]]
    BY <1>0, <1>1, <1>2
  <2>4. Attends(m, p)
    BY <1>1, <2>2, <2>3 DEF Attends
  <2>5. CASE m = l /\ Forward(l, d)
    BY <2>4, <2>5, ForwardSplit
  <2>6. CASE m # l \/ ~Forward(l, d)
    <3>1. yielded'[m] = yielded[m]
      BY <1>0, <2>6 DEF Forwarder, Subscribes, Flagged, Connected, SubscribeFails, CutShort, Unwinds,
                        Unsubscribed, queues
    <3>2. value'[p] = value[p] /\ wire'[DeviceOf[p]] = wire[DeviceOf[p]]
      BY <1>0
    <3> QED
      BY <2>2, <2>3, <2>4, <3>1, <3>2, SplitStays
  <2> QED
    BY <2>5, <2>6
<1>3. CASE m = l /\ DeviceOf[p] = d
  <2>1. p \in Wanted(l, d) /\ pc'[l][d] = "forwarding"
    BY <1>1, <1>3 DEF Wanted, Paired
  <2>2. CASE Connected(l, d)
    BY <1>3, <2>1, <2>2, ConnectedSplit
  <2>3. CASE Forward(l, d)
    <3>1. callbacks' = callbacks /\ shed' = shed
      BY <2>3 DEF Forward, pairing
    <3>2. Attends(m, p)
      BY <1>1, <3>1 DEF Attends
    <3> QED
      BY <1>3, <2>3, <3>2, ForwardSplit
  <2>4. ASSUME ~Connected(l, d), ~Forward(l, d) PROVE FALSE
    <3>1. \E to \in {"subscribing", "answering", "failed", "ended", "unsubscribing"} : Goes(l, d, to)
      BY <2>4 DEF Forwarder, Subscribes, Flagged, SubscribeFails, CutShort, Unwinds, Disconnect,
                  Unsubscribed
    <3>2. pc'[l][d] # "forwarding"
      BY <3>1, GoesType DEF Live
    <3> QED
      BY <2>1, <3>2
  <2> QED
    BY <2>2, <2>3, <2>4
<1> QED
  BY <1>2, <1>3

\* An attended point that changes is told of: its flag is set.
LEMMA ChangeSplit ==
  ASSUME TypeOK, Paired, FlagsStand, Split, NEW q \in Points, Change(q)
  PROVE  Split'
<1> SUFFICES ASSUME NEW l \in Listeners, NEW p \in Points, Attends(l, p)'
             PROVE  \E y, z \in 0 .. value'[p] : OnTheWay(l, p, y, z)'
  BY DEF Split
<1> DEFINE e == [point |-> q, value |-> value[q] + 1]
           d == DeviceOf[p]
<1>1. UNCHANGED <<phase, want, pc, inner, yielded, subscribed, callbacks, since, shed>>
  BY DEF Change, tasks, queues, pairing
<1>2. Attends(l, p)
  BY <1>1 DEF Attends
<1>3. /\ d \in Devices /\ value[p] \in Nat /\ value[q] \in Nat /\ wire[d] \in Seq(Event)
      /\ since[l][p] \in Nat
  BY SubscriptionsAssumption DEF TypeOK
<1>4. e \in Event /\ value' = [value EXCEPT ![q] = @ + 1]
  BY Changed
<1>5. wire'[d] = IF q \in subscribed /\ d = DeviceOf[q] THEN Append(wire[d], e) ELSE wire[d]
  BY <1>3, Changed
<1>6. PICK y \in 0 .. value[p], z \in 0 .. value[p] : OnTheWay(l, p, y, z)
  BY <1>2 DEF Split
<1>7. y \in Nat /\ z \in Nat
  BY <1>3
<1>8. /\ since[l][p] <= y /\ y <= z /\ z <= value[p]
      /\ Carries(yielded[l], p, since[l][p], since[l][p], y)
      /\ Carries(inner[l][d], p, since[l][p], y, z)
      /\ Carries(wire[d], p, since[l][p], z, value[p])
  BY <1>6 DEF OnTheWay
<1>9. Carries(wire'[d], p, since[l][p], z, value'[p]) /\ value[p] <= value'[p]
  <2>1. CASE p = q
    <3>1. q \in subscribed
      BY <1>2, <1>3, <2>1 DEF Attends, Paired, FlagsStand
    <3>2. wire'[d] = Append(wire[d], e)
      BY <1>5, <2>1, <3>1
    <3>3. value'[p] = value[p] + 1
      BY <1>4, <2>1 DEF TypeOK
    <3>4. e.point = p /\ e.value = value[p] + 1
      BY <2>1
    <3>5. since[l][p] <= value[p]
      BY <1>3, <1>7, <1>8
    <3> HIDE DEF e, d
    <3>6. Carries(Append(wire[d], e), p, since[l][p], z, value[p] + 1)
      BY <1>3, <1>4, <1>7, <1>8, <3>4, <3>5, CarriesNext
    <3> QED
      BY <1>3, <3>2, <3>3, <3>6
  <2>2. CASE p # q
    <3>1. value'[p] = value[p]
      BY <1>4, <2>2
    <3>2. e.point # p
      BY <2>2
    <3> HIDE DEF e, d
    <3>3. Carries(Append(wire[d], e), p, since[l][p], z, value[p])
      BY <1>3, <1>4, <1>8, <3>2, CarriesOther
    <3> QED
      BY <1>3, <1>5, <1>8, <3>1, <3>3
  <2> QED
    BY <2>1, <2>2
<1>10. y \in 0 .. value'[p] /\ z \in 0 .. value'[p] /\ z <= value'[p]
  <2>1. value'[p] \in Nat
    BY <1>3, <1>4 DEF TypeOK
  <2> QED
    BY <1>3, <1>7, <1>8, <1>9, <2>1
<1>11. OnTheWay(l, p, y, z)'
  BY <1>1, <1>7, <1>8, <1>9, <1>10 DEF OnTheWay
<1> QED
  BY <1>10, <1>11

\* An event moves from the first queue to the second of every callback.
LEMMA DispatchSplit ==
  ASSUME TypeOK, Split, NEW f \in Devices, Dispatch(f)
  PROVE  Split'
<1> SUFFICES ASSUME NEW l \in Listeners, NEW p \in Points, Attends(l, p)'
             PROVE  \E y, z \in 0 .. value'[p] : OnTheWay(l, p, y, z)'
  BY DEF Split
<1> DEFINE e == Head(wire[f])
           d == DeviceOf[p]
<1>1. UNCHANGED <<phase, want, pc, yielded, callbacks, value, since, shed>>
  BY DEF Dispatch, tasks, pairing
<1>2. Attends(l, p) /\ <<l, d>> \in callbacks
  BY <1>1 DEF Attends
<1>3. /\ d \in Devices /\ wire[f] \in Seq(Event) /\ wire[f] # <<>> /\ e \in Event
      /\ wire' = [wire EXCEPT ![f] = Tail(@)]
      /\ inner[l][d] \in Seq(Event)
      /\ inner'[l][d] = IF d = f THEN Append(inner[l][d], e) ELSE inner[l][d]
  <2>1. d \in Devices /\ inner[l][d] \in Seq(Event)
    BY SubscriptionsAssumption DEF TypeOK
  <2> HIDE DEF d
  <2> QED
    BY <1>2, <2>1, Dispatched
<1>4. wire'[d] = IF d = f THEN Tail(wire[d]) ELSE wire[d]
  BY <1>3 DEF TypeOK
<1>5. PICK y \in 0 .. value[p], z \in 0 .. value[p] : OnTheWay(l, p, y, z)
  BY <1>2 DEF Split
<1>6. value[p] \in Nat /\ since[l][p] \in Nat /\ y \in Nat /\ z \in Nat
  BY DEF TypeOK
<1>7. /\ since[l][p] <= y /\ y <= z /\ z <= value[p]
      /\ Carries(yielded[l], p, since[l][p], since[l][p], y)
      /\ Carries(inner[l][d], p, since[l][p], y, z)
      /\ Carries(wire[d], p, since[l][p], z, value[p])
  BY <1>5 DEF OnTheWay
<1>8. CASE d # f
  <2>1. inner'[l][d] = inner[l][d] /\ wire'[d] = wire[d]
    BY <1>3, <1>4, <1>8
  <2> QED
    BY <1>1, <1>2, <2>1, SplitStays
<1>9. CASE d = f /\ e.point = p /\ e.value > since[l][p]
  <2>1. inner'[l][d] = Append(inner[l][d], e) /\ wire'[d] = Tail(wire[d])
    BY <1>3, <1>4, <1>9
  <2> HIDE DEF d
  <2>2. e.value = z + 1 /\ z + 1 <= value[p] /\ Carries(Tail(wire[d]), p, since[l][p], z + 1, value[p])
    BY <1>3, <1>6, <1>7, <1>9, CarriesHead
  <2>3. since[l][p] <= z
    BY <1>6, <1>7
  <2> HIDE DEF e
  <2>4. Carries(Append(inner[l][d], e), p, since[l][p], y, z + 1)
    BY <1>3, <1>6, <1>7, <1>9, <2>2, <2>3, CarriesNext
  <2>5. since'[l][p] = since[l][p] /\ value'[p] = value[p] /\ yielded'[l] = yielded[l]
    BY <1>1
  <2>6. z + 1 \in Nat /\ y <= z + 1 /\ z + 1 \in 0 .. value'[p] /\ y \in 0 .. value'[p]
    BY <1>6, <1>7, <2>2, <2>5
  <2>7. OnTheWay(l, p, y, z + 1)'
    BY <1>6, <1>7, <2>1, <2>2, <2>4, <2>5, <2>6 DEF OnTheWay, d
  <2> QED
    BY <2>6, <2>7
<1>10. CASE d = f /\ ~(e.point = p /\ e.value > since[l][p])
  <2>1. inner'[l][d] = Append(inner[l][d], e) /\ wire'[d] = Tail(wire[d])
    BY <1>3, <1>4, <1>10
  <2> HIDE DEF d
  <2>2. Carries(Tail(wire[d]), p, since[l][p], z, value[p])
    BY <1>3, <1>6, <1>7, <1>10, CarriesRest
  <2> HIDE DEF e
  <2>3. Carries(Append(inner[l][d], e), p, since[l][p], y, z)
    BY <1>3, <1>6, <1>7, <1>10, CarriesOther
  <2>4. since'[l][p] = since[l][p] /\ value'[p] = value[p] /\ yielded'[l] = yielded[l]
    BY <1>1
  <2>5. OnTheWay(l, p, y, z)'
    BY <1>6, <1>7, <2>1, <2>2, <2>3, <2>4 DEF OnTheWay, d
  <2> QED
    BY <2>4, <2>5
<1> QED
  BY <1>8, <1>9, <1>10

-----------------------------------------------------------------------------
(* The theorems. *)

LEMMA NextIInv ==
  ASSUME IInv, [Next]_vars
  PROVE  IInv'
<1>1. ASSUME NEW l \in Listeners, Listen(l) \/ Leave(l) \/ Left(l) PROVE IInv'
  BY <1>1, ListenType, ListenPaired, ListenFlags, ListenEvents, ListenSplit DEF IInv
<1>2. ASSUME NEW l \in Listeners, NEW d \in Devices, Forwarder(l, d) \/ SubscribeFails(l, d) PROVE IInv'
  BY <1>2, ForwarderType, ForwarderPaired, ForwarderFlagsStand, ForwarderFlagsOwned, ForwarderEvents,
     ForwarderSplit DEF IInv
<1>3. ASSUME NEW p \in Points, Change(p) PROVE IInv'
  BY <1>3, WireType, WirePaired, WireFlags, WireEvents, ChangeSplit DEF IInv
<1>4. ASSUME NEW d \in Devices, Dispatch(d) PROVE IInv'
  BY <1>4, WireType, WirePaired, WireFlags, WireEvents, DispatchSplit DEF IInv
<1>5. CASE UNCHANGED vars
  BY <1>5 DEF vars, tasks, queues, pairing, IInv, TypeOK, Paired, FlagsStand, FlagsOwned, EventsTrue, Past,
              Of, Split, Attends, OnTheWay
<1> QED
  BY <1>1, <1>2, <1>3, <1>4, <1>5 DEF Next

LEMMA InitIInv ==
  ASSUME Init
  PROVE  IInv
<1>1. TypeOK
  <2>1. <<>> \in Seq(Event) /\ 0 \in 0 .. MaxListens /\ 0 \in 0 .. MaxFaults
    BY SubscriptionsAssumption
  <2> QED
    BY <2>1 DEF Init, TypeOK
<1>2. Paired /\ FlagsStand /\ FlagsOwned /\ EventsTrue /\ Split
  BY DEF Init, Paired, FlagsStand, FlagsOwned, EventsTrue, Past, Of, Split, Attends
<1> QED
  BY <1>1, <1>2 DEF IInv

\* The inductive invariant of listen, its forwarders and the dispatcher: the forwarders and their
\* callbacks, whose flags they are, and what every queue holds.
THEOREM Invariance == Spec => []IInv
<1>1. Init => IInv
  BY InitIInv
<1>2. IInv /\ [Next]_vars => IInv'
  BY NextIInv
<1> QED
  BY <1>1, <1>2, PTL DEF Spec

\* Every variable keeps its type: listen's records, the queues of subscribe and the event flags.
THEOREM TypeCorrect == Spec => []TypeOK
<1>1. IInv => TypeOK
  BY DEF IInv
<1> QED
  BY <1>1, Invariance, PTL

\* Whoever listens is given each change of its points once and in order, however many listen, come
\* and go, unless another listener's unsubscribe took the accessory's event flag.
THEOREM EveryChangeOnce == Spec => []NothingMissed
<1>1. IInv => NothingMissed
  <2> SUFFICES ASSUME IInv, NEW l \in Listeners, NEW p \in Points, Attends(l, p)
               PROVE  Carries(yielded[l] \o inner[l][DeviceOf[p]] \o wire[DeviceOf[p]], p, since[l][p],
                              since[l][p], value[p])
    BY DEF NothingMissed
  <2>1. PICK y \in 0 .. value[p], z \in 0 .. value[p] : OnTheWay(l, p, y, z)
    BY DEF IInv, Split
  <2>2. /\ yielded[l] \in Seq(Event) /\ inner[l][DeviceOf[p]] \in Seq(Event)
        /\ wire[DeviceOf[p]] \in Seq(Event) /\ value[p] \in Nat /\ since[l][p] \in Nat
        /\ y \in Nat /\ z \in Nat
    BY SubscriptionsAssumption DEF IInv, TypeOK
  <2>3. /\ since[l][p] <= y /\ y <= z /\ z <= value[p]
        /\ Carries(yielded[l], p, since[l][p], since[l][p], y)
        /\ Carries(inner[l][DeviceOf[p]], p, since[l][p], y, z)
        /\ Carries(wire[DeviceOf[p]], p, since[l][p], z, value[p])
    BY <2>1 DEF OnTheWay
  <2> DEFINE s == yielded[l] \o inner[l][DeviceOf[p]]
  <2>4. s \in Seq(Event) /\ Carries(s, p, since[l][p], since[l][p], z) /\ since[l][p] <= z
    BY <2>2, <2>3, CarriesBoth
  <2> HIDE DEF s
  <2>5. Carries(s \o wire[DeviceOf[p]], p, since[l][p], since[l][p], value[p])
    BY <2>2, <2>3, <2>4, CarriesBoth
  <2> QED
    BY <2>5 DEF s
<1> QED
  BY <1>1, Invariance, PTL

\* Who has left leaves no callback behind, and no event flag but those whose unsubscription failed or
\* was cut short.
THEOREM LeftClean == Spec => []LeavesNothing
<1>1. IInv => LeavesNothing
  <2> SUFFICES ASSUME IInv PROVE LeavesNothing
    OBVIOUS
  <2>1. \A p \in subscribed \ stuck : \E l \in Listeners :
           p \in want[l] /\ pc[l][DeviceOf[p]] \in {"answering", "forwarding", "unsubscribing"}
    BY DEF IInv, FlagsOwned
  <2>2. \A s \in callbacks : pc[s[1]][s[2]] = "forwarding"
    BY DEF IInv, TypeOK, Paired
  <2> QED
    BY <2>1, <2>2 DEF LeavesNothing
<1> QED
  BY <1>1, Invariance, PTL
=============================================================================
