--------------------------- MODULE RegistryProofs ---------------------------
(***************************************************************************)
(* Theorems about entity ids: they are distinct and lead back to their     *)
(* entities, and a new pairing takes none away.                            *)
(***************************************************************************)
EXTENDS Registry, WellFoundedInduction, FiniteSetTheorems, TLAPS

\* What auto-generated ids are made of, and every id an entity may have.
Ids == Seq(Words \cup Nat)
AllIds == Ids \cup Names

-----------------------------------------------------------------------------
(* Induction and recursion over the numbers from 0 to n. *)

LEMMA Upward ==
  ASSUME NEW n \in Nat, NEW P, 0 \in P, \A i \in 1 .. n : i - 1 \in P => i \in P
  PROVE  0 .. n \subseteq P
<1> DEFINE Missing == (0 .. n) \ P
<1> SUFFICES ASSUME Missing # {} PROVE FALSE
  OBVIOUS
<1>1. Missing \subseteq Nat
  OBVIOUS
<1>2. \E x \in Missing : \A y \in Missing : ~(<<y, x>> \in OpToRel(<, Nat))
  BY <1>1, NatLessThanWellFounded, WFMin
<1>3. PICK x \in Missing : \A y \in Missing : ~(y < x)
  BY <1>1, <1>2 DEF OpToRel
<1>4. x \in 1 .. n /\ x - 1 \in (0 .. n) /\ x - 1 < x
  OBVIOUS
<1>5. x - 1 \in P
  BY <1>3, <1>4
<1> QED
  BY <1>4, <1>5

\* A recursive definition over 0 .. n, of values that stay in a set, has a solution.
Steps(n, S, step) == step \in [1 .. n -> [S -> S]]
Follows(g, n, S, base, step) ==
  /\ g \in [0 .. n -> S]
  /\ g[0] = base
  /\ \A i \in 1 .. n : g[i] = step[i][g[i - 1]]

LEMMA Solvable ==
  ASSUME NEW n \in Nat, NEW S, NEW base \in S, NEW step, Steps(n, S, step)
  PROVE  \E g : Follows(g, n, S, base, step)
<1> USE DEF Steps
<1> DEFINE Solves(g, k) == /\ g \in [0 .. k -> S]
                           /\ g[0] = base
                           /\ \A i \in 1 .. k : g[i] = step[i][g[i - 1]]
           P == {k \in 0 .. n : \E g : Solves(g, k)}
<1>1. 0 \in P
  <2> DEFINE g == [i \in 0 .. 0 |-> base]
  <2>1. Solves(g, 0)
    OBVIOUS
  <2> HIDE DEF Solves, g
  <2> QED
    BY <2>1
<1>2. ASSUME NEW k \in 1 .. n, k - 1 \in P
      PROVE  k \in P
  <2>1. PICK g : Solves(g, k - 1)
    BY <1>2
  <2> DEFINE h == [i \in 0 .. k |-> IF i = k THEN step[k][g[k - 1]] ELSE g[i]]
  <2>2. k - 1 \in 0 .. k - 1 /\ g[k - 1] \in S /\ step[k] \in [S -> S]
    BY <2>1
  <2>3. step[k][g[k - 1]] \in S
    BY <2>2
  <2>4. h \in [0 .. k -> S] /\ h[0] = base
    BY <2>1, <2>3
  <2>5. ASSUME NEW i \in 1 .. k
        PROVE  h[i] = step[i][h[i - 1]]
    <3>1. h[i - 1] = g[i - 1]
      OBVIOUS
    <3> QED
      BY <2>1, <3>1
  <2>6. Solves(h, k)
    BY <2>4, <2>5
  <2> HIDE DEF Solves, h
  <2> QED
    BY <2>6
<1> HIDE DEF Solves
<1>3. 0 .. n \subseteq P
  <2> HIDE DEF P
  <2> QED
    BY <1>1, <1>2, Upward
<1>4. n \in 0 .. n
  OBVIOUS
<1>5. \E g : Solves(g, n)
  BY <1>3, <1>4
<1> QED
  BY <1>5 DEF Solves, Follows

LEMMA Stepwise ==
  ASSUME NEW n \in Nat, NEW S, NEW base \in S, NEW step, Steps(n, S, step),
         NEW g, Follows(g, n, S, base, step), NEW i \in 1 .. n
  PROVE  i - 1 \in 0 .. n /\ g[i - 1] \in S /\ g[i] = step[i][g[i - 1]]
<1>1. i - 1 \in 0 .. n
  OBVIOUS
<1> QED
  BY <1>1 DEF Follows

-----------------------------------------------------------------------------
(* Auto-generated ids. *)

\* The numbers from 2 on run out for no base: as many as there are ids in use are not
\* enough to take them all.
LEMMA NumberIsFree ==
  ASSUME NEW base \in Ids, NEW taken, IsFiniteSet(taken)
  PROVE  /\ FreeNumber(base, taken) \in Nat
         /\ Append(base, FreeNumber(base, taken)) \notin taken
<1> DEFINE k == Cardinality(taken)
           S == 2 .. k + 2
           Free == {n \in S : Append(base, n) \notin taken}
<1>1. k \in Nat
  BY FS_CardinalityType
<1>2. IsFiniteSet(S) /\ Cardinality(S) = k + 1
  BY <1>1, FS_Interval
<1>3. Free # {}
  <2> SUFFICES ASSUME \A n \in S : Append(base, n) \in taken PROVE FALSE
    OBVIOUS
  <2> DEFINE f == [n \in S |-> Append(base, n)]
  <2>1. f \in [S -> taken]
    OBVIOUS
  <2>2. PICK x \in S, y \in S : x # y /\ f[x] = f[y]
    <3> HIDE DEF f, S
    <3> QED
      BY <1>1, <1>2, <2>1, FS_PigeonHole
  <2>3. Append(base, x) = Append(base, y)
    BY <2>2
  <2>4. Append(base, x)[Len(base) + 1] = x /\ Append(base, y)[Len(base) + 1] = y
    BY DEF Ids
  <2> QED
    BY <2>2, <2>3, <2>4
<1>4. Free \subseteq Nat
  BY <1>1
<1>5. \E x \in Free : \A y \in Free : ~(<<y, x>> \in OpToRel(<, Nat))
  BY <1>3, <1>4, NatLessThanWellFounded, WFMin
<1>6. PICK x \in Free : \A y \in Free : ~(y < x)
  BY <1>4, <1>5 DEF OpToRel
<1>7. \A y \in Free : x <= y
  BY <1>4, <1>6
<1>8. Min(Free) \in Free
  BY <1>7 DEF Min
<1> QED
  BY <1>4, <1>8 DEF FreeNumber

LEMMA AllocatedIsFree ==
  ASSUME NEW base \in Ids, NEW taken, IsFiniteSet(taken)
  PROVE  Allocated(base, taken) \in Ids \ taken
<1>1. FreeNumber(base, taken) \in Words \cup Nat
  BY NumberIsFree
<1>2. Append(base, FreeNumber(base, taken)) \in Ids
  BY <1>1 DEF Ids
<1> QED
  BY <1>2, NumberIsFree DEF Allocated

LEMMA BaseIs ==
  ASSUME NEW at \in Places
  PROVE  BaseOf(at) \in Ids
<1>0. PICK d \in Devices : \E i \in DOMAIN ServicesOf[d] : at = <<d, i>>
  BY DEF Places
<1>1. PICK i \in DOMAIN ServicesOf[d] : at = <<d, i>>
  BY <1>0
<1>2. ServicesOf[d] \in Seq([domain : Words, slug : Seq(Words \cup Nat)])
  BY RegistryAssumption
<1>3. ServicesOf[d][i] \in [domain : Words, slug : Seq(Words \cup Nat)]
  <2> DEFINE R == [domain : Words, slug : Seq(Words \cup Nat)]
  <2> HIDE DEF R
  <2>1. PICK s : s = ServicesOf[d]
    OBVIOUS
  <2>2. s \in Seq(R) /\ i \in DOMAIN s
    BY <1>2, <2>1 DEF R
  <2>3. s[i] \in R
    BY <2>2
  <2> QED
    BY <2>1, <2>3 DEF R
<1>4. /\ <<ServicesOf[d][i].domain>> \in Seq(Words \cup Nat)
      /\ ServicesOf[d][i].slug \in Seq(Words \cup Nat)
  BY <1>3
<1> QED
  BY <1>1, <1>4 DEF BaseOf, Ids

\* The ids of a sequence are finitely many.
LEMMA ToSetFinite ==
  ASSUME NEW T, NEW s \in Seq(T)
  PROVE  IsFiniteSet(ToSet(s))
<1>1. s \in Surjection(1 .. Len(s), ToSet(s))
  BY DEF Surjection, ToSet
<1>2. IsFiniteSet(1 .. Len(s))
  BY FS_Interval
<1> QED
  BY <1>1, <1>2, FS_Surjection

-----------------------------------------------------------------------------
(* The run of Defaults over the places. *)

\* The ids when one more place has got its own.
OneMore(s, at) == Append(s, Allocated(BaseOf(at), ToSet(s)))

LEMMA OneMoreIs ==
  ASSUME NEW s \in Seq(Ids), NEW at \in Places
  PROVE  /\ OneMore(s, at) \in Seq(Ids)
         /\ Len(OneMore(s, at)) = Len(s) + 1
         /\ \A i \in 1 .. Len(s) : OneMore(s, at)[i] = s[i]
         /\ IsInjective(s) => IsInjective(OneMore(s, at))
<1>1. PICK x : x = Allocated(BaseOf(at), ToSet(s))
  OBVIOUS
<1>2. x \in Ids /\ x \notin ToSet(s)
  BY <1>1, BaseIs, ToSetFinite, AllocatedIsFree
<1>3. OneMore(s, at) = Append(s, x)
  BY <1>1 DEF OneMore
<1>4. \A i \in 1 .. Len(s) : s[i] # x
  BY <1>2 DEF ToSet
<1> HIDE DEF Ids
<1>5. Append(s, x) \in Seq(Ids) /\ Len(Append(s, x)) = Len(s) + 1
  BY <1>2
<1>6. /\ \A i \in 1 .. Len(s) : Append(s, x)[i] = s[i]
      /\ Append(s, x)[Len(s) + 1] = x
  BY <1>2
<1>7. ASSUME IsInjective(s) PROVE IsInjective(Append(s, x))
  <2>1. \A a, b \in 1 .. Len(s) : s[a] = s[b] => a = b
    BY <1>7 DEF IsInjective
  <2>2. DOMAIN Append(s, x) = 1 .. Len(s) + 1
    BY <1>5
  <2>3. PICK n \in Nat : n = Len(s)
    OBVIOUS
  <2>4. \A a, b \in 1 .. n + 1 : Append(s, x)[a] = Append(s, x)[b] => a = b
    BY <1>4, <1>6, <2>1, <2>3
  <2> QED
    BY <2>2, <2>3, <2>4 DEF IsInjective
<1> QED
  BY <1>3, <1>5, <1>6, <1>7

IsRun(ids, places) ==
  ids = [i \in 0 .. Len(places) |-> IF i = 0 THEN <<>> ELSE OneMore(ids[i - 1], places[i])]

LEMMA DefaultsRun ==
  ASSUME NEW places \in Seq(Places)
  PROVE  \E ids : IsRun(ids, places) /\ Defaults(places) = ids[Len(places)]
<1> DEFINE n == Len(places)
           step == [i \in 1 .. n |-> [s \in Seq(Ids) |-> OneMore(s, places[i])]]
<1>1. n \in Nat /\ \A i \in 1 .. n : places[i] \in Places
  OBVIOUS
<1>2. step \in [1 .. n -> [Seq(Ids) -> Seq(Ids)]]
  BY <1>1, OneMoreIs
<1>3. <<>> \in Seq(Ids)
  OBVIOUS
<1>4. PICK g \in [0 .. n -> Seq(Ids)] : g[0] = <<>> /\ \A i \in 1 .. n : g[i] = step[i][g[i - 1]]
  <2> DEFINE S == Seq(Ids)
             base == <<>>
  <2>1. n \in Nat /\ base \in S /\ Steps(n, S, step)
    BY <1>1, <1>2 DEF Steps
  <2>2. \E g : Follows(g, n, S, base, step)
    <3> HIDE DEF n, step, S, base
    <3> QED
      BY <2>1, Solvable
  <2> QED
    BY <2>2 DEF Follows
<1>5. \A i \in 1 .. n : g[i - 1] \in Seq(Ids) /\ g[i] = OneMore(g[i - 1], places[i])
  <2> SUFFICES ASSUME NEW i \in 1 .. n
               PROVE  g[i - 1] \in Seq(Ids) /\ g[i] = OneMore(g[i - 1], places[i])
    OBVIOUS
  <2>1. i - 1 \in 0 .. n /\ g[i] = step[i][g[i - 1]]
    BY <1>1, <1>4
  <2>2. g[i - 1] \in Seq(Ids)
    BY <1>4, <2>1
  <2>3. step[i][g[i - 1]] = OneMore(g[i - 1], places[i])
    BY <2>2
  <2> QED
    BY <2>1, <2>2, <2>3
<1>6. g = [i \in 0 .. n |-> IF i = 0 THEN <<>> ELSE OneMore(g[i - 1], places[i])]
  BY <1>1, <1>4, <1>5
<1> QED
  BY <1>6 DEF Defaults, OneMore, IsRun

LEMMA DefaultsAre ==
  ASSUME NEW places \in Seq(Places), NEW ids, IsRun(ids, places)
  PROVE  \A i \in 0 .. Len(places) :
            ids[i] \in Seq(Ids) /\ Len(ids[i]) = i /\ IsInjective(ids[i])
<1>1. PICK n \in Nat : n = Len(places)
  OBVIOUS
<1> DEFINE P == {i \in 0 .. n : ids[i] \in Seq(Ids) /\ Len(ids[i]) = i /\ IsInjective(ids[i])}
<1>2. 0 \in P
  <2>1. ids[0] = <<>>
    BY <1>1 DEF IsRun
  <2>2. PICK none : none = ids[0]
    OBVIOUS
  <2>3. none \in Seq(Ids) /\ Len(none) = 0 /\ IsInjective(none)
    BY <2>1, <2>2 DEF IsInjective
  <2> QED
    BY <1>1, <2>2, <2>3
<1>3. ASSUME NEW i \in 1 .. n, i - 1 \in P PROVE i \in P
  <2>1. ids[i] = OneMore(ids[i - 1], places[i])
    BY <1>1 DEF IsRun
  <2>2. places[i] \in Places
    BY <1>1
  <2>3. PICK s : s = ids[i - 1]
    OBVIOUS
  <2>4. s \in Seq(Ids) /\ Len(s) = i - 1 /\ IsInjective(s)
    BY <1>3, <2>3
  <2>5. /\ OneMore(s, places[i]) \in Seq(Ids)
        /\ Len(OneMore(s, places[i])) = i
        /\ IsInjective(OneMore(s, places[i]))
    BY SMTT(60), <2>2, <2>4, OneMoreIs
  <2> QED
    BY <2>1, <2>3, <2>5
<1>4. 0 .. n \subseteq P
  <2> HIDE DEF P
  <2> QED
    BY <1>2, <1>3, Upward
<1> QED
  BY <1>1, <1>4

\* The auto-generated ids are as many as the places, and distinct.
LEMMA DefaultsDistinct ==
  ASSUME NEW places \in Seq(Places)
  PROVE  /\ Defaults(places) \in Seq(Ids)
         /\ Len(Defaults(places)) = Len(places)
         /\ IsInjective(Defaults(places))
<1>1. Len(places) \in 0 .. Len(places)
  OBVIOUS
<1> QED
  BY <1>1, DefaultsRun, DefaultsAre

\* More places at the end change no id of those before.
LEMMA DefaultsStay ==
  ASSUME NEW p \in Seq(Places), NEW q \in Seq(Places)
  PROVE  \A i \in 1 .. Len(p) : Defaults(p \o q)[i] = Defaults(p)[i]
<1> DEFINE pq == p \o q
<1>1. PICK m \in Nat, n \in Nat : m = Len(p) /\ n = Len(pq) /\ m <= n
  OBVIOUS
<1>2. pq \in Seq(Places) /\ \A i \in 1 .. m : pq[i] = p[i]
  BY <1>1
<1> HIDE DEF pq
<1>3. PICK f : IsRun(f, p) /\ Defaults(p) = f[Len(p)]
  BY DefaultsRun
<1>4. PICK g : IsRun(g, pq) /\ Defaults(pq) = g[Len(pq)]
  BY <1>2, DefaultsRun
<1>5. f[0] = <<>> /\ \A i \in 1 .. m : f[i] = OneMore(f[i - 1], p[i])
  BY <1>1, <1>3 DEF IsRun
<1>6. g[0] = <<>> /\ \A i \in 1 .. n : g[i] = OneMore(g[i - 1], pq[i])
  <2>1. 0 .. Len(pq) = 0 .. n
    BY <1>1
  <2>2. \A i \in 0 .. Len(pq) : g[i] = IF i = 0 THEN <<>> ELSE OneMore(g[i - 1], pq[i])
    BY <1>4 DEF IsRun
  <2> QED
    BY <2>1, <2>2
<1>7. \A i \in 0 .. n : g[i] \in Seq(Ids) /\ Len(g[i]) = i
  <2>1. \A i \in 0 .. Len(pq) : g[i] \in Seq(Ids) /\ Len(g[i]) = i
    BY <1>2, <1>4, DefaultsAre
  <2> QED
    BY <1>1, <2>1
<1>8. g[m] = f[m]
  <2> DEFINE P == {i \in 0 .. m : g[i] = f[i]}
  <2>1. 0 \in P
    BY <1>5, <1>6
  <2>2. ASSUME NEW i \in 1 .. m, i - 1 \in P PROVE i \in P
    <3>1. f[i] = OneMore(f[i - 1], p[i]) /\ g[i] = OneMore(g[i - 1], pq[i])
      BY <1>1, <1>5, <1>6
    <3> QED
      BY <1>2, <2>2, <3>1
  <2>3. 0 .. m \subseteq P
    <3> HIDE DEF P
    <3> QED
      BY <2>1, <2>2, Upward
  <2> QED
    BY <2>3
<1>9. \A k \in 0 .. n : k >= m => \A i \in 1 .. m : g[k][i] = g[m][i]
  <2> DEFINE P == {k \in 0 .. n : k >= m => \A i \in 1 .. m : g[k][i] = g[m][i]}
  <2>1. 0 \in P
    OBVIOUS
  <2>2. ASSUME NEW k \in 1 .. n, k - 1 \in P PROVE k \in P
    <3> SUFFICES ASSUME k >= m, NEW i \in 1 .. m PROVE g[k][i] = g[m][i]
      OBVIOUS
    <3>1. CASE k = m
      BY <3>1
    <3>2. CASE k # m
      <4>1. g[k] = OneMore(g[k - 1], pq[k]) /\ pq[k] \in Places
        BY <1>1, <1>2, <1>6
      <4>2. PICK s : s = g[k - 1]
        OBVIOUS
      <4>3. s \in Seq(Ids) /\ Len(s) = k - 1 /\ i \in 1 .. k - 1
        BY <1>7, <3>2, <4>2
      <4>4. OneMore(s, pq[k])[i] = s[i]
        BY <4>1, <4>3, OneMoreIs
      <4>5. s[i] = g[m][i]
        BY <2>2, <3>2, <4>2
      <4> QED
        BY <4>1, <4>2, <4>4, <4>5
    <3> QED
      BY <3>1, <3>2
  <2>3. 0 .. n \subseteq P
    <3> HIDE DEF P
    <3> QED
      BY <2>1, <2>2, Upward
  <2> QED
    BY <2>3
<1>10. \A i \in 1 .. m : g[n][i] = f[m][i]
  BY <1>1, <1>8, <1>9
<1> QED
  BY <1>1, <1>3, <1>4, <1>10 DEF pq

-----------------------------------------------------------------------------
(* The places of the listed devices. *)

\* The places when the walk has come to one more service of a device.
Walk(s, d, i) == IF ServicesOf[d][i].domain = NoDomain THEN s ELSE Append(s, <<d, i>>)

LEMMA KeptIs ==
  ASSUME NEW d \in Devices
  PROVE  Kept(d) \in Seq(Places)
<1> DEFINE n == Len(ServicesOf[d])
           S == Seq(Places)
           base == <<>>
           step == [i \in 1 .. n |-> [s \in S |-> Walk(s, d, i)]]
           Runs(g) == g = [i \in 0 .. n |-> IF i = 0 THEN <<>> ELSE Walk(g[i - 1], d, i)]
<1>1. n \in Nat /\ DOMAIN ServicesOf[d] = 1 .. n
  BY RegistryAssumption
<1>2. \A i \in 1 .. n : <<d, i>> \in Places
  BY <1>1 DEF Places
<1>3. \A i \in 1 .. n : \A s \in S : Walk(s, d, i) \in S
  BY <1>2 DEF Walk
<1>4. Steps(n, S, step) /\ base \in S
  BY <1>3 DEF Steps
<1>5. PICK g : Follows(g, n, S, base, step)
  <2> HIDE DEF n, S, base, step
  <2> QED
    BY <1>1, <1>4, Solvable
<1>6. \A i \in 1 .. n : g[i] = Walk(g[i - 1], d, i)
  <2> SUFFICES ASSUME NEW i \in 1 .. n PROVE g[i] = Walk(g[i - 1], d, i)
    OBVIOUS
  <2>1. g[i - 1] \in S /\ g[i] = step[i][g[i - 1]]
    <3> HIDE DEF n, S, base, step
    <3> QED
      BY <1>1, <1>4, <1>5, Stepwise
  <2> QED
    BY <2>1
<1>7. Runs(g)
  BY <1>1, <1>5, <1>6 DEF Follows
<1>8. \E f : Runs(f) /\ Kept(d) = f[n]
  BY <1>7 DEF Kept, Walk
<1>9. PICK f : Runs(f) /\ Kept(d) = f[n]
  BY <1>8
<1> DEFINE P == {i \in 0 .. n : f[i] \in S}
<1>10. 0 \in P
  <2>1. f[0] = base
    BY <1>1, <1>9
  <2> HIDE DEF n, S, base
  <2> QED
    BY <1>1, <1>4, <2>1
<1>11. ASSUME NEW i \in 1 .. n, i - 1 \in P PROVE i \in P
  <2>1. f[i] = Walk(f[i - 1], d, i)
    BY SMTT(60), <1>1, <1>9
  <2> HIDE DEF S
  <2> QED
    BY <1>3, <1>11, <2>1
<1>12. 0 .. n \subseteq P
  <2> HIDE DEF P, n
  <2> QED
    BY <1>1, <1>10, <1>11, Upward
<1>13. n \in 0 .. n
  BY <1>1
<1> QED
  BY <1>9, <1>12, <1>13

IsWalk(w, devices) ==
  w = [n \in 0 .. Len(devices) |-> IF n = 0 THEN <<>> ELSE w[n - 1] \o Kept(devices[n])]

LEMMA ServicesRun ==
  ASSUME NEW devices \in Seq(Devices)
  PROVE  \E w : IsWalk(w, devices) /\ Services(devices) = w[Len(devices)]
<1> DEFINE n == Len(devices)
           S == Seq(Places)
           base == <<>>
           step == [i \in 1 .. n |-> [s \in S |-> s \o Kept(devices[i])]]
<1>1. n \in Nat /\ \A i \in 1 .. n : Kept(devices[i]) \in S
  BY KeptIs
<1>2. \A s \in S : \A t \in S : s \o t \in S
  OBVIOUS
<1>3. Steps(n, S, step) /\ base \in S
  BY <1>1, <1>2 DEF Steps
<1>4. PICK g : Follows(g, n, S, base, step)
  <2> HIDE DEF n, S, base, step
  <2> QED
    BY <1>1, <1>3, Solvable
<1>5. \A i \in 1 .. n : g[i] = g[i - 1] \o Kept(devices[i])
  <2> SUFFICES ASSUME NEW i \in 1 .. n PROVE g[i] = g[i - 1] \o Kept(devices[i])
    OBVIOUS
  <2>1. g[i - 1] \in S /\ g[i] = step[i][g[i - 1]]
    <3> HIDE DEF n, S, base, step
    <3> QED
      BY <1>1, <1>3, <1>4, Stepwise
  <2> QED
    BY <2>1
<1>6. IsWalk(g, devices)
  <2>1. DOMAIN g = 0 .. n /\ g = [i \in 0 .. n |-> g[i]] /\ g[0] = <<>>
    BY <1>4 DEF Follows
  <2>2. \A i \in 0 .. n : g[i] = IF i = 0 THEN <<>> ELSE g[i - 1] \o Kept(devices[i])
    <3> HIDE DEF n
    <3> QED
      BY SMTT(60), <1>1, <1>5, <2>1
  <2> QED
    BY <2>1, <2>2 DEF IsWalk
<1> QED
  BY <1>6 DEF Services, Listing, IsWalk

LEMMA WalkIs ==
  ASSUME NEW devices \in Seq(Devices), NEW w, IsWalk(w, devices)
  PROVE  /\ w[0] = <<>>
         /\ \A n \in 1 .. Len(devices) : w[n] = w[n - 1] \o Kept(devices[n])
         /\ \A n \in 0 .. Len(devices) : w[n] \in Seq(Places)
<1>1. PICK m \in Nat : m = Len(devices)
  OBVIOUS
<1>2. w[0] = <<>> /\ \A n \in 1 .. m : w[n] = w[n - 1] \o Kept(devices[n])
  BY <1>1 DEF IsWalk
<1> DEFINE S == Seq(Places)
           P == {n \in 0 .. m : w[n] \in S}
<1>3. 0 \in P
  <2>1. <<>> \in S
    OBVIOUS
  <2> HIDE DEF S
  <2> QED
    BY <1>2, <2>1
<1>4. ASSUME NEW n \in 1 .. m, n - 1 \in P PROVE n \in P
  <2>1. Kept(devices[n]) \in S
    BY <1>1, KeptIs
  <2>2. \A x \in S : \A y \in S : x \o y \in S
    OBVIOUS
  <2> HIDE DEF S
  <2>3. w[n - 1] \o Kept(devices[n]) \in S
    BY <1>4, <2>1, <2>2
  <2>4. w[n] = w[n - 1] \o Kept(devices[n])
    BY <1>2
  <2>5. n \in 0 .. m
    OBVIOUS
  <2> QED
    BY <2>3, <2>4, <2>5
<1>5. 0 .. m \subseteq P
  <2> HIDE DEF P
  <2> QED
    BY <1>3, <1>4, Upward
<1> QED
  BY <1>1, <1>2, <1>5

LEMMA ServicesAre ==
  ASSUME NEW devices \in Seq(Devices)
  PROVE  Services(devices) \in Seq(Places)
<1>1. Len(devices) \in 0 .. Len(devices)
  OBVIOUS
<1> QED
  BY <1>1, ServicesRun, WalkIs

\* A device at the end of the listing adds its places to the end.
LEMMA ServicesGrow ==
  ASSUME NEW devices \in Seq(Devices), NEW d \in Devices
  PROVE  Services(Append(devices, d)) = Services(devices) \o Kept(d)
<1> DEFINE more == Append(devices, d)
<1>1. PICK m \in Nat : m = Len(devices)
  OBVIOUS
<1>2. /\ more \in Seq(Devices) /\ Len(more) = m + 1 /\ more[m + 1] = d
      /\ \A n \in 1 .. m : more[n] = devices[n]
  BY <1>1
<1> HIDE DEF more
<1>3. PICK f : IsWalk(f, devices) /\ Services(devices) = f[Len(devices)]
  BY ServicesRun
<1>4. PICK g : IsWalk(g, more) /\ Services(more) = g[Len(more)]
  BY <1>2, ServicesRun
<1>5. f[0] = <<>> /\ \A n \in 1 .. m : f[n] = f[n - 1] \o Kept(devices[n])
  BY <1>1, <1>3, WalkIs
<1>6. g[0] = <<>> /\ \A n \in 1 .. m + 1 : g[n] = g[n - 1] \o Kept(more[n])
  <2>1. g[0] = <<>> /\ \A n \in 1 .. Len(more) : g[n] = g[n - 1] \o Kept(more[n])
    BY <1>2, <1>4, WalkIs
  <2> QED
    BY <1>2, <2>1
<1> DEFINE P == {n \in 0 .. m : f[n] = g[n]}
<1>7. 0 \in P
  BY <1>5, <1>6
<1>8. ASSUME NEW n \in 1 .. m, n - 1 \in P PROVE n \in P
  <2>1. n \in 1 .. m + 1 /\ f[n - 1] = g[n - 1]
    BY <1>8
  <2>2. f[n] = f[n - 1] \o Kept(devices[n]) /\ g[n] = g[n - 1] \o Kept(more[n])
    BY <1>5, <1>6, <2>1
  <2>3. more[n] = devices[n]
    BY <1>2
  <2>4. f[n] = g[n]
    BY <2>1, <2>2, <2>3
  <2> QED
    BY <2>4
<1>9. 0 .. m \subseteq P
  <2> HIDE DEF P
  <2> QED
    BY <1>7, <1>8, Upward
<1>10. f[m] = g[m] /\ g[m + 1] = g[m] \o Kept(d)
  <2>1. m \in 0 .. m /\ m + 1 \in 1 .. m + 1 /\ (m + 1) - 1 = m
    OBVIOUS
  <2>2. f[m] = g[m]
    BY <1>9, <2>1
  <2>3. g[m + 1] = g[(m + 1) - 1] \o Kept(more[m + 1])
    BY <1>6, <2>1
  <2> QED
    BY <1>2, <2>1, <2>2, <2>3
<1> QED
  BY <1>1, <1>2, <1>3, <1>4, <1>10 DEF more

-----------------------------------------------------------------------------
(* The renames of entities.toml. *)

DocOK(doc) == \A key \in DOMAIN doc : doc[key] \in Sections

\* The id that the i-th entity's section asks for.
Target(doc, ids, i) == Section(doc, ids[i]).entity_id

LEMMA SectionIs ==
  ASSUME NEW doc, DocOK(doc), NEW key
  PROVE  /\ Section(doc, key).entity_id \in Names \cup {NoName}
         /\ Section(doc, key).alias \in Names \cup {NoName}
<1>1. Plain \in [entity_id : Names \cup {NoName}, alias : Names \cup {NoName}]
  BY DEF Plain
<1>2. Section(doc, key) \in [entity_id : Names \cup {NoName}, alias : Names \cup {NoName}]
  BY <1>1, RegistryAssumption DEF Section, DocOK
<1> QED
  BY <1>2

\* A rename touches its own entity only and leaves the ids distinct.
LEMMA RenameIs ==
  ASSUME NEW s \in Seq(AllIds), NEW i \in 1 .. Len(s), NEW target \in Names \cup {NoName}
  PROVE  /\ Rename(s, i, target) \in Seq(AllIds)
         /\ Len(Rename(s, i, target)) = Len(s)
         /\ \A j \in 1 .. Len(s) : j # i => Rename(s, i, target)[j] = s[j]
         /\ Rename(s, i, target)[i] =
               IF target = NoName \/ (\E j \in 1 .. Len(s) : s[j] = target) THEN s[i] ELSE target
         /\ IsInjective(s) => IsInjective(Rename(s, i, target))
<1>1. ToSet(s) = {s[j] : j \in 1 .. Len(s)}
  BY DEF ToSet
<1>2. CASE target = NoName \/ target \in ToSet(s)
  BY <1>1, <1>2 DEF Rename
<1>3. CASE target # NoName /\ target \notin ToSet(s)
  <2>1. target \in AllIds
    BY <1>3 DEF AllIds
  <2>2. Rename(s, i, target) = [s EXCEPT ![i] = target]
    BY <1>3 DEF Rename
  <2> HIDE DEF AllIds
  <2>3. PICK t : t = [s EXCEPT ![i] = target]
    OBVIOUS
  <2>4. t \in Seq(AllIds) /\ Len(t) = Len(s) /\ t[i] = target
    BY <2>1, <2>3
  <2>5. \A j \in 1 .. Len(s) : j # i => t[j] = s[j]
    BY <2>3
  <2>6. \A j \in 1 .. Len(s) : s[j] # target
    BY <1>1, <1>3
  <2>7. IsInjective(s) => IsInjective(t)
    <3>1. DOMAIN s = 1 .. Len(s) /\ DOMAIN t = 1 .. Len(s)
      BY <2>4
    <3> QED
      BY <2>4, <2>5, <2>6, <3>1 DEF IsInjective
  <2> QED
    BY <1>3, <2>2, <2>3, <2>4, <2>5, <2>6, <2>7
<1> QED
  BY <1>2, <1>3

IsRenaming(r, ids, doc) ==
  r = [i \in 0 .. Len(ids) |-> IF i = 0 THEN ids ELSE Rename(r[i - 1], i, Target(doc, ids, i))]

LEMMA RenamedRun ==
  ASSUME NEW ids \in Seq(Ids), NEW doc, DocOK(doc)
  PROVE  \E r : IsRenaming(r, ids, doc) /\ Renamed(ids, doc) = r[Len(ids)]
<1> DEFINE n == Len(ids)
           S == {s \in Seq(AllIds) : Len(s) = n}
           step == [i \in 1 .. n |-> [s \in S |-> Rename(s, i, Target(doc, ids, i))]]
<1>1. n \in Nat /\ ids \in S
  BY DEF AllIds
<1>2. \A i \in 1 .. n : Target(doc, ids, i) \in Names \cup {NoName}
  BY SectionIs DEF Target
<1>3. \A i \in 1 .. n : \A s \in S : Rename(s, i, Target(doc, ids, i)) \in S
  <2> SUFFICES ASSUME NEW i \in 1 .. n, NEW s \in S
               PROVE  Rename(s, i, Target(doc, ids, i)) \in S
    OBVIOUS
  <2>1. s \in Seq(AllIds) /\ Len(s) = n
    OBVIOUS
  <2>2. i \in 1 .. Len(s)
    BY <2>1
  <2> QED
    BY <1>2, <2>1, <2>2, RenameIs
<1>4. Steps(n, S, step)
  BY <1>3 DEF Steps
<1>5. PICK g : Follows(g, n, S, ids, step)
  <2> HIDE DEF n, S, step
  <2> QED
    BY <1>1, <1>4, Solvable
<1>6. \A i \in 1 .. n : g[i] = Rename(g[i - 1], i, Target(doc, ids, i))
  <2> SUFFICES ASSUME NEW i \in 1 .. n PROVE g[i] = Rename(g[i - 1], i, Target(doc, ids, i))
    OBVIOUS
  <2>1. g[i - 1] \in S /\ g[i] = step[i][g[i - 1]]
    <3> HIDE DEF n, S, step
    <3> QED
      BY <1>1, <1>4, <1>5, Stepwise
  <2> HIDE DEF S
  <2> QED
    BY <2>1
<1>7. IsRenaming(g, ids, doc)
  <2>1. DOMAIN g = 0 .. n /\ g = [i \in 0 .. n |-> g[i]] /\ g[0] = ids
    BY <1>5 DEF Follows
  <2>2. \A i \in 0 .. n : g[i] = IF i = 0 THEN ids ELSE Rename(g[i - 1], i, Target(doc, ids, i))
    <3> HIDE DEF n
    <3> QED
      BY <1>1, <1>6, <2>1
  <2> QED
    BY <2>1, <2>2 DEF IsRenaming
<1> QED
  BY <1>7 DEF Renamed, IsRenaming, Target

\* After k renames, the entities from k + 1 on still have their auto-generated ids.
LEMMA RenamingIs ==
  ASSUME NEW ids \in Seq(Ids), NEW doc, DocOK(doc), NEW r, IsRenaming(r, ids, doc),
         NEW n \in Nat, n = Len(ids)
  PROVE  /\ r[0] = ids
         /\ \A k \in 1 .. n : r[k] = Rename(r[k - 1], k, Target(doc, ids, k))
         /\ \A k \in 0 .. n : /\ r[k] \in Seq(AllIds)
                              /\ Len(r[k]) = n
                              /\ IsInjective(ids) => IsInjective(r[k])
                              /\ \A j \in k + 1 .. n : r[k][j] = ids[j]
<1>1. r[0] = ids /\ \A k \in 1 .. n : r[k] = Rename(r[k - 1], k, Target(doc, ids, k))
  BY DEF IsRenaming
<1>2. \A k \in 1 .. n : Target(doc, ids, k) \in Names \cup {NoName}
  BY SectionIs DEF Target
<1> DEFINE P == {k \in 0 .. n : /\ r[k] \in Seq(AllIds)
                                /\ Len(r[k]) = n
                                /\ IsInjective(ids) => IsInjective(r[k])
                                /\ \A j \in k + 1 .. n : r[k][j] = ids[j]}
<1>3. 0 \in P
  BY <1>1 DEF AllIds
<1>4. ASSUME NEW k \in 1 .. n, k - 1 \in P PROVE k \in P
  <2>1. PICK s : s = r[k - 1]
    OBVIOUS
  <2>2. /\ s \in Seq(AllIds) /\ Len(s) = n /\ k \in 1 .. Len(s)
        /\ IsInjective(ids) => IsInjective(s)
        /\ \A j \in k .. n : s[j] = ids[j]
    BY <1>4, <2>1
  <2>3. PICK t : t = Rename(s, k, Target(doc, ids, k))
    OBVIOUS
  <2>4. r[k] = t
    BY <1>1, <2>1, <2>3
  <2>5. /\ t \in Seq(AllIds) /\ Len(t) = n
        /\ IsInjective(s) => IsInjective(t)
        /\ \A j \in 1 .. n : j # k => t[j] = s[j]
    BY <1>2, <2>2, <2>3, RenameIs
  <2>6. \A j \in k + 1 .. n : t[j] = ids[j]
    BY <2>2, <2>5
  <2> QED
    BY <2>2, <2>4, <2>5, <2>6
<1>5. 0 .. n \subseteq P
  <2> HIDE DEF P
  <2> QED
    BY <1>3, <1>4, Upward
<1> QED
  BY <1>1, <1>5

-----------------------------------------------------------------------------
(* The listing. *)

\* What a listing is: its ids are distinct, and an entity that does not go by its
\* auto-generated id has it as an alias.
Listed(entities) ==
  /\ DOMAIN entities \subseteq Nat
  /\ \A i, j \in DOMAIN entities : entities[i].id = entities[j].id => i = j
  /\ \A i \in DOMAIN entities :
        entities[i].default \in {entities[i].id} \cup entities[i].aliases

LEMMA BuiltIs ==
  ASSUME NEW devices \in Seq(Devices), NEW doc, DocOK(doc)
  PROVE  /\ Listed(Built(devices, doc))
         /\ \A i \in DOMAIN Built(devices, doc) :
               LET e == Built(devices, doc)[i]
               IN  e.at \in Places /\ e.aliases \subseteq Names \cup {e.default}
<1> DEFINE places == Services(devices)
           ids == Defaults(places)
           names == Renamed(ids, doc)
           b == Built(devices, doc)
<1>1. places \in Seq(Places)
  BY ServicesAre
<1>2. ids \in Seq(Ids) /\ Len(ids) = Len(places) /\ IsInjective(ids)
  BY <1>1, DefaultsDistinct
<1>3. b = [i \in DOMAIN places |->
             [id |-> names[i], default |-> ids[i], at |-> places[i],
              aliases |-> AliasesOf(Section(doc, ids[i]).alias, ids[i], names[i])]]
  BY DEF Built
<1> HIDE DEF places, ids, names, b
<1>4. PICK n \in Nat : n = Len(ids)
  BY <1>2
<1>5. PICK r : IsRenaming(r, ids, doc) /\ names = r[n]
  BY <1>2, <1>4, RenamedRun DEF names
<1>6. names \in Seq(AllIds) /\ Len(names) = n /\ IsInjective(names)
  <2>1. n \in 0 .. n
    BY <1>4
  <2> QED
    BY <1>2, <1>4, <1>5, <2>1, RenamingIs
<1>7. DOMAIN b = 1 .. n /\ DOMAIN names = 1 .. n /\ DOMAIN places = 1 .. n
  BY <1>1, <1>2, <1>3, <1>4, <1>6
<1>8. \A i \in 1 .. n :
         /\ b[i].id = names[i] /\ b[i].default = ids[i] /\ b[i].at = places[i]
         /\ b[i].aliases = AliasesOf(Section(doc, ids[i]).alias, ids[i], names[i])
  BY <1>3, <1>7
<1>9. \A i, j \in 1 .. n : b[i].id = b[j].id => i = j
  BY <1>6, <1>7, <1>8 DEF IsInjective
<1>10. ASSUME NEW i \in 1 .. n
       PROVE  /\ b[i].default \in {b[i].id} \cup b[i].aliases
              /\ b[i].aliases \subseteq Names \cup {b[i].default}
              /\ b[i].at \in Places
  <2>1. Section(doc, ids[i]).alias \in Names \cup {NoName}
    BY SectionIs
  <2>2. b[i].at \in Places
    BY <1>1, <1>7, <1>8
  <2>3. b[i].aliases \subseteq Names \cup {b[i].default}
    BY <1>8, <2>1 DEF AliasesOf
  <2>4. b[i].default \in {b[i].id} \cup b[i].aliases
    BY <1>8 DEF AliasesOf
  <2> QED
    BY <2>2, <2>3, <2>4
<1>11. Listed(b)
  BY <1>7, <1>9, <1>10 DEF Listed
<1> QED
  BY <1>7, <1>10, <1>11 DEF b

-----------------------------------------------------------------------------
(* The inductive invariant. *)

IInv == TypeOK /\ Listed(table)

\* An unpaired device leaves a list of devices.
LEMMA RemovedIs ==
  ASSUME NEW s \in Seq(Devices), NEW i \in DOMAIN s
  PROVE  RemoveAt(s, i) \in Seq(Devices)
<1>1. PICK n \in Nat : n = Len(s) /\ i \in 1 .. n
  OBVIOUS
<1>2. SubSeq(s, 1, i - 1) \in Seq(Devices) /\ SubSeq(s, i + 1, n) \in Seq(Devices)
  BY <1>1
<1> QED
  BY <1>1, <1>2 DEF RemoveAt

\* At every step, every entity of the client's listing has an id of its own, and its
\* auto-generated one still stands for it (registry.py's build_entities, _apply_renames).
THEOREM Invariance == Spec => []IInv
<1>1. Init => IInv
  <2> SUFFICES ASSUME Init PROVE IInv
    OBVIOUS
  <2>1. home \in Seq(Devices)
    BY DEF Init
  <2>2. DOMAIN table = {} /\ DOMAIN toml = {}
    BY DEF Init
  <2> QED
    BY <2>1, <2>2 DEF IInv, TypeOK, Listed
<1>2. IInv /\ [Next]_vars => IInv'
  <2> SUFFICES ASSUME IInv, [Next]_vars PROVE IInv'
    OBVIOUS
  <2>1. ASSUME NEW d \in Devices, Pair(d) PROVE IInv'
    <3>1. home' \in Seq(Devices)
      BY <2>1 DEF Pair, IInv, TypeOK
    <3> QED
      BY <2>1, <3>1 DEF Pair, IInv, TypeOK, Listed
  <2>2. ASSUME NEW d \in Devices, Unpair(d) PROVE IInv'
    <3>1. \E i \in DOMAIN home : home[i] = d
      BY <2>2 DEF Unpair, ToSet
    <3>2. home' \in Seq(Devices)
      BY <2>2, <3>1, RemovedIs DEF Unpair, IInv, TypeOK
    <3> QED
      BY <2>2, <3>2 DEF Unpair, IInv, TypeOK, Listed
  <2>3. ASSUME NEW key, Edit(key) PROVE IInv'
    <3>1. \A k \in DOMAIN toml' : toml'[k] \in Sections
      BY <2>3 DEF Edit, IInv, TypeOK
    <3> QED
      BY <2>3, <3>1 DEF Edit, IInv, TypeOK, Listed
  <2>4. CASE ListEntities
    <3>1. home \in Seq(Devices) /\ DocOK(toml)
      BY DEF IInv, TypeOK, DocOK
    <3>2. home' = home /\ toml' = toml /\ table' = Built(home, toml)
      BY <2>4 DEF ListEntities
    <3>3. /\ Listed(table')
          /\ \A i \in DOMAIN table' :
                table'[i].at \in Places /\ table'[i].aliases \subseteq Names \cup {table'[i].default}
      BY <3>1, <3>2, BuiltIs
    <3> QED
      BY <3>2, <3>3 DEF IInv, TypeOK, Listed
  <2>5. CASE UNCHANGED vars
    BY <2>5 DEF vars, IInv, TypeOK, Listed
  <2> QED
    BY <2>1, <2>2, <2>3, <2>4, <2>5 DEF Next
<1> QED
  BY <1>1, <1>2, PTL DEF Spec

\* The variables have their types.
THEOREM TypeCorrect == Spec => []TypeOK
<1>1. IInv => TypeOK
  BY DEF IInv
<1> QED
  BY <1>1, Invariance, PTL

LEMMA OnlyOne ==
  ASSUME NEW i \in Nat
  PROVE  Max({i}) = i
<1>1. \A x \in {i} : (\A y \in {i} : x >= y) <=> x = i
  OBVIOUS
<1> QED
  BY <1>1 DEF Max

\* IdsLeadBack: an entity's id leads to the entity, and so does its auto-generated one
\* unless another entity has it (_rebuild_alias_index, _resolve_entity_id).
THEOREM LeadBack == Spec => []IdsLeadBack
<1>1. IInv => IdsLeadBack
  <2> SUFFICES ASSUME IInv, NEW i \in DOMAIN table
               PROVE  /\ Resolve(table, table[i].id) = table[i].at
                      /\ \/ Resolve(table, table[i].default) = table[i].at
                         \/ \E j \in DOMAIN table \ {i} :
                               table[i].default \in {table[j].id} \cup table[j].aliases
    BY DEF IdsLeadBack
  <2>1. /\ i \in Nat
        /\ \A j \in DOMAIN table : table[j].id = table[i].id => j = i
        /\ table[i].default \in {table[i].id} \cup table[i].aliases
    BY DEF IInv, Listed
  <2>2. Resolve(table, table[i].id) = table[i].at
    <3>1. Bearers(table, table[i].id) = {i}
      BY <2>1 DEF Bearers
    <3> QED
      BY <2>1, <3>1, OnlyOne DEF Resolve
  <2>3. ASSUME \A j \in DOMAIN table \ {i} :
                  table[i].default \notin {table[j].id} \cup table[j].aliases
        PROVE  Resolve(table, table[i].default) = table[i].at
    <3>1. CASE table[i].default = table[i].id
      BY <2>2, <3>1
    <3>2. CASE table[i].default # table[i].id
      <4>1. Bearers(table, table[i].default) = {}
        BY <2>3, <3>2 DEF Bearers
      <4>2. Aliased(table, table[i].default) = {i}
        BY <2>1, <2>3, <3>2 DEF Aliased
      <4> QED
        BY <2>1, <4>1, <4>2, OnlyOne DEF Resolve
    <3> QED
      BY <3>1, <3>2
  <2> QED
    BY <2>2, <2>3
<1> QED
  BY <1>1, Invariance, PTL

-----------------------------------------------------------------------------
(* Pairing one more device. *)

\* One step of a run of renames: entity k takes what it asks for unless it is in use.
Takes(r, n, k, want) ==
  r[k][k] = IF want = NoName \/ (\E j \in 1 .. n : r[k - 1][j] = want) THEN r[k - 1][k] ELSE want

\* A run of renames, entity by entity.
Runs(r, n, ids, want) ==
  /\ \A k \in 0 .. n : \A j \in k + 1 .. n : r[k][j] = ids[j]
  /\ \A k \in 1 .. n : \A j \in 1 .. n : j # k => r[k][j] = r[k - 1][j]
  /\ \A k \in 1 .. n : Takes(r, n, k, want[k])

LEMMA RenamingRuns ==
  ASSUME NEW ids \in Seq(Ids), NEW doc, DocOK(doc), NEW r, IsRenaming(r, ids, doc),
         NEW n \in Nat, n = Len(ids)
  PROVE  Runs(r, n, ids, [i \in 1 .. n |-> Target(doc, ids, i)])
<1>1. \A k \in 0 .. n : \A j \in k + 1 .. n : r[k][j] = ids[j]
  BY RenamingIs
<1>2. ASSUME NEW k \in 1 .. n
      PROVE  /\ \A j \in 1 .. n : j # k => r[k][j] = r[k - 1][j]
             /\ Takes(r, n, k, Target(doc, ids, k))
  <2>1. PICK s : s = r[k - 1]
    OBVIOUS
  <2>2. k - 1 \in 0 .. n
    OBVIOUS
  <2>3. s \in Seq(AllIds) /\ Len(s) = n /\ r[k] = Rename(s, k, Target(doc, ids, k))
    BY <2>1, <2>2, RenamingIs
  <2>4. Target(doc, ids, k) \in Names \cup {NoName}
    BY SectionIs DEF Target
  <2>5. /\ \A j \in 1 .. n : j # k => r[k][j] = s[j]
        /\ r[k][k] = IF Target(doc, ids, k) = NoName \/ (\E j \in 1 .. n : s[j] = Target(doc, ids, k))
                     THEN s[k] ELSE Target(doc, ids, k)
    BY <2>3, <2>4, RenameIs
  <2> QED
    BY <2>1, <2>5 DEF Takes
<1> QED
  BY <1>1, <1>2 DEF Runs

\* Of two runs of renames, one over the first m entities only, the longer one keeps the
\* ids of the shorter one but for entities whose new id is the auto-generated id of an
\* entity after them, or has gone to one renamed before.  A rename that the shorter run
\* refuses is never possible in the longer one.
LEMMA RunsAgree ==
  ASSUME NEW m \in Nat, NEW n \in Nat, m <= n, NEW ids, NEW want,
         NEW f, Runs(f, m, ids, want), NEW g, Runs(g, n, ids, want)
  PROVE  \A i \in 1 .. m :
            \/ g[n][i] = f[m][i]
            \/ /\ g[n][i] # f[m][i]
               /\ \E j \in 1 .. n : j # i /\ f[m][i] \in {g[n][j], ids[j]}
<1> DEFINE Gone(k, x) == (\E j \in m + 1 .. n : ids[j] = x) \/ (\E j \in 1 .. k : g[k][j] = x)
           Alike(k) == \A i \in 1 .. m : f[k][i] = g[k][i] \/ Gone(k, f[k][i])
           P == {k \in 0 .. m : Alike(k)}
<1>1. 0 \in P
  <2>1. \A i \in 1 .. m : f[0][i] = ids[i] /\ g[0][i] = ids[i]
    BY DEF Runs
  <2> QED
    BY <2>1
<1>2. ASSUME NEW k \in 1 .. m, k - 1 \in P PROVE k \in P
  <2>1. /\ k - 1 \in 0 .. m /\ k - 1 \in 0 .. n /\ k \in 1 .. n
        /\ \A j \in k .. n : j \in (k - 1) + 1 .. n
        /\ \A j \in k .. m : j \in (k - 1) + 1 .. m
    OBVIOUS
  <2>2. /\ \A j \in 1 .. m : j # k => f[k][j] = f[k - 1][j]
        /\ \A j \in 1 .. n : j # k => g[k][j] = g[k - 1][j]
        /\ Takes(f, m, k, want[k]) /\ Takes(g, n, k, want[k])
    BY <2>1 DEF Runs
  <2>3. /\ \A j \in k .. m : f[k - 1][j] = ids[j]
        /\ \A j \in k .. n : g[k - 1][j] = ids[j]
    BY <2>1 DEF Runs
  <2>4. \A x : Gone(k - 1, x) => Gone(k, x)
    <3> SUFFICES ASSUME NEW x, NEW j \in 1 .. k - 1, g[k - 1][j] = x PROVE Gone(k, x)
      OBVIOUS
    <3>1. j \in 1 .. k /\ j \in 1 .. n /\ j # k
      OBVIOUS
    <3>2. g[k][j] = x
      BY <2>2, <3>1
    <3> QED
      BY <3>1, <3>2
  <2>5. \A i \in 1 .. m : f[k - 1][i] = g[k - 1][i] \/ Gone(k - 1, f[k - 1][i])
    BY <1>2
  <2>6. \A j \in 1 .. n : j \in 1 .. k - 1 \/ (j \in k .. n /\ (j \in k .. m \/ j \in m + 1 .. n))
    OBVIOUS
  <2>7. f[k][k] = g[k][k] \/ Gone(k, f[k][k])
    <3> DEFINE x == want[k]
    <3>1. f[k - 1][k] = ids[k] /\ g[k - 1][k] = ids[k]
      BY <2>3
    <3>2. CASE x = NoName
      BY <2>2, <3>1, <3>2 DEF Takes
    <3>3. CASE x # NoName /\ \E j \in 1 .. m : f[k - 1][j] = x
      <4>1. PICK i \in 1 .. m : f[k - 1][i] = x
        BY <3>3
      <4>2. \E j \in 1 .. n : g[k - 1][j] = x
        <5>1. CASE f[k - 1][i] = g[k - 1][i]
          BY <4>1, <5>1
        <5>2. CASE Gone(k - 1, x)
          <6>1. ASSUME NEW j \in m + 1 .. n, ids[j] = x PROVE j \in 1 .. n /\ g[k - 1][j] = x
            BY <2>3, <6>1
          <6>2. \A j \in 1 .. k - 1 : j \in 1 .. n
            OBVIOUS
          <6> QED
            BY <5>2, <6>1, <6>2
        <5> QED
          BY <2>5, <4>1, <5>1, <5>2
      <4> QED
        BY <2>2, <3>1, <3>3, <4>2 DEF Takes
    <3>4. CASE x # NoName /\ ~(\E j \in 1 .. m : f[k - 1][j] = x)
      <4>1. f[k][k] = x
        BY <2>2, <3>4 DEF Takes
      <4>2. CASE \E j \in 1 .. n : g[k - 1][j] = x
        <5>1. PICK j \in 1 .. n : g[k - 1][j] = x
          BY <4>2
        <5>2. CASE j \in 1 .. k - 1
          <6>1. Gone(k - 1, x)
            BY <5>1, <5>2
          <6> QED
            BY <2>4, <4>1, <6>1
        <5>3. CASE j \in k .. m
          <6>1. j \in 1 .. m /\ f[k - 1][j] = x
            BY <2>3, <5>1, <5>3
          <6> QED
            BY <3>4, <6>1
        <5>4. CASE j \in m + 1 .. n
          <6>1. j \in k .. n /\ ids[j] = x
            BY <2>3, <5>1, <5>4
          <6> QED
            BY <4>1, <5>4, <6>1
        <5> QED
          BY <2>6, <5>2, <5>3, <5>4
      <4>3. CASE ~(\E j \in 1 .. n : g[k - 1][j] = x)
        BY <2>2, <3>4, <4>1, <4>3 DEF Takes
      <4> QED
        BY <4>2, <4>3
    <3> QED
      BY <3>2, <3>3, <3>4
  <2>8. ASSUME NEW i \in 1 .. m, i # k PROVE f[k][i] = g[k][i] \/ Gone(k, f[k][i])
    <3>1. i \in 1 .. n
      OBVIOUS
    <3>2. f[k][i] = f[k - 1][i] /\ g[k][i] = g[k - 1][i]
      BY <2>2, <2>8, <3>1
    <3> HIDE DEF Gone
    <3> QED
      BY <2>4, <2>5, <3>2
  <2>9. Alike(k)
    <3> HIDE DEF Gone
    <3> QED
      BY <2>7, <2>8
  <2> HIDE DEF Alike
  <2> QED
    BY <2>9
<1>3. Alike(m)
  <2>1. 0 .. m \subseteq P
    <3> HIDE DEF P
    <3> QED
      BY <1>1, <1>2, Upward
  <2>2. m \in 0 .. m
    OBVIOUS
  <2> HIDE DEF Alike
  <2> QED
    BY <2>1, <2>2
<1>4. \A k \in 0 .. n : k >= m => \A i \in 1 .. m : g[k][i] = g[m][i]
  <2> DEFINE Q == {k \in 0 .. n : k >= m => \A i \in 1 .. m : g[k][i] = g[m][i]}
  <2>1. 0 \in Q
    OBVIOUS
  <2>2. ASSUME NEW k \in 1 .. n, k - 1 \in Q PROVE k \in Q
    <3> SUFFICES ASSUME k >= m, NEW i \in 1 .. m PROVE g[k][i] = g[m][i]
      OBVIOUS
    <3>1. CASE k = m
      BY <3>1
    <3>2. CASE k # m
      <4>1. k - 1 >= m /\ i # k /\ i \in 1 .. n
        BY <3>2
      <4>2. g[k][i] = g[k - 1][i]
        BY <4>1 DEF Runs
      <4>3. g[k - 1][i] = g[m][i]
        BY <2>2, <4>1
      <4> QED
        BY <4>2, <4>3
    <3> QED
      BY <3>1, <3>2
  <2>3. 0 .. n \subseteq Q
    <3> HIDE DEF Q
    <3> QED
      BY <2>1, <2>2, Upward
  <2> QED
    BY <2>3
<1>5. \A i \in 1 .. m : g[n][i] = g[m][i]
  BY <1>4
<1> SUFFICES ASSUME NEW i \in 1 .. m, g[n][i] # f[m][i]
             PROVE  \E j \in 1 .. n : j # i /\ f[m][i] \in {g[n][j], ids[j]}
  OBVIOUS
<1>6. Gone(m, f[m][i])
  BY <1>3, <1>5
<1>7. CASE \E j \in m + 1 .. n : ids[j] = f[m][i]
  <2>1. PICK j \in m + 1 .. n : ids[j] = f[m][i]
    BY <1>7
  <2>2. j \in 1 .. n /\ j # i
    OBVIOUS
  <2> QED
    BY <2>1, <2>2
<1>8. CASE \E j \in 1 .. m : g[m][j] = f[m][i]
  <2>1. PICK j \in 1 .. m : g[m][j] = f[m][i]
    BY <1>8
  <2>2. j \in 1 .. n /\ j # i /\ g[n][j] = f[m][i]
    BY <1>5, <2>1
  <2> QED
    BY <2>2
<1> QED
  BY <1>6, <1>7, <1>8

\* A device at the end of the listing.
LEMMA BuiltGrows ==
  ASSUME NEW devices \in Seq(Devices), NEW d \in Devices, NEW doc, DocOK(doc),
         NEW old, old = Built(devices, doc), NEW new, new = Built(Append(devices, d), doc)
  PROVE  \A i \in DOMAIN old :
            \/ new[i].at = old[i].at /\ new[i].id = old[i].id
            \/ \E j \in DOMAIN new \ {i} : old[i].id \in {new[j].id, new[j].default}
<1>1. Append(devices, d) \in Seq(Devices)
  OBVIOUS
<1>2. PICK p, q, pq : /\ p = Services(devices) /\ q = Kept(d) /\ pq = Services(Append(devices, d))
                      /\ p \in Seq(Places) /\ q \in Seq(Places) /\ pq = p \o q
  BY KeptIs, ServicesAre, ServicesGrow
<1>3. PICK m \in Nat, n \in Nat : m = Len(p) /\ n = Len(pq) /\ m <= n
  BY <1>2
<1>4. pq \in Seq(Places) /\ \A i \in 1 .. m : pq[i] = p[i]
  BY <1>2, <1>3
<1>5. PICK a, b : a = Defaults(p) /\ b = Defaults(pq)
  OBVIOUS
<1>6. /\ a \in Seq(Ids) /\ Len(a) = m
      /\ b \in Seq(Ids) /\ Len(b) = n
      /\ \A i \in 1 .. m : b[i] = a[i]
  <2>1. a \in Seq(Ids) /\ Len(a) = m
    BY <1>2, <1>3, <1>5, DefaultsDistinct
  <2>2. b \in Seq(Ids) /\ Len(b) = n
    BY <1>3, <1>4, <1>5, DefaultsDistinct
  <2>3. \A i \in 1 .. Len(p) : Defaults(p \o q)[i] = Defaults(p)[i]
    BY <1>2, DefaultsStay
  <2>4. \A i \in 1 .. m : b[i] = a[i]
    BY <1>2, <1>3, <1>5, <2>3
  <2> QED
    BY <2>1, <2>2, <2>4
<1>7. PICK f : IsRenaming(f, a, doc) /\ Renamed(a, doc) = f[m]
  BY <1>6, RenamedRun
<1>8. PICK g : IsRenaming(g, b, doc) /\ Renamed(b, doc) = g[n]
  BY <1>6, RenamedRun
<1> DEFINE want == [i \in 1 .. n |-> Target(doc, b, i)]
           wanted == [i \in 1 .. m |-> Target(doc, a, i)]
<1>9. Runs(g, n, b, want)
  BY <1>6, <1>8, RenamingRuns
<1>10. Runs(f, m, b, want)
  <2>1. Runs(f, m, a, wanted)
    BY <1>6, <1>7, RenamingRuns
  <2>2. \A i \in 1 .. m : wanted[i] = want[i] /\ a[i] = b[i]
    BY <1>3, <1>6 DEF Target
  <2> HIDE DEF want, wanted
  <2>3. \A k \in 0 .. m : \A j \in k + 1 .. m : f[k][j] = b[j]
    <3>1. \A k \in 0 .. m : \A j \in k + 1 .. m : j \in 1 .. m
      OBVIOUS
    <3> QED
      BY <2>1, <2>2, <3>1 DEF Runs
  <2> QED
    BY <2>1, <2>2, <2>3 DEF Runs
<1>11. \A i \in 1 .. m :
          \/ g[n][i] = f[m][i]
          \/ \E j \in 1 .. n : j # i /\ f[m][i] \in {g[n][j], b[j]}
  <2> HIDE DEF want
  <2> QED
    BY <1>3, <1>9, <1>10, RunsAgree
<1>12. /\ DOMAIN old = 1 .. m
       /\ \A i \in 1 .. m : old[i].id = f[m][i] /\ old[i].at = p[i]
  <2>1. DOMAIN p = 1 .. m
    BY <1>2, <1>3
  <2> QED
    BY <1>2, <1>5, <1>7, <2>1 DEF Built
<1>13. /\ DOMAIN new = 1 .. n
       /\ \A i \in 1 .. n : new[i].id = g[n][i] /\ new[i].at = pq[i] /\ new[i].default = b[i]
  <2>1. DOMAIN pq = 1 .. n
    BY <1>3, <1>4
  <2> QED
    BY <1>2, <1>5, <1>8, <2>1 DEF Built
<1> SUFFICES ASSUME NEW i \in 1 .. m
             PROVE  \/ new[i].at = old[i].at /\ new[i].id = old[i].id
                    \/ \E j \in DOMAIN new \ {i} : old[i].id \in {new[j].id, new[j].default}
  BY <1>12
<1>14. i \in 1 .. n
  BY <1>3
<1>15. CASE g[n][i] = f[m][i]
  BY <1>4, <1>12, <1>13, <1>14, <1>15
<1>16. CASE \E j \in 1 .. n : j # i /\ f[m][i] \in {g[n][j], b[j]}
  <2>1. PICK j \in 1 .. n : j # i /\ f[m][i] \in {g[n][j], b[j]}
    BY <1>16
  <2> QED
    BY <1>12, <1>13, <2>1
<1> QED
  BY <1>11, <1>15, <1>16

\* PairingKeepsIds: one more pairing takes no entity's id away, except to give it to
\* another one (build_entities, _apply_renames).
THEOREM IdsKept == Spec => PairingKeepsIds
<1>1. IInv /\ [Next]_vars =>
        [\A d \in Devices : Pair(d) =>
            LET old == Built(home, toml)
                new == Built(home', toml)
            IN  \A i \in DOMAIN old :
                   \/ new[i].at = old[i].at /\ new[i].id = old[i].id
                   \/ \E j \in DOMAIN new \ {i} : old[i].id \in {new[j].id, new[j].default}]_vars
  <2> SUFFICES ASSUME IInv, NEW d \in Devices, Pair(d),
                      NEW i \in DOMAIN Built(home, toml)
               PROVE  \/ /\ Built(home', toml)[i].at = Built(home, toml)[i].at
                         /\ Built(home', toml)[i].id = Built(home, toml)[i].id
                      \/ \E j \in DOMAIN Built(home', toml) \ {i} :
                            Built(home, toml)[i].id
                               \in {Built(home', toml)[j].id, Built(home', toml)[j].default}
    OBVIOUS
  <2>1. home \in Seq(Devices) /\ DocOK(toml) /\ home' = Append(home, d)
    BY DEF IInv, TypeOK, DocOK, Pair
  <2>2. PICK old, new : old = Built(home, toml) /\ new = Built(Append(home, d), toml)
    OBVIOUS
  <2>3. \/ new[i].at = old[i].at /\ new[i].id = old[i].id
        \/ \E j \in DOMAIN new \ {i} : old[i].id \in {new[j].id, new[j].default}
    BY <2>1, <2>2, BuiltGrows
  <2> QED
    BY <2>1, <2>2, <2>3
<1> QED
  BY <1>1, Invariance, PTL DEF Spec, PairingKeepsIds
=============================================================================
