--------------------------- MODULE PairingProofs ---------------------------
(***************************************************************************)
(* Theorems about the pairing material, for every set of devices and       *)
(* aliases and every number of pairings, imports and faults.  What is said *)
(* of the keys is said of one process, restarted any number of times: each *)
(* process saves the aliases it has in memory, over those of any other.    *)
(***************************************************************************)
EXTENDS Pairing, WellFoundedInduction, TLAPS

OneProcess == \A p, q \in Procs : p = q

-----------------------------------------------------------------------------
(* The inductive invariant. *)

\* A dictionary has an alias once.
Once(doc) == \A i, j \in DOMAIN doc : doc[i].alias = doc[j].alias => i = j

\* All entries of a device are under one alias.
Single(doc, d) ==
    \A e, f \in Range(doc) : e.device = d /\ f.device = d => e.alias = f.alias

\* A key that some accessory accepts is d's.
Fits(k, d) == k <= keys /\ \A e \in Devices : accessory[e] = k => e = d

\* What the process holds and what is on disk.
Docs == ({file, keyring, backup} \ {Missing}) \cup {aliases[p] : p \in Procs}
DocsOnce == \A doc \in Docs : doc \in Doc /\ Once(doc)
Good(doc) ==
    /\ \A e \in Range(doc) : Fits(e.key, e.device)
    /\ \A d \in Devices : d \notin doubled => Single(doc, d)
DocsGood == \A doc \in Docs : Good(doc)

Making == {"paired", "pair_saved"}
Dropping == {"removed", "unpair_saved"}

\* A command holds what its next steps need.
Typed(p, d) ==
    /\ op[p][d].phase = "idle" => op[p][d] = Idle
    /\ op[p][d].phase # "idle" => op[p][d].alias \in Aliases
    /\ op[p][d].phase \in Making => op[p][d].key # 0
OpTyped == \A p \in Procs, d \in Devices : Typed(p, d)

\* Its user has been told nothing yet, and the accessory goes along with it.
Fair(p, d) ==
    /\ op[p][d].phase # "idle" => p \in up /\ told[d] = "nothing"
    /\ op[p][d].phase \in Making =>
          Fits(op[p][d].key, d) /\ accessory[d] \in {0, op[p][d].key}
    /\ op[p][d].phase \in Dropping =>
          accessory[d] = 0 /\ (d \in doubled \/ ~Names(aliases[p], d))
    /\ op[p][d].phase = "unpair_saved" =>
          d \in doubled \cup restored \/ file = Missing \/ ~Names(file, d)
    /\ op[p][d].phase = "pair_saved" =>
          /\ Has(aliases[p], d, op[p][d].key) /\ handles[p][d] = op[p][d].key
          /\ d \in restored \/ accessory[d] = 0 \/ file = Missing \/ Has(file, d, op[p][d].key)

\* An accessory trusts one key, and none once its user has been told that it was unpaired.
Trusted(d) ==
    /\ accessory[d] # 0 => Fits(accessory[d], d)
    /\ told[d] = "unpaired" => accessory[d] = 0

\* The key an accessory accepts is held by the command that made it, or by everybody.
Pending(d) ==
    \E p \in Procs : op[p][d].phase \in Making /\ op[p][d].key = accessory[d]
Kept(d) ==
    /\ keyring # Missing /\ Has(keyring, d, accessory[d])
    /\ file = Missing \/ Has(file, d, accessory[d])
    /\ \A p \in up : Has(aliases[p], d, accessory[d])
Safe(d) == accessory[d] # 0 /\ d \notin exposed \cup displaced \cup restored => Pending(d) \/ Kept(d)

\* It is the key a running process uses.
Usable(p, d) == p \in up /\ Answered(d) /\ d \notin doubled => handles[p][d] = accessory[d]

\* A device that was unpaired is named nowhere.
Forgotten(d) ==
    told[d] = "unpaired" /\ d \notin exposed \cup doubled \cup restored =>
        /\ file = Missing \/ ~Names(file, d)
        /\ keyring = Missing \/ ~Names(keyring, d)
        /\ \A p \in up : ~Names(aliases[p], d)

DeviceInv(d) ==
    /\ Trusted(d) /\ Safe(d) /\ Forgotten(d)
    /\ \A p \in Procs : Fair(p, d) /\ Usable(p, d)

BaseInv == TypeOK /\ OpTyped /\ DocsOnce
KeyInv == DocsGood /\ \A d \in Devices : DeviceInv(d)
IInv == BaseInv /\ KeyInv

-----------------------------------------------------------------------------
(* Minima and maxima. *)

LEMMA Least ==
  ASSUME NEW S \in SUBSET Nat, S # {}
  PROVE  Min(S) \in S /\ \A y \in S : Min(S) <= y
<1>1. \E x \in S : \A y \in S : ~(<<y, x>> \in OpToRel(<, Nat))
  BY NatLessThanWellFounded, WFMin
<1>2. PICK x \in S : \A y \in S : ~(y < x)
  BY <1>1 DEF OpToRel
<1>3. \A y \in S : x <= y
  BY <1>2
<1> QED
  BY <1>3 DEF Min

LEMMA Greatest ==
  ASSUME NEW n \in Nat, NEW S \in SUBSET (1..n), S # {}
  PROVE  Max(S) \in S
<1> DEFINE T == {n - i : i \in S}
<1>1. T \in SUBSET Nat /\ T # {}
  <2>1. \A i \in S : n - i \in Nat
    OBVIOUS
  <2> QED
    BY <2>1
<1>2. Min(T) \in T /\ \A y \in T : Min(T) <= y
  BY <1>1, Least
<1> HIDE DEF T
<1>3. PICK m \in S : Min(T) = n - m
  BY <1>2 DEF T
<1>4. \A i \in S : n - i \in T
  BY DEF T
<1>5. \A i \in S : m >= i
  BY <1>2, <1>3, <1>4
<1> QED
  BY <1>5 DEF Max

-----------------------------------------------------------------------------
(* Documents: the entries of pairings.json in order. *)

LEMMA DocFacts ==
  ASSUME NEW doc \in Doc
  PROVE  /\ Len(doc) \in Nat /\ DOMAIN doc = 1..Len(doc)
         /\ \A i \in 1..Len(doc) : doc[i] \in Entry /\ doc[i] \in Range(doc)
         /\ \A e \in Range(doc) : e \in Entry /\ \E i \in 1..Len(doc) : doc[i] = e
BY DEF Doc, Range

\* What a document holds of a device is told by its entries.
LEMMA ByEntries ==
  ASSUME NEW doc, NEW d
  PROVE  /\ \A k : Has(doc, d, k) <=> \E e \in Range(doc) : e.device = d /\ e.key = k
         /\ Names(doc, d) <=> \E e \in Range(doc) : e.device = d
BY DEF Has, Names, Range

LEMMA PutFacts ==
  ASSUME NEW doc \in Doc, Once(doc), NEW e \in Entry
  PROVE  /\ Put(doc, e) \in Doc /\ Once(Put(doc, e))
         /\ Range(Put(doc, e)) = {f \in Range(doc) : f.alias # e.alias} \cup {e}
<1>1. /\ Len(doc) \in Nat /\ DOMAIN doc = 1..Len(doc)
      /\ \A i \in 1..Len(doc) : doc[i] \in Entry
  BY DocFacts
<1>2. CASE \E i \in DOMAIN doc : doc[i].alias = e.alias
  <2> DEFINE q == [i \in 1..Len(doc) |-> IF doc[i].alias = e.alias THEN e ELSE doc[i]]
  <2>1. Put(doc, e) = q
    BY <1>1, <1>2 DEF Put
  <2>2. q \in Doc
    BY <1>1 DEF Doc
  <2>3. DOMAIN q = 1..Len(doc) /\ \A i \in 1..Len(doc) : q[i] = IF doc[i].alias = e.alias THEN e ELSE doc[i]
    OBVIOUS
  <2> HIDE DEF q
  <2>4. Once(q)
    BY <1>1, <2>3 DEF Once
  <2>5. Range(q) = {f \in Range(doc) : f.alias # e.alias} \cup {e}
    BY <1>1, <1>2, <2>3 DEF Range
  <2> QED
    BY <2>1, <2>2, <2>4, <2>5
<1>3. CASE ~ \E i \in DOMAIN doc : doc[i].alias = e.alias
  <2> DEFINE q == Append(doc, e)
  <2>1. Put(doc, e) = q
    BY <1>3 DEF Put
  <2>2. q \in Doc
    BY DEF Doc
  <2>3. /\ DOMAIN q = 1..Len(doc) + 1 /\ q[Len(doc) + 1] = e
        /\ \A i \in 1..Len(doc) : q[i] = doc[i]
    BY DEF Doc
  <2> HIDE DEF q
  <2>4. \A i \in DOMAIN q : (i \in 1..Len(doc) /\ q[i] = doc[i]) \/ (i = Len(doc) + 1 /\ q[i] = e)
    BY <1>1, <2>3
  <2>5. Once(q)
    BY <1>1, <1>3, <2>3, <2>4 DEF Once
  <2>6. Range(q) = {f \in Range(doc) : f.alias # e.alias} \cup {e}
    <3>1. \A i \in 1..Len(doc) : i \in DOMAIN q /\ q[i] = doc[i]
      BY <1>1, <2>3
    <3>2. Len(doc) + 1 \in DOMAIN q
      BY <1>1, <2>3
    <3> QED
      BY <1>1, <1>3, <2>3, <2>4, <3>1, <3>2 DEF Range
  <2> QED
    BY <2>1, <2>2, <2>5, <2>6
<1> QED
  BY <1>2, <1>3

LEMMA WithoutFacts ==
  ASSUME NEW doc \in Doc, Once(doc), NEW a
  PROVE  /\ Without(doc, a) \in Doc /\ Once(Without(doc, a))
         /\ Range(Without(doc, a)) = {f \in Range(doc) : f.alias # a}
<1>1. /\ Len(doc) \in Nat /\ DOMAIN doc = 1..Len(doc)
      /\ \A i \in 1..Len(doc) : doc[i] \in Entry
  BY DocFacts
<1>2. CASE ~ \E i \in DOMAIN doc : doc[i].alias = a
  BY <1>2 DEF Without, Range
<1>3. CASE \E i \in DOMAIN doc : doc[i].alias = a
  <2> DEFINE k == CHOOSE i \in DOMAIN doc : doc[i].alias = a
             q == SubSeq(doc, 1, k - 1) \o SubSeq(doc, k + 1, Len(doc))
  <2>1. k \in 1..Len(doc) /\ doc[k].alias = a
    BY <1>1, <1>3
  <2>2. Without(doc, a) = q
    BY <1>3 DEF Without, RemoveAt
  <2> HIDE DEF k
  <2>3. /\ SubSeq(doc, 1, k - 1) \in Seq(Entry) /\ Len(SubSeq(doc, 1, k - 1)) = k - 1
        /\ \A i \in 1..k - 1 : SubSeq(doc, 1, k - 1)[i] = doc[i]
    BY <1>1, <2>1 DEF Doc
  <2>4. /\ SubSeq(doc, k + 1, Len(doc)) \in Seq(Entry) /\ Len(SubSeq(doc, k + 1, Len(doc))) = Len(doc) - k
        /\ \A i \in 1..Len(doc) - k : SubSeq(doc, k + 1, Len(doc))[i] = doc[k + i]
    <3>1. k + 1 \in Nat \ {0} /\ k + 1 <= Len(doc) + 1 /\ doc \in Seq(Entry)
      BY <1>1, <2>1 DEF Doc
    <3>2. SubSeq(doc, k + 1, Len(doc)) \in Seq(Entry)
      BY <1>1, <3>1
    <3>3. Len(SubSeq(doc, k + 1, Len(doc))) = Len(doc) - k
      <4>1. PICK m \in Nat : m = k + 1
        BY <1>1, <2>1
      <4>2. m <= Len(doc) => Len(SubSeq(doc, m, Len(doc))) = Len(doc) - m + 1
        BY <1>1, <3>1, <4>1
      <4>3. m > Len(doc) => Len(SubSeq(doc, m, Len(doc))) = 0
        BY <1>1, <3>1, <4>1
      <4>4. PICK n \in Nat : n = Len(doc) /\ k \in 1..n
        BY <1>1, <2>1
      <4>5. m <= n \/ (m > n /\ n - m + 1 = 0)
        BY <4>1, <4>4
      <4>6. Len(SubSeq(doc, m, n)) = n - m + 1
        BY <4>2, <4>3, <4>4, <4>5
      <4>7. n - m + 1 = n - k
        BY <4>1, <4>4
      <4> QED
        BY <4>1, <4>4, <4>6, <4>7
    <3>4. \A i \in 1..Len(doc) - k : SubSeq(doc, k + 1, Len(doc))[i] = doc[k + i]
      <4> SUFFICES ASSUME NEW i \in 1..Len(doc) - k PROVE SubSeq(doc, k + 1, Len(doc))[i] = doc[k + i]
        OBVIOUS
      <4>1. PICK m \in Nat : m = k + 1
        BY <1>1, <2>1
      <4>2. SubSeq(doc, m, Len(doc))[i] = doc[m + i - 1]
        BY <1>1, <2>1, <3>1, <4>1
      <4>3. m + i - 1 = k + i
        BY <1>1, <2>1, <4>1
      <4> QED
        BY <4>1, <4>2, <4>3
    <3> QED
      BY <3>2, <3>3, <3>4
  <2>5. /\ q \in Doc /\ DOMAIN q = 1..Len(doc) - 1
        /\ \A i \in 1..Len(doc) - 1 : q[i] = IF i < k THEN doc[i] ELSE doc[i + 1]
    <3> DEFINE u == SubSeq(doc, 1, k - 1)
               v == SubSeq(doc, k + 1, Len(doc))
    <3>1. /\ u \in Seq(Entry) /\ Len(u) = k - 1 /\ \A i \in 1..k - 1 : u[i] = doc[i]
          /\ v \in Seq(Entry) /\ Len(v) = Len(doc) - k /\ \A i \in 1..Len(doc) - k : v[i] = doc[k + i]
          /\ q = u \o v
      BY <2>3, <2>4
    <3> HIDE DEF u, v, q
    <3>2. q \in Doc /\ DOMAIN q = 1..Len(u) + Len(v)
      BY <3>1 DEF Doc
    <3>3. Len(u) + Len(v) = Len(doc) - 1
      BY <1>1, <2>1, <3>1
    <3>4. \A i \in 1..Len(u) + Len(v) : q[i] = IF i <= Len(u) THEN u[i] ELSE v[i - Len(u)]
      BY <3>1
    <3>5. ASSUME NEW i \in 1..Len(doc) - 1 PROVE q[i] = IF i < k THEN doc[i] ELSE doc[i + 1]
      <4>1. CASE i < k
        <5>1. i <= Len(u) /\ i \in 1..k - 1
          BY <2>1, <3>1, <4>1
        <5> QED
          BY <3>1, <3>3, <3>4, <4>1, <5>1
      <4>2. CASE ~(i < k)
        <5>1. ~(i <= Len(u)) /\ i - Len(u) \in 1..Len(doc) - k /\ k + (i - Len(u)) = i + 1
          BY <1>1, <2>1, <3>1, <4>2
        <5> QED
          BY <3>1, <3>3, <3>4, <4>2, <5>1
      <4> QED
        BY <4>1, <4>2
    <3> QED
      BY <3>2, <3>3, <3>5
  <2> HIDE DEF q
  <2>6. \A i \in DOMAIN q : \E j \in DOMAIN doc : j # k /\ q[i] = doc[j] /\ j = IF i < k THEN i ELSE i + 1
    <3> SUFFICES ASSUME NEW i \in 1..Len(doc) - 1
                 PROVE  \E j \in DOMAIN doc : j # k /\ q[i] = doc[j] /\ j = IF i < k THEN i ELSE i + 1
      BY <2>5
    <3>1. i \in 1..Len(doc) /\ i + 1 \in 1..Len(doc)
      BY <1>1
    <3> QED
      BY <1>1, <2>1, <2>5, <3>1
  <2>7. \A j \in DOMAIN doc : j # k => \E i \in DOMAIN q : q[i] = doc[j]
    <3> SUFFICES ASSUME NEW j \in 1..Len(doc), j # k PROVE \E i \in 1..Len(doc) - 1 : q[i] = doc[j]
      BY <1>1, <2>5
    <3>1. CASE j < k
      <4>1. j \in 1..Len(doc) - 1
        BY <1>1, <2>1, <3>1
      <4> QED
        BY <2>5, <3>1, <4>1
    <3>2. CASE k < j
      <4>1. j - 1 \in 1..Len(doc) - 1 /\ ~(j - 1 < k) /\ (j - 1) + 1 = j
        BY <1>1, <2>1, <3>2
      <4> QED
        BY <2>5, <4>1
    <3> QED
      BY <1>1, <2>1, <3>1, <3>2
  <2>8. \A j \in DOMAIN doc : doc[j].alias = a <=> j = k
    BY <1>1, <2>1 DEF Once
  <2>9. Once(q)
    <3> SUFFICES ASSUME NEW i \in DOMAIN q, NEW j \in DOMAIN q, q[i].alias = q[j].alias PROVE i = j
      BY DEF Once
    <3>1. PICK x \in DOMAIN doc : q[i] = doc[x] /\ x = IF i < k THEN i ELSE i + 1
      BY <2>6
    <3>2. PICK y \in DOMAIN doc : q[j] = doc[y] /\ y = IF j < k THEN j ELSE j + 1
      BY <2>6
    <3>3. x = y
      BY <3>1, <3>2 DEF Once
    <3>4. i \in Nat /\ j \in Nat
      BY <1>1, <2>5
    <3> QED
      BY <1>1, <2>1, <3>1, <3>2, <3>3, <3>4
  <2>10. Range(q) = {f \in Range(doc) : f.alias # a}
    BY <2>6, <2>7, <2>8 DEF Range
  <2> QED
    BY <2>2, <2>5, <2>9, <2>10
<1> QED
  BY <1>2, <1>3

LEMMA AliasOfFacts ==
  ASSUME NEW doc \in Doc, NEW d, Names(doc, d)
  PROVE  AliasOf(doc, d) \in Aliases
<1> DEFINE S == {i \in DOMAIN doc : doc[i].device = d}
<1>1. S \in SUBSET Nat /\ S # {}
  BY DocFacts DEF Names
<1>2. Min(S) \in DOMAIN doc
  BY <1>1, Least
<1> HIDE DEF S
<1>3. doc[Min(S)] \in Entry
  BY <1>2, DocFacts
<1> QED
  BY <1>3 DEF AliasOf, S, Entry

LEMMA HandlesFacts ==
  ASSUME NEW doc \in Doc
  PROVE  /\ Handles(doc) \in [Devices -> Keys]
         /\ \A d \in Devices : \A k : Once(doc) /\ Single(doc, d) /\ Has(doc, d, k) => Handles(doc)[d] = k
<1> DEFINE S(d) == {i \in DOMAIN doc : doc[i].device = d}
<1>1. ASSUME NEW d \in Devices, Names(doc, d) PROVE Max(S(d)) \in S(d)
  <2>1. Len(doc) \in Nat /\ S(d) \in SUBSET (1..Len(doc)) /\ S(d) # {}
    BY <1>1, DocFacts DEF Names
  <2> HIDE DEF S
  <2> QED
    BY <2>1, Greatest
<1>2. Handles(doc) = [d \in Devices |-> IF Names(doc, d) THEN doc[Max(S(d))].key ELSE 0]
  BY DEF Handles
<1>3. \A i \in DOMAIN doc : doc[i] \in Entry /\ doc[i] \in Range(doc)
  BY DocFacts
<1>4. 0 \in Keys
  BY PairingAssumption DEF Keys
<1>5. ASSUME NEW d \in Devices, Names(doc, d) PROVE doc[Max(S(d))].key \in Keys
  BY <1>1, <1>3, <1>5 DEF Entry
<1>6. ASSUME NEW d \in Devices, NEW k, Once(doc), Single(doc, d), Has(doc, d, k) PROVE Handles(doc)[d] = k
  <2>1. PICK i \in DOMAIN doc : doc[i].device = d /\ doc[i].key = k
    BY <1>6 DEF Has
  <2>2. Names(doc, d)
    BY <2>1 DEF Names
  <2>3. Max(S(d)) \in DOMAIN doc /\ doc[Max(S(d))].device = d
    BY <1>1, <2>2
  <2> HIDE DEF S
  <2>4. doc[Max(S(d))].alias = doc[i].alias
    BY <1>3, <1>6, <2>1, <2>3 DEF Single
  <2>5. Max(S(d)) = i
    BY <1>6, <2>1, <2>3, <2>4 DEF Once
  <2> QED
    BY <1>2, <2>1, <2>2, <2>5
<1> HIDE DEF S
<1> QED
  BY <1>2, <1>4, <1>5, <1>6

-----------------------------------------------------------------------------
(* Types. *)

Command0 == [phase : Phases, alias : Aliases \cup {NoAlias}, key : Keys]

LEMMA Known ==
  /\ MaxKeys \in Nat /\ MaxImports \in Nat /\ MaxFaults \in Nat
  /\ 0 \in Keys /\ Keys \subseteq Nat /\ \A d \in Devices : NamesFor[d] \subseteq Aliases
  /\ Idle \in Command0
BY PairingAssumption DEF Keys, Aliases, Idle, Command0, Phases

LEMMA MaterialisedType ==
  ASSUME BaseInv
  PROVE  /\ Materialised \in Doc /\ Once(Materialised) /\ Materialised \in Docs \cup {<<>>}
         /\ Once(<<>>)
<1>1. <<>> \in Doc /\ Once(<<>>)
  BY DEF Doc, Once
<1>2. CASE file # Missing \/ keyring # Missing
  <2>1. Materialised \in Docs
    BY <1>2 DEF Materialised, Docs
  <2> QED
    BY <1>1, <2>1 DEF BaseInv, DocsOnce
<1>3. CASE file = Missing /\ keyring = Missing
  BY <1>1, <1>3 DEF Materialised
<1> QED
  BY <1>2, <1>3

LEMMA HeldDocs ==
  ASSUME BaseInv, NEW p \in Procs
  PROVE  aliases[p] \in Doc /\ Once(aliases[p]) /\ aliases[p] \in Docs
<1>1. aliases[p] \in Docs
  BY DEF Docs
<1> QED
  BY <1>1 DEF BaseInv, DocsOnce

\* Where a command stands after each of its steps.
OpIs(p, d, r) ==
    /\ r \in Command0 /\ op'[p][d] = r
    /\ op' \in [Procs -> [Devices -> Command0]]
    /\ \A q \in Procs, e \in Devices : q # p \/ e # d => op'[q][e] = op[q][e]

LEMMA OpGoes ==
  ASSUME BaseInv, NEW p \in Procs, NEW d \in Devices, NEW r \in Command0, op' = [op EXCEPT ![p][d] = r]
  PROVE  OpIs(p, d, r)
BY DEF BaseInv, TypeOK, Command0, OpIs

LEMMA OpStands ==
  ASSUME BaseInv, NEW p \in Procs, NEW d \in Devices
  PROVE  /\ op \in [Procs -> [Devices -> Command0]]
         /\ op[p][d] \in Command0 /\ keys \in Keys /\ OpTyped
         /\ op[p][d].alias \in Aliases \cup {NoAlias} /\ op[p][d].key \in Keys
         /\ \A ph \in Phases :
               [op[p][d] EXCEPT !.phase = ph] = [phase |-> ph, alias |-> op[p][d].alias, key |-> op[p][d].key]
         /\ \A ph \in Phases : [op[p][d] EXCEPT !.phase = ph] \in Command0
<1>1. op \in [Procs -> [Devices -> Command0]] /\ keys \in Keys /\ OpTyped
  BY DEF BaseInv, TypeOK, Command0
<1>2. op[p][d] \in Command0
  BY <1>1
<1>3. ASSUME NEW r \in Command0, NEW ph \in Phases
      PROVE  /\ [r EXCEPT !.phase = ph] = [phase |-> ph, alias |-> r.alias, key |-> r.key]
             /\ [r EXCEPT !.phase = ph] \in Command0
  <2>1. PICK h \in Phases, a \in Aliases \cup {NoAlias}, n \in Keys :
           r = [phase |-> h, alias |-> a, key |-> n]
    BY DEF Command0
  <2>2. [r EXCEPT !.phase = ph] = [phase |-> ph, alias |-> a, key |-> n]
    BY <2>1
  <2>3. [phase |-> ph, alias |-> a, key |-> n] \in Command0
    BY DEF Command0
  <2> QED
    BY <2>1, <2>2, <2>3
<1>4. \A r \in Command0 : r.alias \in Aliases \cup {NoAlias} /\ r.key \in Keys
  BY DEF Command0
<1>5. 0 \in Keys
  BY Known
<1> QED
  BY <1>1, <1>2, <1>3, <1>4, <1>5

LEMMA OpPairBegin ==
  ASSUME BaseInv, NEW p \in Procs, NEW d \in Devices, PairBegin(p, d)
  PROVE  /\ \E a \in Aliases : OpIs(p, d, [phase |-> "asking", alias |-> a, key |-> 0])
         /\ told' = [told EXCEPT ![d] = "nothing"]
<1>1. PICK a \in NamesFor[d] : Begin(p, d, "asking", a)
  BY DEF PairBegin
<1>2. a \in Aliases /\ [phase |-> "asking", alias |-> a, key |-> 0] \in Command0
  BY Known DEF Command0, Phases
<1> QED
  BY <1>1, <1>2, OpGoes DEF Begin

LEMMA OpAccessoryPairs ==
  ASSUME BaseInv, NEW p \in Procs, NEW d \in Devices, AccessoryPairs(p, d)
  PROVE  /\ OpIs(p, d, [phase |-> "paired", alias |-> op[p][d].alias, key |-> keys + 1])
         /\ keys + 1 \in Keys /\ keys + 1 # 0 /\ keys' = keys + 1
<1> DEFINE r == [phase |-> "paired", alias |-> op[p][d].alias, key |-> keys + 1]
<1>0. keys \in Keys /\ op \in [Procs -> [Devices -> Command0]] /\ op[p][d].alias \in Aliases \cup {NoAlias}
  BY OpStands
<1>1. keys + 1 \in Keys /\ keys + 1 # 0 /\ keys' = keys + 1
  BY <1>0, Known DEF AccessoryPairs, Keys
<1>2. r \in Command0
  BY <1>0, <1>1 DEF Command0, Phases
<1>3. op' = [op EXCEPT ![p][d] = r]
  BY <1>0, <1>1 DEF AccessoryPairs
<1> HIDE DEF r
<1>4. OpIs(p, d, r)
  BY <1>2, <1>3, OpGoes
<1> QED
  BY <1>1, <1>4 DEF r

LEMMA OpEnds ==
  ASSUME BaseInv, NEW p \in Procs, NEW d \in Devices, PairFails(p, d) \/ Returns(p, d)
  PROVE  OpIs(p, d, Idle)
BY Known, OpGoes DEF PairFails, Returns

LEMMA OpPhase ==
  ASSUME BaseInv, NEW p \in Procs, NEW d \in Devices, NEW ph \in Phases,
         op' = [op EXCEPT ![p][d].phase = ph]
  PROVE  OpIs(p, d, [op[p][d] EXCEPT !.phase = ph])
<1> DEFINE r == [op[p][d] EXCEPT !.phase = ph]
<1>1. r \in Command0 /\ op' = [op EXCEPT ![p][d] = r]
  BY OpStands
<1> HIDE DEF r
<1>2. OpIs(p, d, r)
  BY <1>1, OpGoes
<1> QED
  BY <1>2 DEF r

LEMMA OpPairRecords ==
  ASSUME BaseInv, NEW p \in Procs, NEW d \in Devices, PairRecords(p, d)
  PROVE  OpIs(p, d, [op[p][d] EXCEPT !.phase = "pair_saved"])
BY OpPhase DEF PairRecords, Phases

LEMMA OpUnpairBegin ==
  ASSUME BaseInv, NEW p \in Procs, NEW d \in Devices, UnpairBegin(p, d)
  PROVE  \/ op' = op /\ told' = told
         \/ /\ \E a \in Aliases : OpIs(p, d, [phase |-> "removing", alias |-> a, key |-> 0])
            /\ told' = [told EXCEPT ![d] = "nothing"]
<1>1. CASE ~Names(file', d)
  BY <1>1 DEF UnpairBegin
<1>2. CASE Names(file', d)
  <2> DEFINE a == AliasOf(file', d)
  <2>1. Begin(p, d, "removing", a) /\ file' \in Doc
    BY <1>2, MaterialisedType DEF UnpairBegin
  <2>2. a \in Aliases
    BY <1>2, <2>1, AliasOfFacts
  <2> HIDE DEF a
  <2>3. [phase |-> "removing", alias |-> a, key |-> 0] \in Command0
    BY <2>2, Known DEF Command0, Phases
  <2> QED
    BY <2>1, <2>2, <2>3, OpGoes DEF Begin
<1> QED
  BY <1>1, <1>2

LEMMA OpRemoved ==
  ASSUME BaseInv, NEW p \in Procs, NEW d \in Devices, Removed(p, d)
  PROVE  OpIs(p, d, [op[p][d] EXCEPT !.phase = "removed"])
BY OpPhase DEF Removed, Phases

LEMMA OpRemoveFails ==
  ASSUME BaseInv, NEW p \in Procs, NEW d \in Devices, RemoveFails(p, d)
  PROVE  OpIs(p, d, [op[p][d] EXCEPT !.phase = "kept"])
BY OpPhase DEF RemoveFails, Phases

LEMMA OpUnpairRecords ==
  ASSUME BaseInv, NEW p \in Procs, NEW d \in Devices, UnpairRecords(p, d)
  PROVE  \/ op[p][d].phase = "removed" /\ OpIs(p, d, [op[p][d] EXCEPT !.phase = "unpair_saved"])
         \/ op[p][d].phase = "kept" /\ OpIs(p, d, [op[p][d] EXCEPT !.phase = "kept_saved"])
<1>1. CASE op[p][d].phase = "removed"
  <2>1. op' = [op EXCEPT ![p][d].phase = "unpair_saved"]
    BY <1>1 DEF UnpairRecords
  <2> QED
    BY <1>1, <2>1, OpPhase DEF Phases
<1>2. CASE op[p][d].phase = "kept"
  <2>1. op' = [op EXCEPT ![p][d].phase = "kept_saved"]
    BY <1>2 DEF UnpairRecords
  <2> QED
    BY <1>2, <2>1, OpPhase DEF Phases
<1> QED
  BY <1>1, <1>2 DEF UnpairRecords

\* The commands of a process that ends are over.
LEMMA OpProcessEnds ==
  ASSUME BaseInv, NEW p \in Procs, Ends(p)
  PROVE  /\ op' \in [Procs -> [Devices -> Command0]]
         /\ \A e \in Devices : op'[p][e] = Idle
         /\ \A q \in Procs, e \in Devices : q # p => op'[q][e] = op[q][e]
BY Known DEF BaseInv, TypeOK, Command0, Ends

\* Every step but two only copies documents.
LEMMA DocsCopied ==
  ASSUME BaseInv, Next,
         ~ \E p \in Procs, d \in Devices : (PairRecords(p, d) \/ Removed(p, d)) /\ UNCHANGED backups
  PROVE  Docs' \subseteq Docs \cup {<<>>} /\ aliases' = [p \in Procs |-> aliases'[p]]
<1>1. /\ aliases = [p \in Procs |-> aliases[p]] /\ \A p \in Procs : aliases[p] \in Docs
      /\ file \in Docs \cup {Missing} /\ keyring \in Docs \cup {Missing} /\ backup \in Docs \cup {Missing}
      /\ Materialised \in Docs \cup {<<>>}
  BY MaterialisedType DEF BaseInv, TypeOK, Docs
<1>2. SUFFICES /\ file' \in Docs \cup {Missing, <<>>} /\ keyring' \in Docs \cup {Missing, <<>>}
               /\ backup' \in Docs \cup {Missing, <<>>}
               /\ aliases' = [p \in Procs |-> aliases'[p]]
               /\ \A p \in Procs : aliases'[p] \in Docs \cup {<<>>}
  BY DEF Docs
<1>3. ASSUME NEW p \in Procs, Start(p) \/ Stop(p) \/ Kill(p), UNCHANGED backups
      PROVE  <1>2!1
  <2>1. file' \in Docs \cup {Missing, <<>>} /\ keyring' = keyring
    BY <1>1, <1>3 DEF Start, Load, Stop, Kill, Ends, disk
  <2>2. \E doc \in Docs \cup {<<>>} : aliases' = [aliases EXCEPT ![p] = doc]
    BY <1>1, <1>3 DEF Start, Load, Stop, Kill, Ends
  <2>3. aliases' = [q \in Procs |-> aliases'[q]] /\ \A q \in Procs : aliases'[q] \in Docs \cup {<<>>}
    BY <1>1, <2>2
  <2> QED
    BY <1>1, <1>3, <2>1, <2>3 DEF backups
<1>4. ASSUME NEW p \in Procs, NEW d \in Devices, UNCHANGED backups,
             \/ PairBegin(p, d) \/ AccessoryPairs(p, d) \/ PairFails(p, d) \/ UnpairBegin(p, d)
             \/ RemoveFails(p, d) \/ UnpairRecords(p, d) \/ Returns(p, d)
      PROVE  <1>2!1
  <2>1. aliases' = aliases
    BY <1>4 DEF PairBegin, AccessoryPairs, PairFails, UnpairBegin, RemoveFails, UnpairRecords, Returns, memory
  <2>2. file' \in {file, Materialised, aliases[p]} /\ keyring' \in {keyring, file}
    BY <1>4 DEF PairBegin, AccessoryPairs, PairFails, UnpairBegin, RemoveFails, UnpairRecords, Returns, disk,
                Mirrors, MirrorFails
  <2> QED
    BY <1>1, <1>4, <2>1, <2>2 DEF backups
<1>5. ASSUME (\E d \in Devices : Reset(d)) \/ LoseFile, UNCHANGED backups PROVE <1>2!1
  <2>1. aliases' = aliases /\ file' \in {file, Missing} /\ keyring' = keyring
    BY <1>5 DEF Reset, LoseFile, memory, disk
  <2> QED
    BY <1>1, <1>5, <2>1 DEF backups
<1>6. ASSUME Export \/ Import PROVE <1>2!1
  <2>1. aliases' = aliases /\ file' \in {file, backup} /\ keyring' = keyring /\ backup' \in {file, backup}
    BY <1>6 DEF Export, Import, memory, disk
  <2> QED
    BY <1>1, <2>1
<1> QED
  BY <1>3, <1>4, <1>5, <1>6 DEF Next, Step, Command

LEMMA DocsPut ==
  ASSUME BaseInv, NEW p \in Procs, NEW d \in Devices, PairRecords(p, d), UNCHANGED backups,
         NEW e, e = [alias |-> op[p][d].alias, device |-> d, key |-> op[p][d].key]
  PROVE  /\ e \in Entry /\ Docs' \subseteq Docs \cup {Put(aliases[p], e)}
         /\ aliases' = [aliases EXCEPT ![p] = Put(aliases[p], e)] /\ file' = Put(aliases[p], e)
         /\ UNCHANGED <<keyring, backup>>
<1>1. e \in Entry
  <2>1. op[p][d].alias \in Aliases /\ op[p][d].key \in Keys \ {0}
    BY OpStands DEF OpTyped, Typed, PairRecords, Making
  <2> QED
    BY <2>1 DEF Entry
<1>2. aliases' = [aliases EXCEPT ![p] = Put(aliases[p], e)] /\ UNCHANGED <<keyring, backup>>
  BY DEF PairRecords, backups
<1>3. aliases'[p] = Put(aliases[p], e) /\ \A q \in Procs : q # p => aliases'[q] = aliases[q]
  BY <1>2 DEF BaseInv, TypeOK
<1>4. file' = aliases'[p]
  BY DEF PairRecords
<1> HIDE DEF Put
<1>5. Docs' \subseteq Docs \cup {Put(aliases[p], e)}
  BY <1>2, <1>3, <1>4 DEF Docs
<1> QED
  BY <1>1, <1>2, <1>3, <1>4, <1>5

LEMMA DocsWithout ==
  ASSUME BaseInv, NEW p \in Procs, NEW d \in Devices, Removed(p, d), UNCHANGED backups
  PROVE  /\ Docs' \subseteq Docs \cup {Without(aliases[p], op[p][d].alias)}
         /\ aliases' = [aliases EXCEPT ![p] = Without(aliases[p], op[p][d].alias)]
         /\ UNCHANGED <<file, keyring, backup>>
<1>1. aliases' = [aliases EXCEPT ![p] = Without(aliases[p], op[p][d].alias)]
      /\ UNCHANGED <<file, keyring, backup>>
  BY DEF Removed, backups, disk
<1>2. /\ aliases'[p] = Without(aliases[p], op[p][d].alias)
      /\ \A q \in Procs : q # p => aliases'[q] = aliases[q]
  BY <1>1 DEF BaseInv, TypeOK
<1>3. Docs' \subseteq Docs \cup {Without(aliases[p], op[p][d].alias)}
  BY <1>1, <1>2 DEF Docs
<1> QED
  BY <1>1, <1>3

LEMMA DocsOnceNext ==
  ASSUME BaseInv, Next
  PROVE  DocsOnce' /\ aliases' = [p \in Procs |-> aliases'[p]]
<1>1. CASE \E p \in Procs, d \in Devices : PairRecords(p, d) /\ UNCHANGED backups
  <2>1. PICK p \in Procs, d \in Devices : PairRecords(p, d) /\ UNCHANGED backups
    BY <1>1
  <2> DEFINE e == [alias |-> op[p][d].alias, device |-> d, key |-> op[p][d].key]
  <2>2. /\ e \in Entry /\ Docs' \subseteq Docs \cup {Put(aliases[p], e)}
        /\ aliases' = [aliases EXCEPT ![p] = Put(aliases[p], e)]
    BY <2>1, DocsPut
  <2> HIDE DEF e
  <2>3. Put(aliases[p], e) \in Doc /\ Once(Put(aliases[p], e))
    BY <2>2, HeldDocs, PutFacts
  <2> QED
    BY <2>2, <2>3 DEF BaseInv, DocsOnce, TypeOK
<1>2. CASE \E p \in Procs, d \in Devices : Removed(p, d) /\ UNCHANGED backups
  <2>1. PICK p \in Procs, d \in Devices : Removed(p, d) /\ UNCHANGED backups
    BY <1>2
  <2>2. /\ Docs' \subseteq Docs \cup {Without(aliases[p], op[p][d].alias)}
        /\ aliases' = [aliases EXCEPT ![p] = Without(aliases[p], op[p][d].alias)]
    BY <2>1, DocsWithout
  <2>3. Without(aliases[p], op[p][d].alias) \in Doc /\ Once(Without(aliases[p], op[p][d].alias))
    BY HeldDocs, WithoutFacts
  <2> QED
    BY <2>2, <2>3 DEF BaseInv, DocsOnce, TypeOK
<1>3. CASE ~ \E p \in Procs, d \in Devices : (PairRecords(p, d) \/ Removed(p, d)) /\ UNCHANGED backups
  <2>1. <<>> \in Doc /\ Once(<<>>)
    BY DEF Doc, Once
  <2> QED
    BY <1>3, <2>1, DocsCopied DEF BaseInv, DocsOnce
<1> QED
  BY <1>1, <1>2, <1>3


\* The steps of the processes.
Runtime(p) == Start(p) \/ Stop(p) \/ Kill(p)

LEMMA Cases ==
  ASSUME Next
  PROVE  \/ \E p \in Procs : Runtime(p) /\ UNCHANGED backups
         \/ \E p \in Procs, d \in Devices : Command(p, d) /\ UNCHANGED backups
         \/ \E d \in Devices : Reset(d) /\ UNCHANGED backups
         \/ LoseFile /\ UNCHANGED backups
         \/ Export \/ Import
BY DEF Next, Step, Runtime

LEMMA NumbersType ==
  ASSUME BaseInv, Next
  PROVE  /\ accessory' \in [Devices -> Keys] /\ keys' \in Keys
         /\ faults' \in 0 .. MaxFaults /\ imports' \in 0 .. MaxImports
<1>1. /\ accessory \in [Devices -> Keys] /\ keys \in Keys
      /\ faults \in 0 .. MaxFaults /\ imports \in 0 .. MaxImports
      /\ 0 \in Keys /\ MaxFaults \in Nat /\ MaxImports \in Nat
  BY Known DEF BaseInv, TypeOK
<1>2. Fault => faults' \in 0 .. MaxFaults
  BY <1>1 DEF Fault
<1>3. ASSUME NEW p \in Procs, Runtime(p), UNCHANGED backups
      PROVE  accessory' = accessory /\ keys' = keys /\ faults' \in 0 .. MaxFaults /\ imports' = imports
  BY <1>1, <1>2, <1>3 DEF Runtime, Start, Load, Stop, Kill, Ends, backups
<1>4. ASSUME NEW p \in Procs, NEW d \in Devices, Command(p, d), UNCHANGED backups
      PROVE  /\ accessory' \in [Devices -> Keys] /\ keys' \in Keys
             /\ faults' \in 0 .. MaxFaults /\ imports' = imports
  <2>1. CASE AccessoryPairs(p, d)
    <3>1. keys' \in Keys /\ accessory' = [accessory EXCEPT ![d] = keys'] /\ faults' = faults
      BY <2>1, OpAccessoryPairs DEF AccessoryPairs
    <3> QED
      BY <1>1, <1>4, <3>1 DEF backups
  <2>2. CASE ~AccessoryPairs(p, d)
    <3>1. /\ accessory' = accessory \/ accessory' = [accessory EXCEPT ![d] = 0]
          /\ keys' = keys /\ (faults' = faults \/ Fault)
      BY <1>4, <2>2 DEF Command, PairBegin, PairFails, PairRecords, UnpairBegin, Removed, RemoveFails,
                        UnpairRecords, Returns, Mirrors, MirrorFails
    <3> QED
      BY <1>1, <1>2, <1>4, <3>1 DEF backups
  <2> QED
    BY <2>1, <2>2
<1>5. ASSUME (\E d \in Devices : Reset(d)) \/ LoseFile \/ Export \/ Import
      PROVE  /\ accessory' \in [Devices -> Keys] /\ keys' = keys /\ faults' \in 0 .. MaxFaults
  BY <1>1, <1>2, <1>5 DEF Reset, LoseFile, Export, Import
<1>6. (((\E d \in Devices : Reset(d)) \/ LoseFile) /\ UNCHANGED backups) \/ Export \/ Import
        => imports' \in 0 .. MaxImports
  BY <1>1 DEF backups, Export, Import
<1> QED
  BY <1>1, <1>3, <1>4, <1>5, <1>6, Cases

LEMMA SetsType ==
  ASSUME BaseInv, Next
  PROVE  /\ up' \subseteq Procs /\ told' \in [Devices -> {"nothing", "paired", "unpaired", "kept"}]
         /\ exposed' \subseteq Devices /\ displaced' \subseteq Devices /\ doubled' \subseteq Devices
         /\ restored' \subseteq Devices
<1>1. /\ up \subseteq Procs /\ told \in [Devices -> {"nothing", "paired", "unpaired", "kept"}]
      /\ exposed \subseteq Devices /\ displaced \subseteq Devices /\ doubled \subseteq Devices
      /\ restored \subseteq Devices
  BY DEF BaseInv, TypeOK
<1>2. ASSUME NEW p \in Procs, Runtime(p)
      PROVE  up' \subseteq Procs /\ exposed' \subseteq Devices /\ UNCHANGED <<told, odds>>
  BY <1>1, <1>2 DEF Runtime, Start, Stop, Kill, Ends, ghosts
<1>3. ASSUME NEW p \in Procs, NEW d \in Devices, Command(p, d)
      PROVE  /\ up' = up /\ told' \in [Devices -> {"nothing", "paired", "unpaired", "kept"}]
             /\ exposed' \subseteq Devices /\ displaced' \subseteq Devices /\ doubled' \subseteq Devices
             /\ restored' \subseteq Devices
  <2>1. up' = up
    BY <1>3 DEF Command, PairBegin, AccessoryPairs, PairFails, PairRecords, UnpairBegin, Removed, RemoveFails,
                UnpairRecords, Returns, memory
  <2>2. \E t \in {"nothing", "paired", "unpaired", "kept"} : told' = [told EXCEPT ![d] = t] \/ told' = told
    BY <1>1, <1>3 DEF Command, PairBegin, AccessoryPairs, PairFails, PairRecords, UnpairBegin, Removed, RemoveFails,
                UnpairRecords, Returns, Answer, Begin, ghosts
  <2>3. exposed' \subseteq Devices
    BY <1>1, <1>3 DEF Command, PairBegin, AccessoryPairs, PairFails, PairRecords, UnpairBegin, Removed, RemoveFails,
                UnpairRecords, Returns, Mirrors, MirrorFails, ghosts
  <2>4. displaced' \subseteq Devices /\ doubled' \subseteq Devices /\ restored' \subseteq Devices
    BY <1>1, <1>3 DEF Command, PairBegin, AccessoryPairs, PairFails, PairRecords, UnpairBegin, Removed, RemoveFails,
                UnpairRecords, Returns, ghosts, odds
  <2> QED
    BY <1>1, <2>1, <2>2, <2>3, <2>4
<1>4. ASSUME (\E d \in Devices : Reset(d)) \/ LoseFile \/ Export \/ Import
      PROVE  /\ up' = up /\ told' \in [Devices -> {"nothing", "paired", "unpaired", "kept"}]
             /\ exposed' \subseteq Devices /\ displaced' \subseteq Devices /\ doubled' \subseteq Devices
             /\ restored' \subseteq Devices
  BY <1>1, <1>4 DEF Reset, LoseFile, Export, Import, memory, ghosts, odds
<1> QED
  BY <1>1, <1>2, <1>3, <1>4, Cases DEF odds

LEMMA HandlesType ==
  ASSUME BaseInv, Next
  PROVE  handles' \in [Procs -> [Devices -> Keys]]
<1>1. handles \in [Procs -> [Devices -> Keys]] /\ 0 \in Keys
  BY Known DEF BaseInv, TypeOK
<1>2. ASSUME NEW p \in Procs, Runtime(p)
      PROVE  handles' \in [Procs -> [Devices -> Keys]]
  <2>1. Handles(Materialised) \in [Devices -> Keys]
    BY MaterialisedType, HandlesFacts
  <2>2. \E h \in [Devices -> Keys] : handles' = [handles EXCEPT ![p] = h]
    BY <1>1, <1>2, <2>1 DEF Runtime, Start, Load, Stop, Kill, Ends
  <2> QED
    BY <1>1, <2>2
<1>3. ASSUME NEW p \in Procs, NEW d \in Devices, Command(p, d)
      PROVE  handles' \in [Procs -> [Devices -> Keys]]
  <2>1. op[p][d].key \in Keys
    BY OpStands
  <2>2. handles' = handles \/ \E k \in Keys : handles' = [handles EXCEPT ![p][d] = k]
    BY <1>1, <1>3, <2>1 DEF Command, PairBegin, AccessoryPairs, PairFails, PairRecords, UnpairBegin, Removed,
                RemoveFails, UnpairRecords, Returns, memory
  <2> QED
    BY <1>1, <2>2
<1>4. ASSUME (\E d \in Devices : Reset(d)) \/ LoseFile \/ Export \/ Import
      PROVE  handles' = handles
  BY <1>4 DEF Reset, LoseFile, Export, Import, memory
<1> QED
  BY <1>1, <1>2, <1>3, <1>4, Cases

\* A command in a state of its own, or idle.
LEMMA OpType ==
  ASSUME BaseInv, Next
  PROVE  op' \in [Procs -> [Devices -> Command0]] /\ OpTyped'
<1>1. op \in [Procs -> [Devices -> Command0]] /\ OpTyped
  BY DEF BaseInv, TypeOK, Command0
<1>2. ASSUME NEW p \in Procs, Runtime(p)
      PROVE  op' \in [Procs -> [Devices -> Command0]] /\ OpTyped'
  <2>1. CASE Start(p)
    BY <1>1, <2>1 DEF Start, OpTyped, Typed
  <2>2. CASE Ends(p)
    BY <1>1, <2>2, OpProcessEnds DEF OpTyped, Typed, Idle, Making
  <2> QED
    BY <1>2, <2>1, <2>2 DEF Runtime, Stop, Kill
<1>3. ASSUME NEW p \in Procs, NEW d \in Devices, Command(p, d)
      PROVE  op' \in [Procs -> [Devices -> Command0]] /\ OpTyped'
  <2>1. ASSUME NEW r \in Command0, OpIs(p, d, r), r = Idle \/ (r.phase # "idle" /\ r.alias \in Aliases),
               r.phase \in Making => r.key # 0
        PROVE  op' \in [Procs -> [Devices -> Command0]] /\ OpTyped'
    <3>1. Typed(p, d)'
      BY <2>1 DEF OpIs, Typed, Idle
    <3>2. \A q \in Procs, e \in Devices : q # p \/ e # d => Typed(q, e)'
      BY <1>1, <2>1 DEF OpIs, OpTyped, Typed
    <3> QED
      BY <2>1, <3>1, <3>2 DEF OpIs, OpTyped
  <2>2. CASE op' = op
    BY <1>1, <2>2 DEF OpTyped, Typed
  <2>3. op[p][d] = Idle \/ (op[p][d].phase # "idle" /\ op[p][d].alias \in Aliases)
    BY <1>1 DEF OpTyped, Typed
  <2>4. op[p][d].phase \in Making => op[p][d].key # 0
    BY <1>1 DEF OpTyped, Typed
  <2>5. CASE PairBegin(p, d) \/ UnpairBegin(p, d)
    <3>1. CASE \E ph \in {"asking", "removing"}, a \in Aliases :
                 OpIs(p, d, [phase |-> ph, alias |-> a, key |-> 0])
      <4>1. PICK ph \in {"asking", "removing"}, a \in Aliases :
                 OpIs(p, d, [phase |-> ph, alias |-> a, key |-> 0])
        BY <3>1
      <4> DEFINE r == [phase |-> ph, alias |-> a, key |-> 0]
      <4>2. r \in Command0 /\ r.phase # "idle" /\ r.alias \in Aliases /\ r.phase \notin Making /\ OpIs(p, d, r)
        BY <4>1 DEF OpIs, Making
      <4> HIDE DEF r
      <4> QED
        BY <2>1, <4>2
    <3> QED
      BY <2>2, <2>5, <3>1, OpPairBegin, OpUnpairBegin
  <2>6. CASE AccessoryPairs(p, d)
    <3> DEFINE r == [phase |-> "paired", alias |-> op[p][d].alias, key |-> keys + 1]
    <3>1. op[p][d].alias \in Aliases
      BY <2>3, <2>6 DEF AccessoryPairs, Idle
    <3>2. OpIs(p, d, r) /\ r.phase # "idle" /\ r.alias \in Aliases /\ r.key # 0 /\ r \in Command0
      BY <2>6, <3>1, OpAccessoryPairs DEF OpIs
    <3> HIDE DEF r
    <3> QED
      BY <2>1, <3>2
  <2>7. CASE PairFails(p, d) \/ Returns(p, d)
    <3>1. OpIs(p, d, Idle) /\ Idle \in Command0 /\ Idle.phase \notin Making
      BY <2>7, OpEnds, Known DEF Idle, Making
    <3> QED
      BY <2>1, <3>1
  <2>8. CASE PairRecords(p, d) \/ Removed(p, d) \/ RemoveFails(p, d) \/ UnpairRecords(p, d)
    <3>1. op[p][d].phase # "idle" /\ op[p][d].alias \in Aliases
      BY <2>3, <2>8 DEF PairRecords, Removed, RemoveFails, UnpairRecords, Idle
    <3>2. PICK ph \in Phases : /\ OpIs(p, d, [op[p][d] EXCEPT !.phase = ph]) /\ ph # "idle"
                               /\ ph \in Making => op[p][d].phase \in Making
      <4>1. {"pair_saved", "removed", "kept", "unpair_saved", "kept_saved"} \subseteq Phases
        BY DEF Phases
      <4>2. CASE PairRecords(p, d)
        BY <4>1, <4>2, OpPairRecords DEF PairRecords, Making
      <4>3. CASE Removed(p, d)
        BY <4>1, <4>3, OpRemoved DEF Making
      <4>4. CASE RemoveFails(p, d)
        BY <4>1, <4>4, OpRemoveFails DEF Making
      <4>5. CASE UnpairRecords(p, d)
        BY <4>1, <4>5, OpUnpairRecords DEF Making
      <4> QED
        BY <2>8, <4>2, <4>3, <4>4, <4>5
    <3> DEFINE r == [op[p][d] EXCEPT !.phase = ph]
    <3>3. r = [phase |-> ph, alias |-> op[p][d].alias, key |-> op[p][d].key] /\ r \in Command0
      BY OpStands
    <3>4. r.phase = ph /\ r.alias = op[p][d].alias /\ r.key = op[p][d].key /\ OpIs(p, d, r)
      BY <3>2, <3>3
    <3> HIDE DEF r
    <3> QED
      BY <2>1, <2>4, <3>1, <3>2, <3>3, <3>4
  <2> QED
    BY <1>3, <2>5, <2>6, <2>7, <2>8 DEF Command
<1>4. ASSUME (\E d \in Devices : Reset(d)) \/ LoseFile \/ Export \/ Import
      PROVE  op' = op
  BY <1>4 DEF Reset, LoseFile, Export, Import
<1> QED
  BY <1>1, <1>2, <1>3, <1>4, Cases DEF OpTyped, Typed

LEMMA BaseNext ==
  ASSUME BaseInv, Next
  PROVE  BaseInv'
<1>1. DocsOnce' /\ aliases' = [p \in Procs |-> aliases'[p]]
  BY DocsOnceNext
<1>2. /\ file' \in Doc \cup {Missing} /\ keyring' \in Doc \cup {Missing} /\ backup' \in Doc \cup {Missing}
      /\ aliases' \in [Procs -> Doc]
  BY <1>1 DEF DocsOnce, Docs
<1>3. TypeOK'
  BY <1>2, NumbersType, SetsType, HandlesType, OpType DEF TypeOK, Command0
<1> QED
  BY <1>1, <1>3, OpType DEF BaseInv


-----------------------------------------------------------------------------
(* Keys. *)

LEMMA KeysStep ==
  ASSUME BaseInv, Next
  PROVE  /\ keys \in Nat /\ keys' \in Nat /\ keys <= keys'
         /\ \A e \in Devices : /\ accessory[e] \in Nat
                               /\ \/ accessory'[e] \in {accessory[e], 0}
                                  \/ accessory'[e] = keys + 1 /\ keys' = keys + 1
<1>1. accessory \in [Devices -> Keys] /\ keys \in Nat /\ Keys \subseteq Nat
  BY Known DEF BaseInv, TypeOK
<1>2. ASSUME NEW p \in Procs, Runtime(p)
      PROVE  accessory' = accessory /\ keys' = keys
  BY <1>2 DEF Runtime, Start, Stop, Kill, Ends
<1>3. ASSUME NEW p \in Procs, NEW d \in Devices, Command(p, d)
      PROVE  \/ keys' = keys /\ (accessory' = accessory \/ accessory' = [accessory EXCEPT ![d] = 0])
             \/ keys' = keys + 1 /\ accessory' = [accessory EXCEPT ![d] = keys + 1]
  BY <1>3 DEF Command, PairBegin, AccessoryPairs, PairFails, PairRecords, UnpairBegin, Removed, RemoveFails,
              UnpairRecords, Returns
<1>4. ASSUME NEW d \in Devices, Reset(d)
      PROVE  keys' = keys /\ accessory' = [accessory EXCEPT ![d] = 0]
  BY <1>4 DEF Reset
<1>5. LoseFile \/ Export \/ Import => keys' = keys /\ accessory' = accessory
  BY DEF LoseFile, Export, Import
<1>6. \A e \in Devices : accessory[e] \in Nat
  BY <1>1
<1>7. CASE keys' = keys /\ accessory' = accessory
  BY <1>1, <1>6, <1>7
<1>8. ASSUME NEW d \in Devices, keys' = keys, accessory' = [accessory EXCEPT ![d] = 0]
      PROVE  keys' \in Nat /\ keys <= keys' /\ \A e \in Devices : accessory'[e] \in {accessory[e], 0}
  BY <1>1, <1>8
<1>9. ASSUME NEW d \in Devices, keys' = keys + 1, accessory' = [accessory EXCEPT ![d] = keys + 1]
      PROVE  keys' \in Nat /\ keys <= keys' /\ \A e \in Devices : accessory'[e] \in {accessory[e], keys + 1}
  BY <1>1, <1>9
<1> QED
  BY <1>1, <1>2, <1>3, <1>4, <1>5, <1>6, <1>7, <1>8, <1>9, Cases

\* What fits goes on to fit: a key is never made twice.
FitsNext(k, d) == k <= keys' /\ \A e \in Devices : accessory'[e] = k => e = d

LEMMA FitsStays ==
  ASSUME BaseInv, Next
  PROVE  \A k \in Nat \ {0}, d \in Devices : Fits(k, d) => FitsNext(k, d)
<1> SUFFICES ASSUME NEW k \in Nat \ {0}, NEW d \in Devices, Fits(k, d) PROVE FitsNext(k, d)
  OBVIOUS
<1>1. k <= keys /\ \A e \in Devices : accessory[e] = k => e = d
  BY DEF Fits
<1>2. k <= keys' /\ k # keys + 1
  BY <1>1, KeysStep
<1> QED
  BY <1>1, <1>2, KeysStep DEF FitsNext

LEMMA DoubledGrows ==
  ASSUME Next
  PROVE  doubled \subseteq doubled'
<1>1. ASSUME NEW p \in Procs, Runtime(p) PROVE doubled' = doubled
  BY <1>1 DEF Runtime, Start, Stop, Kill, Ends, ghosts, odds
<1>2. ASSUME NEW p \in Procs, NEW d \in Devices, Command(p, d) PROVE doubled \subseteq doubled'
  BY <1>2 DEF Command, PairBegin, AccessoryPairs, PairFails, PairRecords, UnpairBegin, Removed, RemoveFails,
              UnpairRecords, Returns, ghosts, odds
<1>3. (\E d \in Devices : Reset(d)) \/ LoseFile \/ Export \/ Import => doubled' = doubled
  BY DEF Reset, LoseFile, Export, Import, ghosts, odds
<1> QED
  BY <1>1, <1>2, <1>3, Cases

\* Documents stay good.
LEMMA DocsGoodNext ==
  ASSUME BaseInv, KeyInv, Next
  PROVE  DocsGood'
<1> DEFINE Fine(doc) == /\ \A e \in Range(doc) : FitsNext(e.key, e.device)
                        /\ \A d \in Devices : d \notin doubled' => Single(doc, d)
<1>1. SUFFICES \A doc \in Docs' : Fine(doc)
  BY DEF DocsGood, Good, FitsNext, Fits
<1>2. ASSUME NEW doc \in Docs PROVE Fine(doc) /\ doc \in Doc /\ Once(doc)
  <2>1. doc \in Doc /\ Once(doc) /\ Good(doc)
    BY DEF BaseInv, DocsOnce, KeyInv, DocsGood
  <2>2. ASSUME NEW e \in Range(doc) PROVE FitsNext(e.key, e.device)
    <3>1. e \in Entry
      BY <2>1, DocFacts
    <3>2. e.key \in Nat \ {0} /\ e.device \in Devices
      BY <3>1, Known DEF Entry
    <3> QED
      BY <2>1, <3>2, FitsStays DEF Good
  <2> QED
    BY <2>1, <2>2, DoubledGrows DEF Good
<1>3. Fine(<<>>)
  BY DEF Range, Single
<1>4. ASSUME NEW doc \in Docs, NEW q, Range(q) \subseteq Range(doc) PROVE Fine(q)
  BY <1>2, <1>4 DEF Single
<1>5. CASE \E p \in Procs, d \in Devices : PairRecords(p, d) /\ UNCHANGED backups
  <2>1. PICK p \in Procs, d \in Devices : PairRecords(p, d) /\ UNCHANGED backups
    BY <1>5
  <2>2. PICK e : e = [alias |-> op[p][d].alias, device |-> d, key |-> op[p][d].key]
    OBVIOUS
  <2>3. e \in Entry /\ Docs' \subseteq Docs \cup {Put(aliases[p], e)} /\ e.device = d
    BY <2>1, <2>2, DocsPut
  <2>4. aliases[p] \in Doc /\ Once(aliases[p]) /\ aliases[p] \in Docs
    BY HeldDocs
  <2>5. Range(Put(aliases[p], e)) = {f \in Range(aliases[p]) : f.alias # e.alias} \cup {e}
    BY <2>3, <2>4, PutFacts
  <2>6. FitsNext(e.key, e.device)
    <3>1. Fits(op[p][d].key, d)
      BY <2>1 DEF KeyInv, DeviceInv, Fair, PairRecords, Making
    <3>2. e.key \in Nat \ {0}
      BY <2>3, Known DEF Entry
    <3> QED
      BY <2>2, <3>1, <3>2, FitsStays
  <2>7. \A f \in Range(Put(aliases[p], e)) : FitsNext(f.key, f.device)
    BY <1>2, <2>4, <2>5, <2>6
  <2>8. ASSUME NEW h \in Devices, h \notin doubled' PROVE Single(Put(aliases[p], e), h)
    <3>1. Single(aliases[p], h)
      BY <1>2, <2>4, <2>8
    <3>2. CASE h # d
      BY <2>3, <2>5, <3>1, <3>2 DEF Single
    <3>3. CASE h = d
      <4>1. \A i \in DOMAIN aliases[p] : aliases[p][i].device = d => aliases[p][i].alias = e.alias
        BY <2>1, <2>2, <2>8, <3>3 DEF PairRecords
      <4>2. \A f \in Range(aliases[p]) : f.device = d => f.alias = e.alias
        BY <4>1 DEF Range
      <4> QED
        BY <2>5, <3>3, <4>2 DEF Single
    <3> QED
      BY <3>2, <3>3
  <2> QED
    BY <1>2, <2>3, <2>7, <2>8
<1>6. CASE \E p \in Procs, d \in Devices : Removed(p, d) /\ UNCHANGED backups
  <2>1. PICK p \in Procs, d \in Devices : Removed(p, d) /\ UNCHANGED backups
    BY <1>6
  <2>2. Docs' \subseteq Docs \cup {Without(aliases[p], op[p][d].alias)}
    BY <2>1, DocsWithout
  <2>3. Range(Without(aliases[p], op[p][d].alias)) \subseteq Range(aliases[p]) /\ aliases[p] \in Docs
    BY HeldDocs, WithoutFacts
  <2> HIDE DEF Fine
  <2> QED
    BY <1>2, <1>4, <2>2, <2>3
<1>7. CASE ~ \E p \in Procs, d \in Devices : (PairRecords(p, d) \/ Removed(p, d)) /\ UNCHANGED backups
  <2>1. Docs' \subseteq Docs \cup {<<>>}
    BY <1>7, DocsCopied
  <2> HIDE DEF Fine
  <2> QED
    BY <1>2, <1>3, <2>1
<1> QED
  BY <1>5, <1>6, <1>7

-----------------------------------------------------------------------------
(* What a command leaves alone. *)

\* A command on d does not touch what is known of e.
Apart(p, d, e) ==
    /\ told'[e] = told[e] /\ accessory'[e] = accessory[e]
    /\ op'[p][e] = op[p][e] /\ handles'[p][e] = handles[p][e]
    /\ (e \in exposed' <=> e \in exposed) /\ (e \in restored' <=> e \in restored)
    /\ (e \in doubled' <=> e \in doubled) /\ (e \in displaced => e \in displaced')

LEMMA CommandApart ==
  ASSUME BaseInv, NEW p \in Procs, NEW d \in Devices, Command(p, d), NEW e \in Devices, e # d
  PROVE  Apart(p, d, e) /\ up' = up
<1>1. told \in [Devices -> {"nothing", "paired", "unpaired", "kept"}] /\ accessory \in [Devices -> Keys]
      /\ handles \in [Procs -> [Devices -> Keys]] /\ op \in [Procs -> [Devices -> Command0]]
  BY DEF BaseInv, TypeOK, Command0
<1>2. up' = up
  BY DEF Command, PairBegin, AccessoryPairs, PairFails, PairRecords, UnpairBegin, Removed, RemoveFails,
         UnpairRecords, Returns, memory
<1>3. told' = told \/ \E t : told' = [told EXCEPT ![d] = t]
  BY DEF Command, PairBegin, AccessoryPairs, PairFails, PairRecords, UnpairBegin, Removed, RemoveFails,
         UnpairRecords, Returns, Answer, Begin, ghosts
<1>4. accessory' = accessory \/ \E k : accessory' = [accessory EXCEPT ![d] = k]
  BY DEF Command, PairBegin, AccessoryPairs, PairFails, PairRecords, UnpairBegin, Removed, RemoveFails,
         UnpairRecords, Returns
<1>5. handles' = handles \/ \E k : handles' = [handles EXCEPT ![p][d] = k]
  BY DEF Command, PairBegin, AccessoryPairs, PairFails, PairRecords, UnpairBegin, Removed, RemoveFails,
         UnpairRecords, Returns, memory
<1>6. op' = op \/ \E r : OpIs(p, d, r)
  BY OpPairBegin, OpAccessoryPairs, OpEnds, OpPairRecords, OpUnpairBegin, OpRemoved, OpRemoveFails,
     OpUnpairRecords DEF Command
<1>7. (e \in exposed' <=> e \in exposed) /\ (e \in restored' <=> e \in restored)
  BY DEF Command, PairBegin, AccessoryPairs, PairFails, PairRecords, UnpairBegin, Removed, RemoveFails,
         UnpairRecords, Returns, Mirrors, MirrorFails, ghosts, odds
<1>8. (e \in doubled' <=> e \in doubled) /\ (e \in displaced => e \in displaced')
  BY DEF Command, PairBegin, AccessoryPairs, PairFails, PairRecords, UnpairBegin, Removed, RemoveFails,
         UnpairRecords, Returns, ghosts, odds
<1>9. told'[e] = told[e]
  BY <1>1, <1>3
<1>10. accessory'[e] = accessory[e]
  BY <1>1, <1>4
<1>11. handles'[p][e] = handles[p][e]
  BY <1>1, <1>5
<1>12. op'[p][e] = op[p][e]
  BY <1>6 DEF OpIs
<1> QED
  BY <1>2, <1>7, <1>8, <1>9, <1>10, <1>11, <1>12 DEF Apart

\* What it writes to disk, and when.
LEMMA CommandDisk ==
  ASSUME NEW p \in Procs, NEW d \in Devices, Command(p, d)
  PROVE  /\ file' \in {file, Materialised} \/ (p \in up /\ file' = aliases'[p])
         /\ keyring' = keyring \/ (file # Missing /\ file' = file /\ aliases' = aliases /\ keyring' = file)
         /\ \A e \in Devices : e # d /\ op[p][e].phase \in Saved => aliases' = aliases /\ file' = file
<1>1. CASE Returns(p, d)
  BY <1>1 DEF Returns, Mirrors, MirrorFails, memory
<1>2. CASE AccessoryPairs(p, d)
  BY <1>2 DEF AccessoryPairs, memory, disk
<1>3. CASE \/ PairBegin(p, d) \/ PairFails(p, d) \/ PairRecords(p, d) \/ UnpairBegin(p, d)
           \/ Removed(p, d) \/ RemoveFails(p, d) \/ UnpairRecords(p, d)
  <2>1. Runs(p)
    BY <1>3 DEF PairBegin, PairFails, PairRecords, UnpairBegin, Removed, RemoveFails, UnpairRecords
  <2>2. p \in up /\ \A e \in Devices : op[p][e].phase \notin Saved
    BY <2>1 DEF Runs
  <2>3. keyring' = keyring
    BY <1>3 DEF PairBegin, PairFails, PairRecords, UnpairBegin, Removed, RemoveFails, UnpairRecords, disk
  <2>4. file' \in {file, Materialised} \/ file' = aliases'[p]
    BY <1>3 DEF PairBegin, PairFails, PairRecords, UnpairBegin, Removed, RemoveFails, UnpairRecords, disk
  <2> QED
    BY <2>2, <2>3, <2>4
<1> QED
  BY <1>1, <1>2, <1>3 DEF Command

\* The entries of another device are taken away only with their alias.
LEMMA CommandAliases ==
  ASSUME IInv, NEW p \in Procs, NEW d \in Devices, Command(p, d), UNCHANGED backups,
         NEW e \in Devices, e # d
  PROVE  /\ Names(aliases'[p], e) => Names(aliases[p], e)
         /\ accessory[e] # 0 /\ e \notin displaced' /\ Has(aliases[p], e, accessory[e])
              => Has(aliases'[p], e, accessory[e])
<1>0. BaseInv /\ aliases \in [Procs -> Doc]
  BY DEF IInv, BaseInv, TypeOK
<1>1. aliases[p] \in Doc /\ Once(aliases[p]) /\ aliases[p] \in Docs /\ DocsGood
  BY <1>0, HeldDocs DEF IInv, KeyInv
<1>2. CASE PairRecords(p, d)
  <2>1. PICK n : n = [alias |-> op[p][d].alias, device |-> d, key |-> op[p][d].key]
    OBVIOUS
  <2>2. n \in Entry /\ aliases' = [aliases EXCEPT ![p] = Put(aliases[p], n)] /\ n.device = d /\ n.alias = op[p][d].alias
    BY <1>0, <1>2, <2>1, DocsPut
  <2>3. aliases'[p] = Put(aliases[p], n)
    BY <1>0, <2>2
  <2>4. Range(aliases'[p]) = {f \in Range(aliases[p]) : f.alias # n.alias} \cup {n}
    BY <1>1, <2>2, <2>3, PutFacts
  <2>5. e \notin displaced' => \A f \in Range(aliases[p]) : f.device = e => f.alias # n.alias
    BY <1>2, <2>2 DEF PairRecords, Bears, Range
  <2>6. Names(aliases'[p], e) => Names(aliases[p], e)
    BY <2>2, <2>4, ByEntries
  <2>7. e \notin displaced' => \A f \in Range(aliases[p]) : f.device = e => f \in Range(aliases'[p])
    BY <2>4, <2>5
  <2>8. e \notin displaced' /\ Has(aliases[p], e, accessory[e]) => Has(aliases'[p], e, accessory[e])
    <3> SUFFICES ASSUME e \notin displaced', Has(aliases[p], e, accessory[e]) PROVE Has(aliases'[p], e, accessory[e])
      OBVIOUS
    <3>1. PICK f \in Range(aliases[p]) : f.device = e /\ f.key = accessory[e]
      BY DEF Has, Range
    <3>2. f \in Range(aliases'[p])
      BY <2>7, <3>1
    <3> QED
      BY <3>1, <3>2 DEF Has, Range
  <2> QED
    BY <2>6, <2>8
<1>3. CASE Removed(p, d)
  <2>1. aliases' = [aliases EXCEPT ![p] = Without(aliases[p], op[p][d].alias)]
    BY <1>0, <1>3, DocsWithout
  <2>2. aliases'[p] = Without(aliases[p], op[p][d].alias)
    BY <1>0, <2>1
  <2>3. Range(aliases'[p]) = {f \in Range(aliases[p]) : f.alias # op[p][d].alias}
    BY <1>1, <2>2, WithoutFacts
  <2>4. PICK i \in DOMAIN aliases[p] : aliases[p][i].alias = op[p][d].alias /\ aliases[p][i].key = accessory[d]
    BY <1>3 DEF Removed, Accepts
  <2>5. aliases[p][i] \in Range(aliases[p]) /\ aliases[p][i].device = d
    <3>1. aliases[p][i] \in Range(aliases[p])
      BY DEF Range
    <3>2. Fits(accessory[d], aliases[p][i].device)
      BY <1>1, <2>4, <3>1 DEF DocsGood, Good
    <3> QED
      BY <3>1, <3>2 DEF Fits
  <2>6. \A f \in Range(aliases[p]) : f.alias = op[p][d].alias => f.device = d
    BY <2>4, <2>5, <1>1 DEF Once, Range
  <2> QED
    BY <2>3, <2>6, ByEntries
<1>4. CASE \/ PairBegin(p, d) \/ AccessoryPairs(p, d) \/ PairFails(p, d) \/ UnpairBegin(p, d)
           \/ RemoveFails(p, d) \/ UnpairRecords(p, d) \/ Returns(p, d)
  <2>1. aliases' = aliases
    BY <1>4 DEF PairBegin, AccessoryPairs, PairFails, UnpairBegin, RemoveFails, UnpairRecords, Returns, memory
  <2> QED
    BY <2>1
<1> QED
  BY <1>2, <1>3, <1>4 DEF Command

LEMMA DeviceFacts ==
  ASSUME IInv, NEW d \in Devices
  PROVE  BaseInv /\ DeviceInv(d) /\ up \subseteq Procs
BY DEF IInv, KeyInv, BaseInv, TypeOK

\* One process: what is pending is its command.
LEMMA Alone ==
  ASSUME OneProcess, NEW p \in Procs, NEW d \in Devices
  PROVE  /\ Pending(d) <=> op[p][d].phase \in Making /\ op[p][d].key = accessory[d]
         /\ Pending(d)' <=> op'[p][d].phase \in Making /\ op'[p][d].key = accessory'[d]
BY DEF OneProcess, Pending

LEMMA FairStays ==
  ASSUME BaseInv, Next, NEW p \in Procs, NEW e \in Devices, op[p][e].phase \in Making, Fits(op[p][e].key, e)
  PROVE  FitsNext(op[p][e].key, e)
<1>1. op[p][e].key \in Nat \ {0}
  BY OpStands, Known DEF OpTyped, Typed
<1> QED
  BY <1>1, FitsStays

LEMMA TrustStays ==
  ASSUME IInv, Next, NEW e \in Devices, accessory'[e] # 0, accessory'[e] = accessory[e]
  PROVE  FitsNext(accessory'[e], e)
<1>1. accessory[e] \in Nat \ {0}
  BY Known DEF IInv, BaseInv, TypeOK
<1>2. Fits(accessory[e], e) /\ BaseInv
  BY <1>1, DeviceFacts DEF DeviceInv, Trusted
<1> QED
  BY <1>1, <1>2, FitsStays

LEMMA OthersSound ==
  ASSUME IInv, OneProcess, NEW p \in Procs, NEW d \in Devices, Command(p, d), UNCHANGED backups,
         NEW e \in Devices, e # d
  PROVE  DeviceInv(e)'
<1>0. BaseInv /\ DeviceInv(e) /\ up \subseteq Procs /\ Next
  BY DeviceFacts DEF Next, Step
<1>1. Apart(p, d, e) /\ up' = up
  BY <1>0, CommandApart
<1>2. /\ file' \in {file, Materialised} \/ (p \in up /\ file' = aliases'[p])
      /\ keyring' = keyring \/ (file # Missing /\ file' = file /\ aliases' = aliases /\ keyring' = file)
      /\ op[p][e].phase \in Saved => aliases' = aliases /\ file' = file
  BY CommandDisk
<1>3. /\ Names(aliases'[p], e) => Names(aliases[p], e)
      /\ accessory[e] # 0 /\ e \notin displaced' /\ Has(aliases[p], e, accessory[e])
           => Has(aliases'[p], e, accessory[e])
  BY CommandAliases
<1>4. Trusted(e)'
  <2>1. accessory'[e] # 0 => FitsNext(accessory'[e], e)
    BY <1>0, <1>1, TrustStays DEF Apart
  <2>2. told'[e] = "unpaired" => accessory'[e] = 0
    BY <1>0, <1>1 DEF Apart, DeviceInv, Trusted
  <2> QED
    BY <2>1, <2>2 DEF Trusted, Fits, FitsNext
<1>5. Safe(e)'
  <2> SUFFICES ASSUME accessory'[e] # 0, e \notin exposed' \cup displaced' \cup restored', ~Pending(e)'
               PROVE  Kept(e)'
    BY DEF Safe
  <2>1. ~Pending(e)
    BY <1>1, Alone DEF Apart
  <2>2. Kept(e) /\ accessory[e] # 0 /\ accessory'[e] = accessory[e] /\ e \notin displaced'
    BY <1>0, <1>1, <2>1 DEF Apart, DeviceInv, Safe
  <2>3. \A q \in up' : Has(aliases'[q], e, accessory'[e])
    BY <1>0, <1>1, <1>3, <2>2 DEF Kept, OneProcess
  <2>4. file' = Missing \/ Has(file', e, accessory'[e])
    BY <1>1, <1>2, <2>2, <2>3 DEF Kept, Materialised
  <2>5. keyring' # Missing /\ Has(keyring', e, accessory'[e])
    BY <1>2, <2>2 DEF Kept
  <2> QED
    BY <2>3, <2>4, <2>5 DEF Kept
<1>6. Forgotten(e)'
  <2> SUFFICES ASSUME told'[e] = "unpaired", e \notin exposed' \cup doubled' \cup restored'
               PROVE  /\ file' = Missing \/ ~Names(file', e)
                      /\ keyring' = Missing \/ ~Names(keyring', e)
                      /\ \A q \in up' : ~Names(aliases'[q], e)
    BY DEF Forgotten
  <2>1. /\ file = Missing \/ ~Names(file, e)
        /\ keyring = Missing \/ ~Names(keyring, e)
        /\ \A q \in up : ~Names(aliases[q], e)
    BY <1>0, <1>1 DEF Apart, DeviceInv, Forgotten
  <2>2. \A q \in up' : ~Names(aliases'[q], e)
    BY <1>0, <1>1, <1>3, <2>1 DEF OneProcess
  <2>3. ~Names(<<>>, e)
    BY DEF Names
  <2> QED
    BY <1>1, <1>2, <2>1, <2>2, <2>3 DEF Materialised
<1>7. Usable(p, e)'
  BY <1>0, <1>1 DEF Apart, DeviceInv, Usable, Answered
<1>8. Fair(p, e)'
  <2>1. op[p][e].phase \in Making => FitsNext(op[p][e].key, e)
    BY <1>0, FairStays DEF DeviceInv, Fair
  <2>2. op'[p][e] = op[p][e] /\ accessory'[e] = accessory[e] /\ told'[e] = told[e] /\ handles'[p][e] = handles[p][e]
    BY <1>1 DEF Apart
  <2>3. op[p][e].phase # "idle" => p \in up' /\ told'[e] = "nothing"
    BY <1>0, <1>1, <2>2 DEF DeviceInv, Fair
  <2>4. op[p][e].phase \in Dropping => accessory'[e] = 0 /\ (e \in doubled' \/ ~Names(aliases'[p], e))
    BY <1>0, <1>1, <1>3, <2>2 DEF DeviceInv, Fair, Apart
  <2>5. op[p][e].phase = "unpair_saved" =>
           e \in doubled' \cup restored' \/ file' = Missing \/ ~Names(file', e)
    BY <1>0, <1>1, <1>2 DEF DeviceInv, Fair, Apart, Saved
  <2>6. op[p][e].phase = "pair_saved" =>
          /\ Has(aliases'[p], e, op[p][e].key) /\ handles'[p][e] = op[p][e].key
          /\ e \in restored' \/ accessory'[e] = 0 \/ file' = Missing \/ Has(file', e, op[p][e].key)
    BY <1>0, <1>1, <1>2, <2>2 DEF DeviceInv, Fair, Apart, Saved
  <2>7. op[p][e].phase \in Making => accessory'[e] \in {0, op[p][e].key}
    BY <1>0, <2>2 DEF DeviceInv, Fair
  <2> QED
    BY <2>1, <2>2, <2>3, <2>4, <2>5, <2>6, <2>7 DEF Fair, Fits, FitsNext
<1> QED
  BY <1>4, <1>5, <1>6, <1>7, <1>8 DEF DeviceInv, OneProcess

-----------------------------------------------------------------------------
(* Each step of a command, and its device. *)

\* While a command runs its user has been told nothing, and little is claimed.
LEMMA Quiet ==
  ASSUME IInv, Next, NEW d \in Devices, told'[d] = "nothing",
         accessory'[d] = 0 \/ accessory'[d] = accessory[d] \/ FitsNext(accessory'[d], d)
  PROVE  Trusted(d)' /\ Forgotten(d)' /\ \A p \in Procs : Usable(p, d)'
<1>1. accessory'[d] # 0 => FitsNext(accessory'[d], d)
  BY TrustStays
<1> QED
  BY <1>1 DEF Trusted, Fits, FitsNext, Forgotten, Usable, Answered

LEMMA PairBeginSound ==
  ASSUME IInv, OneProcess, NEW p \in Procs, NEW d \in Devices, PairBegin(p, d), UNCHANGED backups
  PROVE  DeviceInv(d)'
<1>0. BaseInv /\ DeviceInv(d) /\ Next
  BY DeviceFacts DEF Next, Step, Command
<1>1. PICK a \in Aliases : OpIs(p, d, [phase |-> "asking", alias |-> a, key |-> 0])
  BY <1>0, OpPairBegin
<1>2. op'[p][d].phase = "asking"
  BY <1>1 DEF OpIs
<1>3. told' = [told EXCEPT ![d] = "nothing"]
  BY <1>0, OpPairBegin
<1>4. told'[d] = "nothing" /\ accessory'[d] = accessory[d] /\ accessory'[d] = 0 /\ p \in up'
  BY <1>0, <1>3 DEF PairBegin, Discovered, Runs, memory, BaseInv, TypeOK
<1>5. Trusted(d)' /\ Forgotten(d)' /\ \A q \in Procs : Usable(q, d)'
  BY <1>0, <1>4, Quiet
<1>6. Fair(p, d)'
  BY <1>2, <1>4 DEF Fair, Making, Dropping
<1> QED
  BY <1>4, <1>5, <1>6 DEF DeviceInv, Safe, OneProcess

LEMMA AccessoryPairsSound ==
  ASSUME IInv, OneProcess, NEW p \in Procs, NEW d \in Devices, AccessoryPairs(p, d), UNCHANGED backups
  PROVE  DeviceInv(d)'
<1>0. BaseInv /\ DeviceInv(d) /\ Next
  BY DeviceFacts DEF Next, Step, Command
<1>1. /\ OpIs(p, d, [phase |-> "paired", alias |-> op[p][d].alias, key |-> keys + 1])
      /\ keys + 1 # 0 /\ keys' = keys + 1
  BY <1>0, OpAccessoryPairs
<1>2. op'[p][d].phase = "paired" /\ op'[p][d].key = keys + 1
  BY <1>1 DEF OpIs
<1>3. accessory' = [accessory EXCEPT ![d] = keys + 1] /\ told' = told /\ up' = up
  BY <1>1 DEF AccessoryPairs, memory, ghosts
<1>4. accessory'[d] = keys + 1 /\ \A e \in Devices : e # d => accessory'[e] = accessory[e]
  BY <1>0, <1>3 DEF BaseInv, TypeOK
<1>5. told'[d] = "nothing" /\ p \in up'
  BY <1>0, <1>3 DEF DeviceInv, Fair, AccessoryPairs
<1>6. FitsNext(keys + 1, d)
  <2>1. keys \in Nat
    BY <1>0, KeysStep
  <2>2. \A e \in Devices : accessory[e] # keys + 1
    <3>1. \A e \in Devices : accessory[e] \in Nat /\ (accessory[e] # 0 => accessory[e] <= keys)
      BY <1>0, KeysStep, DeviceFacts DEF DeviceInv, Trusted, Fits
    <3> QED
      BY <2>1, <3>1
  <2> QED
    BY <1>1, <1>4, <2>1, <2>2 DEF FitsNext
<1>7. Trusted(d)' /\ Forgotten(d)' /\ \A q \in Procs : Usable(q, d)'
  BY <1>0, <1>4, <1>5, <1>6, Quiet
<1>8. Fair(p, d)'
  BY <1>2, <1>4, <1>5, <1>6 DEF Fair, Fits, FitsNext, Making, Dropping
<1>9. Safe(d)'
  BY <1>2, <1>4 DEF Safe, Pending, Making
<1> QED
  BY <1>7, <1>8, <1>9 DEF DeviceInv, OneProcess

LEMMA PairFailsSound ==
  ASSUME IInv, OneProcess, NEW p \in Procs, NEW d \in Devices, PairFails(p, d), UNCHANGED backups
  PROVE  DeviceInv(d)'
<1>0. BaseInv /\ DeviceInv(d) /\ Next
  BY DeviceFacts DEF Next, Step, Command
<1>1. OpIs(p, d, Idle)
  BY <1>0, OpEnds
<1>2. op'[p][d].phase = "idle"
  BY <1>1 DEF OpIs, Idle
<1>3. /\ told'[d] = "nothing" /\ accessory' = accessory
      /\ UNCHANGED <<disk, memory, odds>>
      /\ exposed' = exposed \/ d \in exposed'
      /\ op[p][d].phase = "asking" \/ d \in exposed'
  BY <1>0 DEF PairFails, DeviceInv, Fair
<1>4. Trusted(d)' /\ Forgotten(d)' /\ \A q \in Procs : Usable(q, d)'
  BY <1>0, <1>3, Quiet
<1>5. Fair(p, d)'
  BY <1>2 DEF Fair, Making, Dropping
<1>6. Safe(d)'
  <2> SUFFICES ASSUME accessory'[d] # 0, d \notin exposed' \cup displaced' \cup restored' PROVE Kept(d)'
    BY DEF Safe
  <2>1. op[p][d].phase = "asking"
    BY <1>3
  <2>2. ~Pending(d)
    BY <2>1, Alone DEF Making
  <2>3. Kept(d)
    BY <1>0, <1>3, <2>2 DEF DeviceInv, Safe, odds
  <2> QED
    BY <1>3, <2>3 DEF Kept, disk, memory
<1> QED
  BY <1>4, <1>5, <1>6 DEF DeviceInv, OneProcess

LEMMA PairRecordsSound ==
  ASSUME IInv, OneProcess, NEW p \in Procs, NEW d \in Devices, PairRecords(p, d), UNCHANGED backups
  PROVE  DeviceInv(d)'
<1>0. BaseInv /\ DeviceInv(d) /\ Next
  BY DeviceFacts DEF Next, Step, Command
<1>1. OpIs(p, d, [op[p][d] EXCEPT !.phase = "pair_saved"])
  BY <1>0, OpPairRecords
<1>2. op'[p][d] = [phase |-> "pair_saved", alias |-> op[p][d].alias, key |-> op[p][d].key]
  BY ZenonT(60), <1>0, <1>1, OpStands DEF OpIs, Phases
<1>3. op'[p][d].phase = "pair_saved" /\ op'[p][d].key = op[p][d].key
  BY <1>2
<1>4. told'[d] = "nothing" /\ accessory' = accessory /\ p \in up' /\ op[p][d].phase = "paired"
  BY <1>0 DEF PairRecords, DeviceInv, Fair
<1>5. Trusted(d)' /\ Forgotten(d)' /\ \A q \in Procs : Usable(q, d)'
  BY <1>0, <1>4, Quiet
<1>6. Fits(op[p][d].key, d) /\ accessory[d] \in {0, op[p][d].key}
  BY <1>0, <1>4 DEF DeviceInv, Fair, Making
<1>7. Has(aliases'[p], d, op[p][d].key) /\ file' = aliases'[p] /\ handles'[p][d] = op[p][d].key
  <2>1. PICK n : n = [alias |-> op[p][d].alias, device |-> d, key |-> op[p][d].key]
    OBVIOUS
  <2>2. n \in Entry /\ aliases' = [aliases EXCEPT ![p] = Put(aliases[p], n)]
    BY <1>0, <2>1, DocsPut
  <2>3. aliases'[p] = Put(aliases[p], n)
    BY <1>0, <2>2 DEF BaseInv, TypeOK
  <2>4. n \in Range(aliases'[p])
    BY <1>0, <2>2, <2>3, HeldDocs, PutFacts
  <2>5. Has(aliases'[p], d, op[p][d].key)
    BY <2>1, <2>4 DEF Has, Range
  <2> QED
    BY <1>0, <2>5 DEF PairRecords, BaseInv, TypeOK
<1>8. Fair(p, d)'
  <2>1. FitsNext(op[p][d].key, d)
    BY <1>0, <1>4, <1>6, FairStays DEF Making
  <2> QED
    BY <1>3, <1>4, <1>6, <1>7, <2>1 DEF Fair, Fits, FitsNext, Dropping
<1>9. Safe(d)'
  BY <1>3, <1>4, <1>6 DEF Safe, Pending, Making
<1> QED
  BY <1>5, <1>8, <1>9 DEF DeviceInv, OneProcess

LEMMA UnpairBeginSound ==
  ASSUME IInv, OneProcess, NEW p \in Procs, NEW d \in Devices, UnpairBegin(p, d), UNCHANGED backups
  PROVE  DeviceInv(d)'
<1>0. BaseInv /\ DeviceInv(d) /\ Next
  BY DeviceFacts DEF Next, Step, Command
<1>1. /\ file' = Materialised /\ accessory' = accessory /\ keyring' = keyring
      /\ UNCHANGED <<memory, exposed, odds>> /\ p \in up /\ op[p][d].phase = "idle"
  BY DEF UnpairBegin, Runs, Idle
<1>2. Safe(d)'
  <2> SUFFICES ASSUME accessory'[d] # 0, d \notin exposed' \cup displaced' \cup restored' PROVE Kept(d)'
    BY DEF Safe
  <2>1. ~Pending(d)
    BY <1>1, Alone DEF Making
  <2>2. Kept(d)
    BY <1>0, <1>1, <2>1 DEF DeviceInv, Safe, odds
  <2> QED
    BY <1>1, <2>2 DEF Kept, Materialised, memory
<1>3. CASE told' = [told EXCEPT ![d] = "nothing"] /\ op'[p][d].phase = "removing"
  <2>1. told'[d] = "nothing" /\ p \in up'
    BY <1>0, <1>1, <1>3 DEF BaseInv, TypeOK, memory
  <2>2. Trusted(d)' /\ Forgotten(d)' /\ \A q \in Procs : Usable(q, d)'
    BY <1>0, <1>1, <2>1, Quiet
  <2>3. Fair(p, d)'
    BY <1>3, <2>1 DEF Fair, Making, Dropping
  <2> QED
    BY <1>2, <2>2, <2>3 DEF DeviceInv, OneProcess
<1>4. CASE op' = op /\ told' = told
  <2>1. Fair(p, d)'
    BY <1>1, <1>4 DEF Fair, Making, Dropping
  <2>2. Usable(p, d)'
    BY <1>0, <1>1, <1>4 DEF DeviceInv, Usable, Answered, memory, odds
  <2>3. Trusted(d)'
    <3>1. accessory'[d] # 0 => FitsNext(accessory'[d], d)
      BY <1>0, <1>1, TrustStays
    <3> QED
      BY <1>0, <1>1, <1>4, <3>1 DEF Trusted, Fits, FitsNext, DeviceInv
  <2>4. Forgotten(d)'
    <3>1. ~Names(<<>>, d)
      BY DEF Names
    <3> QED
      BY <1>0, <1>1, <1>4, <3>1 DEF DeviceInv, Forgotten, Materialised, memory, odds
  <2> QED
    BY <1>2, <2>1, <2>2, <2>3, <2>4 DEF DeviceInv, OneProcess
<1>5. \/ op' = op /\ told' = told
      \/ told' = [told EXCEPT ![d] = "nothing"] /\ op'[p][d].phase = "removing"
  <2>1. ASSUME NEW a, OpIs(p, d, [phase |-> "removing", alias |-> a, key |-> 0])
        PROVE  op'[p][d].phase = "removing"
    BY <2>1 DEF OpIs
  <2> QED
    BY <1>0, <2>1, OpUnpairBegin
<1> QED
  BY <1>3, <1>4, <1>5

LEMMA RemovedSound ==
  ASSUME IInv, OneProcess, NEW p \in Procs, NEW d \in Devices, Removed(p, d), UNCHANGED backups
  PROVE  DeviceInv(d)'
<1>0. BaseInv /\ DeviceInv(d) /\ Next /\ DocsGood
  BY DeviceFacts DEF Next, Step, Command, IInv, KeyInv
<1>1. op'[p][d].phase = "removed"
  <2>1. OpIs(p, d, [op[p][d] EXCEPT !.phase = "removed"])
    BY <1>0, OpRemoved
  <2>2. op'[p][d] = [phase |-> "removed", alias |-> op[p][d].alias, key |-> op[p][d].key]
    BY ZenonT(60), <1>0, <2>1, OpStands DEF OpIs, Phases
  <2> QED
    BY <2>2
<1>2. told'[d] = "nothing" /\ accessory'[d] = 0 /\ p \in up'
  BY <1>0 DEF Removed, DeviceInv, Fair, BaseInv, TypeOK, ghosts
<1>3. Trusted(d)' /\ Forgotten(d)' /\ \A q \in Procs : Usable(q, d)'
  BY <1>0, <1>2, Quiet
<1>4. aliases[p] \in Doc /\ Once(aliases[p]) /\ aliases[p] \in Docs
  BY <1>0, HeldDocs
<1>5. d \in doubled' \/ ~Names(aliases'[p], d)
  <2> SUFFICES ASSUME d \notin doubled' PROVE ~Names(aliases'[p], d)
    OBVIOUS
  <2>1. aliases'[p] = Without(aliases[p], op[p][d].alias)
    BY <1>0, DocsWithout DEF BaseInv, TypeOK
  <2>2. Range(aliases'[p]) = {f \in Range(aliases[p]) : f.alias # op[p][d].alias}
    BY <1>4, <2>1, WithoutFacts
  <2>3. PICK i \in DOMAIN aliases[p] : aliases[p][i].alias = op[p][d].alias /\ aliases[p][i].key = accessory[d]
    BY DEF Removed, Accepts
  <2>4. aliases[p][i] \in Range(aliases[p])
    BY DEF Range
  <2>5. aliases[p][i].device = d
    <3>1. Fits(accessory[d], aliases[p][i].device)
      BY <1>0, <1>4, <2>3, <2>4 DEF DocsGood, Good
    <3> QED
      BY <3>1 DEF Fits
  <2>6. Single(aliases[p], d)
    BY <1>0, <1>4 DEF DocsGood, Good, Removed, ghosts, odds
  <2>7. \A f \in Range(aliases[p]) : f.device = d => f.alias = op[p][d].alias
    BY <2>3, <2>4, <2>5, <2>6 DEF Single
  <2> QED
    BY <2>2, <2>7, ByEntries
<1>6. Fair(p, d)'
  BY <1>1, <1>2, <1>5 DEF Fair, Making
<1>7. Safe(d)'
  BY <1>2 DEF Safe
<1> QED
  BY <1>3, <1>6, <1>7 DEF DeviceInv, OneProcess

LEMMA RemoveFailsSound ==
  ASSUME IInv, OneProcess, NEW p \in Procs, NEW d \in Devices, RemoveFails(p, d), UNCHANGED backups
  PROVE  DeviceInv(d)'
<1>0. BaseInv /\ DeviceInv(d) /\ Next
  BY DeviceFacts DEF Next, Step, Command
<1>1. op'[p][d].phase = "kept"
  <2>1. OpIs(p, d, [op[p][d] EXCEPT !.phase = "kept"])
    BY <1>0, OpRemoveFails
  <2>2. op'[p][d] = [phase |-> "kept", alias |-> op[p][d].alias, key |-> op[p][d].key]
    BY ZenonT(60), <1>0, <2>1, OpStands DEF OpIs, Phases
  <2> QED
    BY <2>2
<1>2. /\ told'[d] = "nothing" /\ p \in up' /\ op[p][d].phase = "removing"
      /\ UNCHANGED <<disk, memory, ghosts>>
  BY <1>0 DEF RemoveFails, DeviceInv, Fair, memory, ghosts
<1>3. accessory'[d] \in {0, accessory[d]}
  BY <1>0 DEF RemoveFails, BaseInv, TypeOK
<1>4. Trusted(d)' /\ Forgotten(d)' /\ \A q \in Procs : Usable(q, d)'
  BY <1>0, <1>2, <1>3, Quiet
<1>5. Fair(p, d)'
  BY <1>1, <1>2 DEF Fair, Making, Dropping
<1>6. Safe(d)'
  <2> SUFFICES ASSUME accessory'[d] # 0, d \notin exposed' \cup displaced' \cup restored' PROVE Kept(d)'
    BY DEF Safe
  <2>1. ~Pending(d)
    BY <1>2, Alone DEF Making
  <2>2. Kept(d) /\ accessory'[d] = accessory[d]
    BY <1>0, <1>2, <1>3, <2>1 DEF DeviceInv, Safe, ghosts, odds
  <2> QED
    BY <1>2, <2>2 DEF Kept, disk, memory
<1> QED
  BY <1>4, <1>5, <1>6 DEF DeviceInv, OneProcess

LEMMA UnpairRecordsSound ==
  ASSUME IInv, OneProcess, NEW p \in Procs, NEW d \in Devices, UnpairRecords(p, d), UNCHANGED backups
  PROVE  DeviceInv(d)'
<1>0. BaseInv /\ DeviceInv(d) /\ Next
  BY DeviceFacts DEF Next, Step, Command
<1>1. \/ op[p][d].phase = "removed" /\ op'[p][d].phase = "unpair_saved"
      \/ op[p][d].phase = "kept" /\ op'[p][d].phase = "kept_saved"
  <2>1. \A ph \in Phases : op'[p][d] = [op[p][d] EXCEPT !.phase = ph] => op'[p][d].phase = ph
    <3> SUFFICES ASSUME NEW ph \in Phases, op'[p][d] = [op[p][d] EXCEPT !.phase = ph] PROVE op'[p][d].phase = ph
      OBVIOUS
    <3>1. op'[p][d] = [phase |-> ph, alias |-> op[p][d].alias, key |-> op[p][d].key]
      BY <1>0, OpStands
    <3> QED
      BY <3>1
  <2> QED
    BY <1>0, <2>1, OpUnpairRecords DEF OpIs, Phases
<1>2. /\ told'[d] = "nothing" /\ p \in up' /\ p \in up /\ accessory' = accessory
      /\ file' = aliases[p] /\ aliases' = aliases /\ UNCHANGED <<keyring, up, exposed, displaced, doubled>>
      /\ restored' = restored \/ op[p][d].phase = "removed"
  BY <1>0, <1>1 DEF UnpairRecords, Runs, DeviceInv, Fair
<1>3. Trusted(d)' /\ Forgotten(d)' /\ \A q \in Procs : Usable(q, d)'
  BY <1>0, <1>2, Quiet
<1>4. op[p][d].phase = "removed" => accessory[d] = 0 /\ (d \in doubled \/ ~Names(aliases[p], d))
  BY <1>0 DEF DeviceInv, Fair, Dropping
<1>5. Fair(p, d)'
  BY <1>1, <1>2, <1>4 DEF Fair, Making, Dropping
<1>6. Safe(d)'
  <2> SUFFICES ASSUME accessory'[d] # 0, d \notin exposed' \cup displaced' \cup restored' PROVE Kept(d)'
    BY DEF Safe
  <2>1. op[p][d].phase = "kept"
    BY <1>1, <1>2, <1>4
  <2>2. ~Pending(d)
    BY <2>1, Alone DEF Making
  <2>3. Kept(d)
    BY <1>0, <1>2, <2>1, <2>2 DEF DeviceInv, Safe
  <2> QED
    BY <1>2, <2>3 DEF Kept
<1> QED
  BY <1>3, <1>5, <1>6 DEF DeviceInv, OneProcess

LEMMA ReturnsSound ==
  ASSUME IInv, OneProcess, NEW p \in Procs, NEW d \in Devices, Returns(p, d), UNCHANGED backups
  PROVE  DeviceInv(d)'
<1>0. BaseInv /\ DeviceInv(d) /\ Next
  BY DeviceFacts DEF Next, Step, Command
<1>1. op'[p][d].phase = "idle"
  BY <1>0, OpEnds DEF OpIs, Idle
<1>2. /\ accessory' = accessory /\ UNCHANGED <<file, memory, odds>>
      /\ told'[d] = IF op[p][d].phase = "pair_saved" THEN "paired"
                    ELSE IF op[p][d].phase = "unpair_saved" THEN "unpaired" ELSE "kept"
      /\ op[p][d].phase \in Saved /\ p \in up
  BY <1>0 DEF Returns, Answer, DeviceInv, Fair, BaseInv, TypeOK, Saved
<1>3. Fair(p, d)'
  BY <1>1 DEF Fair, Making, Dropping
<1>4. \/ d \in exposed'
      \/ /\ file # Missing /\ keyring' = file
         /\ d \in exposed' <=> (d \in exposed /\ op[p][d].phase = "kept_saved")
  BY DEF Returns, Mirrors, MirrorFails
<1>5. op[p][d].phase = "unpair_saved" =>
         /\ d \in doubled \cup restored \/ file = Missing \/ ~Names(file, d)
         /\ d \in doubled \/ ~Names(aliases[p], d)
  BY <1>0 DEF DeviceInv, Fair, Dropping
<1>6. op[p][d].phase = "unpair_saved" => accessory[d] = 0
  BY <1>0 DEF DeviceInv, Fair, Dropping
<1>7. op[p][d].phase = "pair_saved" =>
         /\ Has(aliases[p], d, op[p][d].key) /\ handles[p][d] = op[p][d].key
         /\ accessory[d] \in {0, op[p][d].key}
         /\ d \in restored \/ accessory[d] = 0 \/ file = Missing \/ Has(file, d, op[p][d].key)
  BY <1>0 DEF DeviceInv, Fair, Making
<1>8. Trusted(d)'
  <2>1. accessory'[d] # 0 => FitsNext(accessory'[d], d)
    BY <1>0, <1>2, TrustStays
  <2> QED
    BY <1>2, <1>6, <2>1 DEF Trusted, Fits, FitsNext
<1>9. Usable(p, d)'
  BY <1>2, <1>7 DEF Usable, Answered, memory
<1>10. Forgotten(d)'
  <2> SUFFICES ASSUME told'[d] = "unpaired", d \notin exposed' \cup doubled' \cup restored'
               PROVE  /\ file' = Missing \/ ~Names(file', d)
                      /\ keyring' = Missing \/ ~Names(keyring', d)
                      /\ \A q \in up' : ~Names(aliases'[q], d)
    BY DEF Forgotten
  <2>1. op[p][d].phase = "unpair_saved"
    BY <1>2
  <2> QED
    BY <1>0, <1>2, <1>4, <1>5, <2>1 DEF memory, odds, OneProcess, BaseInv, TypeOK
<1>11. Safe(d)'
  <2> SUFFICES ASSUME accessory'[d] # 0, d \notin exposed' \cup displaced' \cup restored' PROVE Kept(d)'
    BY DEF Safe
  <2>1. file # Missing /\ keyring' = file /\ up \subseteq Procs
    BY <1>0, <1>4 DEF BaseInv, TypeOK
  <2>2. CASE op[p][d].phase = "pair_saved"
    <3>1. Has(aliases[p], d, accessory[d]) /\ Has(file, d, accessory[d])
      BY <1>2, <1>7, <2>1, <2>2 DEF odds
    <3>2. \A q \in up' : Has(aliases'[q], d, accessory'[d])
      BY <1>2, <2>1, <3>1 DEF memory, OneProcess
    <3> QED
      BY <1>2, <2>1, <3>1, <3>2 DEF Kept
  <2>3. CASE op[p][d].phase = "kept_saved"
    <3>1. ~Pending(d) /\ d \notin exposed
      BY <1>4, <2>3, Alone DEF Making
    <3>2. Kept(d)
      BY <1>0, <1>2, <3>1 DEF DeviceInv, Safe, odds
    <3> QED
      BY <1>2, <2>1, <3>2 DEF Kept, memory
  <2> QED
    BY <1>2, <1>6, <2>2, <2>3 DEF Saved
<1> QED
  BY <1>3, <1>8, <1>9, <1>10, <1>11 DEF DeviceInv, OneProcess

LEMMA CommandSound ==
  ASSUME IInv, OneProcess, NEW p \in Procs, NEW d \in Devices, Command(p, d), UNCHANGED backups
  PROVE  \A e \in Devices : DeviceInv(e)'
<1>1. DeviceInv(d)'
  BY PairBeginSound, AccessoryPairsSound, PairFailsSound, PairRecordsSound, UnpairBeginSound, RemovedSound,
     RemoveFailsSound, UnpairRecordsSound, ReturnsSound DEF Command
<1>2. \A e \in Devices : e # d => DeviceInv(e)'
  BY OthersSound
<1> QED
  BY <1>1, <1>2

-----------------------------------------------------------------------------
(* The process, and the world. *)

LEMMA StartSound ==
  ASSUME IInv, OneProcess, NEW p \in Procs, Start(p), UNCHANGED backups, NEW d \in Devices
  PROVE  DeviceInv(d)'
<1>0. BaseInv /\ DeviceInv(d) /\ DocsGood /\ up \subseteq Procs /\ Next
  BY DeviceFacts DEF Next, Step, IInv, KeyInv
<1>1. /\ file' = Materialised /\ aliases'[p] = Materialised /\ handles'[p] = Handles(Materialised)
      /\ UNCHANGED <<accessory, keyring, op, ghosts>> /\ up' = up \cup {p} /\ p \notin up
  BY <1>0 DEF Start, Load, BaseInv, TypeOK
<1>2. op[p][d].phase = "idle"
  BY <1>0, <1>1 DEF DeviceInv, Fair
<1>3. Fair(p, d)'
  BY <1>1, <1>2 DEF Fair, Making, Dropping
<1>4. Trusted(d)'
  <2>1. accessory'[d] # 0 => FitsNext(accessory'[d], d)
    BY <1>0, <1>1, TrustStays
  <2> QED
    BY <1>0, <1>1, <2>1 DEF Trusted, Fits, FitsNext, DeviceInv, ghosts
<1>5. accessory[d] # 0 /\ d \notin exposed \cup displaced \cup restored =>
        keyring # Missing /\ Has(keyring, d, accessory[d]) /\ Has(Materialised, d, accessory[d])
  <2>1. ~Pending(d)
    BY <1>2, Alone DEF Making
  <2> QED
    BY <1>0, <2>1 DEF DeviceInv, Safe, Kept, Materialised
<1>6. Safe(d)'
  BY <1>0, <1>1, <1>5 DEF Safe, Kept, ghosts, odds, OneProcess
<1>7. Usable(p, d)'
  <2> SUFFICES ASSUME Answered(d), d \notin doubled PROVE handles'[p][d] = accessory'[d]
    BY <1>1 DEF Usable, Answered, ghosts, odds
  <2>1. Has(Materialised, d, accessory[d])
    BY <1>5 DEF Answered
  <2>2. Materialised \in Doc /\ Once(Materialised) /\ Materialised \in Docs \cup {<<>>}
    BY <1>0, MaterialisedType
  <2>3. Single(Materialised, d)
    <3>1. Single(<<>>, d)
      BY DEF Single, Range
    <3> QED
      BY <1>0, <2>2, <3>1 DEF DocsGood, Good
  <2> QED
    BY <1>1, <2>1, <2>2, <2>3, HandlesFacts
<1>8. Forgotten(d)'
  <2>1. ~Names(<<>>, d)
    BY DEF Names
  <2> QED
    BY <1>0, <1>1, <2>1 DEF DeviceInv, Forgotten, Materialised, ghosts, odds, OneProcess
<1> QED
  BY <1>3, <1>4, <1>6, <1>7, <1>8 DEF DeviceInv, OneProcess

LEMMA EndsSound ==
  ASSUME IInv, OneProcess, NEW p \in Procs, Stop(p) \/ Kill(p), UNCHANGED backups, NEW d \in Devices
  PROVE  DeviceInv(d)'
<1>0. BaseInv /\ DeviceInv(d) /\ up \subseteq Procs /\ Next
  BY DeviceFacts DEF Next, Step
<1>1. /\ Ends(p) /\ UNCHANGED <<accessory, disk, told, odds>> /\ exposed \subseteq exposed'
      /\ op[p][d] # Idle => d \in exposed'
  BY DEF Stop, Kill, Ends, ghosts
<1>2. op'[p][d].phase = "idle"
  BY <1>0, <1>1, OpProcessEnds DEF Idle
<1>3. \A q \in up' : FALSE
  BY <1>0, <1>1 DEF Ends, OneProcess
<1>4. Fair(p, d)' /\ Usable(p, d)'
  BY <1>2, <1>3 DEF Fair, Usable, Making, Dropping
<1>5. Trusted(d)'
  <2>1. accessory'[d] # 0 => FitsNext(accessory'[d], d)
    BY <1>0, <1>1, TrustStays
  <2> QED
    BY <1>0, <1>1, <2>1 DEF Trusted, Fits, FitsNext, DeviceInv
<1>6. Safe(d)'
  <2> SUFFICES ASSUME accessory'[d] # 0, d \notin exposed' \cup displaced' \cup restored' PROVE Kept(d)'
    BY DEF Safe
  <2>1. ~Pending(d) /\ d \notin exposed
    BY <1>1, Alone DEF Making, Idle
  <2>2. Kept(d)
    BY <1>0, <1>1, <2>1 DEF DeviceInv, Safe, odds
  <2> QED
    BY <1>1, <1>3, <2>2 DEF Kept, disk
<1>7. Forgotten(d)'
  BY <1>0, <1>1, <1>3 DEF DeviceInv, Forgotten, disk, odds
<1> QED
  BY <1>4, <1>5, <1>6, <1>7 DEF DeviceInv, OneProcess

\* No process is named in what the world does: it may be that of any.
LEMMA WorldApart ==
  ASSUME IInv, Next, NEW d \in Devices, op' = op, handles' = handles, aliases' = aliases, keyring' = keyring,
         UNCHANGED <<up, exposed, displaced, doubled>>, restored \subseteq restored',
         \/ accessory'[d] = accessory[d] /\ told'[d] = told[d]
         \/ accessory'[d] = 0 /\ told'[d] = "nothing" /\ restored' = restored,
         \/ file' \in {file, Missing}
         \/ file' # Missing /\ d \in restored'
         \/ accessory'[d] # 0 /\ Has(file', d, accessory'[d])
         \/ accessory'[d] = 0 /\ ~Names(file', d)
  PROVE  DeviceInv(d)'
<1>0. BaseInv /\ DeviceInv(d)
  BY DeviceFacts
<1>1. accessory'[d] \in {0, accessory[d]}
  OBVIOUS
<1>2. Trusted(d)'
  <2>1. accessory'[d] # 0 => FitsNext(accessory'[d], d)
    BY <1>1, TrustStays
  <2> QED
    BY <1>0, <2>1 DEF Trusted, Fits, FitsNext, DeviceInv
<1>3. Safe(d)'
  <2> SUFFICES ASSUME accessory'[d] # 0, d \notin exposed' \cup displaced' \cup restored', ~Pending(d)'
               PROVE  Kept(d)'
    BY DEF Safe
  <2>1. accessory'[d] = accessory[d]
    BY <1>1
  <2>2. ~Pending(d)
    BY <2>1 DEF Pending
  <2>3. Kept(d)
    BY <1>0, <2>1, <2>2 DEF DeviceInv, Safe
  <2> QED
    BY <2>1, <2>3 DEF Kept
<1>4. Forgotten(d)'
  <2> SUFFICES ASSUME told'[d] = "unpaired", d \notin exposed' \cup doubled' \cup restored'
               PROVE  file' = Missing \/ ~Names(file', d)
    BY <1>0 DEF DeviceInv, Forgotten
  <2>1. accessory'[d] = 0 /\ (file = Missing \/ ~Names(file, d))
    BY <1>0 DEF DeviceInv, Forgotten, Trusted
  <2> QED
    BY <2>1
<1>5. ASSUME NEW p \in Procs PROVE Fair(p, d)' /\ Usable(p, d)'
  <2>1. Usable(p, d)'
    BY <1>0 DEF DeviceInv, Usable, Answered
  <2>2. op[p][d].phase \in Making => FitsNext(op[p][d].key, d)
    BY <1>0, FairStays DEF DeviceInv, Fair
  <2>3. op[p][d].phase # "idle" => p \in up' /\ told'[d] = "nothing"
    BY <1>0 DEF DeviceInv, Fair
  <2>4. op[p][d].phase \in Dropping => accessory'[d] = 0 /\ (d \in doubled' \/ ~Names(aliases'[p], d))
    BY <1>0, <1>1 DEF DeviceInv, Fair
  <2>5. op[p][d].phase = "unpair_saved" =>
           d \in doubled' \cup restored' \/ file' = Missing \/ ~Names(file', d)
    BY <1>0, <2>4 DEF DeviceInv, Fair, Dropping
  <2>6. op[p][d].phase \in Making => accessory'[d] \in {0, op[p][d].key}
    BY <1>0, <1>1 DEF DeviceInv, Fair
  <2>7. op[p][d].phase = "pair_saved" =>
          /\ Has(aliases'[p], d, op[p][d].key) /\ handles'[p][d] = op[p][d].key
          /\ d \in restored' \/ accessory'[d] = 0 \/ file' = Missing \/ Has(file', d, op[p][d].key)
    BY <1>0, <1>1, <2>6 DEF DeviceInv, Fair, Making
  <2> QED
    BY <2>1, <2>2, <2>3, <2>4, <2>5, <2>6, <2>7 DEF Fair, Fits, FitsNext
<1> QED
  BY <1>2, <1>3, <1>4, <1>5 DEF DeviceInv

LEMMA WorldSound ==
  ASSUME IInv, Next, (\E e \in Devices : Reset(e)) \/ LoseFile \/ Export \/ Import, NEW d \in Devices
  PROVE  DeviceInv(d)'
<1>0. BaseInv /\ DeviceInv(d)
  BY DeviceFacts
<1>1. ASSUME NEW e \in Devices, Reset(e) PROVE DeviceInv(d)'
  <2>1. /\ op' = op /\ handles' = handles /\ aliases' = aliases /\ keyring' = keyring /\ file' = file
        /\ UNCHANGED <<up, exposed, displaced, doubled, restored>>
    BY <1>1 DEF Reset, memory, disk, odds
  <2>2. \/ accessory'[d] = accessory[d] /\ told'[d] = told[d]
        \/ accessory'[d] = 0 /\ told'[d] = "nothing"
    BY <1>0, <1>1 DEF Reset, BaseInv, TypeOK
  <2> QED
    BY <2>1, <2>2, WorldApart
<1>2. CASE LoseFile \/ Export
  <2>1. /\ op' = op /\ handles' = handles /\ aliases' = aliases /\ keyring' = keyring
        /\ file' \in {file, Missing} /\ accessory' = accessory /\ told' = told
        /\ UNCHANGED <<up, exposed, displaced, doubled, restored>>
    BY <1>2 DEF LoseFile, Export, memory, disk, ghosts, odds
  <2> QED
    BY <2>1, WorldApart
<1>3. CASE Import
  <2>1. /\ op' = op /\ handles' = handles /\ aliases' = aliases /\ keyring' = keyring
        /\ file' = backup /\ backup # Missing /\ accessory' = accessory /\ told' = told
        /\ UNCHANGED <<up, exposed, displaced, doubled>>
    BY <1>3 DEF Import, memory
  <2>2. /\ restored \subseteq restored'
        /\ d \in restored' \/ Has(backup, d, accessory[d]) \/ (accessory[d] = 0 /\ ~Names(backup, d))
    BY <1>3 DEF Import
  <2>3. ~Has(backup, d, 0)
    <3>1. backup \in Doc
      BY <1>0, <2>1 DEF BaseInv, TypeOK
    <3>2. \A i \in DOMAIN backup : backup[i] \in Entry
      BY <3>1, DocFacts
    <3> QED
      BY <3>2 DEF Has, Entry
  <2>4. \/ d \in restored'
        \/ accessory'[d] # 0 /\ Has(file', d, accessory'[d])
        \/ accessory'[d] = 0 /\ ~Names(file', d)
    BY <2>1, <2>2, <2>3
  <2> QED
    BY <2>1, <2>2, <2>4, WorldApart
<1> QED
  BY <1>1, <1>2, <1>3

-----------------------------------------------------------------------------
(* The theorems. *)

LEMMA BaseInit ==
  ASSUME Init
  PROVE  BaseInv
<1>1. Docs \subseteq {<<>>} /\ <<>> \in Doc /\ Once(<<>>)
  BY DEF Init, Docs, Doc, Once
<1>2. TypeOK
  BY <1>1, Known DEF Init, TypeOK, Command0, Idle
<1>3. OpTyped
  BY DEF Init, OpTyped, Typed, Idle, Making
<1> QED
  BY <1>1, <1>2, <1>3 DEF BaseInv, DocsOnce

LEMMA BaseStep ==
  ASSUME BaseInv, [Next]_vars
  PROVE  BaseInv'
<1>1. CASE Next
  BY <1>1, BaseNext
<1>2. CASE UNCHANGED vars
  <2>1. /\ UNCHANGED <<accessory, file, keyring, up, aliases, handles, op, keys, faults>>
        /\ UNCHANGED <<told, exposed, displaced, doubled, restored, backup, imports>>
    BY <1>2 DEF vars, disk, memory, ghosts, odds, backups
  <2>2. TypeOK'
    BY <2>1 DEF BaseInv, TypeOK
  <2>3. OpTyped'
    BY <2>1 DEF BaseInv, OpTyped, Typed
  <2>4. DocsOnce'
    BY <2>1 DEF BaseInv, DocsOnce, Docs
  <2> QED
    BY <2>2, <2>3, <2>4 DEF BaseInv
<1> QED
  BY <1>1, <1>2

\* pairings.json, its copies and every command are well-formed in every reachable state,
\* for any number of processes.
THEOREM TypeCorrect == Spec => []TypeOK
<1>1. Init => BaseInv
  BY BaseInit
<1>2. BaseInv /\ [Next]_vars => BaseInv'
  BY BaseStep
<1>3. BaseInv => TypeOK
  BY DEF BaseInv
<1> QED
  BY <1>1, <1>2, <1>3, PTL DEF Spec

LEMMA KeysStay ==
  ASSUME IInv, OneProcess, [Next]_vars
  PROVE  IInv'
<1>0. BaseInv /\ KeyInv
  BY DEF IInv
<1>1. BaseInv'
  BY <1>0, BaseStep
<1>2. CASE Next
  <2>1. DocsGood'
    BY <1>0, <1>2, DocsGoodNext
  <2>2. \A d \in Devices : DeviceInv(d)'
    <3>1. ASSUME NEW p \in Procs, Runtime(p), UNCHANGED backups PROVE \A d \in Devices : DeviceInv(d)'
      BY <3>1, StartSound, EndsSound, <1>2 DEF Runtime
    <3>2. ASSUME NEW p \in Procs, NEW e \in Devices, Command(p, e), UNCHANGED backups
          PROVE  \A d \in Devices : DeviceInv(d)'
      BY <3>2, CommandSound
    <3>3. ASSUME (\E e \in Devices : Reset(e)) \/ LoseFile \/ Export \/ Import
          PROVE  \A d \in Devices : DeviceInv(d)'
      BY <1>2, <3>3, WorldSound
    <3> QED
      BY <1>2, <3>1, <3>2, <3>3, Cases
  <2> QED
    BY <1>1, <2>1, <2>2 DEF IInv, KeyInv
<1>3. CASE UNCHANGED vars
  <2>1. /\ UNCHANGED <<accessory, file, keyring, up, aliases, handles, op, keys, faults>>
        /\ UNCHANGED <<told, exposed, displaced, doubled, restored, backup, imports>>
    BY <1>3 DEF vars, disk, memory, ghosts, odds, backups
  <2>2. DocsGood'
    BY <1>0, <2>1 DEF KeyInv, DocsGood, Docs, Good, Fits
  <2>3. \A d \in Devices : DeviceInv(d)'
    BY <1>0, <2>1 DEF KeyInv, DeviceInv, Trusted, Safe, Forgotten, Fair, Usable, Fits, Pending, Kept, Answered
  <2> QED
    BY <1>1, <2>2, <2>3 DEF IInv, KeyInv
<1> QED
  BY <1>2, <1>3

\* The inductive invariant: the keys in every document fit the devices they are filed under,
\* and the key an accessory trusts is held by the command that made it or is kept everywhere.
THEOREM Invariance ==
  ASSUME OneProcess
  PROVE  Spec => []IInv
<1>1. Init => IInv
  <2> SUFFICES ASSUME Init PROVE IInv
    OBVIOUS
  <2>1. Docs \subseteq {<<>>}
    BY DEF Init, Docs
  <2>2. DocsGood
    BY <2>1 DEF DocsGood, Good, Single, Range
  <2>3. \A d \in Devices : DeviceInv(d)
    BY DEF Init, DeviceInv, Trusted, Safe, Forgotten, Fair, Usable, Idle, Making, Dropping
  <2> QED
    BY BaseInit, <2>2, <2>3 DEF IInv, KeyInv
<1>2. IInv /\ [Next]_vars => IInv'
  BY KeysStay
<1> QED
  BY <1>1, <1>2, PTL DEF Spec

\* What pair has answered is not lost: KeysRecoverable, of the file and the keyring, whatever
\* commands, kills, failed keyring writes, lost files and imports follow.
THEOREM KeysSurvive ==
  ASSUME OneProcess
  PROVE  Spec => []KeysRecoverable
<1>1. IInv => KeysRecoverable
  <2> SUFFICES ASSUME IInv, NEW d \in Devices, Answered(d) PROVE Has(Materialised, d, accessory[d])
    BY DEF KeysRecoverable
  <2>1. BaseInv /\ DeviceInv(d)
    BY DeviceFacts
  <2>2. ~Pending(d)
    BY <2>1 DEF Pending, DeviceInv, Fair, Answered, Making
  <2> QED
    BY <2>1, <2>2 DEF DeviceInv, Safe, Kept, Answered, Materialised
<1> QED
  BY <1>1, Invariance, PTL

\* The process reaches a device it has paired with the key the accessory accepts: KeysUsable,
\* of the handles in memory.
THEOREM HandlesHold ==
  ASSUME OneProcess
  PROVE  Spec => []KeysUsable
<1>1. IInv => KeysUsable
  BY DeviceFacts DEF DeviceInv, Usable, KeysUsable
<1> QED
  BY <1>1, Invariance, PTL

\* No accessory is left trusting a key that nobody holds: NeverStranded, of a pairing and of
\* a failed unpair.
THEOREM NobodyStranded ==
  ASSUME OneProcess
  PROVE  Spec => []NeverStranded
<1>1. IInv => NeverStranded
  <2> SUFFICES ASSUME IInv, NEW d \in Devices, accessory[d] # 0, d \notin exposed \cup displaced \cup restored
               PROVE  \/ Has(Materialised, d, accessory[d])
                      \/ \E p \in Procs : /\ op[p][d].phase \in {"paired", "pair_saved"}
                                        /\ op[p][d].key = accessory[d]
    BY DEF NeverStranded
  <2>1. Pending(d) \/ Kept(d)
    BY DeviceFacts DEF DeviceInv, Safe
  <2> QED
    BY <2>1 DEF Pending, Kept, Materialised, Making
<1> QED
  BY <1>1, Invariance, PTL

\* An unpaired device does not come back from the file or from the keyring: StaysForgotten.
THEOREM Unpaired ==
  ASSUME OneProcess
  PROVE  Spec => []StaysForgotten
<1>1. IInv => StaysForgotten
  <2> SUFFICES ASSUME IInv, NEW d \in Devices, Forgotten(d), told[d] = "unpaired",
                      d \notin exposed \cup doubled \cup restored
               PROVE  ~Names(Materialised, d)
    BY DeviceFacts DEF DeviceInv, StaysForgotten
  <2>1. ~Names(<<>>, d)
    BY DEF Names
  <2> QED
    BY <2>1 DEF Forgotten, Materialised
<1> QED
  BY <1>1, Invariance, PTL
=============================================================================
