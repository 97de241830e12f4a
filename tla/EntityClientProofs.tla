------------------------ MODULE EntityClientProofs ------------------------
(***************************************************************************)
(* Theorems about the entity client, for any devices, entities, layouts,   *)
(* handlers and bounds.                                                    *)
(***************************************************************************)
EXTENDS EntityClient, WellFoundedInduction, TLAPS

-----------------------------------------------------------------------------
(* What is known of the environment, where a theorem needs it. *)

\* HAP: an accessory does not use an instance id again for something else.
SlotsKept ==
    \A d \in Devices, s \in Slots : \A m, n \in 1 .. LastConfig[d] :
        LayoutOf[d][m][s] # Nobody /\ LayoutOf[d][n][s] # Nobody
            => LayoutOf[d][m][s] = LayoutOf[d][n][s]

\* Requests name an entity by one string.
OneName == \A e \in Entities : \A k, l \in LockKeys[e] : k = l

\* An accessory has one service with a main characteristic.
OneEach == \A r, s \in Slots : AidOf[r] = AidOf[s] => r = s

-----------------------------------------------------------------------------
(* The inductive invariant. *)

\* The entity has been in that slot.
Placed(e, s) ==
    s # 0 => \E n \in 1 .. LastConfig[HomeOf[e]] : LayoutOf[HomeOf[e]][n][s] = e

\* A request knows only layouts there have been, and the number it read before the fetch
\* is not above that of the layout it gets.
SaneAt(r, c) ==
    /\ \A d \in Devices : r.got[d] <= c[d]
    /\ r.pc \in {"fetching", "fetched"} => r.todo # <<>>
    /\ r.pc = "fetching" => r.num <= c[Head(r.todo)]
    /\ r.pc = "fetched" => r.num <= r.raw /\ r.raw <= c[Head(r.todo)]
    /\ r.kind \in {"state", "write"} => r.key \in LockKeys[r.entity]
    /\ r.pc \in {"reading", "read"} => r.kind = "state" /\ r.slot # 0 /\ Placed(r.entity, r.slot)
    /\ r.pc = "writing" => r.kind = "write" /\ r.slot # 0 /\ (OneEach => Placed(r.entity, r.slot))
    /\ r.pc = "read" => r.raw \in Values
Sane(r) == SaneAt(r, config)

Base ==
    /\ TypeOK
    /\ \A t \in Tasks : Busy(t) => Sane(task[t])
    /\ \A e \in Entities : Placed(e, entities[e])
    /\ CacheHonest

\* Two requests for the state of an entity exclude each other.
Apart == \A t, u \in Tasks : t # u /\ Busy(t) /\ Busy(u)
            /\ task[t].kind = "state" /\ task[u].kind = "state" => task[t].key # task[u].key

\* Nothing is newer than the accessory.
Behind ==
    /\ \A e \in Entities : seen[e] <= value[e] /\ states[e].value <= value[e]
    /\ \A t \in Tasks : At(t, "read") => task[t].raw <= value[task[t].entity]

Fresh == Apart /\ Behind /\ NeverOlder

-----------------------------------------------------------------------------
(* Minima and requests. *)

LEMMA Least ==
  ASSUME NEW S \in SUBSET Nat, S # {}
  PROVE  Min(S) \in S /\ \A y \in S : Min(S) <= y
<1>1. \E x \in S : \A y \in S : ~(<<y, x>> \in OpToRel(<, Nat))
  BY NatLessThanWellFounded, WFMin
<1>2. PICK x \in S : \A y \in S : ~(y < x)
  BY <1>1 DEF OpToRel
<1>3. \A y \in S : x <= y
  BY <1>2
<1> QED
  BY <1>3 DEF Min

LEMMA Larger ==
  ASSUME NEW m \in Nat, NEW n \in Nat
  PROVE  Max({m, n}) \in {m, n} /\ Max({m, n}) >= m /\ Max({m, n}) >= n
<1>1. \E x \in {m, n} : \A y \in {m, n} : x >= y
  OBVIOUS
<1> QED
  BY <1>1 DEF Max

LEMMA Environment ==
  /\ Pairings \in Seq(Devices) /\ \A e \in Entities : HomeOf[e] \in Devices
  /\ \A d \in Devices : LastConfig[d] \in Nat
  /\ \A e \in Entities : LastValue[e] \in Nat
  /\ Values \subseteq Nat /\ Slots \subseteq Nat \ {0}
  /\ MaxCalls \in Nat /\ MaxRestarts \in Nat /\ NoTask \notin Requests /\ Nobody \notin Entities
  /\ \A e \in Entities : 0 \in Values
BY EntityAssumption DEF Values

LEMMA RequestFields ==
  ASSUME NEW r \in Requests
  PROVE  /\ r.pc \in {"fetching", "fetched", "reading", "read", "writing"}
         /\ r.kind \in {"list", "accessories", "state", "write"} /\ r.entity \in Entities
         /\ r.todo \in Seq(Devices) /\ r.got \in [Devices -> Nat] /\ r.num \in Nat /\ r.raw \in Nat
         /\ r.slot \in Slots \cup {0}
BY DEF Requests

\* A request whose locals change.
LEMMA RequestMoves ==
  ASSUME NEW r \in Requests
  PROVE  /\ \A td \in Seq(Devices), n \in Nat :
               [r EXCEPT !.pc = "fetching", !.todo = td, !.num = n] \in Requests
         /\ \A x \in {"reading", "writing"}, s \in Slots : [r EXCEPT !.pc = x, !.slot = s] \in Requests
         /\ \A x \in {"fetched", "read"}, n \in Nat : [r EXCEPT !.pc = x, !.raw = n] \in Requests
         /\ \A g \in [Devices -> Nat] : [r EXCEPT !.got = g] \in Requests
         /\ \A td \in Seq(Devices), g \in [Devices -> Nat] :
               [r EXCEPT !.todo = td, !.got = g] \in Requests
         /\ [r EXCEPT !.builds = FALSE, !.refetch = TRUE] \in Requests
BY DEF Requests

\* What is laid out is a layout there has been.
Laid(idx) == idx \in [Devices -> Nat] /\ \A d \in Devices : idx[d] <= config[d]

LEMMA LaidHolds ==
  ASSUME TypeOK, NEW idx, Laid(idx), NEW e \in Entities, NEW s \in Slots
  PROVE  /\ Holds(HomeOf[e], idx[HomeOf[e]], s) = e => Placed(e, s)
         /\ Holds(HomeOf[e], idx[HomeOf[e]], s) # Nobody => s # 0
<1>1. HomeOf[e] \in Devices /\ Nobody \notin Entities
  BY Environment
<1>2. idx[HomeOf[e]] \in Nat /\ idx[HomeOf[e]] <= config[HomeOf[e]] /\ config[HomeOf[e]] \in 1 .. LastConfig[HomeOf[e]]
  BY <1>1 DEF Laid, TypeOK
<1>3. idx[HomeOf[e]] # 0 => idx[HomeOf[e]] \in 1 .. LastConfig[HomeOf[e]]
  BY <1>1, <1>2, Environment
<1> QED
  BY <1>1, <1>3 DEF Holds, Placed

LEMMA BuiltFacts ==
  ASSUME TypeOK, NEW got, Laid(got)
  PROVE  Built(got) \in [Entities -> Slots \cup {0}] /\ \A e \in Entities : Placed(e, Built(got)[e])
<1> DEFINE found(e) == {s \in Slots : Holds(HomeOf[e], got[HomeOf[e]], s) = e}
<1>1. Built(got) = [e \in Entities |-> IF found(e) = {} THEN 0 ELSE Min(found(e))]
  BY DEF Built
<1>2. ASSUME NEW e \in Entities, found(e) # {} PROVE Min(found(e)) \in Slots /\ Placed(e, Min(found(e)))
  <2>1. found(e) \in SUBSET Nat
    BY Environment
  <2>2. Min(found(e)) \in found(e)
    BY <1>2, <2>1, Least
  <2> QED
    BY <2>2, LaidHolds
<1>3. \A e \in Entities : Placed(e, 0)
  BY DEF Placed
<1> HIDE DEF found
<1> QED
  BY <1>1, <1>2, <1>3

LEMMA WritableFacts ==
  ASSUME TypeOK, NEW idx, Laid(idx), NEW ents \in [Entities -> Slots \cup {0}], NEW e \in Entities,
         Placed(e, ents[e]), ents[e] # 0, Writable(e, ents, idx) # 0
  PROVE  Writable(e, ents, idx) \in Slots /\ (OneEach => Placed(e, Writable(e, ents, idx)))
<1> DEFINE found == {s \in Slots : /\ AidOf[s] = AidOf[ents[e]]
                                   /\ Holds(HomeOf[e], idx[HomeOf[e]], s) # Nobody}
<1>1. found # {} /\ Writable(e, ents, idx) = Min(found)
  BY DEF Writable
<1>2. found \in SUBSET Nat
  BY Environment
<1>3. Min(found) \in found
  BY <1>1, <1>2, Least
<1>4. Min(found) \in Slots /\ AidOf[Min(found)] = AidOf[ents[e]]
  BY <1>3
<1> HIDE DEF found
<1>5. ents[e] \in Slots
  OBVIOUS
<1>6. OneEach => Min(found) = ents[e]
  BY <1>4, <1>5 DEF OneEach
<1> QED
  BY <1>1, <1>4, <1>6

-----------------------------------------------------------------------------
(* A request between its awaits. *)

\* How a handler that runs a request on leaves the next state: at its next await, or done.
Kept(q, r) == q.kind = r.kind /\ q.entity = r.entity /\ q.key = r.key

Rests(t, r) ==
    \E q \in Requests \cup {NoTask} :
        /\ task' = [task EXCEPT ![t] = q]
        /\ q # NoTask => Sane(q) /\ Kept(q, r) /\ q.pc \in {"fetching", "reading", "writing"}

\* A state answered from the cache, or known to be unreadable.
Tells(r) ==
    \/ UNCHANGED <<states, seen>>
    \/ /\ r.kind = "state" /\ states[r.entity].fresh /\ states' = states
       /\ seen' = [seen EXCEPT ![r.entity] = Max({@, states[r.entity].value})]
    \/ /\ r.kind = "state" /\ seen' = seen
       /\ states' = [states EXCEPT ![r.entity] = [value |-> Unknown, fresh |-> TRUE]]

\* r may run on from here.
Ready(r) ==
    /\ r \in Requests /\ Laid(r.got)
    /\ r.kind \in {"state", "write"} => r.key \in LockKeys[r.entity]

LEMMA Done ==
  ASSUME NEW t \in Tasks, NEW r, Finishes(t)
  PROVE  Rests(t, r)
BY DEF Finishes, Rests

LEMMA FetchingRests ==
  ASSUME TypeOK, NEW t \in Tasks, NEW r, Ready(r), NEW todo \in Seq(Devices), todo # <<>>,
         task' = [task EXCEPT ![t] = Fetching(r, todo)]
  PROVE  Rests(t, r)
<1>1. todo[1] \in Devices /\ Head(todo) = todo[1]
  OBVIOUS
<1>2. known[todo[1]] \in Nat /\ known[todo[1]] <= config[todo[1]]
  BY <1>1 DEF TypeOK
<1> DEFINE q == Fetching(r, todo)
<1>3. q \in Requests
  BY <1>2, RequestMoves DEF Fetching, Ready
<1>4. /\ q.pc = "fetching" /\ q.todo = todo /\ q.num = known[todo[1]] /\ q.got = r.got
      /\ q.kind = r.kind /\ q.entity = r.entity /\ q.key = r.key
  BY DEF Fetching, Ready, Requests
<1> HIDE DEF q
<1>5. Sane(q) /\ Kept(q, r)
  BY <1>1, <1>2, <1>4 DEF Sane, SaneAt, Kept, Ready, Laid
<1> QED
  BY <1>3, <1>4, <1>5 DEF Rests, q

LEMMA SlotRests ==
  ASSUME TypeOK, NEW t \in Tasks, NEW r, Ready(r), NEW x \in {"reading", "writing"}, NEW s \in Slots,
         x = "reading" => r.kind = "state" /\ Placed(r.entity, s),
         x = "writing" => r.kind = "write" /\ (OneEach => Placed(r.entity, s)),
         task' = [task EXCEPT ![t] = [r EXCEPT !.pc = x, !.slot = s]]
  PROVE  Rests(t, r)
<1> DEFINE q == [r EXCEPT !.pc = x, !.slot = s]
<1>1. q \in Requests
  BY RequestMoves DEF Ready
<1>2. /\ q.pc = x /\ q.slot = s /\ q.got = r.got
      /\ q.kind = r.kind /\ q.entity = r.entity /\ q.key = r.key
  BY DEF Ready, Requests
<1>3. s # 0
  BY Environment
<1>4. task' = [task EXCEPT ![t] = q]
  OBVIOUS
<1> HIDE DEF q
<1>5. Sane(q) /\ Kept(q, r)
  BY <1>2, <1>3 DEF Sane, SaneAt, Kept, Ready, Laid
<1> QED
  BY <1>1, <1>2, <1>4, <1>5 DEF Rests

Onward(t, r) == Rests(t, r) /\ Tells(r) /\ Laid(index')

LEMMA ReadingGoesOn ==
  ASSUME TypeOK, NEW t \in Tasks, NEW r, Ready(r), NEW ents \in [Entities -> Slots \cup {0}],
         NEW idx, Laid(idx), Placed(r.entity, ents[r.entity]), r.kind = "state",
         GoesOnReading(t, r, ents, idx)
  PROVE  Onward(t, r)
<1>1. index' = idx
  BY DEF GoesOnReading
<1>2. r.entity \in Entities
  BY RequestFields DEF Ready
<1> DEFINE s == Primary(r.entity, ents, idx)
<1>3. s # 0 => s \in Slots /\ Placed(r.entity, s)
  BY <1>2 DEF Primary
<1>4. CASE Finishes(t)
  <2>1. Tells(r)
    BY <1>4 DEF GoesOnReading, Tells
  <2> QED
    BY <1>1, <1>4, <2>1, Done DEF Onward
<1>5. CASE s # 0 /\ task' = [task EXCEPT ![t] = [r EXCEPT !.pc = "reading", !.slot = s]] /\ UNCHANGED <<states, seen>>
  <2> HIDE DEF s
  <2>1. Rests(t, r)
    BY <1>3, <1>5, SlotRests
  <2> QED
    BY <1>1, <1>5, <2>1 DEF Onward, Tells
<1> QED
  BY <1>4, <1>5 DEF GoesOnReading

LEMMA WritingGoesOn ==
  ASSUME TypeOK, NEW t \in Tasks, NEW r, Ready(r), NEW ents \in [Entities -> Slots \cup {0}],
         NEW idx, Laid(idx), Placed(r.entity, ents[r.entity]), r.kind = "write", ents[r.entity] # 0,
         GoesOnWriting(t, r, ents, idx)
  PROVE  Onward(t, r)
<1>1. r.entity \in Entities /\ HomeOf[r.entity] \in Devices
  BY RequestFields, Environment DEF Ready
<1> DEFINE home == HomeOf[r.entity]
           asked == [idx EXCEPT ![home] = store[home].layout]
           s == Writable(r.entity, ents, idx)
           u == Writable(r.entity, ents, asked)
<1>2. Laid(asked)
  <2>1. store[home].layout \in Nat /\ store[home].layout <= config[home]
    BY <1>1 DEF TypeOK
  <2> QED
    BY <1>1, <2>1 DEF Laid
<1>3. UNCHANGED <<states, seen>>
  BY DEF GoesOnWriting
<1>4. ASSUME NEW v, v # 0 => v \in Slots /\ (OneEach => Placed(r.entity, v)), WritesOrFails(t, r, v)
      PROVE  Rests(t, r)
  BY <1>4, Done, SlotRests DEF WritesOrFails
<1>5. s # 0 => s \in Slots /\ (OneEach => Placed(r.entity, s))
  BY <1>1, WritableFacts
<1> HIDE DEF asked
<1>6. u # 0 => u \in Slots /\ (OneEach => Placed(r.entity, u))
  BY <1>1, <1>2, WritableFacts
<1> DEFINE again == [r EXCEPT !.builds = FALSE, !.refetch = TRUE]
<1>7. CASE index' = idx /\ WritesOrFails(t, r, s)
  <2> HIDE DEF s
  <2>1. Rests(t, r)
    BY <1>4, <1>5, <1>7
  <2> QED
    BY <1>3, <1>7, <2>1 DEF Onward, Tells
<1>8. CASE index' = asked /\ WritesOrFails(t, r, u)
  <2> HIDE DEF u
  <2>1. Rests(t, r)
    BY <1>4, <1>6, <1>8
  <2> QED
    BY <1>2, <1>3, <1>8, <2>1 DEF Onward, Tells
<1>9. CASE index' = idx /\ task' = [task EXCEPT ![t] = Fetching(again, <<home>>)]
  <2>1. Ready(again) /\ Kept(again, r)
    <3>1. again \in Requests
      BY RequestMoves DEF Ready
    <3>2. again.got = r.got /\ Kept(again, r)
      BY DEF Ready, Requests, Kept
    <3> QED
      BY <3>1, <3>2 DEF Ready, Kept
  <2>2. <<home>> \in Seq(Devices) /\ <<home>> # <<>>
    BY <1>1
  <2> HIDE DEF again, home
  <2>3. Rests(t, again)
    BY <1>9, <2>1, <2>2, FetchingRests
  <2>4. Rests(t, r)
    BY <2>1, <2>3 DEF Rests, Kept
  <2> QED
    BY <1>3, <1>9, <2>4 DEF Onward, Tells
<1> QED
  BY <1>7, <1>8, <1>9 DEF GoesOnWriting, asked

LEMMA RequestGoesOn ==
  ASSUME TypeOK, NEW t \in Tasks, NEW r, Ready(r), NEW ents \in [Entities -> Slots \cup {0}],
         NEW idx, Laid(idx), \A e \in Entities : Placed(e, ents[e]),
         GoesOn(t, r, ents, idx)
  PROVE  Onward(t, r)
<1>1. r.entity \in Entities
  BY RequestFields DEF Ready
<1>2. CASE r.kind = "state" /\ GoesOnReading(t, r, ents, idx)
  BY <1>1, <1>2, ReadingGoesOn
<1>3. CASE r.kind = "write" /\ ents[r.entity] # 0 /\ GoesOnWriting(t, r, ents, idx)
  BY <1>1, <1>3, WritingGoesOn
<1>4. CASE Finishes(t) /\ index' = idx /\ UNCHANGED <<states, seen>>
  BY <1>4, Done DEF Onward, Tells
<1> QED
  BY <1>2, <1>3, <1>4 DEF GoesOn

LEMMA UpdatedFacts ==
  ASSUME TypeOK, NEW idx, Laid(idx), NEW ds
  PROVE  Laid(Updated(idx, ds))
<1>1. \A d \in Devices : store[d].layout \in Nat /\ store[d].layout <= config[d]
  BY DEF TypeOK
<1> QED
  BY <1>1 DEF Updated, Laid

LEMMA RequestAdvances ==
  ASSUME Base, NEW t \in Tasks, NEW r, Ready(r), NEW idx, Laid(idx), Advances(t, r, idx)
  PROVE  /\ Onward(t, r)
         /\ entities' \in [Entities -> Slots \cup {0}] /\ \A e \in Entities : Placed(e, entities'[e])
<1> DEFINE misses == {i \in DOMAIN r.todo : ~Hit(r, r.todo[i])}
           n == IF misses = {} THEN Len(r.todo) ELSE Min(misses) - 1
           hits == {r.todo[i] : i \in 1 .. n}
           got == Updated(r.got, hits)
           ents == IF r.builds THEN Built(got) ELSE entities
           q == [r EXCEPT !.got = got]
<1>1. TypeOK /\ entities \in [Entities -> Slots \cup {0}] /\ \A e \in Entities : Placed(e, entities[e])
  BY DEF Base, TypeOK
<1>2. Laid(got) /\ Laid(Updated(idx, hits))
  BY <1>1, UpdatedFacts DEF Ready
<1>3. ents \in [Entities -> Slots \cup {0}] /\ \A e \in Entities : Placed(e, ents[e])
  BY <1>1, <1>2, BuiltFacts
<1>4. CASE /\ misses # {} /\ index' = Updated(idx, hits) /\ UNCHANGED <<entities, states, seen>>
           /\ task' = [task EXCEPT ![t] = Fetching(q, SubSeq(r.todo, n + 1, Len(r.todo)))]
  <2>1. r.todo \in Seq(Devices) /\ misses \subseteq 1 .. Len(r.todo) /\ misses \in SUBSET Nat
    BY RequestFields DEF Ready
  <2>2. n + 1 \in 1 .. Len(r.todo)
    <3>1. Min(misses) \in misses
      BY <1>4, <2>1, Least
    <3> HIDE DEF misses
    <3>2. Min(misses) \in 1 .. Len(r.todo) /\ n = Min(misses) - 1
      BY <1>4, <2>1, <3>1
    <3> HIDE DEF n
    <3> QED
      BY <2>1, <3>2
  <2> HIDE DEF n, hits, got, misses
  <2>3. SubSeq(r.todo, n + 1, Len(r.todo)) \in Seq(Devices) /\ SubSeq(r.todo, n + 1, Len(r.todo)) # <<>>
    <3>1. PICK k \in 1 .. Len(r.todo) : k = n + 1
      BY <2>2
    <3>2. SubSeq(r.todo, k, Len(r.todo)) \in Seq(Devices) /\ Len(SubSeq(r.todo, k, Len(r.todo))) = Len(r.todo) - k + 1
      BY <2>1
    <3>3. Len(r.todo) \in Nat
      BY <2>1
    <3>4. Len(r.todo) - k + 1 # 0
      BY <3>3
    <3> QED
      BY <3>1, <3>2, <3>4
  <2>4. Ready(q) /\ Kept(q, r)
    <3>1. q \in Requests
      BY <1>2, RequestMoves DEF Ready, Laid
    <3>2. q.got = got /\ Kept(q, r)
      BY DEF Ready, Requests, Kept
    <3> QED
      BY <1>2, <3>1, <3>2 DEF Ready, Kept
  <2> HIDE DEF q
  <2>5. Rests(t, q)
    BY <1>1, <1>4, <2>3, <2>4, FetchingRests
  <2>6. Rests(t, r)
    BY <2>4, <2>5 DEF Rests, Kept
  <2> QED
    BY <1>1, <1>2, <1>4, <2>6 DEF Onward, Tells
<1>5. CASE entities' = ents /\ GoesOn(t, r, ents, Updated(idx, hits))
  <2> HIDE DEF ents, hits
  <2> QED
    BY <1>1, <1>2, <1>3, <1>5, RequestGoesOn
<1> QED
  BY <1>4, <1>5 DEF Advances

-----------------------------------------------------------------------------
(* The steps, and the types. *)

\* Config numbers grow, and a handler that steps is where it may be.
Grown == config' \in [Devices -> Nat] /\ \A d \in Devices : config[d] <= config'[d]

LEMMA SaneStays ==
  ASSUME TypeOK, Grown, NEW r \in Requests, Sane(r)
  PROVE  SaneAt(r, config')
<1>1. \A d \in Devices : r.got[d] \in Nat /\ config[d] \in Nat /\ config'[d] \in Nat /\ config[d] <= config'[d]
  BY RequestFields DEF TypeOK, Grown
<1>2. r.num \in Nat /\ r.raw \in Nat /\ (r.todo # <<>> => Head(r.todo) \in Devices)
  BY RequestFields
<1> QED
  BY <1>1, <1>2 DEF Sane, SaneAt

LEMMA TasksNext ==
  ASSUME Base, Grown, NEW t \in Tasks, NEW q \in Requests \cup {NoTask},
         task' = [task EXCEPT ![t] = q], q # NoTask => SaneAt(q, config')
  PROVE  /\ task' \in [Tasks -> Requests \cup {NoTask}]
         /\ \A u \in Tasks : Busy(u)' => Sane(task[u])'
         /\ task'[t] = q /\ \A u \in Tasks : u # t => task'[u] = task[u]
<1>1. TypeOK /\ task \in [Tasks -> Requests \cup {NoTask}]
  BY DEF Base, TypeOK
<1>2. \A u \in Tasks : task[u] # NoTask => SaneAt(task[u], config')
  BY <1>1, SaneStays DEF Base, Busy
<1> QED
  BY <1>1, <1>2 DEF Busy, Sane

LEMMA OnwardNext ==
  ASSUME Base, NEW t \in Tasks, NEW r \in Requests, Onward(t, r), UNCHANGED <<world, known>>,
         entities' \in [Entities -> Slots \cup {0}], \A e \in Entities : Placed(e, entities'[e]),
         store' \in [Devices -> [num : Nat, layout : Nat]],
         \A d \in Devices : /\ store'[d].num <= config[d] /\ store'[d].layout <= config[d]
                            /\ store'[d].layout # 0 => store'[d].layout >= store'[d].num,
         calls' \in 0 .. MaxCalls, restarts' \in 0 .. MaxRestarts
  PROVE  Base'
<1>1. TypeOK
  BY DEF Base
<1>2. UNCHANGED <<config, value, known>> /\ Grown
  BY <1>1 DEF world, Grown, TypeOK
<1>3. task' \in [Tasks -> Requests \cup {NoTask}] /\ \A u \in Tasks : Busy(u)' => Sane(task[u])'
  <2>1. PICK q \in Requests \cup {NoTask} : task' = [task EXCEPT ![t] = q] /\ (q # NoTask => SaneAt(q, config'))
    BY <1>2 DEF Onward, Rests, Sane
  <2> QED
    BY <1>2, <2>1, TasksNext
<1>4. states' \in [Entities -> [value : Values, fresh : BOOLEAN]] /\ seen' \in [Entities -> Values]
  <2>1. /\ states \in [Entities -> [value : Values, fresh : BOOLEAN]] /\ seen \in [Entities -> Values]
        /\ r.entity \in Entities
    BY <1>1, RequestFields DEF TypeOK
  <2>2. Max({seen[r.entity], states[r.entity].value}) \in Values
    <3>1. seen[r.entity] \in Values /\ states[r.entity].value \in Values
      BY <2>1
    <3>2. seen[r.entity] \in Nat /\ states[r.entity].value \in Nat
      BY <3>1, Environment
    <3> QED
      BY <3>1, <3>2, Larger
  <2>3. [value |-> Unknown, fresh |-> TRUE] \in [value : Values, fresh : BOOLEAN]
    BY <2>1, Environment DEF Unknown
  <2> QED
    BY ZenonT(60), <2>1, <2>2, <2>3 DEF Onward, Tells
<1>5. Laid(index')
  BY DEF Onward
<1>6. CacheHonest'
  BY DEF CacheHonest
<1>7. TypeOK'
  <2>1. \A d \in Devices : {known'[d], index'[d], store'[d].num, store'[d].layout} \subseteq 0 .. config'[d]
    BY <1>1, <1>2, <1>5 DEF TypeOK, Laid
  <2> QED
    BY <1>1, <1>2, <1>3, <1>4, <1>5, <2>1 DEF TypeOK, Laid
<1> QED
  BY <1>3, <1>6, <1>7 DEF Base

LEMMA RequestReady ==
  ASSUME TypeOK, NEW kind \in {"list", "accessories", "state", "write"}, NEW e \in Entities,
         NEW refresh \in BOOLEAN, NEW k \in LockKeys[e]
  PROVE  /\ Ready(Request(kind, e, k, refresh)) /\ Request(kind, e, k, refresh) \in Requests
         /\ Request(kind, e, k, refresh).kind = kind /\ Request(kind, e, k, refresh).entity = e
         /\ Request(kind, e, k, refresh).key = k
<1> DEFINE r == Request(kind, e, k, refresh)
<1>1. r \in Requests
  <2>1. k \in UNION {LockKeys[f] : f \in Entities}
    OBVIOUS
  <2>2. <<HomeOf[e]>> \in Seq(Devices) /\ Pairings \in Seq(Devices)
    BY Environment
  <2> QED
    BY <2>1, <2>2 DEF Request, Requests
<1>2. r.got = [d \in Devices |-> 0] /\ r.kind = kind /\ r.entity = e /\ r.key = k
  BY DEF Request
<1> HIDE DEF r
<1>3. Laid(r.got)
  BY <1>2 DEF Laid, TypeOK
<1> QED
  BY <1>1, <1>2, <1>3 DEF Ready, r

LEMMA CallRuns ==
  ASSUME Base, NEW t \in Tasks, Call(t)
  PROVE  \E r \in Requests : /\ KeyFree(r) /\ Onward(t, r)
                             /\ r.kind \in {"state", "write"} => r.key \in LockKeys[r.entity]
                             /\ entities' \in [Entities -> Slots \cup {0}]
                             /\ \A e \in Entities : Placed(e, entities'[e])
<1>1. PICK kind \in {"list", "accessories", "state", "write"}, e \in Entities, refresh \in BOOLEAN :
         \E k \in LockKeys[e] :
          LET r == Request(kind, e, k, refresh)
          IN  /\ KeyFree(r)
              /\ IF kind \in {"state", "write"} /\ entities[e] # 0
                 THEN GoesOn(t, r, entities, index) /\ UNCHANGED entities
                 ELSE Advances(t, r, index)
  BY DEF Call
<1>2. PICK k \in LockKeys[e] :
          /\ KeyFree(Request(kind, e, k, refresh))
          /\ IF kind \in {"state", "write"} /\ entities[e] # 0
             THEN GoesOn(t, Request(kind, e, k, refresh), entities, index) /\ UNCHANGED entities
             ELSE Advances(t, Request(kind, e, k, refresh), index)
  BY <1>1
<1> DEFINE r == Request(kind, e, k, refresh)
<1>3. TypeOK /\ entities \in [Entities -> Slots \cup {0}] /\ Laid(index)
  BY DEF Base, TypeOK, Laid
<1>4. Ready(r) /\ r \in Requests /\ KeyFree(r)
  BY <1>2, <1>3, RequestReady
<1>5. \/ GoesOn(t, r, entities, index) /\ UNCHANGED entities
      \/ Advances(t, r, index)
  BY <1>2
<1> HIDE DEF r
<1>6. CASE GoesOn(t, r, entities, index) /\ UNCHANGED entities
  <2>1. Onward(t, r)
    BY <1>3, <1>4, <1>6, RequestGoesOn DEF Base
  <2> QED
    BY <1>3, <1>4, <1>6, <2>1 DEF Base, Ready
<1>7. CASE Advances(t, r, index)
  BY <1>3, <1>4, <1>7, RequestAdvances DEF Ready
<1> QED
  BY <1>5, <1>6, <1>7

LEMMA TakesRuns ==
  ASSUME Base, NEW t \in Tasks, At(t, "fetching") \/ At(t, "fetched"), NEW layout \in Nat,
         layout <= config[Head(task[t].todo)], Takes(t, layout)
  PROVE  \E r \in Requests : /\ Kept(r, task[t]) /\ Onward(t, r)
                             /\ entities' \in [Entities -> Slots \cup {0}]
                             /\ \A e \in Entities : Placed(e, entities'[e])
<1>1. TypeOK /\ task[t] \in Requests /\ Sane(task[t])
  BY DEF Base, TypeOK, At, Busy
<1> DEFINE d == Head(task[t].todo)
           r == [task[t] EXCEPT !.todo = Tail(@), !.got[d] = layout]
<1>2. task[t].todo \in Seq(Devices) /\ task[t].todo # <<>> /\ task[t].got \in [Devices -> Nat]
  BY <1>1, RequestFields DEF Sane, SaneAt, At
<1>3. d \in Devices /\ Tail(task[t].todo) \in Seq(Devices)
  BY <1>2
<1>4. Laid([index EXCEPT ![d] = layout]) /\ Laid([task[t].got EXCEPT ![d] = layout])
  <2>1. Laid(index) /\ Laid(task[t].got)
    BY SMTT(60), <1>1, <1>2 DEF Laid, TypeOK, Sane, SaneAt
  <2>2. ASSUME NEW idx, Laid(idx) PROVE Laid([idx EXCEPT ![d] = layout])
    BY <1>3, <2>2 DEF Laid
  <2> QED
    BY <2>1, <2>2
<1>5. r = [task[t] EXCEPT !.todo = Tail(task[t].todo), !.got = [task[t].got EXCEPT ![d] = layout]]
  BY <1>1 DEF Requests
<1>6. r \in Requests
  BY <1>1, <1>3, <1>4, <1>5, RequestMoves DEF Laid
<1>7. r.got = [task[t].got EXCEPT ![d] = layout] /\ Kept(r, task[t])
  BY <1>1 DEF Requests, Kept
<1>8. Advances(t, r, [index EXCEPT ![d] = layout])
  BY DEF Takes
<1> HIDE DEF r, d
<1>9. Ready(r)
  BY <1>1, <1>4, <1>6, <1>7 DEF Ready, Kept, Sane, SaneAt
<1> QED
  BY <1>4, <1>6, <1>7, <1>8, <1>9, RequestAdvances

\* What sits in a handler's slot is an entity, or nobody.
LEMMA Sitting ==
  ASSUME Base, NEW t \in Tasks, At(t, "reading") \/ At(t, "writing")
  PROVE  /\ task[t] \in Requests /\ Sane(task[t]) /\ Home(t) \in Devices /\ task[t].entity \in Entities
         /\ task[t].slot \in Slots /\ config[Home(t)] \in 1 .. LastConfig[Home(t)]
         /\ Sits(t) = LayoutOf[Home(t)][config[Home(t)]][task[t].slot]
         /\ Sits(t) # Nobody => Sits(t) \in Entities
<1>1. task[t] \in Requests /\ Sane(task[t]) /\ TypeOK
  BY DEF Base, TypeOK, At, Busy
<1>2. task[t].entity \in Entities /\ Home(t) \in Devices
  BY <1>1, RequestFields, Environment DEF Home
<1>3. task[t].slot \in Slots
  BY <1>1, RequestFields DEF Sane, SaneAt, At
<1>4. config[Home(t)] \in 1 .. LastConfig[Home(t)] /\ config[Home(t)] # 0 /\ task[t].slot # 0
  BY <1>1, <1>2, <1>3, Environment DEF TypeOK
<1>5. Sits(t) = LayoutOf[Home(t)][config[Home(t)]][task[t].slot]
  BY <1>4 DEF Sits, Holds
<1> QED
  BY <1>1, <1>2, <1>3, <1>4, <1>5, EntityAssumption

\* A handler that waits for an answer and gets it, or gives up.
LEMMA AnswerTasks ==
  ASSUME Base, NEW t \in Tasks, Answers(t) \/ ReadAnswers(t)
  PROVE  /\ task' \in [Tasks -> Requests \cup {NoTask}]
         /\ \A u \in Tasks : Busy(u)' => Sane(task[u])'
         /\ Kept(task'[t], task[t]) /\ task'[t] \in Requests /\ Busy(t)
         /\ Answers(t) => task'[t].pc = "fetched"
         /\ ReadAnswers(t) => task'[t].pc = "read" /\ task'[t].raw = value[Sits(t)] /\ Sits(t) \in Entities
         /\ \A u \in Tasks : u # t => task'[u] = task[u]
<1>1. TypeOK /\ task[t] \in Requests /\ Sane(task[t]) /\ task \in [Tasks -> Requests \cup {NoTask}] /\ Busy(t)
  BY DEF Base, TypeOK, Answers, ReadAnswers, At, Busy
<1>2. UNCHANGED <<config, value>> /\ Grown
  BY <1>1 DEF Answers, ReadAnswers, world, Grown, TypeOK
<1>3. CASE Answers(t)
  <2> DEFINE n == config[Head(task[t].todo)]
             q == [task[t] EXCEPT !.pc = "fetched", !.raw = n]
  <2>1. task[t].todo # <<>> /\ task[t].todo \in Seq(Devices) /\ task[t].pc = "fetching"
    BY <1>1, <1>3, RequestFields DEF Answers, At, Sane, SaneAt
  <2>2. n \in Nat
    BY <1>1, <2>1 DEF TypeOK
  <2> HIDE DEF n
  <2>3. q \in Requests
    BY <1>1, <2>2, RequestMoves
  <2>4. /\ q.pc = "fetched" /\ q.raw = n /\ q.got = task[t].got /\ q.todo = task[t].todo
        /\ q.num = task[t].num /\ Kept(q, task[t])
    BY <1>1 DEF Requests, Kept
  <2>5. task' = [task EXCEPT ![t] = q]
    BY <1>1, <1>3 DEF Answers, n
  <2> HIDE DEF q
  <2>6. SaneAt(q, config')
    BY <1>1, <1>2, <2>1, <2>2, <2>4 DEF Sane, SaneAt, Kept, n
  <2> QED
    <3>1. /\ task' \in [Tasks -> Requests \cup {NoTask}]
          /\ \A u \in Tasks : Busy(u)' => Sane(task[u])'
          /\ task'[t] = q /\ \A u \in Tasks : u # t => task'[u] = task[u]
      BY <1>2, <2>3, <2>5, <2>6, TasksNext
    <3>2. ~ReadAnswers(t)
      BY <2>1 DEF ReadAnswers, At
    <3> QED
      BY <1>1, <2>3, <2>4, <3>1, <3>2
<1>4. CASE ReadAnswers(t)
  <2> DEFINE n == value[Sits(t)]
             q == [task[t] EXCEPT !.pc = "read", !.raw = n]
  <2>1. Sits(t) \in Entities /\ task[t].pc = "reading"
    BY <1>4, Sitting DEF ReadAnswers, At
  <2>2. n \in Values /\ n \in Nat
    BY <1>1, <2>1, Environment DEF TypeOK
  <2> HIDE DEF n
  <2>3. q \in Requests
    BY <1>1, <2>2, RequestMoves
  <2>4. /\ q.pc = "read" /\ q.raw = n /\ q.got = task[t].got /\ q.slot = task[t].slot
        /\ Kept(q, task[t])
    BY <1>1 DEF Requests, Kept
  <2>5. task' = [task EXCEPT ![t] = q]
    BY <1>1, <1>4 DEF ReadAnswers, n
  <2> HIDE DEF q
  <2>6. SaneAt(q, config')
    BY <1>1, <1>2, <2>1, <2>2, <2>4 DEF Sane, SaneAt, Kept
  <2> QED
    BY <1>1, <1>2, <1>4, <2>1, <2>3, <2>4, <2>5, <2>6, TasksNext DEF Answers, At, n
<1> QED
  BY <1>3, <1>4

LEMMA BaseRequests ==
  ASSUME Base, NEW t \in Tasks, Call(t) \/ Fetched(t) \/ Unreachable(t)
  PROVE  Base'
<1>1. /\ TypeOK /\ CacheHonest /\ store \in [Devices -> [num : Nat, layout : Nat]]
      /\ calls \in 0 .. MaxCalls /\ restarts \in 0 .. MaxRestarts
      /\ entities \in [Entities -> Slots \cup {0}] /\ \A e \in Entities : Placed(e, entities[e])
  BY DEF Base, TypeOK
<1>2. \A d \in Devices : /\ store[d].num <= config[d] /\ store[d].layout <= config[d]
                         /\ store[d].layout # 0 => store[d].layout >= store[d].num
  BY <1>1 DEF TypeOK, CacheHonest
<1>3. CASE Call(t)
  <2>1. UNCHANGED <<world, known, store, restarts>> /\ calls' \in 0 .. MaxCalls
    BY <1>1, <1>3, Environment DEF Call
  <2> QED
    BY <1>1, <1>2, <1>3, <2>1, CallRuns, OnwardNext
<1>4. CASE Fetched(t)
  <2> DEFINE d == Head(task[t].todo)
             n == [num |-> task[t].num, layout |-> task[t].raw]
  <2>1. task[t] \in Requests /\ Sane(task[t]) /\ task[t].pc = "fetched"
    BY <1>1, <1>4 DEF Fetched, At, Busy, Base, TypeOK
  <2>2. d \in Devices /\ n \in [num : Nat, layout : Nat] /\ n.num <= n.layout /\ n.layout <= config[d]
    BY <2>1, RequestFields DEF Sane, SaneAt
  <2>3. store' = [store EXCEPT ![d] = n] /\ UNCHANGED <<world, known, calls, restarts>> /\ Takes(t, n.layout)
    BY <1>4 DEF Fetched
  <2>4. \E r \in Requests : /\ Onward(t, r)
                            /\ entities' \in [Entities -> Slots \cup {0}]
                            /\ \A e \in Entities : Placed(e, entities'[e])
    BY <1>4, <2>2, <2>3, TakesRuns DEF Fetched
  <2> HIDE DEF d, n
  <2>5. \A x \in Devices : config[x] \in Nat
    BY <1>1 DEF TypeOK
  <2>6. n.num \in Nat /\ n.layout \in Nat /\ n.num <= config[d]
    BY <2>2, <2>5
  <2>7. \A x \in Devices : /\ store'[x].num <= config[x] /\ store'[x].layout <= config[x]
                           /\ store'[x].layout # 0 => store'[x].layout >= store'[x].num
    BY <1>1, <1>2, <2>2, <2>3, <2>6
  <2>8. store' \in [Devices -> [num : Nat, layout : Nat]]
    BY <1>1, <2>2, <2>3
  <2> QED
    BY <1>1, <2>3, <2>4, <2>7, <2>8, OnwardNext
<1>5. CASE Unreachable(t)
  <2>1. UNCHANGED <<world, known, store, calls, restarts>>
    BY <1>5 DEF Unreachable
  <2>2. At(t, "fetching") \/ At(t, "fetched")
    BY <1>5 DEF Unreachable
  <2>3. task[t] \in Requests /\ Sane(task[t])
    BY <1>1, <2>2 DEF At, Busy, Base, TypeOK
  <2>4. Head(task[t].todo) \in Devices
    BY <2>2, <2>3, RequestFields DEF Sane, SaneAt, At
  <2>5. CASE Takes(t, store[Head(task[t].todo)].layout)
    <3>1. store[Head(task[t].todo)].layout \in Nat
      BY <1>1, <2>4
    <3>2. \E r \in Requests : /\ Onward(t, r)
                            /\ entities' \in [Entities -> Slots \cup {0}]
                            /\ \A e \in Entities : Placed(e, entities'[e])
      BY <1>2, <2>2, <2>4, <2>5, <3>1, TakesRuns
    <3> QED
      BY <1>1, <1>2, <2>1, <3>2, OnwardNext
  <2>6. CASE Finishes(t) /\ UNCHANGED <<mind, seen>>
    <3>1. Onward(t, task[t])
      BY <1>1, <2>6, Done DEF Onward, Tells, mind, Laid, TypeOK
    <3> QED
      BY <1>1, <1>2, <2>1, <2>3, <2>6, <3>1, OnwardNext DEF mind
  <2> QED
    BY <1>5, <2>5, <2>6 DEF Unreachable
<1> QED
  BY <1>3, <1>4, <1>5

LEMMA BaseAnswers ==
  ASSUME Base, NEW t \in Tasks,
         Answers(t) \/ ReadAnswers(t) \/ ReadReturns(t) \/ WriteReturns(t) \/ Fails(t)
  PROVE  Base'
<1>1. TypeOK /\ task \in [Tasks -> Requests \cup {NoTask}] /\ Busy(t) /\ task[t] \in Requests /\ Sane(task[t])
  BY DEF Base, TypeOK, Answers, ReadAnswers, ReadReturns, WriteReturns, Fails, At, Busy
<1>2. UNCHANGED <<config, known, store, index, entities, calls, restarts>> /\ Grown
  BY <1>1 DEF Answers, ReadAnswers, ReadReturns, WriteReturns, Fails, world, mind, Grown, TypeOK
<1>3. task' \in [Tasks -> Requests \cup {NoTask}] /\ \A u \in Tasks : Busy(u)' => Sane(task[u])'
  <2>1. CASE Finishes(t)
    BY <1>2, <2>1, TasksNext DEF Finishes
  <2> QED
    BY <2>1, AnswerTasks DEF ReadReturns, WriteReturns, Fails
<1>4. states' \in [Entities -> [value : Values, fresh : BOOLEAN]] /\ seen' \in [Entities -> Values]
      /\ value' \in [Entities -> Values]
  <2>1. /\ states \in [Entities -> [value : Values, fresh : BOOLEAN]] /\ seen \in [Entities -> Values]
        /\ value \in [Entities -> Values] /\ task[t].entity \in Entities
    BY <1>1, RequestFields DEF TypeOK
  <2>2. CASE Answers(t) \/ ReadAnswers(t) \/ Fails(t)
    BY <2>1, <2>2 DEF Answers, ReadAnswers, Fails, world, mind
  <2>3. CASE ReadReturns(t)
    <3>1. task[t].raw \in Values /\ seen[task[t].entity] \in Values
      BY <1>1, <2>1, <2>3 DEF ReadReturns, At, Sane, SaneAt
    <3>2. task[t].raw \in Nat /\ seen[task[t].entity] \in Nat
      BY <3>1, Environment
    <3>3. Max({seen[task[t].entity], task[t].raw}) \in Values
      BY <3>1, <3>2, Larger
    <3>4. [value |-> task[t].raw, fresh |-> TRUE] \in [value : Values, fresh : BOOLEAN]
      BY <3>1
    <3> QED
      BY <2>1, <2>3, <3>3, <3>4 DEF ReadReturns, world
  <2>4. CASE WriteReturns(t)
    <3>1. Sits(t) \in Entities /\ value[Sits(t)] < LastValue[Sits(t)]
      BY <2>4, Sitting DEF WriteReturns
    <3>2. value[Sits(t)] \in Nat /\ LastValue[Sits(t)] \in Nat
      BY <2>1, <3>1, Environment
    <3>3. value[Sits(t)] + 1 \in Values
      BY <3>1, <3>2 DEF Values
    <3> QED
      BY <2>1, <2>4, <3>3 DEF WriteReturns, mind
  <2> QED
    BY <2>2, <2>3, <2>4
<1>5. TypeOK'
  BY <1>1, <1>2, <1>3, <1>4 DEF TypeOK
<1> QED
  BY <1>2, <1>3, <1>5 DEF Base, CacheHonest

LEMMA BaseWorld ==
  ASSUME Base, \/ \E d \in Devices : Reconfigures(d) \/ Advert(d) \/ CacheExpires(d)
               \/ \E e \in Entities : Changes(e) \/ StateExpires(e)
  PROVE  Base'
<1>1. TypeOK
  BY DEF Base
<1>2. UNCHANGED <<index, entities, task, seen, calls, restarts>>
  BY DEF Reconfigures, Advert, CacheExpires, Changes, StateExpires, mind
<1>3. Grown /\ \A d \in Devices : config'[d] \in 1 .. LastConfig[d]
  <2>1. CASE config' = config
    BY <1>1, <2>1 DEF Grown, TypeOK
  <2>2. ASSUME NEW d \in Devices, Reconfigures(d)
        PROVE  Grown /\ \A x \in Devices : config'[x] \in 1 .. LastConfig[x]
    <3>1. config' = [config EXCEPT ![d] = config[d] + 1] /\ config[d] < LastConfig[d]
      BY <2>2 DEF Reconfigures
    <3>2. config \in [Devices -> Nat] /\ \A x \in Devices : config[x] \in 1 .. LastConfig[x] /\ LastConfig[x] \in Nat
      BY <1>1, Environment DEF TypeOK
    <3> QED
      BY <3>1, <3>2 DEF Grown
  <2> QED
    BY <2>1, <2>2 DEF Advert, CacheExpires, Changes, StateExpires, world
<1>4. known' \in [Devices -> Nat] /\ \A d \in Devices : known'[d] <= config'[d]
  <2>1. known \in [Devices -> Nat] /\ config \in [Devices -> Nat] /\ config' \in [Devices -> Nat]
        /\ \A d \in Devices : known[d] <= config[d] /\ config[d] <= config'[d]
    BY <1>1, <1>3 DEF TypeOK, Grown
  <2>2. CASE known' = known
    BY <2>1, <2>2
  <2>3. ASSUME NEW d \in Devices, Advert(d)
        PROVE  known' \in [Devices -> Nat] /\ \A x \in Devices : known'[x] <= config'[x]
    BY <2>1, <2>3 DEF Advert
  <2> QED
    BY <2>2, <2>3 DEF Reconfigures, CacheExpires, Changes, StateExpires
<1>5. /\ store' \in [Devices -> [num : Nat, layout : Nat]]
      /\ \A d \in Devices : store'[d] \in {store[d], NoLayout}
  BY <1>1 DEF Reconfigures, Advert, CacheExpires, Changes, StateExpires, TypeOK, NoLayout
<1>6. CacheHonest'
  BY <1>5 DEF Base, CacheHonest, NoLayout
<1>7. value' \in [Entities -> Values]
  <2>1. value \in [Entities -> Values]
    BY <1>1 DEF TypeOK
  <2>2. CASE value' = value
    BY <2>1, <2>2
  <2>3. ASSUME NEW e \in Entities, Changes(e) PROVE value' \in [Entities -> Values]
    <3>1. value[e] \in Nat /\ LastValue[e] \in Nat /\ value[e] < LastValue[e]
      BY <2>1, <2>3, Environment DEF Changes
    <3>2. value[e] + 1 \in Values
      BY <3>1 DEF Values
    <3> QED
      BY <2>1, <2>3, <3>2 DEF Changes
  <2> QED
    BY <2>2, <2>3 DEF Reconfigures, Advert, CacheExpires, StateExpires, world
<1>8. states' \in [Entities -> [value : Values, fresh : BOOLEAN]]
  BY ZenonT(60), <1>1 DEF Reconfigures, Advert, CacheExpires, Changes, StateExpires, TypeOK, mind
<1>9. TypeOK'
  <2>1. \A d \in Devices : {known'[d], index'[d], store'[d].num, store'[d].layout} \subseteq 0 .. config'[d]
    <3>1. \A d \in Devices : /\ store'[d].num \in Nat /\ store'[d].layout \in Nat
                             /\ store'[d].num <= config[d] /\ store'[d].layout <= config[d] /\ index[d] <= config[d]
                             /\ index[d] \in Nat /\ config[d] \in Nat /\ config'[d] \in Nat
      BY <1>1, <1>3, <1>5 DEF TypeOK, NoLayout, Grown
    <3> QED
      BY <1>2, <1>3, <1>4, <3>1 DEF Grown
  <2> QED
    BY <1>1, <1>2, <1>3, <1>4, <1>5, <1>7, <1>8, <2>1 DEF TypeOK, Grown
<1>10. \A t \in Tasks : Busy(t)' => Sane(task[t])'
  BY <1>1, <1>2, <1>3, SaneStays DEF Base, Busy, Sane, TypeOK
<1> QED
  BY <1>2, <1>6, <1>9, <1>10 DEF Base

LEMMA BaseRestart ==
  ASSUME Base, Restart
  PROVE  Base'
<1>1. TypeOK /\ MaxRestarts \in Nat /\ \A e \in Entities : 0 \in Values
  BY Environment DEF Base
<1>2. /\ UNCHANGED <<config, value, store, seen, calls>> /\ restarts' \in 0 .. MaxRestarts
      /\ task' \in [Tasks -> Requests \cup {NoTask}] /\ \A t \in Tasks : task'[t] = NoTask
  BY <1>1 DEF Restart, world, TypeOK
<1>3. /\ known' \in [Devices -> Nat] /\ index' \in [Devices -> Nat]
      /\ \A d \in Devices : known'[d] = 0 /\ index'[d] = 0
      /\ entities' \in [Entities -> Slots \cup {0}] /\ \A e \in Entities : entities'[e] = 0
      /\ states' \in [Entities -> [value : Values, fresh : BOOLEAN]]
  BY <1>1 DEF Restart, NoState, Unknown
<1>4. \A d \in Devices : {known'[d], index'[d], store'[d].num, store'[d].layout} \subseteq 0 .. config'[d]
  BY <1>1, <1>2, <1>3 DEF TypeOK
<1>5. TypeOK'
  BY <1>1, <1>2, <1>3, <1>4 DEF TypeOK
<1> QED
  BY <1>2, <1>3, <1>5 DEF Base, CacheHonest, Busy, Placed

LEMMA BaseInit ==
  ASSUME Init
  PROVE  Base
<1>1. TypeOK
  <2>1. \A d \in Devices : 1 \in 1 .. LastConfig[d]
    BY EntityAssumption
  <2>2. \A e \in Entities : 0 \in Values /\ 1 \in Values
    BY EntityAssumption DEF Values
  <2>3. MaxCalls \in Nat /\ MaxRestarts \in Nat
    BY Environment
  <2> QED
    BY <2>1, <2>2, <2>3 DEF Init, TypeOK, NoState, NoLayout, Unknown
<1> QED
  BY <1>1 DEF Init, Base, CacheHonest, Busy, Placed, NoLayout

LEMMA BaseNext ==
  ASSUME Base, [Next]_vars
  PROVE  Base'
<1>1. CASE UNCHANGED vars
  <2>1. /\ UNCHANGED <<config, value, known, store, index, entities, states>>
        /\ UNCHANGED <<task, seen, calls, restarts>>
    BY <1>1 DEF vars, world, mind
  <2> QED
    BY <2>1 DEF Base, TypeOK, Busy, Sane, SaneAt, CacheHonest
<1>2. ASSUME NEW t \in Tasks, Step(t) PROVE Base'
  BY <1>2, BaseRequests, BaseAnswers DEF Step
<1> QED
  BY <1>1, <1>2, BaseWorld, BaseRestart DEF Next

-----------------------------------------------------------------------------
(* The age of the states. *)

LEMMA Meets ==
  ASSUME SlotsKept, Base, NEW t \in Tasks,
         At(t, "reading") \/ (At(t, "writing") /\ OneEach)
  PROVE  Sits(t) \in {task[t].entity, Nobody}
<1>1. /\ task[t].slot \in Slots /\ Home(t) \in Devices /\ task[t].entity \in Entities
      /\ config[Home(t)] \in 1 .. LastConfig[Home(t)]
      /\ Sits(t) = LayoutOf[Home(t)][config[Home(t)]][task[t].slot]
  BY Sitting
<1>2. Placed(task[t].entity, task[t].slot) /\ task[t].slot # 0
  BY Sitting DEF Sane, SaneAt, At
<1>3. PICK n \in 1 .. LastConfig[Home(t)] : LayoutOf[Home(t)][n][task[t].slot] = task[t].entity
  BY <1>2 DEF Placed, Home
<1>4. task[t].entity # Nobody
  BY <1>1, Environment
<1> QED
  BY <1>1, <1>3, <1>4 DEF SlotsKept

LEMMA Numbers ==
  ASSUME Base
  PROVE  /\ \A e \in Entities : seen[e] \in Nat /\ value[e] \in Nat /\ states[e].value \in Nat
         /\ \A t \in Tasks : Busy(t) => task[t] \in Requests /\ Sane(task[t]) /\ task[t].entity \in Entities
         /\ \A t \in Tasks : At(t, "read") => task[t].raw \in Nat /\ task[t].kind = "state"
                                              /\ task[t].key \in LockKeys[task[t].entity]
<1>1. \A v \in Values : v \in Nat
  BY Environment
<1>2. \A e \in Entities : /\ seen[e] \in Values /\ value[e] \in Values
                          /\ states[e] \in [value : Values, fresh : BOOLEAN]
  BY DEF Base, TypeOK
<1>3. \A t \in Tasks : Busy(t) => task[t] \in Requests /\ Sane(task[t])
  BY DEF Base, TypeOK, Busy
<1>4. \A r \in Requests : r.entity \in Entities /\ r.raw \in Nat
  BY RequestFields
<1> QED
  BY <1>1, <1>2, <1>3, <1>4 DEF At, Sane, SaneAt

LEMMA OnwardFresh ==
  ASSUME OneName, Base, Fresh, NEW t \in Tasks, NEW r \in Requests, Onward(t, r), value' = value,
         r.kind \in {"state", "write"} => r.key \in LockKeys[r.entity],
         \A u \in Tasks : u # t /\ Busy(u) /\ task[u].kind = "state" /\ r.kind = "state"
                             => task[u].key # r.key
  PROVE  Fresh'
<1>1. PICK q \in Requests \cup {NoTask} :
         /\ task' = [task EXCEPT ![t] = q]
         /\ q # NoTask => Kept(q, r) /\ q.pc # "read"
  BY DEF Onward, Rests
<1>2. task'[t] = q /\ \A u \in Tasks : u # t => task'[u] = task[u]
  BY <1>1 DEF Base, TypeOK
<1>3. Apart'
  BY <1>1, <1>2 DEF Fresh, Apart, Busy, Kept
<1>4. \A u \in Tasks : At(u, "read")' => u # t /\ At(u, "read") /\ task'[u] = task[u]
  BY <1>1, <1>2 DEF At, Busy
<1>5. r.entity \in Entities
  BY RequestFields
<1>6. \A u \in Tasks : At(u, "read")' /\ r.kind = "state" => task[u].entity # r.entity
  BY <1>4, Numbers DEF OneName, At
<1>7. /\ \A e \in Entities : seen[e] <= value[e] /\ states[e].value <= value[e]
      /\ \A e \in Entities : states[e].fresh /\ states[e].value # Unknown => states[e].value >= seen[e]
      /\ \A u \in Tasks : At(u, "read") => task[u].raw <= value[task[u].entity] /\ task[u].raw >= seen[task[u].entity]
  BY DEF Fresh, Behind, NeverOlder
<1>8. CASE UNCHANGED <<states, seen>>
  BY <1>3, <1>4, <1>7, <1>8 DEF Fresh, Behind, NeverOlder
<1>9. CASE /\ r.kind = "state" /\ states[r.entity].fresh /\ states' = states
           /\ seen' = [seen EXCEPT ![r.entity] = Max({@, states[r.entity].value})]
  <2> DEFINE m == Max({seen[r.entity], states[r.entity].value})
  <2>1. m \in {seen[r.entity], states[r.entity].value} /\ m >= seen[r.entity] /\ m >= states[r.entity].value
    BY <1>5, Numbers, Larger
  <2> HIDE DEF m
  <2>2. seen'[r.entity] = m /\ \A e \in Entities : e # r.entity => seen'[e] = seen[e]
    BY <1>5, <1>9 DEF m, Base, TypeOK
  <2>3. m <= value[r.entity] /\ (states[r.entity].value # Unknown => m = states[r.entity].value)
    <3>1. PICK a \in Nat, b \in Nat, c \in Nat : a = seen[r.entity] /\ b = states[r.entity].value /\ c = value[r.entity]
      BY <1>5, Numbers
    <3>2. a <= c /\ b <= c /\ (b # Unknown => b >= a)
      BY <1>5, <1>7, <1>9, <3>1
    <3>3. m \in {a, b} /\ m >= a /\ m >= b
      BY <2>1, <3>1
    <3>4. m <= c /\ (b # Unknown => m = b)
      BY <3>2, <3>3
    <3> QED
      BY <3>1, <3>4
  <2>4. \A e \in Entities : /\ seen'[e] <= value[e] /\ states[e].value <= value[e]
                            /\ states[e].fresh /\ states[e].value # Unknown => states[e].value >= seen'[e]
    BY <1>5, <1>7, <2>2, <2>3, Numbers
  <2>5. \A u \in Tasks : At(u, "read")' => seen'[task[u].entity] = seen[task[u].entity]
    BY <1>4, <1>6, <1>9, <2>2, Numbers DEF At
  <2> QED
    BY <1>3, <1>4, <1>7, <1>9, <2>4, <2>5 DEF Fresh, Behind, NeverOlder
<1>10. CASE /\ r.kind = "state" /\ seen' = seen
            /\ states' = [states EXCEPT ![r.entity] = [value |-> Unknown, fresh |-> TRUE]]
  <2>1. /\ states'[r.entity].value = Unknown
        /\ \A e \in Entities : e # r.entity => states'[e] = states[e]
    BY <1>5, <1>10 DEF Base, TypeOK
  <2>2. \A e \in Entities : /\ states'[e].value <= value[e]
                            /\ states'[e].fresh /\ states'[e].value # Unknown => states'[e].value >= seen[e]
    BY <1>5, <1>7, <2>1, Numbers DEF Unknown
  <2> QED
    BY <1>3, <1>4, <1>7, <1>10, <2>2 DEF Fresh, Behind, NeverOlder
<1> QED
  BY <1>8, <1>9, <1>10 DEF Onward, Tells

LEMMA FreshRequests ==
  ASSUME OneName, Base, Fresh, NEW t \in Tasks, Call(t) \/ Fetched(t) \/ Unreachable(t)
  PROVE  Fresh'
<1>1. CASE Call(t)
  <2>1. PICK r \in Requests : /\ KeyFree(r) /\ Onward(t, r)
                              /\ r.kind \in {"state", "write"} => r.key \in LockKeys[r.entity]
    BY <1>1, CallRuns
  <2>2. \A u \in Tasks : u # t /\ Busy(u) /\ task[u].kind = "state" /\ r.kind = "state"
                             => task[u].key # r.key
    BY <2>1 DEF KeyFree
  <2>3. value' = value
    BY <1>1 DEF Call, world
  <2> QED
    BY <2>1, <2>2, <2>3, OnwardFresh
<1>2. ASSUME At(t, "fetching") \/ At(t, "fetched"), UNCHANGED world, NEW r \in Requests,
             Kept(r, task[t]), Onward(t, r)
      PROVE  Fresh'
  <2>1. Busy(t) /\ Sane(task[t])
    BY <1>2, Numbers DEF At
  <2>2. \A u \in Tasks : u # t /\ Busy(u) /\ task[u].kind = "state" /\ r.kind = "state"
                             => task[u].key # r.key
    BY <1>2, <2>1 DEF Fresh, Apart, Kept
  <2>3. r.kind \in {"state", "write"} => r.key \in LockKeys[r.entity]
    BY <1>2, <2>1 DEF Sane, SaneAt, Kept
  <2> QED
    BY <1>2, <2>2, <2>3, OnwardFresh DEF world
<1>3. CASE Fetched(t)
  <2>1. At(t, "fetched") /\ UNCHANGED world /\ Takes(t, task[t].raw)
    BY <1>3 DEF Fetched
  <2>2. task[t].raw \in Nat /\ task[t].raw <= config[Head(task[t].todo)]
    BY <2>1, Numbers, RequestFields DEF At, Sane, SaneAt
  <2> QED
    BY <1>2, <2>1, <2>2, TakesRuns
<1>4. CASE Unreachable(t)
  <2>1. (At(t, "fetching") \/ At(t, "fetched")) /\ UNCHANGED world
    BY <1>4 DEF Unreachable
  <2>2. task[t] \in Requests /\ Sane(task[t])
    BY <2>1, Numbers DEF At
  <2>3. Head(task[t].todo) \in Devices
    BY <2>1, <2>2, RequestFields DEF Sane, SaneAt, At
  <2>4. store[Head(task[t].todo)].layout \in Nat /\ store[Head(task[t].todo)].layout <= config[Head(task[t].todo)]
    BY <2>3 DEF Base, TypeOK
  <2>5. CASE Takes(t, store[Head(task[t].todo)].layout)
    BY <1>2, <2>1, <2>4, <2>5, TakesRuns
  <2>6. CASE Finishes(t) /\ UNCHANGED <<mind, seen>>
    <3>1. Onward(t, task[t])
      BY <2>6, Done DEF Onward, Tells, mind, Laid, Base, TypeOK
    <3> QED
      BY <1>2, <2>1, <2>2, <3>1 DEF Kept
  <2> QED
    BY <1>4, <2>5, <2>6 DEF Unreachable
<1> QED
  BY <1>1, <1>3, <1>4

LEMMA FreshReads ==
  ASSUME SlotsKept, OneName, Base, Fresh, NEW t \in Tasks, Answers(t) \/ ReadAnswers(t)
  PROVE  Fresh'
<1>1. UNCHANGED <<value, states, seen>>
  BY DEF Answers, ReadAnswers, world, mind
<1>2. /\ Kept(task'[t], task[t]) /\ task'[t] \in Requests /\ Busy(t)
      /\ Answers(t) => task'[t].pc = "fetched"
      /\ ReadAnswers(t) => task'[t].pc = "read" /\ task'[t].raw = value[Sits(t)] /\ Sits(t) \in Entities
      /\ \A u \in Tasks : u # t => task'[u] = task[u]
  BY AnswerTasks
<1>3. Apart'
  BY <1>2, Environment DEF Fresh, Apart, Busy, Kept
<1>4. \A u \in Tasks : At(u, "read")' => (u # t /\ At(u, "read") /\ task'[u] = task[u]) \/ (u = t /\ ReadAnswers(t))
  BY <1>2 DEF At, Busy
<1>5. ReadAnswers(t) => /\ task'[t].raw = value[task[t].entity] /\ task'[t].entity = task[t].entity
                        /\ seen[task[t].entity] <= value[task[t].entity]
                        /\ value[task[t].entity] \in Nat /\ seen[task[t].entity] \in Nat
  <2> SUFFICES ASSUME ReadAnswers(t)
               PROVE  /\ task'[t].raw = value[task[t].entity] /\ task'[t].entity = task[t].entity
                      /\ seen[task[t].entity] <= value[task[t].entity]
                      /\ value[task[t].entity] \in Nat /\ seen[task[t].entity] \in Nat
    OBVIOUS
  <2>1. At(t, "reading") /\ Sits(t) # Nobody
    BY DEF ReadAnswers
  <2>2. Sits(t) = task[t].entity
    BY <2>1, Meets
  <2> QED
    BY <1>2, <2>2, Numbers DEF Fresh, Behind, Kept
<1>6. \A u \in Tasks : At(u, "read")' =>
         /\ task'[u].raw <= value[task'[u].entity]
         /\ task'[u].raw >= seen[task'[u].entity]
  BY <1>4, <1>5 DEF Fresh, Behind, NeverOlder
<1> QED
  BY <1>1, <1>3, <1>6 DEF Fresh, Behind, NeverOlder

LEMMA FreshReturns ==
  ASSUME OneName, Base, Fresh, NEW t \in Tasks, ReadReturns(t)
  PROVE  Fresh'
<1> DEFINE x == task[t].entity
           m == Max({seen[x], task[t].raw})
<1>1. /\ At(t, "read") /\ Busy(t) /\ x \in Entities /\ task[t].raw \in Nat /\ seen[x] \in Nat
      /\ task[t].kind = "state" /\ task[t].key \in LockKeys[x]
  BY Numbers DEF ReadReturns, At
<1>2. task[t].raw >= seen[x] /\ task[t].raw <= value[x]
  BY <1>1 DEF Fresh, Behind, NeverOlder
<1>3. m = task[t].raw
  BY <1>1, <1>2, Larger
<1> HIDE DEF m, x
<1>4. /\ task'[t] = NoTask /\ (\A u \in Tasks : u # t => task'[u] = task[u])
      /\ states'[x] = [value |-> task[t].raw, fresh |-> TRUE]
      /\ (\A e \in Entities : e # x => states'[e] = states[e])
      /\ seen'[x] = m /\ (\A e \in Entities : e # x => seen'[e] = seen[e])
      /\ value' = value
  BY <1>1 DEF ReadReturns, Finishes, Base, TypeOK, world, m, x
<1>5. Apart'
  BY <1>4 DEF Fresh, Apart, Busy
<1>6. \A u \in Tasks : At(u, "read")' => At(u, "read") /\ task'[u] = task[u] /\ task[u].entity # x
  <2> SUFFICES ASSUME NEW u \in Tasks, At(u, "read")' PROVE At(u, "read") /\ task'[u] = task[u] /\ task[u].entity # x
    OBVIOUS
  <2>1. u # t /\ At(u, "read") /\ task'[u] = task[u]
    BY <1>4 DEF At, Busy
  <2>2. task[u].key # task[t].key
    BY <1>1, <2>1, Numbers DEF Fresh, Apart, At
  <2> QED
    BY <1>1, <2>1, <2>2, Numbers DEF OneName
<1>7. /\ \A e \in Entities : seen[e] <= value[e] /\ states[e].value <= value[e]
      /\ \A e \in Entities : states[e].fresh /\ states[e].value # Unknown => states[e].value >= seen[e]
      /\ \A u \in Tasks : At(u, "read") => /\ task[u].raw <= value[task[u].entity] /\ task[u].raw >= seen[task[u].entity]
                                           /\ task[u].entity \in Entities
  BY Numbers DEF Fresh, Behind, NeverOlder, At
<1>8. states'[x].value = task[t].raw
  BY <1>4
<1>9. Behind'
  BY <1>1, <1>2, <1>3, <1>4, <1>6, <1>7, <1>8 DEF Behind, x
<1>10. NeverOlder'
  <2>1. \A e \in Entities : states'[e].fresh /\ states'[e].value # Unknown => states'[e].value >= seen'[e]
    BY <1>1, <1>3, <1>4, <1>7, <1>8
  <2>2. \A u \in Tasks : At(u, "read")' => task'[u].raw >= seen'[task'[u].entity]
    BY <1>4, <1>6, <1>7
  <2> QED
    BY <2>1, <2>2 DEF NeverOlder
<1> QED
  BY <1>5, <1>9, <1>10 DEF Fresh

\* A state that is not read again may go stale or be forgotten.
Fades(e) ==
    \/ states'[e] = states[e] \/ states'[e].value = Unknown
    \/ states'[e].value = states[e].value /\ (states'[e].fresh => states[e].fresh)

\* What is at the accessory only gets newer.
LEMMA FreshStays ==
  ASSUME Base, Fresh, seen' = seen,
         \A e \in Entities : value'[e] \in Nat /\ value[e] <= value'[e],
         \A e \in Entities : Fades(e),
         \A u \in Tasks : task'[u] \in {task[u], NoTask}
  PROVE  Fresh'
<1>1. \A u \in Tasks : Busy(u)' => Busy(u) /\ task'[u] = task[u]
  BY DEF Busy
<1>2. Apart'
  BY <1>1 DEF Fresh, Apart
<1>3. \A u \in Tasks : At(u, "read")' => At(u, "read") /\ task'[u] = task[u] /\ task[u].entity \in Entities /\ task[u].raw \in Nat
  BY <1>1, Numbers DEF At
<1>4. /\ \A e \in Entities : seen[e] <= value[e] /\ states[e].value <= value[e]
      /\ \A e \in Entities : states[e].fresh /\ states[e].value # Unknown => states[e].value >= seen[e]
      /\ \A u \in Tasks : At(u, "read") => /\ task[u].raw <= value[task[u].entity] /\ task[u].raw >= seen[task[u].entity]
  BY DEF Fresh, Behind, NeverOlder
<1>5. \A e \in Entities : seen[e] <= value'[e] /\ states'[e].value <= value'[e]
  BY <1>4, Numbers DEF Unknown, Fades
<1>6. \A u \in Tasks : At(u, "read")' => task'[u].raw <= value'[task'[u].entity]
  <2> SUFFICES ASSUME NEW u \in Tasks, At(u, "read")' PROVE task'[u].raw <= value'[task'[u].entity]
    OBVIOUS
  <2> DEFINE e == task[u].entity
  <2>1. /\ task[u].raw <= value[e] /\ value[e] <= value'[e] /\ task[u].raw \in Nat /\ value[e] \in Nat
        /\ value'[e] \in Nat /\ task'[u] = task[u]
    BY <1>3, <1>4, Numbers
  <2> QED
    BY <2>1
<1>7. NeverOlder'
  BY <1>3, <1>4 DEF NeverOlder, Fades
<1> QED
  BY <1>2, <1>5, <1>6, <1>7 DEF Fresh, Behind

LEMMA FreshNext ==
  ASSUME SlotsKept, OneName, Base, Fresh, [Next]_vars
  PROVE  Fresh'
<1>1. \A e \in Entities : value[e] \in Nat
  BY Numbers
<1>2. CASE UNCHANGED vars
  <2>1. UNCHANGED <<value, states, seen, task>>
    BY <1>2 DEF vars, world, mind
  <2> QED
    BY <1>1, <2>1, FreshStays DEF Fades
<1>3. ASSUME NEW t \in Tasks, Step(t) PROVE Fresh'
  <2>1. CASE WriteReturns(t) \/ Fails(t)
    <3>1. UNCHANGED <<states, seen>> /\ \A u \in Tasks : task'[u] \in {task[u], NoTask}
      BY <2>1 DEF WriteReturns, Fails, Finishes, mind, Base, TypeOK
    <3>2. value' = value \/ \E e \in Entities : value' = [value EXCEPT ![e] = value[e] + 1]
      <4>1. CASE WriteReturns(t)
        BY <4>1, Sitting DEF WriteReturns
      <4>2. CASE Fails(t)
        BY <4>2 DEF Fails, world
      <4> QED
        BY <2>1, <4>1, <4>2
    <3>3. \A e \in Entities : value'[e] \in Nat /\ value[e] <= value'[e]
      BY <1>1, <3>2 DEF Base, TypeOK
    <3> QED
      BY <3>1, <3>3, FreshStays DEF Fades
  <2> QED
    BY <1>3, <2>1, FreshRequests, FreshReads, FreshReturns DEF Step
<1>4. CASE \/ \E d \in Devices : Reconfigures(d) \/ Advert(d) \/ CacheExpires(d)
           \/ \E e \in Entities : Changes(e) \/ StateExpires(e)
           \/ Restart
  <2>1. seen' = seen /\ \A u \in Tasks : task'[u] \in {task[u], NoTask}
    BY <1>4 DEF Reconfigures, Advert, CacheExpires, Changes, StateExpires, Restart
  <2>2. value' = value \/ \E e \in Entities : value' = [value EXCEPT ![e] = value[e] + 1]
    BY <1>4 DEF Reconfigures, Advert, CacheExpires, Changes, StateExpires, Restart, world
  <2>3. \A e \in Entities : value'[e] \in Nat /\ value[e] <= value'[e]
    BY <1>1, <2>2 DEF Base, TypeOK
  <2>4. \A e \in Entities : Fades(e)
    <3>1. CASE states' = states
      BY <3>1 DEF Fades
    <3>2. CASE Restart
      BY <3>2 DEF Restart, NoState, Fades
    <3>3. ASSUME NEW e \in Entities, StateExpires(e) PROVE \A f \in Entities : Fades(f)
      <4>1. states' = [states EXCEPT ![e].fresh = FALSE] /\ states \in [Entities -> [value : Values, fresh : BOOLEAN]]
        BY <3>3 DEF StateExpires, Base, TypeOK
      <4>2. states'[e].value = states[e].value /\ states'[e].fresh = FALSE
        BY <4>1
      <4>3. \A f \in Entities : f # e => states'[f] = states[f]
        BY <4>1
      <4> QED
        BY <4>2, <4>3 DEF Fades
    <3> QED
      BY <1>4, <3>1, <3>2, <3>3 DEF Reconfigures, Advert, CacheExpires, Changes, mind
  <2> QED
    BY <2>1, <2>3, <2>4, FreshStays
<1> QED
  BY <1>2, <1>3, <1>4 DEF Next

-----------------------------------------------------------------------------
(* The theorems. *)

\* The inductive invariant: requests know only layouts that there have been, and the number a
\* layout is stored under was read before the layout.
THEOREM Invariance == Spec => []Base
<1>1. Init => Base
  BY BaseInit
<1>2. Base /\ [Next]_vars => Base'
  BY BaseNext
<1> QED
  BY <1>1, <1>2, PTL DEF Spec

\* The client's caches, entities and requests are well-formed in every reachable state.
THEOREM TypeCorrect == Spec => []TypeOK
<1>1. Base => TypeOK
  BY DEF Base
<1> QED
  BY <1>1, Invariance, PTL

\* AccessoryCache never files an old layout under a newer config number: CacheHonest, however
\* fetches, adverts and changes at the accessory interleave.
THEOREM HonestCache == Spec => []CacheHonest
<1>1. Base => CacheHonest
  BY DEF Base
<1> QED
  BY <1>1, Invariance, PTL

\* A read or a write never meets another entity: MeetsItsEntity, of the slot that a request
\* has found in one layout and addresses in another.
THEOREM MeetsOnlyIts ==
  ASSUME SlotsKept, OneEach
  PROVE  Spec => []MeetsItsEntity
<1>1. Base => MeetsItsEntity
  BY Meets DEF MeetsItsEntity
<1> QED
  BY <1>1, Invariance, PTL

\* No answer is older than one given before: NeverOlder, of the state cache and the reads
\* under way, which the daemon's lock keeps apart.
THEOREM NewerAndNewer ==
  ASSUME SlotsKept, OneName
  PROVE  Spec => []NeverOlder
<1>1. Init => Fresh
  <2> SUFFICES ASSUME Init PROVE Fresh
    OBVIOUS
  <2>1. \A t \in Tasks : ~Busy(t)
    BY DEF Init, Busy
  <2>2. \A e \in Entities : seen[e] = 0 /\ states[e].value = 0 /\ value[e] = 1
    BY DEF Init, NoState, Unknown
  <2> QED
    BY <2>1, <2>2 DEF Fresh, Apart, Behind, NeverOlder, At, Unknown
<1>2. Base /\ Fresh /\ [Next]_vars => Fresh'
  BY FreshNext
<1>3. Fresh => NeverOlder
  BY DEF Fresh
<1> QED
  BY <1>1, <1>2, <1>3, Invariance, PTL DEF Spec
=============================================================================
