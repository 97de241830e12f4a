---------------------------- MODULE EntityClient ----------------------------
(***************************************************************************)
(* HomeKitClient with AiohomekitBackend's reads: the accessory layouts (on *)
(* disk, in memory, at the accessory), the entities built from them, and   *)
(* the state cache, used by the concurrent handlers of one process.        *)
(*                                                                         *)
(* A layout of a device is known by its config number c#.  A slot stands   *)
(* for a service and its main characteristic (aid, iid); a layout says     *)
(* which entity, if any, sits in a slot.  Entity names are those of        *)
(* build_entities.  The value of an entity is the number of its changes.   *)
(* Code between two awaits is one step.                                    *)
(***************************************************************************)
EXTENDS Naturals, SequencesExt, FiniteSetsExt

CONSTANTS
    Tasks,        \* request handlers
    Pairings,     \* the paired devices in list_pairings' order
    Entities,     \* entity names
    HomeOf,       \* the device behind an entity
    LockKeys,     \* the strings a request may name an entity by
    Slots,        \* (aid, iid) of a service: naturals in the accessory's order
    AidOf,        \* the aid of a slot
    Nobody,       \* what an unused slot holds
    LayoutOf,     \* LayoutOf[d][n][s]: what slot s holds in d's layout with c# n
    NoTask,       \* the record of an idle handler
    LastConfig,   \* bound: the last config number of a device
    LastValue,    \* bound: the last value of an entity
    MaxCalls,     \* bound: requests
    MaxRestarts   \* bound: restarts of the process

Devices == Range(Pairings)
Values == UNION {0 .. LastValue[e] : e \in Entities}
Requests ==
    [pc : {"fetching", "fetched", "reading", "read", "writing"},
     kind : {"list", "accessories", "state", "write"}, entity : Entities,
     key : UNION {LockKeys[e] : e \in Entities}, refresh : BOOLEAN,
     todo : Seq(Devices), builds : BOOLEAN, refetch : BOOLEAN,
     got : [Devices -> Nat], num : Nat, raw : Nat, slot : Slots \cup {0}]

ASSUME EntityAssumption ==
    /\ Pairings \in Seq(Devices) /\ IsInjective(Pairings)
    /\ Entities # {} /\ Nobody \notin Entities /\ NoTask \notin Requests
    /\ HomeOf \in [Entities -> Devices]
    /\ LockKeys \in [Entities -> SUBSET UNION {LockKeys[e] : e \in Entities}]
    /\ Slots \subseteq Nat \ {0}
    /\ LastConfig \in [Devices -> Nat \ {0}]
    /\ LastValue \in [Entities -> Nat \ {0}]
    /\ \A d \in Devices, s \in Slots : \A n \in 1 .. LastConfig[d] :
          LayoutOf[d][n][s] \in Entities \cup {Nobody}
    /\ {MaxCalls, MaxRestarts} \subseteq Nat

VARIABLES
    config,       \* the accessory's own c#
    value,        \* the accessory's own value of an entity
    known,        \* pairing.config_num, 0 until an advert is seen
    store,        \* AccessoryCache: [num, layout] of a device, layout 0 if none
    index,        \* _accessory_index: the layout of a device, 0 if none
    entities,     \* _entities: the slot an entity was built from, 0 if absent
    states,       \* StateCache: [value, fresh] of an entity
    task,         \* the handlers' requests
    seen,         \* the newest value answered for an entity
    calls, restarts

world == <<config, value>>
mind == <<index, entities, states>>
vars == <<world, known, store, mind, task, seen, calls, restarts>>

Unknown == 0
NoState == [value |-> Unknown, fresh |-> FALSE]
NoLayout == [num |-> 0, layout |-> 0]

Init ==
    /\ config = [d \in Devices |-> 1]
    /\ value = [e \in Entities |-> 1]
    /\ known = [d \in Devices |-> 0]
    /\ store = [d \in Devices |-> NoLayout]
    /\ index = [d \in Devices |-> 0]
    /\ entities = [e \in Entities |-> 0]
    /\ states = [e \in Entities |-> NoState]
    /\ task = [t \in Tasks |-> NoTask]
    /\ seen = [e \in Entities |-> Unknown]
    /\ calls = 0 /\ restarts = 0

Busy(t) == task[t] # NoTask
At(t, pc) == Busy(t) /\ task[t].pc = pc
Home(t) == HomeOf[task[t].entity]

Holds(d, n, s) == IF n = 0 \/ s = 0 THEN Nobody ELSE LayoutOf[d][n][s]

-----------------------------------------------------------------------------
(* AccessoryCache and the entities of a layout. *)

\* load(device_id, config_number): an entry stored under that number.
Cached(d, num) == store[d].layout # 0 /\ store[d].num = num

\* build_entities: each name of the layouts, with the slot it was found in.
Built(layouts) ==
    [e \in Entities |->
        LET d == HomeOf[e]
            found == {s \in Slots : Holds(d, layouts[d], s) = e}
        IN  IF found = {} THEN 0 ELSE Min(found)]

\* _primary_characteristic: the entity's own service in the indexed layout.
Primary(e, ents, idx) ==
    IF Holds(HomeOf[e], idx[HomeOf[e]], ents[e]) = Nobody THEN 0 ELSE ents[e]

\* Mutant: the service is looked for in every accessory of the device.
AnyAccessory(e, ents, idx) ==
    LET found == {s \in Slots : Holds(HomeOf[e], idx[HomeOf[e]], s) # Nobody}
    IN  IF found = {} THEN 0 ELSE Min(found)

\* find_characteristic: the accessory's first service of the right type.
Writable(e, ents, idx) ==
    LET found == {s \in Slots : /\ AidOf[s] = AidOf[ents[e]]
                                /\ Holds(HomeOf[e], idx[HomeOf[e]], s) # Nobody}
    IN  IF found = {} THEN 0 ELSE Min(found)

-----------------------------------------------------------------------------
(* A request between its awaits. *)

Finishes(t) == task' = [task EXCEPT ![t] = NoTask]

\* refresh of a listing; get_state's own never reaches list_entities.
Hit(r, d) ==
    /\ ~(r.refresh /\ r.kind \in {"list", "accessories"})
    /\ Cached(d, known[d])

Fetching(r, todo) == [r EXCEPT !.pc = "fetching", !.todo = todo, !.num = known[todo[1]]]

\* get_state after get_entity, as far as its first await.
GoesOnReading(t, r, ents, idx) ==
    LET e == r.entity
        slot == Primary(e, ents, idx)
    IN  /\ index' = idx
        /\ \/ /\ ~r.refresh /\ states[e].fresh
              /\ Finishes(t)
              /\ seen' = [seen EXCEPT ![e] = Max({@, states[e].value})]
              /\ UNCHANGED states
           \/ /\ r.refresh \/ ~states[e].fresh
              /\ slot = 0
              /\ Finishes(t)
              /\ states' = [states EXCEPT ![e] = [value |-> Unknown, fresh |-> TRUE]]
              /\ UNCHANGED seen
           \/ /\ r.refresh \/ ~states[e].fresh
              /\ slot # 0
              /\ task' = [task EXCEPT ![t] = [r EXCEPT !.pc = "reading", !.slot = slot]]
              /\ UNCHANGED <<states, seen>>

WritesOrFails(t, r, slot) ==
    IF slot = 0 THEN Finishes(t)
    ELSE task' = [task EXCEPT ![t] = [r EXCEPT !.pc = "writing", !.slot = slot]]

\* _set_alias after get_entity: get_accessories is asked once for an accessory
\* the index lacks.
GoesOnWriting(t, r, ents, idx) ==
    LET slot == Writable(r.entity, ents, idx)
        home == HomeOf[r.entity]
        asked == [idx EXCEPT ![home] = store[home].layout]
    IN  /\ UNCHANGED <<states, seen>>
        /\ \/ /\ slot # 0 \/ r.refetch
              /\ index' = idx
              /\ WritesOrFails(t, r, slot)
           \/ /\ slot = 0 /\ ~r.refetch /\ Hit(r, home)
              /\ index' = asked
              /\ WritesOrFails(t, r, Writable(r.entity, ents, asked))
           \/ /\ slot = 0 /\ ~r.refetch /\ ~Hit(r, home)
              /\ index' = idx
              /\ task' = [task EXCEPT ![t] =
                    Fetching([r EXCEPT !.builds = FALSE, !.refetch = TRUE], <<home>>)]

\* What follows a listing, or a name that was known at once.
GoesOn(t, r, ents, idx) ==
    \/ /\ r.kind = "state" /\ ents[r.entity] # 0
       /\ GoesOnReading(t, r, ents, idx)
    \/ /\ r.kind = "write" /\ ents[r.entity] # 0
       /\ GoesOnWriting(t, r, ents, idx)
    \/ /\ r.kind \in {"list", "accessories"} \/ ents[r.entity] = 0
       /\ Finishes(t)
       /\ index' = idx
       /\ UNCHANGED <<states, seen>>

Updated(layouts, ds) == [d \in Devices |-> IF d \in ds THEN store[d].layout ELSE layouts[d]]

\* The rest of r.todo: cached devices need no await, the first other one does.
Advances(t, r, idx) ==
    LET misses == {i \in DOMAIN r.todo : ~Hit(r, r.todo[i])}
        n == IF misses = {} THEN Len(r.todo) ELSE Min(misses) - 1
        hits == {r.todo[i] : i \in 1 .. n}
        got == Updated(r.got, hits)
        ents == IF r.builds THEN Built(got) ELSE entities
    IN  \/ /\ misses # {}
           /\ index' = Updated(idx, hits)
           /\ task' = [task EXCEPT ![t] =
                 Fetching([r EXCEPT !.got = got], SubSeq(r.todo, n + 1, Len(r.todo)))]
           /\ UNCHANGED <<entities, states, seen>>
        \/ /\ misses = {}
           /\ entities' = ents
           /\ GoesOn(t, r, ents, Updated(idx, hits))

\* list_entities names no entity, and a write has no refresh.
Somebody == CHOOSE e \in Entities : TRUE

Request(kind, e, k, refresh) ==
    [pc |-> "fetching", kind |-> kind, entity |-> e, key |-> k, refresh |-> refresh,
     todo |-> IF kind = "accessories" THEN <<HomeOf[e]>> ELSE Pairings,
     builds |-> kind # "accessories", refetch |-> FALSE,
     got |-> [d \in Devices |-> 0], num |-> 0, raw |-> 0, slot |-> 0]

\* Mutant: requests for one entity run together.
NoLock(r) == r.kind \in {"list", "accessories", "state", "write"}

\* The daemon's lock: list_entities has no key, get_accessories the device's.
KeyFree(r) ==
    \A t \in Tasks :
        Busy(t) => \/ r.kind = "list" \/ task[t].kind = "list"
                   \/ IF r.kind = "accessories" \/ task[t].kind = "accessories"
                      THEN r.kind # task[t].kind \/ HomeOf[r.entity] # Home(t)
                      ELSE r.key # task[t].key

Call(t) ==
    /\ ~Busy(t)
    /\ calls < MaxCalls
    /\ calls' = calls + 1
    /\ \E kind \in {"list", "accessories", "state", "write"}, e \in Entities,
          refresh \in BOOLEAN :
       \E k \in LockKeys[e] :
          LET r == Request(kind, e, k, refresh)
          IN  /\ kind = "list" => e = Somebody
              /\ kind = "write" => ~refresh
              /\ KeyFree(r)
              /\ IF kind \in {"state", "write"} /\ entities[e] # 0
                 THEN GoesOn(t, r, entities, index) /\ UNCHANGED entities
                 ELSE Advances(t, r, index)
    /\ UNCHANGED <<world, known, store, restarts>>

-----------------------------------------------------------------------------
(* list_accessories *)

Answers(t) ==
    /\ At(t, "fetching")
    /\ task' = [task EXCEPT ![t].pc = "fetched",
                            ![t].raw = config[Head(task[t].todo)]]
    /\ UNCHANGED <<world, known, store, mind, seen, calls, restarts>>

Takes(t, layout) ==
    LET d == Head(task[t].todo)
    IN  Advances(t, [task[t] EXCEPT !.todo = Tail(@), !.got[d] = layout],
                 [index EXCEPT ![d] = layout])

\* Mutant: the c# is read after the fetch.
StoresLate(t) ==
    /\ At(t, "fetched")
    /\ store' = [store EXCEPT ![Head(task[t].todo)] =
                     [num |-> known[Head(task[t].todo)], layout |-> task[t].raw]]
    /\ Takes(t, task[t].raw)
    /\ UNCHANGED <<world, known, calls, restarts>>

\* The layout is stored under the c# read before the fetch.
Fetched(t) ==
    /\ At(t, "fetched")
    /\ store' = [store EXCEPT ![Head(task[t].todo)] =
                     [num |-> task[t].num, layout |-> task[t].raw]]
    /\ Takes(t, task[t].raw)
    /\ UNCHANGED <<world, known, calls, restarts>>

\* The fallback asks the cache for c# 0; without it the request fails.
Unreachable(t) ==
    /\ At(t, "fetching") \/ At(t, "fetched")
    /\ LET d == Head(task[t].todo)
       IN  \/ Cached(d, 0) /\ Takes(t, store[d].layout)
           \/ /\ ~Cached(d, 0)
              /\ Finishes(t)
              /\ UNCHANGED <<mind, seen>>
    /\ UNCHANGED <<world, known, store, calls, restarts>>

-----------------------------------------------------------------------------
(* read_characteristic and write_characteristic *)

Sits(t) == Holds(Home(t), config[Home(t)], task[t].slot)

ReadAnswers(t) ==
    /\ At(t, "reading")
    /\ Sits(t) # Nobody
    /\ task' = [task EXCEPT ![t].pc = "read", ![t].raw = value[Sits(t)]]
    /\ UNCHANGED <<world, known, store, mind, seen, calls, restarts>>

\* Mutant: the characteristic's iid is kept in place of its value.
ReadReturnsIid(t) ==
    /\ At(t, "read")
    /\ states' = [states EXCEPT ![task[t].entity] =
                      [value |-> task[t].slot, fresh |-> TRUE]]
    /\ Finishes(t)
    /\ UNCHANGED <<world, known, store, index, entities, seen, calls, restarts>>

ReadReturns(t) ==
    /\ At(t, "read")
    /\ LET e == task[t].entity
       IN  /\ states' = [states EXCEPT ![e] = [value |-> task[t].raw, fresh |-> TRUE]]
           /\ seen' = [seen EXCEPT ![e] = Max({@, task[t].raw})]
    /\ Finishes(t)
    /\ UNCHANGED <<world, known, store, index, entities, calls, restarts>>

WriteReturns(t) ==
    /\ At(t, "writing")
    /\ Sits(t) # Nobody
    /\ value[Sits(t)] < LastValue[Sits(t)]
    /\ value' = [value EXCEPT ![Sits(t)] = @ + 1]
    /\ Finishes(t)
    /\ UNCHANGED <<config, known, store, mind, seen, calls, restarts>>

\* The accessory does not answer, or has no such characteristic.
Fails(t) ==
    /\ \E pc \in {"reading", "read", "writing"} : At(t, pc)
    /\ Finishes(t)
    /\ UNCHANGED <<world, known, store, mind, seen, calls, restarts>>

-----------------------------------------------------------------------------
(* The world. *)

Reconfigures(d) ==
    /\ config[d] < LastConfig[d]
    /\ config' = [config EXCEPT ![d] = @ + 1]
    /\ UNCHANGED <<value, known, store, mind, task, seen, calls, restarts>>

Advert(d) ==
    /\ known[d] # config[d]
    /\ known' = [known EXCEPT ![d] = config[d]]
    /\ UNCHANGED <<world, store, mind, task, seen, calls, restarts>>

Changes(e) ==
    /\ value[e] < LastValue[e]
    /\ value' = [value EXCEPT ![e] = @ + 1]
    /\ UNCHANGED <<config, known, store, mind, task, seen, calls, restarts>>

StateExpires(e) ==
    /\ states[e].fresh
    /\ states' = [states EXCEPT ![e].fresh = FALSE]
    /\ UNCHANGED <<world, known, store, index, entities, task, seen, calls, restarts>>

CacheExpires(d) ==
    /\ store[d] # NoLayout
    /\ store' = [store EXCEPT ![d] = NoLayout]
    /\ UNCHANGED <<world, known, mind, task, seen, calls, restarts>>

\* Another process: the cache on disk is all that is left.
Restart ==
    /\ restarts < MaxRestarts
    /\ restarts' = restarts + 1
    /\ known' = [d \in Devices |-> 0]
    /\ index' = [d \in Devices |-> 0]
    /\ entities' = [e \in Entities |-> 0]
    /\ states' = [e \in Entities |-> NoState]
    /\ task' = [t \in Tasks |-> NoTask]
    /\ UNCHANGED <<world, store, seen, calls>>

Step(t) ==
    \/ Call(t)
    \/ Answers(t)
    \/ Fetched(t)
    \/ Unreachable(t)
    \/ ReadAnswers(t)
    \/ ReadReturns(t)
    \/ WriteReturns(t)
    \/ Fails(t)

Next ==
    \/ \E t \in Tasks : Step(t)
    \/ \E d \in Devices : Reconfigures(d) \/ Advert(d) \/ CacheExpires(d)
    \/ \E e \in Entities : Changes(e) \/ StateExpires(e)
    \/ Restart

Spec == Init /\ [][Next]_vars

-----------------------------------------------------------------------------
(* Properties. *)

TypeOK ==
    /\ config \in [Devices -> Nat] /\ \A d \in Devices : config[d] \in 1 .. LastConfig[d]
    /\ known \in [Devices -> Nat] /\ index \in [Devices -> Nat]
    /\ store \in [Devices -> [num : Nat, layout : Nat]]
    /\ \A d \in Devices :
          {known[d], index[d], store[d].num, store[d].layout} \subseteq 0 .. config[d]
    /\ value \in [Entities -> Values] /\ seen \in [Entities -> Values]
    /\ entities \in [Entities -> Slots \cup {0}]
    /\ states \in [Entities -> [value : Values, fresh : BOOLEAN]]
    /\ task \in [Tasks -> Requests \cup {NoTask}]
    /\ calls \in 0 .. MaxCalls /\ restarts \in 0 .. MaxRestarts

\* A layout cached under a config number is at least as new as that number, so
\* that the old layout is discarded once the accessory announces a new one:
\* also when it restructures itself between the await and the write.
CacheHonest == \A d \in Devices : store[d].layout # 0 => store[d].layout >= store[d].num

\* No state is answered that is older than one already answered for the entity,
\* whether from the state cache or from a read still under way.
NeverOlder ==
    /\ \A e \in Entities :
          states[e].fresh /\ states[e].value # Unknown => states[e].value >= seen[e]
    /\ \A t \in Tasks : At(t, "read") => task[t].raw >= seen[task[t].entity]

\* A read or write meets the entity it is for, or nobody, however the layouts at
\* the accessory, in the index and behind the entity have moved apart.
MeetsItsEntity ==
    \A t \in Tasks :
        At(t, "reading") \/ At(t, "writing") => Sits(t) \in {task[t].entity, Nobody}
=============================================================================
