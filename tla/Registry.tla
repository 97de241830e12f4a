------------------------------ MODULE Registry ------------------------------
(***************************************************************************)
(* Entity ids (src/homekit/core/registry.py): how build_entities names the *)
(* services of the paired devices, how entities.toml renames them, and how *)
(* HomeKitClient resolves a name, while devices come and go and the user   *)
(* edits the file.                                                         *)
(*                                                                         *)
(* An id is a sequence of words: the domain, the slug of the accessory's   *)
(* name and, on a collision, a number, which may as well be the end of a   *)
(* slug ("Lamp 2").  A device has one alias, so list_pairings has it once. *)
(***************************************************************************)
EXTENDS Naturals, SequencesExt, FiniteSetsExt

CONSTANTS
    Devices,
    Words,       \* the domains, and what slugs are made of besides numbers
    ServicesOf,  \* every service of a device in order: its domain and its accessory's slug
    NoDomain,    \* the domain of a service that SERVICE_DOMAIN_MAP does not have
    Names,       \* the ids and aliases a user may write into entities.toml
    NoName,      \* a field that a section leaves out
    Sections,    \* the sections a user may write for an entity
    Nowhere,     \* what a name that does not resolve leads to
    MaxSections  \* bound: sections of entities.toml

ASSUME RegistryAssumption ==
    /\ ServicesOf \in [Devices -> Seq([domain : Words, slug : Seq(Words \cup Nat)])]
    /\ NoName \notin Names
    /\ Sections \subseteq [entity_id : Names \cup {NoName}, alias : Names \cup {NoName}]
    /\ MaxSections \in Nat

VARIABLES
    home,    \* the paired devices in the order of list_pairings
    toml,    \* entities.toml: an override for each auto-generated id that has a section
    table    \* the entities of the client's last listing

vars == <<home, toml, table>>

Plain == [entity_id |-> NoName, alias |-> NoName]

\* overrides.get(entity_id, {})
Section(doc, key) == IF key \in DOMAIN doc THEN doc[key] ELSE Plain

-----------------------------------------------------------------------------
(* build_entities *)

\* Mutant: the pairing that was added last is listed first.
NewestFirst(devices) == Reverse(devices)

\* The id of a service before a number is added.
BaseOf(at) == <<ServicesOf[at[1]][at[2]].domain>> \o ServicesOf[at[1]][at[2]].slug

\* The order in which list_entities walks the pairings.
Listing(devices) == devices

\* The places, device and number, of a device's services that become entities.
Kept(d) ==
    LET kept[i \in 0 .. Len(ServicesOf[d])] ==
            IF i = 0 THEN <<>>
            ELSE IF ServicesOf[d][i].domain = NoDomain THEN kept[i - 1]
            ELSE Append(kept[i - 1], <<d, i>>)
    IN  kept[Len(ServicesOf[d])]

\* Those of all devices, in the order of their listing.
Services(devices) ==
    LET order == Listing(devices)
        walked[n \in 0 .. Len(order)] ==
            IF n = 0 THEN <<>> ELSE walked[n - 1] \o Kept(order[n])
    IN  walked[Len(order)]

\* The smallest number from 2 on that makes the base a free id.
FreeNumber(base, taken) ==
    Min({n \in 2 .. Cardinality(taken) + 2 : Append(base, n) \notin taken})

Allocated(base, taken) ==
    IF base \notin taken THEN base ELSE Append(base, FreeNumber(base, taken))

\* The auto-generated ids, in the order of the services.
Defaults(places) ==
    LET ids[i \in 0 .. Len(places)] ==
            IF i = 0 THEN <<>>
            ELSE Append(ids[i - 1], Allocated(BaseOf(places[i]), ToSet(ids[i - 1])))
    IN  ids[Len(places)]

\* Mutant: a rename does not look for an id in use.
RenamesBlindly(ids, i, target) == IF target = NoName THEN ids ELSE [ids EXCEPT ![i] = target]

\* The i-th entity takes its new id, unless another has it at that time.
Rename(ids, i, target) ==
    IF target = NoName \/ target \in ToSet(ids) THEN ids ELSE [ids EXCEPT ![i] = target]

\* _apply_renames goes through the renames in the order of the entities.
Renamed(defaults, doc) ==
    LET ids[i \in 0 .. Len(defaults)] ==
            IF i = 0 THEN defaults
            ELSE Rename(ids[i - 1], i, Section(doc, defaults[i]).entity_id)
    IN  ids[Len(defaults)]

\* Mutant: a section without aliases adds an empty one.
KeepsNone(given, default, id) == {given} \cup (IF id = default THEN {} ELSE {default})

\* A renamed entity keeps its auto-generated id as an alias.
AliasesOf(given, default, id) ==
    ({given} \ {NoName}) \cup (IF id = default THEN {} ELSE {default})

Built(devices, doc) ==
    LET places == Services(devices)
        defaults == Defaults(places)
        ids == Renamed(defaults, doc)
    IN  [i \in DOMAIN places |->
            [id |-> ids[i], default |-> defaults[i], at |-> places[i],
             aliases |-> AliasesOf(Section(doc, defaults[i]).alias, defaults[i], ids[i])]]

-----------------------------------------------------------------------------
(* _rebuild_alias_index and _resolve_entity_id *)

Bearers(entities, name) == {i \in DOMAIN entities : entities[i].id = name}
Aliased(entities, name) == {i \in DOMAIN entities : name \in entities[i].aliases}

\* Of equal keys in a dictionary the last one counts, and an id goes before an alias.
Resolve(entities, name) ==
    CASE Bearers(entities, name) # {} -> entities[Max(Bearers(entities, name))].at
      [] Bearers(entities, name) = {} /\ Aliased(entities, name) # {} ->
             entities[Max(Aliased(entities, name))].at
      [] OTHER -> Nowhere

-----------------------------------------------------------------------------
Init ==
    /\ home = <<>>
    /\ toml = <<>>
    /\ table = <<>>

\* A new pairing goes to the end of the controller's aliases, and of its file.
Pair(d) ==
    /\ d \notin ToSet(home)
    /\ home' = Append(home, d)
    /\ UNCHANGED <<toml, table>>

Unpair(d) ==
    /\ d \in ToSet(home)
    /\ home' = RemoveAt(home, CHOOSE i \in DOMAIN home : home[i] = d)
    /\ UNCHANGED <<toml, table>>

\* The user writes or changes the section of an entity that a listing has shown.
Edit(key) ==
    /\ key \in {table[i].default : i \in DOMAIN table}
    /\ Cardinality(DOMAIN toml \cup {key}) <= MaxSections
    /\ \E o \in Sections :
          toml' = [k \in DOMAIN toml \cup {key} |-> IF k = key THEN o ELSE toml[k]]
    /\ UNCHANGED <<home, table>>

\* list_entities, asked for or because get_entity does not know a name.
ListEntities ==
    /\ table' = Built(home, toml)
    /\ UNCHANGED <<home, toml>>

Next ==
    \/ \E d \in Devices : Pair(d) \/ Unpair(d)
    \/ \E i \in DOMAIN table : Edit(table[i].default)
    \/ ListEntities

Spec == Init /\ [][Next]_vars

-----------------------------------------------------------------------------
(* Properties. *)

Places == UNION {{<<d, i>> : i \in DOMAIN ServicesOf[d]} : d \in Devices}

TypeOK ==
    /\ home \in Seq(Devices)
    /\ \A i \in DOMAIN table :
          table[i].at \in Places /\ table[i].aliases \subseteq Names \cup {table[i].default}
    /\ \A key \in DOMAIN toml : toml[key] \in Sections

\* Every id of a listing leads back to its own entity, also when auto-generated
\* ids, numbered slugs and renames compete for it: no entity hides another.  The
\* auto-generated id of a renamed entity still leads to it, unless another entity has
\* taken it as its id or been given it as an alias (docs/entity-model.md: existing
\* automations keep working).
IdsLeadBack ==
    \A i \in DOMAIN table :
        /\ Resolve(table, table[i].id) = table[i].at
        /\ \/ Resolve(table, table[i].default) = table[i].at
           \/ \E j \in DOMAIN table \ {i} :
                 table[i].default \in {table[j].id} \cup table[j].aliases

\* Pairing one more device takes no entity's id away, except to give it to
\* another one (docs/entity-model.md: stable ids).
PairingKeepsIds ==
    [][\A d \in Devices : Pair(d) =>
          LET old == Built(home, toml)
              new == Built(home', toml)
          IN  \A i \in DOMAIN old :
                 \/ new[i].at = old[i].at /\ new[i].id = old[i].id
                 \/ \E j \in DOMAIN new \ {i} : old[i].id \in {new[j].id, new[j].default}]_vars
=============================================================================
