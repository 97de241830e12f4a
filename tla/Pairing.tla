------------------------------ MODULE Pairing ------------------------------
(***************************************************************************)
(* The pairing material of AiohomekitBackend and PairingStore: the keys an *)
(* accessory accepts, the aliases and handles a process holds in memory,   *)
(* pairings.json and its copy in the keyring, across pair, unpair, restarts *)
(* and failures.                                                           *)
(*                                                                         *)
(* A key stands for the Ed25519 material of one pairing.  A process runs   *)
(* at most one command per device (the daemon's lock key is the device id). *)
(* aiohomekit is external: remove_pairing drops the alias only when it     *)
(* succeeds, save_data replaces the file by the aliases in one step, and   *)
(* load_pairing accepts what finish() just returned.                       *)
(***************************************************************************)
EXTENDS Naturals, SequencesExt, FiniteSetsExt

CONSTANTS
    Procs,       \* processes that own a HomeKitClient: the daemon, a direct command
    Devices,     \* accessories
    NamesFor,    \* the aliases a user gives to a device
    NoAlias,     \* the alias of a command that has none
    Missing,     \* pairings.json does not exist, or the keyring holds nothing
    MaxKeys,     \* bound: successful pairings in a behaviour
    MaxImports,  \* bound: backups that are imported
    MaxFaults,   \* bound: kills, lost answers, failed writes and lost files
    MaxEvents    \* bound: pairings and faults together

Aliases == UNION {NamesFor[d] : d \in Devices}

ASSUME PairingAssumption ==
    /\ NamesFor \in [Devices -> SUBSET Aliases]
    /\ NoAlias \notin Aliases
    /\ MaxKeys \in Nat /\ MaxImports \in Nat /\ MaxFaults \in Nat /\ MaxEvents \in Nat

VARIABLES
    accessory,   \* the key a device accepts, 0 while it is not paired
    file,        \* pairings.json: its entries in order, or Missing
    keyring,     \* the keyring's copy
    up,          \* processes whose backend is started
    aliases,     \* Controller.aliases of a process
    handles,     \* _pairings of a process: the key it uses with a device
    op,          \* the command a process runs on a device
    keys,        \* keys made so far
    faults,      \* faults so far
    told,        \* what the last command on a device told its user
    exposed,     \* devices whose command was cut short or did not reach the keyring
    restored,    \* devices of which an imported backup was out of date
    displaced,   \* devices whose alias was given to another
    doubled,     \* devices that were paired again beside an entry under another alias
    backup,      \* what `pairings export` has written, or Missing
    imports      \* imports so far

memory == <<up, aliases, handles>>
disk == <<file, keyring>>
odds == <<displaced, doubled, restored>>
ghosts == <<told, exposed, odds>>
backups == <<backup, imports>>
vars == <<accessory, disk, memory, op, keys, faults, ghosts, backups>>

Keys == 0 .. MaxKeys
Entry == [alias : Aliases, device : Devices, key : Keys \ {0}]
Phases == {"idle", "asking", "paired", "removing", "removed", "kept", "pair_saved",
           "unpair_saved", "kept_saved"}
Idle == [phase |-> "idle", alias |-> NoAlias, key |-> 0]

Has(doc, d, k) == \E i \in DOMAIN doc : doc[i].device = d /\ doc[i].key = k
Names(doc, d) == \E i \in DOMAIN doc : doc[i].device = d
Bears(doc, d, a) == \E i \in DOMAIN doc : doc[i].device = d /\ doc[i].alias = a

\* dict assignment: an alias keeps its place, a new one goes to the end.
Put(doc, e) ==
    IF \E i \in DOMAIN doc : doc[i].alias = e.alias
    THEN [i \in DOMAIN doc |-> IF doc[i].alias = e.alias THEN e ELSE doc[i]]
    ELSE Append(doc, e)

\* Its removal: an alias occurs once.
Without(doc, a) ==
    IF \E i \in DOMAIN doc : doc[i].alias = a
    THEN RemoveAt(doc, CHOOSE i \in DOMAIN doc : doc[i].alias = a)
    ELSE doc

\* get_alias_for_device: the first entry of the device.
AliasOf(doc, d) == doc[Min({i \in DOMAIN doc : doc[i].device = d})].alias

\* Controller.pairings is keyed by device: the entry loaded last counts.
Handles(doc) ==
    [d \in Devices |-> IF Names(doc, d)
                       THEN doc[Max({i \in DOMAIN doc : doc[i].device = d})].key
                       ELSE 0]

\* ensure_file: what the file holds once it exists.
Materialised ==
    IF file # Missing THEN file ELSE IF keyring # Missing THEN keyring ELSE <<>>

Init ==
    /\ accessory = [d \in Devices |-> 0]
    /\ file = Missing /\ keyring = Missing
    /\ up = {}
    /\ aliases = [p \in Procs |-> <<>>]
    /\ handles = [p \in Procs |-> [d \in Devices |-> 0]]
    /\ op = [p \in Procs |-> [d \in Devices |-> Idle]]
    /\ keys = 0 /\ faults = 0
    /\ told = [d \in Devices |-> "nothing"]
    /\ exposed = {} /\ displaced = {} /\ doubled = {} /\ restored = {}
    /\ backup = Missing /\ imports = 0

Saved == {"pair_saved", "unpair_saved", "kept_saved"}

\* Between save_data and the keyring write the event loop runs nothing else.
Runs(p) == p \in up /\ \A d \in Devices : op[p][d].phase \notin Saved

Fault == faults < MaxFaults /\ keys + faults < MaxEvents /\ faults' = faults + 1

-----------------------------------------------------------------------------
(* The process. *)

\* Mutant: start does not fill _pairings.
LoadAliases(p) ==
    /\ file' = Materialised
    /\ aliases' = [aliases EXCEPT ![p] = file']
    /\ UNCHANGED handles

Load(p) ==
    /\ file' = Materialised
    /\ aliases' = [aliases EXCEPT ![p] = file']
    /\ handles' = [handles EXCEPT ![p] = Handles(file')]

Start(p) ==
    /\ p \notin up
    /\ up' = up \cup {p}
    /\ Load(p)
    /\ UNCHANGED <<accessory, keyring, op, keys, faults, ghosts>>

Ends(p) ==
    /\ up' = up \ {p}
    /\ aliases' = [aliases EXCEPT ![p] = <<>>]
    /\ handles' = [handles EXCEPT ![p] = [d \in Devices |-> 0]]
    /\ op' = [op EXCEPT ![p] = [d \in Devices |-> Idle]]
    /\ UNCHANGED <<accessory, disk, keys>>

\* The daemon stops its client after the last handler, a command after its action.
Stop(p) ==
    /\ p \in up
    /\ \A d \in Devices : op[p][d] = Idle
    /\ Ends(p)
    /\ UNCHANGED <<faults, ghosts>>

Kill(p) ==
    /\ p \in up
    /\ Fault
    /\ Ends(p)
    /\ exposed' = exposed \cup {d \in Devices : op[p][d] # Idle}
    /\ UNCHANGED <<told, odds>>

-----------------------------------------------------------------------------
(* pair *)

\* Mutant: the alias does not reach the backend.
BeginNameless(p, d, phase, a) ==
    /\ op' = [op EXCEPT ![p][d] = [phase |-> phase, alias |-> NoAlias, key |-> 0]]
    /\ told' = [told EXCEPT ![d] = "nothing"]

Begin(p, d, phase, a) ==
    /\ op' = [op EXCEPT ![p][d] = [phase |-> phase, alias |-> a, key |-> 0]]
    /\ told' = [told EXCEPT ![d] = "nothing"]

\* _find_discovery finds the device, and its advert says that it is not paired:
\* otherwise the command ends in an error before it changes anything.
Discovered(d) == accessory[d] = 0

PairBegin(p, d) ==
    /\ Runs(p)
    /\ op[p][d] = Idle
    /\ Discovered(d)
    /\ keys < MaxKeys /\ keys + faults < MaxEvents
    /\ \E a \in NamesFor[d] : Begin(p, d, "asking", a)
    /\ UNCHANGED <<accessory, disk, memory, keys, faults, exposed, odds>>

AccessoryPairs(p, d) ==
    /\ op[p][d].phase = "asking"
    /\ accessory[d] = 0
    /\ keys < MaxKeys /\ keys + faults < MaxEvents
    /\ keys' = keys + 1
    /\ accessory' = [accessory EXCEPT ![d] = keys']
    /\ op' = [op EXCEPT ![p][d] = [phase |-> "paired", alias |-> @.alias, key |-> keys']]
    /\ UNCHANGED <<disk, memory, faults, ghosts>>

\* The PIN is wrong, the accessory refuses, or its answer does not come.
PairFails(p, d) ==
    /\ Runs(p)
    /\ \/ op[p][d].phase = "asking" /\ UNCHANGED <<faults, exposed>>
       \/ op[p][d].phase = "paired" /\ Fault /\ exposed' = exposed \cup {d}
    /\ op' = [op EXCEPT ![p][d] = Idle]
    /\ UNCHANGED <<accessory, disk, memory, keys, told, odds>>

\* Mutant: load_pairing is left out and the alias never registered.
RecordsHandle(p, d) ==
    /\ Runs(p)
    /\ op[p][d].phase = "paired"
    /\ handles' = [handles EXCEPT ![p][d] = op[p][d].key]
    /\ file' = aliases[p]
    /\ op' = [op EXCEPT ![p][d].phase = "pair_saved"]
    /\ UNCHANGED <<accessory, keyring, up, aliases, keys, faults, ghosts>>

\* load_pairing registers the alias, and save_data writes what is registered.
PairRecords(p, d) ==
    /\ Runs(p)
    /\ op[p][d].phase = "paired"
    /\ aliases' = [aliases EXCEPT ![p] =
           Put(@, [alias |-> op[p][d].alias, device |-> d, key |-> op[p][d].key])]
    /\ handles' = [handles EXCEPT ![p][d] = op[p][d].key]
    /\ file' = aliases'[p]
    /\ op' = [op EXCEPT ![p][d].phase = "pair_saved"]
    /\ displaced' = (displaced \cup {e \in Devices : Bears(aliases[p], e, op[p][d].alias)}) \ {d}
    /\ doubled' = IF \E i \in DOMAIN aliases[p] : /\ aliases[p][i].device = d
                                                 /\ aliases[p][i].alias # op[p][d].alias
                  THEN doubled \cup {d} ELSE doubled
    /\ restored' = restored \ {d}
    /\ UNCHANGED <<accessory, keyring, up, keys, faults, told, exposed>>

-----------------------------------------------------------------------------
(* unpair *)

\* A device with no entry raises NotPairedError once the file is there.
UnpairBegin(p, d) ==
    /\ Runs(p)
    /\ op[p][d] = Idle
    /\ file' = Materialised
    /\ IF Names(file', d)
       THEN Begin(p, d, "removing", AliasOf(file', d))
       ELSE UNCHANGED <<op, told>>
    /\ UNCHANGED <<accessory, keyring, memory, keys, faults, exposed, odds>>

\* The accessory takes the removal from the owner of its key.
Accepts(p, d) ==
    /\ accessory[d] # 0
    /\ \E i \in DOMAIN aliases[p] :
          aliases[p][i].alias = op[p][d].alias /\ aliases[p][i].key = accessory[d]

Removed(p, d) ==
    /\ Runs(p)
    /\ op[p][d].phase = "removing"
    /\ Accepts(p, d)
    /\ accessory' = [accessory EXCEPT ![d] = 0]
    /\ aliases' = [aliases EXCEPT ![p] = Without(@, op[p][d].alias)]
    /\ op' = [op EXCEPT ![p][d].phase = "removed"]
    /\ UNCHANGED <<disk, up, handles, keys, faults, ghosts>>

\* Mutant: the alias is dropped although the accessory did not answer.
ForgetsAnyway(p, d) ==
    /\ Runs(p)
    /\ op[p][d].phase = "removing"
    /\ Fault
    /\ aliases' = [aliases EXCEPT ![p] = Without(@, op[p][d].alias)]
    /\ op' = [op EXCEPT ![p][d].phase = "removed"]
    /\ UNCHANGED <<accessory, disk, up, handles, keys, ghosts>>

\* The exception is logged and swallowed and the alias stays: the key is no
\* longer good, the request is lost (a fault), or only its answer is.
RemoveFails(p, d) ==
    /\ Runs(p)
    /\ op[p][d].phase = "removing"
    /\ \/ ~Accepts(p, d) /\ UNCHANGED <<accessory, faults>>
       \/ Fault /\ UNCHANGED accessory
       \/ Accepts(p, d) /\ Fault /\ accessory' = [accessory EXCEPT ![d] = 0]
    /\ op' = [op EXCEPT ![p][d].phase = "kept"]
    /\ UNCHANGED <<disk, memory, keys, ghosts>>

UnpairRecords(p, d) ==
    /\ Runs(p)
    /\ op[p][d].phase \in {"removed", "kept"}
    /\ handles' = [handles EXCEPT ![p][d] = 0]
    /\ file' = aliases[p]
    /\ op' = [op EXCEPT ![p][d].phase =
                  IF @ = "removed" THEN "unpair_saved" ELSE "kept_saved"]
    /\ restored' = IF op[p][d].phase = "removed" THEN restored \ {d} ELSE restored
    /\ UNCHANGED <<accessory, keyring, up, aliases, keys, faults, told, exposed, displaced, doubled>>

-----------------------------------------------------------------------------
(* sync_to_secure_store, and the return of the command *)

Answer(p, d) ==
    told' = [told EXCEPT ![d] = CASE op[p][d].phase = "pair_saved" -> "paired"
                                  [] op[p][d].phase = "unpair_saved" -> "unpaired"
                                  [] OTHER -> "kept"]

\* Mutant: only pair syncs the keyring.
MirrorsPairs(p, d) ==
    /\ file # Missing
    /\ keyring' = IF op[p][d].phase = "pair_saved" THEN file ELSE keyring
    /\ exposed' = IF op[p][d].phase = "kept_saved" THEN exposed ELSE exposed \ {d}
    /\ UNCHANGED faults

Mirrors(p, d) ==
    /\ file # Missing
    /\ keyring' = file
    /\ exposed' = IF op[p][d].phase = "kept_saved" THEN exposed ELSE exposed \ {d}
    /\ UNCHANGED faults

\* The file is gone, or the keyring refuses the write: a warning.
MirrorFails(d) ==
    /\ \/ file = Missing /\ UNCHANGED faults
       \/ file # Missing /\ Fault
    /\ exposed' = exposed \cup {d}
    /\ UNCHANGED keyring

Returns(p, d) ==
    /\ op[p][d].phase \in Saved
    /\ Mirrors(p, d) \/ MirrorFails(d)
    /\ Answer(p, d)
    /\ op' = [op EXCEPT ![p][d] = Idle]
    /\ UNCHANGED <<accessory, file, memory, keys, odds>>

-----------------------------------------------------------------------------
(* The world. *)

\* The vendor's reset makes the accessory forget its controller.
Reset(d) ==
    /\ accessory[d] # 0
    /\ accessory' = [accessory EXCEPT ![d] = 0]
    /\ told' = [told EXCEPT ![d] = "nothing"]
    /\ UNCHANGED <<disk, memory, op, keys, faults, exposed, odds>>

LoseFile ==
    /\ file # Missing
    /\ Fault
    /\ file' = Missing
    /\ UNCHANGED <<accessory, keyring, memory, op, keys, ghosts>>

\* `pairings export` copies the file.
Export ==
    /\ file # Missing /\ imports < MaxImports
    /\ backup' = file
    /\ UNCHANGED <<accessory, disk, memory, op, keys, faults, ghosts, imports>>

\* `pairings import` replaces the file, beside a daemon that may be running, and leaves
\* the keyring as it is.
Import ==
    /\ backup # Missing /\ imports < MaxImports
    /\ imports' = imports + 1
    /\ file' = backup
    /\ restored' = restored \cup {d \in Devices :
           ~Has(backup, d, accessory[d]) /\ (accessory[d] # 0 \/ Names(backup, d))}
    /\ UNCHANGED <<accessory, keyring, memory, op, keys, faults, told, exposed, displaced, doubled, backup>>

Command(p, d) ==
    \/ PairBegin(p, d)
    \/ AccessoryPairs(p, d)
    \/ PairFails(p, d)
    \/ PairRecords(p, d)
    \/ UnpairBegin(p, d)
    \/ Removed(p, d)
    \/ RemoveFails(p, d)
    \/ UnpairRecords(p, d)
    \/ Returns(p, d)

Step ==
    \/ \E p \in Procs : Start(p) \/ Stop(p) \/ Kill(p)
    \/ \E p \in Procs, d \in Devices : Command(p, d)
    \/ \E d \in Devices : Reset(d)
    \/ LoseFile

Next == (Step /\ UNCHANGED backups) \/ Export \/ Import

Spec == Init /\ [][Next]_vars

-----------------------------------------------------------------------------
(* Properties. *)

Doc == Seq(Entry)

TypeOK ==
    /\ accessory \in [Devices -> Keys]
    /\ file \in Doc \cup {Missing} /\ keyring \in Doc \cup {Missing}
    /\ up \subseteq Procs
    /\ aliases \in [Procs -> Doc]
    /\ handles \in [Procs -> [Devices -> Keys]]
    /\ op \in [Procs -> [Devices -> [phase : Phases, alias : Aliases \cup {NoAlias},
                                     key : Keys]]]
    /\ keys \in Keys /\ faults \in 0 .. MaxFaults
    /\ told \in [Devices -> {"nothing", "paired", "unpaired", "kept"}]
    /\ exposed \subseteq Devices /\ displaced \subseteq Devices /\ doubled \subseteq Devices
    /\ restored \subseteq Devices
    /\ backup \in Doc \cup {Missing} /\ imports \in 0 .. MaxImports

\* pair has answered, everything was written, no other device has been given the alias,
\* and the accessory still trusts us.
Answered(d) ==
    told[d] = "paired" /\ d \notin exposed \cup displaced \cup restored /\ accessory[d] # 0

\* Once pair has answered and reached the keyring, the accessory's key is in the
\* file, or comes back from the keyring when the file is lost: through other
\* commands, kills, failed keyring writes, imported backups and restarts.
KeysRecoverable ==
    \A d \in Devices : Answered(d) => Has(Materialised, d, accessory[d])

\* A device whose pair has answered is reached with the key it accepts, by the
\* process that paired it and by every later one, unless it was paired again under another
\* alias: then the entry that comes last in the file wins, even the older one.
KeysUsable ==
    \A p \in up, d \in Devices :
        Answered(d) /\ d \notin doubled => handles[p][d] = accessory[d]

\* An accessory that trusts a key is never left with nobody who holds it, a
\* failed unpair included: only a command that was cut short, or whose keyring
\* write failed, an old backup, or its alias given to another device may lose it.
NeverStranded ==
    \A d \in Devices :
        accessory[d] # 0 /\ d \notin exposed \cup displaced \cup restored =>
            \/ Has(Materialised, d, accessory[d])
            \/ \E p \in Procs : /\ op[p][d].phase \in {"paired", "pair_saved"}
                              /\ op[p][d].key = accessory[d]

\* A device that was unpaired on both sides is not hydrated back from an old copy, unless
\* it had an entry under another alias.
StaysForgotten ==
    \A d \in Devices :
        told[d] = "unpaired" /\ d \notin exposed \cup doubled \cup restored => ~Names(Materialised, d)
=============================================================================
