--------------------------- MODULE Subscriptions ---------------------------
(***************************************************************************)
(* HAP events on their way to listeners: HomeKitClient.listen, its one     *)
(* forwarder task per device, AiohomekitBackend.subscribe, and the         *)
(* accessory's event flags, which the listeners of a process share.        *)
(*                                                                         *)
(* aiohomekit is external: a pairing keeps one set of subscriptions, with  *)
(* no count of who asked, and calls every connected callback with every    *)
(* event of its accessory.  A point is a characteristic; its value is the  *)
(* number of its changes.  Code between two awaits is one step.            *)
(***************************************************************************)
EXTENDS Naturals, SequencesExt, FiniteSets

CONSTANTS
    Listeners,   \* calls of listen, by the daemon's streams or a command
    Devices,
    Points,      \* the primary characteristics of the entities
    DeviceOf,    \* the device of a point
    Wishes,      \* the sets of points a listener may ask for
    MaxListens,  \* bound: calls of listen
    LastValue,   \* bound: changes of a point
    MaxChanges,  \* bound: changes of all points together
    MaxFaults    \* bound: subscribe and unsubscribe calls that fail

ASSUME SubscriptionsAssumption ==
    /\ DeviceOf \in [Points -> Devices]
    /\ Wishes \subseteq SUBSET Points
    /\ LastValue \in [Points -> Nat]
    /\ MaxChanges \in Nat /\ MaxListens \in Nat /\ MaxFaults \in Nat

VARIABLES
    phase,       \* a listener: "idle", "listening" or "leaving"
    want,        \* the points it asked for
    pc,          \* where its forwarder of a device is
    inner,       \* the queue in subscribe that the dispatcher callback fills
    yielded,     \* what its forwarders have put into listen's queue, which it yields in order
    subscribed,  \* points whose event flag is set at the accessory
    callbacks,   \* <<listener, device>> whose _push is connected
    wire,        \* events of a device that are not dispatched yet
    value,       \* changes of a point so far
    listens,     \* calls of listen so far
    faults,
    since,       \* history: a point's value when the listener's callback was connected
    shed,        \* history: <<listener, point>> whose flag another listener has cleared
    stuck        \* history: points whose unsubscription failed or was never asked for

tasks == <<phase, want, pc>>
queues == <<inner, yielded>>
pairing == <<subscribed, callbacks>>
vars == <<tasks, queues, pairing, wire, value, listens, faults, since, shed, stuck>>

Event == [point : Points, value : Nat]
Live == {"ready", "subscribing", "answering", "forwarding", "unsubscribing"}

Wanted(l, d) == {p \in want[l] : DeviceOf[p] = d}
Changes == FoldFunctionOnSet(LAMBDA n, m : n + m, 0, value, Points)
Fault == faults < MaxFaults /\ faults' = faults + 1
Goes(l, d, to) == pc' = [pc EXCEPT ![l][d] = to]

Init ==
    /\ phase = [l \in Listeners |-> "idle"]
    /\ want = [l \in Listeners |-> {}]
    /\ pc = [l \in Listeners |-> [d \in Devices |-> "none"]]
    /\ inner = [l \in Listeners |-> [d \in Devices |-> <<>>]]
    /\ yielded = [l \in Listeners |-> <<>>]
    /\ subscribed = {} /\ callbacks = {}
    /\ wire = [d \in Devices |-> <<>>]
    /\ value = [p \in Points |-> 0]
    /\ listens = 0 /\ faults = 0
    /\ since = [l \in Listeners |-> [p \in Points |-> 0]]
    /\ shed = {} /\ stuck = {}

-----------------------------------------------------------------------------
(* listen. *)

\* The entities are resolved and their points grouped; every device gets a task.
Listen(l) ==
    /\ phase[l] = "idle" /\ listens < MaxListens
    /\ listens' = listens + 1
    /\ \E w \in Wishes :
         /\ want' = [want EXCEPT ![l] = w]
         /\ pc' = [pc EXCEPT ![l] = [d \in Devices |->
                      IF \E p \in w : DeviceOf[p] = d THEN "ready" ELSE "none"]]
    /\ phase' = [phase EXCEPT ![l] = "listening"]
    /\ UNCHANGED <<queues, pairing, wire, value, faults, since, shed, stuck>>

\* The generator is closed or cancelled: every forwarder is cancelled.
Leave(l) ==
    /\ phase[l] = "listening"
    /\ phase' = [phase EXCEPT ![l] = "leaving"]
    /\ yielded' = [yielded EXCEPT ![l] = <<>>]
    /\ UNCHANGED <<want, pc, inner, pairing, wire, value, listens, faults, since, shed, stuck>>

\* All of them have been awaited: the generator is done, and a new call may begin.
Left(l) ==
    /\ phase[l] = "leaving"
    /\ \A d \in Devices : pc[l][d] \notin Live
    /\ phase' = [phase EXCEPT ![l] = "idle"]
    /\ want' = [want EXCEPT ![l] = {}]
    /\ pc' = [pc EXCEPT ![l] = [d \in Devices |-> "none"]]
    /\ UNCHANGED <<queues, pairing, wire, value, listens, faults, since, shed, stuck>>

-----------------------------------------------------------------------------
(* A forwarder and its subscribe. *)

Listening(l, d, at) == phase[l] = "listening" /\ pc[l][d] = at

\* The task's first step, up to the await of pairing.subscribe.
Subscribes(l, d) ==
    /\ Listening(l, d, "ready")
    /\ Goes(l, d, "subscribing")
    /\ UNCHANGED <<phase, want, queues, pairing, wire, value, listens, faults, since, shed, stuck>>

\* The accessory sets the event flags; its answer is still to come.
Flagged(l, d) ==
    /\ Listening(l, d, "subscribing")
    /\ subscribed' = subscribed \cup Wanted(l, d)
    /\ Goes(l, d, "answering")
    /\ shed' = shed \ ({l} \X Wanted(l, d))
    /\ UNCHANGED <<phase, want, queues, callbacks, wire, value, listens, faults, since, stuck>>

\* subscribe returns and the callback is connected without another await.
Connected(l, d) ==
    /\ Listening(l, d, "answering")
    /\ callbacks' = callbacks \cup {<<l, d>>}
    /\ since' = [since EXCEPT ![l] = [p \in Points |->
                    IF p \in Wanted(l, d) THEN value[p] ELSE since[l][p]]]
    /\ Goes(l, d, "forwarding")
    /\ UNCHANGED <<phase, want, queues, subscribed, wire, value, listens, faults, shed, stuck>>

\* subscribe raises, the flags set or not: the task is over and the listener not told.
SubscribeFails(l, d) ==
    /\ phase[l] = "listening" /\ pc[l][d] \in {"subscribing", "answering"}
    /\ Fault
    /\ stuck' = stuck \cup Wanted(l, d)
    /\ Goes(l, d, "failed")
    /\ UNCHANGED <<phase, want, queues, pairing, wire, value, listens, since, shed>>

\* Mutant: the forwarder ends after its first event.
ForwardsOnce(l, d) == yielded[l] = <<>>

\* The loop over the stream goes on for as long as there are events.
GoesOn(l, d) == pc[l][d] = "forwarding"

\* An event moves from subscribe's queue to listen's, whose consumer takes it.
Forward(l, d) ==
    /\ Listening(l, d, "forwarding") /\ inner[l][d] # <<>> /\ GoesOn(l, d)
    /\ yielded' = [yielded EXCEPT ![l] = Append(@, Head(inner[l][d]))]
    /\ inner' = [inner EXCEPT ![l][d] = Tail(@)]
    /\ UNCHANGED <<tasks, pairing, wire, value, listens, faults, since, shed, stuck>>

-----------------------------------------------------------------------------
(* A forwarder that was cancelled. *)

Cancelled(l, d, at) == phase[l] = "leaving" /\ pc[l][d] = at

\* Not started, or before subscribe has returned: no finally block has been entered.
\* The request on its way may still have reached the accessory.
CutShort(l, d) ==
    /\ \E at \in {"ready", "subscribing", "answering"} : Cancelled(l, d, at)
    /\ \/ UNCHANGED subscribed
       \/ pc[l][d] = "subscribing" /\ subscribed' = subscribed \cup Wanted(l, d)
    /\ stuck' = IF pc[l][d] = "ready" THEN stuck ELSE stuck \cup Wanted(l, d)
    /\ Goes(l, d, "ended")
    /\ UNCHANGED <<phase, want, queues, callbacks, wire, value, listens, faults, since, shed>>

\* Mutant: only the callback is removed.
DisconnectOnly(l, d) == Goes(l, d, "ended") /\ callbacks' = callbacks \ {<<l, d>>}

\* subscribe's finally block up to the await of pairing.unsubscribe.
Disconnect(l, d) == Goes(l, d, "unsubscribing") /\ callbacks' = callbacks \ {<<l, d>>}

Unwinds(l, d) ==
    /\ Cancelled(l, d, "forwarding")
    /\ Disconnect(l, d)
    /\ inner' = [inner EXCEPT ![l][d] = <<>>]
    /\ since' = [since EXCEPT ![l] = [p \in Points |->
                    IF p \in Wanted(l, d) THEN 0 ELSE since[l][p]]]
    /\ shed' = shed \ ({l} \X Wanted(l, d))
    /\ UNCHANGED <<phase, want, yielded, subscribed, wire, value, listens, faults, stuck>>

\* Mutant: the flags of the whole device are cleared.
AllOfDevice(l, d) == {p \in Points : DeviceOf[p] = d}

\* The points that subscribe was called with.
Given(l, d) == Wanted(l, d)

\* The accessory clears the flags, whoever else asked for them.
Clears(l, d) ==
    /\ subscribed' = subscribed \ Given(l, d)
    /\ shed' = shed \cup {s \in (Listeners \ {l}) \X Wanted(l, d) :
                              /\ s[2] \in want[s[1]]
                              /\ phase[s[1]] = "listening"
                              /\ pc[s[1]][d] \in {"answering", "forwarding"}}

\* unsubscribe returns, or raises with the flags cleared or not: logged, and over.
Unsubscribed(l, d) ==
    /\ Cancelled(l, d, "unsubscribing")
    /\ \/ Clears(l, d) /\ UNCHANGED <<faults, stuck>>
       \/ Clears(l, d) /\ Fault /\ UNCHANGED stuck
       \/ Fault /\ stuck' = stuck \cup Wanted(l, d) /\ UNCHANGED <<subscribed, shed>>
    /\ Goes(l, d, "ended")
    /\ UNCHANGED <<phase, want, queues, callbacks, wire, value, listens, since>>

-----------------------------------------------------------------------------
(* The accessories and aiohomekit's dispatcher. *)

\* A characteristic changes: the accessory notifies if the flag is set.
Change(p) ==
    /\ value[p] < LastValue[p] /\ Changes < MaxChanges
    /\ value' = [value EXCEPT ![p] = @ + 1]
    /\ wire' = IF p \in subscribed
               THEN [wire EXCEPT ![DeviceOf[p]] = Append(@, [point |-> p, value |-> value'[p]])]
               ELSE wire
    /\ UNCHANGED <<tasks, queues, pairing, listens, faults, since, shed, stuck>>

\* Mutant: the queue has room for one event, and put_nowait drops what does not fit.
PutIfEmpty(q, e) == IF q = <<>> THEN <<e>> ELSE q

\* Mutant: the event names its device in place of the characteristic.
PutUnnamed(q, e) == Append(q, [e EXCEPT !.point = DeviceOf[e.point]])

\* put_nowait on an unbounded queue.
PutNowait(q, e) == Append(q, e)

\* Every callback of the device gets the event, whatever its listener asked for.
Dispatch(d) ==
    /\ wire[d] # <<>>
    /\ inner' = [l \in Listeners |->
                    IF <<l, d>> \in callbacks
                    THEN [inner[l] EXCEPT ![d] = PutNowait(@, Head(wire[d]))]
                    ELSE inner[l]]
    /\ wire' = [wire EXCEPT ![d] = Tail(@)]
    /\ UNCHANGED <<tasks, yielded, pairing, value, listens, faults, since, shed, stuck>>

-----------------------------------------------------------------------------
Forwarder(l, d) ==
    \/ Subscribes(l, d) \/ Flagged(l, d) \/ Connected(l, d) \/ Forward(l, d)
    \/ CutShort(l, d) \/ Unwinds(l, d) \/ Unsubscribed(l, d)

Next ==
    \/ \E l \in Listeners : Listen(l) \/ Leave(l) \/ Left(l)
    \/ \E l \in Listeners, d \in Devices : Forwarder(l, d) \/ SubscribeFails(l, d)
    \/ \E p \in Points : Change(p)
    \/ \E d \in Devices : Dispatch(d)

Spec == Init /\ [][Next]_vars

\* The event loop runs what is ready.  That calls into the accessory end, by an answer
\* or a timeout, is aiohomekit's.
Fairness ==
    /\ \A l \in Listeners : WF_vars(Left(l))
    /\ \A l \in Listeners, d \in Devices : WF_vars(Forwarder(l, d))
    /\ \A d \in Devices : WF_vars(Dispatch(d))

FairSpec == Spec /\ Fairness

-----------------------------------------------------------------------------
(* Properties. *)

TypeOK ==
    /\ phase \in [Listeners -> {"idle", "listening", "leaving"}]
    /\ want \in [Listeners -> SUBSET Points]
    /\ pc \in [Listeners -> [Devices -> Live \cup {"none", "failed", "ended"}]]
    /\ inner \in [Listeners -> [Devices -> Seq(Event)]]
    /\ yielded \in [Listeners -> Seq(Event)]
    /\ subscribed \subseteq Points /\ callbacks \subseteq Listeners \X Devices
    /\ wire \in [Devices -> Seq(Event)]
    /\ value \in [Points -> Nat] /\ listens \in 0 .. MaxListens /\ faults \in 0 .. MaxFaults
    /\ since \in [Listeners -> [Points -> Nat]]
    /\ shed \subseteq Listeners \X Points /\ stuck \subseteq Points

\* The events of p in s beyond the change numbered first are the changes from + 1 .. to, once
\* each and in order.
Carries(s, p, first, from, to) ==
    LET Due(i) == s[i].point = p /\ s[i].value > first IN
    /\ \A i \in 1..Len(s) : Due(i) => s[i].value \in from + 1 .. to
    /\ \A n \in from + 1 .. to : \E i \in 1..Len(s) : Due(i) /\ s[i].value = n
    /\ \A i, j \in 1..Len(s) : Due(i) /\ Due(j) /\ i < j => s[i].value < s[j].value

\* l is connected to p's device, and nobody has taken the flag it set from it.
Attends(l, p) ==
    /\ phase[l] = "listening" /\ <<l, DeviceOf[p]>> \in callbacks
    /\ p \in want[l] /\ <<l, p>> \notin shed

\* A connected listener is given every change of the points it asked for, once and
\* in order, whatever else is subscribed, dispatched and forwarded meanwhile: the one
\* exception is another listener that left and took the event flag with it.
NothingMissed ==
    \A l \in Listeners, p \in Points : Attends(l, p) =>
        Carries(yielded[l] \o inner[l][DeviceOf[p]] \o wire[DeviceOf[p]], p, since[l][p],
                since[l][p], value[p])

\* Who has left leaves nothing behind: an event flag is set for somebody who still
\* listens, or the unsubscription failed or the listener was cancelled while it
\* subscribed, and nobody's callback outlives its forwarder.
LeavesNothing ==
    /\ \A p \in subscribed \ stuck : \E l \in Listeners :
          p \in want[l] /\ pc[l][DeviceOf[p]] \in {"answering", "forwarding", "unsubscribing"}
    /\ \A s \in callbacks : pc[s[1]][s[2]] = "forwarding"

\* What the accessory sends comes through to every listener that is connected and stays
\* (README.md: real-time): with MaxChanges changes the queues are empty in the end.
EventsArrive ==
    <>[](\A s \in callbacks :
            phase[s[1]] = "listening" => wire[s[2]] = <<>> /\ inner[s[1]][s[2]] = <<>>)
=============================================================================
