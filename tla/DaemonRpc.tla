------------------------------ MODULE DaemonRpc ------------------------------
(***************************************************************************)
(* DaemonRpcClient (src/homekit/daemon/client.py): one socket to the       *)
(* daemon, many calls and listen streams at once.  A reader task           *)
(* demultiplexes what the daemon writes: answers to the futures of the     *)
(* calls, events to the queues of the streams.                             *)
(*                                                                         *)
(* The daemon is here what its clients rely on: it takes the frames of a   *)
(* connection in order, answers each call once, and runs the streams       *)
(* beside them (DaemonServer has the whole of it).  A task makes one       *)
(* request.                                                                *)
(***************************************************************************)
EXTENDS Naturals, Sequences, FiniteSets

CONSTANTS
    Calls,      \* the tasks that await one call() each
    Streams,    \* the tasks that consume one stream() each
    NoTask,     \* no task
    MaxEvents,  \* bound: events the daemon sends to one stream
    MaxOpens,   \* bound: how often connect() opens the socket
    LongLines   \* whether a result may be longer than the reader's line limit

Tasks == Calls \cup Streams

ASSUME RpcAssumption ==
    /\ IsFiniteSet(Tasks) /\ Calls \cap Streams = {}
    /\ NoTask \notin Tasks
    /\ MaxEvents \in Nat /\ MaxOpens \in Nat
    /\ LongLines \in BOOLEAN

VARIABLES
    socket,   \* _reader and _writer: "none", "open" or "closing" (writer.close() was called)
    opens,    \* how often the socket was opened
    reader,   \* _reader_task: "none", "running" or "ended"
    closer,   \* where close() is: "idle", or awaiting the "reader" or the "writer"
    lastId,   \* the last id drawn from _ids
    id,       \* the id of each task's request, 0 before it makes it
    pending,  \* _pending: the call that waits under an id
    streams,  \* _streams: the stream that listens under an id
    state,    \* where a task is: "idle", "waiting", or how its request came out
    reply,    \* the task whose request the frame that settled a call answered
    inbox,    \* the queue of each stream
    seen,     \* the events a stream has yielded
    up,       \* frames on their way to the daemon
    down,     \* frames on their way to the client
    daemon,   \* the daemon's end of the connection: "open" or "closed"
    live,     \* the streams the daemon runs for the connection
    sent      \* how many events the daemon has sent to each stream

connVars   == <<socket, opens, reader, closer>>
tableVars  == <<lastId, id, pending, streams>>
taskVars   == <<state, reply, inbox, seen>>
daemonVars == <<daemon, live, sent>>
vars == <<connVars, tableVars, taskVars, up, down, daemonVars>>

\* Every task draws one id.
Ids == 1..Cardinality(Tasks)
Table == [Ids -> Tasks \cup {NoTask}]

Item == [kind : {"event", "end", "closed"}, n : 0..MaxEvents]
Request == [kind : {"call", "listen", "cancel"}, id : Ids, of : Tasks]
Frame == [kind : {"result", "long", "error", "event", "end"}, id : Ids, of : Tasks, n : 0..MaxEvents]

TypeOK ==
    /\ socket \in {"none", "open", "closing"} /\ opens \in 0..MaxOpens
    /\ reader \in {"none", "running", "ended"} /\ closer \in {"idle", "reader", "writer"}
    /\ lastId \in 0..Cardinality(Tasks) /\ id \in [Tasks -> Ids \cup {0}]
    /\ pending \in Table /\ streams \in Table
    /\ state \in [Tasks -> {"idle", "waiting", "result", "error", "end", "closed", "failed", "left"}]
    /\ reply \in [Tasks -> Tasks \cup {NoTask}]
    /\ inbox \in [Streams -> Seq(Item)] /\ seen \in [Streams -> Seq(1..MaxEvents)]
    /\ up \in Seq(Request) /\ down \in Seq(Frame)
    /\ daemon \in {"open", "closed"} /\ live \subseteq [id : Ids, of : Tasks]
    /\ sent \in [Streams -> 0..MaxEvents]

Init ==
    /\ socket = "none" /\ opens = 0 /\ reader = "none" /\ closer = "idle"
    /\ lastId = 0 /\ id = [t \in Tasks |-> 0]
    /\ pending = [i \in Ids |-> NoTask] /\ streams = [i \in Ids |-> NoTask]
    /\ state = [t \in Tasks |-> "idle"] /\ reply = [t \in Tasks |-> NoTask]
    /\ inbox = [t \in Streams |-> <<>>] /\ seen = [t \in Streams |-> <<>>]
    /\ up = <<>> /\ down = <<>>
    /\ daemon = "closed" /\ live = {} /\ sent = [t \in Streams |-> 0]

-----------------------------------------------------------------------------
(* Connecting, calling and streaming. *)

\* connect() does nothing on an open client; else it opens the socket and starts the reader.
Connect ==
    /\ socket = "none" /\ closer = "idle" /\ opens < MaxOpens
    /\ socket' = "open" /\ reader' = "running" /\ opens' = opens + 1
    /\ daemon' = "open"
    /\ UNCHANGED <<closer, tableVars, taskVars, up, down, live, sent>>

\* A frame written now goes out; otherwise write_frame raises, as the first send on a
\* socket whose other end is gone does, and the drain of a closing transport.
Writable == socket = "open" /\ daemon = "open"

Write(frame) == up' = IF Writable THEN Append(up, frame) ELSE up

\* Mutant: the counter is read before it is advanced, from zero.
ZeroFirst == lastId

\* Mutant: ids are handed out again when the tables have room.
SmallestId == Cardinality({i \in Ids : pending[i] # NoTask \/ streams[i] # NoTask}) + 1

NextId == lastId + 1

\* The common head of call() and stream(): an id, a table entry, a frame.  If the write
\* raises, the entry stays behind.
Begin(t, kind) ==
    /\ state[t] = "idle" /\ socket # "none"
    /\ lastId' = lastId + 1
    /\ id' = [id EXCEPT ![t] = NextId]
    /\ Write([kind |-> kind, id |-> NextId, of |-> t])
    /\ state' = [state EXCEPT ![t] = IF Writable THEN "waiting" ELSE "failed"]
    /\ UNCHANGED <<connVars, reply, inbox, seen, down, daemonVars>>

Call(t) ==
    /\ Begin(t, "call")
    /\ pending' = [pending EXCEPT ![NextId] = t]
    /\ UNCHANGED streams

Stream(t) ==
    /\ Begin(t, "listen")
    /\ streams' = [streams EXCEPT ![NextId] = t]
    /\ UNCHANGED pending

\* call() and stream() on a client without a connection raise at once.
NotConnected(t) ==
    /\ state[t] = "idle" /\ socket = "none"
    /\ state' = [state EXCEPT ![t] = "failed"]
    /\ UNCHANGED <<connVars, tableVars, reply, inbox, seen, up, down, daemonVars>>

\* A caller cancels its call: the future is done, its entry stays.
GiveUp(t) ==
    /\ state[t] = "waiting"
    /\ state' = [state EXCEPT ![t] = "left"]
    /\ UNCHANGED <<connVars, tableVars, reply, inbox, seen, up, down, daemonVars>>

-----------------------------------------------------------------------------
(* The reader task. *)

\* Mutant: the end of a stream clears what its consumer has not taken yet.
PutEndFirst(t, item) ==
    inbox' = [inbox EXCEPT ![t] = IF item.kind = "end" THEN <<item>> ELSE Append(@, item)]

Put(t, item) == inbox' = [inbox EXCEPT ![t] = Append(@, item)]

\* An event or an end goes to the queue of its stream, if that still listens.
DispatchToStream(f) ==
    /\ f.kind \in {"event", "end"}
    /\ IF streams[f.id] = NoTask THEN UNCHANGED inbox
       ELSE Put(streams[f.id], [kind |-> f.kind, n |-> f.n])
    /\ UNCHANGED <<tableVars, state, reply>>

\* Anything else settles the future of a pending call, unless the caller has gone: also
\* the error frame of a stream, for which no call is pending.
DispatchToCall(f) ==
    /\ f.kind \in {"result", "error"}
    /\ pending' = [pending EXCEPT ![f.id] = NoTask]
    /\ LET t == pending[f.id] IN
         IF t # NoTask /\ state[t] = "waiting"
         THEN state' = [state EXCEPT ![t] = f.kind] /\ reply' = [reply EXCEPT ![t] = f.of]
         ELSE UNCHANGED <<state, reply>>
    /\ UNCHANGED <<lastId, id, streams, inbox>>

\* The reader takes one frame; a cancelled reader takes no more.
ReadFrame ==
    /\ reader = "running" /\ closer # "reader" /\ down # <<>>
    /\ DispatchToStream(Head(down)) \/ DispatchToCall(Head(down))
    /\ down' = Tail(down)
    /\ UNCHANGED <<connVars, seen, up, daemonVars>>

\* Every pending call fails and the table is emptied.
FailPending ==
    /\ state' = [t \in Tasks |-> IF state[t] = "waiting" /\ \E i \in Ids : pending[i] = t
                                 THEN "closed" ELSE state[t]]
    /\ pending' = [i \in Ids |-> NoTask]

\* Mutant: the end of the reader is told to nobody.
FailNothing == UNCHANGED <<state, pending>>

\* What the reader's finally block does for the calls.
ReaderFails == FailPending

\* Mutant: the streams are not told, or no longer in the table when they are.
TellNobody == UNCHANGED inbox

\* Every registered stream is told that the connection is closed.
TellStreams ==
    inbox' = [t \in Streams |-> IF \E i \in Ids : streams[i] = t
                                THEN Append(inbox[t], [kind |-> "closed", n |-> 0]) ELSE inbox[t]]

\* The reader ends at the end of the file, when close() cancels it, or on a line longer
\* than its limit, for which readline raises ValueError.
ReaderEnds ==
    /\ reader = "running"
    /\ \/ closer = "reader"
       \/ down = <<>> /\ daemon = "closed"
       \/ down # <<>> /\ Head(down).kind = "long"
    /\ reader' = "ended"
    /\ ReaderFails /\ TellStreams
    /\ UNCHANGED <<socket, opens, closer, lastId, id, streams, reply, seen, up, down, daemonVars>>

-----------------------------------------------------------------------------
(* The consumers of streams. *)

\* The finally block of stream(): its entry goes, the daemon is told if it can be, and the
\* queue is gone with the generator.
Finish(t, how) ==
    /\ state' = [state EXCEPT ![t] = how]
    /\ streams' = [i \in Ids |-> IF i = id[t] THEN NoTask ELSE streams[i]]
    /\ Write([kind |-> "cancel", id |-> id[t], of |-> t])
    /\ inbox' = [inbox EXCEPT ![t] = <<>>]

\* The consumer takes the next item of its queue.
TakeItem(t) ==
    /\ state[t] = "waiting" /\ inbox[t] # <<>>
    /\ LET item == Head(inbox[t]) IN
         IF item.kind = "event"
         THEN /\ inbox' = [inbox EXCEPT ![t] = Tail(@)]
              /\ seen' = [seen EXCEPT ![t] = Append(@, item.n)]
              /\ UNCHANGED <<state, streams, up>>
         ELSE Finish(t, item.kind) /\ UNCHANGED seen
    /\ UNCHANGED <<connVars, lastId, id, pending, reply, down, daemonVars>>

\* The consumer leaves its loop, or is cancelled.
Leave(t) ==
    /\ state[t] = "waiting"
    /\ Finish(t, "left")
    /\ UNCHANGED <<connVars, lastId, id, pending, reply, seen, down, daemonVars>>

-----------------------------------------------------------------------------
(* close(): the reader is cancelled and awaited, then the writer, then all is cleared. *)

CloseBegins ==
    /\ socket = "open" /\ closer = "idle"
    /\ closer' = IF reader = "ended" THEN "writer" ELSE "reader"
    /\ socket' = IF reader = "ended" THEN "closing" ELSE socket
    /\ UNCHANGED <<opens, reader, tableVars, taskVars, up, down, daemonVars>>

CloseWriter ==
    /\ closer = "reader" /\ reader = "ended"
    /\ closer' = "writer" /\ socket' = "closing"
    /\ UNCHANGED <<opens, reader, tableVars, taskVars, up, down, daemonVars>>

CloseEnds ==
    /\ closer = "writer"
    /\ socket' = "none" /\ reader' = "none" /\ closer' = "idle"
    /\ FailPending /\ TellStreams
    /\ streams' = [i \in Ids |-> NoTask]
    /\ up' = <<>> /\ down' = <<>> /\ daemon' = "closed" /\ live' = {}
    /\ UNCHANGED <<opens, lastId, id, reply, seen, sent>>

-----------------------------------------------------------------------------
(* The daemon's end of the connection. *)

Receive(kind) ==
    /\ daemon = "open" /\ up # <<>> /\ Head(up).kind = kind
    /\ up' = Tail(up)

Reply(kind, r, n) == Append(down, [kind |-> kind, id |-> r.id, of |-> r.of, n |-> n])

\* A call gets one result or error.
AnswerCall ==
    /\ Receive("call")
    /\ \E kind \in {"result", "error"} \cup (IF LongLines THEN {"long"} ELSE {}) :
          down' = Reply(kind, Head(up), 0)
    /\ UNCHANGED <<connVars, tableVars, taskVars, daemonVars>>

StartListen ==
    /\ Receive("listen")
    /\ live' = live \cup {[id |-> Head(up).id, of |-> Head(up).of]}
    /\ UNCHANGED <<connVars, tableVars, taskVars, down, daemon, sent>>

StopListen ==
    /\ Receive("cancel")
    /\ live' = {s \in live : s.id # Head(up).id}
    /\ UNCHANGED <<connVars, tableVars, taskVars, down, daemon, sent>>

SendEvent(s) ==
    /\ daemon = "open" /\ sent[s.of] < MaxEvents
    /\ sent' = [sent EXCEPT ![s.of] = @ + 1]
    /\ down' = Reply("event", s, sent[s.of] + 1)
    /\ UNCHANGED <<connVars, tableVars, taskVars, up, daemon, live>>

\* A stream runs out of events or fails.
EndListen(s) ==
    /\ daemon = "open"
    /\ live' = live \ {s}
    /\ \E kind \in {"end", "error"} : down' = Reply(kind, s, 0)
    /\ UNCHANGED <<connVars, tableVars, taskVars, up, daemon, sent>>

\* The daemon stops, dies or gives the connection up: what it has not read is lost, what
\* it has written still arrives.
HangUp ==
    /\ daemon = "open"
    /\ daemon' = "closed" /\ live' = {} /\ up' = <<>>
    /\ UNCHANGED <<connVars, tableVars, taskVars, down, sent>>

-----------------------------------------------------------------------------
Reader == ReadFrame \/ ReaderEnds
Close == CloseWriter \/ CloseEnds
Daemon == AnswerCall \/ StartListen \/ StopListen

Next ==
    \/ Connect \/ CloseBegins \/ Close \/ Reader \/ Daemon \/ HangUp
    \/ \E t \in Calls : Call(t) \/ GiveUp(t)
    \/ \E t \in Streams : Stream(t) \/ TakeItem(t) \/ Leave(t)
    \/ \E t \in Tasks : NotConnected(t)
    \/ \E s \in live : SendEvent(s) \/ EndListen(s)

Spec == Init /\ [][Next]_vars

\* The event loop runs the reader, the consumers and close(); the daemon works its
\* requests off.  Nothing obliges it to send events, to end a stream or to hang up.
Fairness ==
    /\ WF_vars(Reader) /\ WF_vars(Close) /\ WF_vars(Daemon)
    /\ \A t \in Streams : WF_vars(TakeItem(t))

FairSpec == Spec /\ Fairness

-----------------------------------------------------------------------------
\* A call is only ever settled by the answer to its own request, also over several
\* connections of one client and beside streams that were left (docs/daemon.md: matched by id).
OwnReply == \A t \in Calls : state[t] \in {"result", "error"} => reply[t] = t

\* A stream yields the daemon's events in order and without a gap, and all of them before
\* it ends as the daemon ended it.
EventsInOrder ==
    \A t \in Streams :
        /\ \A i \in 1..Len(seen[t]) : seen[t][i] = i
        /\ state[t] = "end" => Len(seen[t]) = sent[t]

\* The reader has stopped at a line over its limit, on a connection still open.
Deaf == reader = "ended" /\ down # <<>> /\ Head(down).kind = "long"

\* A call comes back, however the daemon, close() and the reader's end interleave with it,
\* unless the reader has gone deaf.
CallsReturn == \A t \in Calls : state[t] = "waiting" ~> (state[t] # "waiting" \/ Deaf)

\* A stream on a connection the daemon has closed ends.
StreamsHearClose ==
    \A t \in Streams : (state[t] = "waiting" /\ daemon = "closed") ~> (state[t] # "waiting" \/ Deaf)

\* docs/daemon.md: callers see the same exceptions as in direct mode, those of a listen too.
StreamErrorsArrive ==
    \A t \in Streams :
        (state[t] = "waiting" /\ \E i \in 1..Len(down) : down[i].kind = "error" /\ down[i].of = t)
            ~> state[t] # "waiting"
=============================================================================
