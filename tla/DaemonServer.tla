---------------------------- MODULE DaemonServer ----------------------------
(***************************************************************************)
(* The homekit daemon: one asyncio process that serves line-delimited JSON *)
(* requests on a Unix socket (src/homekit/daemon/server.py) and tears      *)
(* itself down on a shutdown RPC, a signal or an idle timeout              *)
(* (src/homekit/daemon/main.py).                                           *)
(*                                                                         *)
(* The process is single threaded, so an action is a stretch of code       *)
(* between two points where a coroutine may be suspended.  A connection is *)
(* used once: "free" connections have not been opened yet.                 *)
(***************************************************************************)
EXTENDS Integers, Sequences, FiniteSets

CONSTANTS
    Conns,        \* the connections that may be opened during a behaviour
    Keys,         \* the strings that name a lock: entity ids, aliases, device ids
    NoKey,        \* the lock key of a request that takes no lock
    Methods,      \* the kinds of request the clients send
    MaxRequests,  \* bound: frames sent on one connection
    MaxFrames,    \* bound: frames sent on all connections together
    StopCauses,   \* what may stop the daemon besides the RPC: "idle", "signal"
    IdleTimeout,  \* idle_timeout_s, in ticks
    PollCap       \* the 30 s cap on the idle monitor's sleep, in ticks

ASSUME ConstAssumption ==
    /\ IsFiniteSet(Conns)
    /\ NoKey \notin Keys
    /\ Methods \subseteq {"ping", "shutdown", "listen", "cancel", "unknown", "garbage", "call"}
    /\ StopCauses \subseteq {"idle", "signal"}
    /\ MaxRequests \in Nat
    /\ MaxFrames \in Nat
    /\ IdleTimeout \in Nat
    /\ PollCap \in Nat \ {0}

VARIABLES
    peer,      \* the client's end of a connection: "absent", "open" or "gone"
    log,       \* every frame the client has written; a request's id is its place
    link,      \* the server's transport: "none", "open", "closing" or "down"
    taken,     \* how many frames the connection handler has read
    out,       \* the ids of the final frames (result, error or end) written back
    pc,        \* where the connection handler is
    streams,   \* active_streams: the ids of the listen tasks the handler tracks
    queue,     \* the asyncio.Lock of each key: its holder, then its waiters
    active,    \* _active_connections
    writers,   \* _writers
    age,       \* ticks since _last_activity, saturating at IdleTimeout
    sleep,     \* ticks left of the idle monitor's sleep
    quiet,     \* history: ticks since a handler was in its loop, saturating at IdleTimeout
    monitor,   \* the idle task: "sleeping", "fired" (it asked for the stop) or "done"
    shutdown,  \* _shutdown_event is set
    server,    \* _server: "listening", "closing" or "none"
    stage,     \* where main's _serve and its serve_forever task are
    signalled, \* stop_event: a SIGINT or SIGTERM has arrived
    backend    \* the shared HomeKitClient: "up", "stopping" or "stopped"

clientVars == <<peer, log>>
loopVars   == <<taken, out, streams, queue>>
countVars  == <<active, age, writers>>
clockVars  == <<sleep, quiet>>
stopVars   == <<server, stage, signalled, backend>>
idleVars   == <<clockVars, monitor, shutdown>>
vars == <<clientVars, link, loopVars, pc, countVars, idleVars, stopVars>>

Ids == 1..MaxRequests
Frame ==
    [method : Methods \ {"call", "cancel"}, arg : {NoKey}]
        \cup [method : Methods \cap {"call"}, arg : Keys \cup {NoKey}]
        \cup [method : Methods \cap {"cancel"}, arg : Ids]
Stoppers == {"serve", "main"}

\* The length of the idle monitor's sleep.
Period == IF IdleTimeout < PollCap THEN IdleTimeout ELSE PollCap

\* A handler inside the try block of _handle_connection or its finally.
InLoop(c) == pc[c] \in {"reading", "locking", "serving", "unwinding"}

\* The lock key of the request the handler is busy with.
KeyOf(c) == log[c][taken[c]].arg

\* The process runs until main's _serve returns.
Alive == stage["main"] # "done"

\* A frame written now reaches the client.
CanWrite(c) == link[c] = "open" /\ peer[c] = "open"

ClientOK ==
    /\ peer \in [Conns -> {"absent", "open", "gone"}]
    /\ log \in [Conns -> Seq(Frame)]

HandlerOK ==
    /\ link \in [Conns -> {"none", "open", "closing", "down"}]
    /\ taken \in [Conns -> Nat]
    /\ out \in [Conns -> Seq(Nat)]
    /\ pc \in [Conns -> {"free", "accepted", "reading", "locking", "serving", "unwinding",
                         "closed", "leaked"}]
    /\ streams \in [Conns -> SUBSET Nat]
    /\ queue \in [Keys -> Seq(Conns)]

CountOK == active \in Nat /\ writers \subseteq Conns /\ age \in 0..IdleTimeout

StopOK ==
    /\ sleep \in 0..Period /\ quiet \in 0..IdleTimeout
    /\ monitor \in {"sleeping", "fired", "done"}
    /\ shutdown \in BOOLEAN /\ signalled \in BOOLEAN
    /\ server \in {"listening", "closing", "none"}
    /\ stage \in [Stoppers -> {"wait", "join", "cancelIdle", "waitClosed", "stopClient", "done"}]
    /\ backend \in {"up", "stopping", "stopped"}

\* Among the types: the count of connections never goes negative.
TypeOK == ClientOK /\ HandlerOK /\ CountOK /\ StopOK

\* The daemon just after DaemonServer.start() returned to main's _run.
Init ==
    /\ peer = [c \in Conns |-> "absent"]
    /\ link = [c \in Conns |-> "none"]
    /\ log = [c \in Conns |-> <<>>]
    /\ taken = [c \in Conns |-> 0]
    /\ out = [c \in Conns |-> <<>>]
    /\ pc = [c \in Conns |-> "free"]
    /\ streams = [c \in Conns |-> {}]
    /\ queue = [k \in Keys |-> <<>>]
    /\ active = 0 /\ writers = {}
    /\ age = 0 /\ quiet = 0 /\ sleep = Period
    /\ monitor = "sleeping" /\ shutdown = FALSE /\ signalled = FALSE
    /\ server = "listening" /\ backend = "up"
    /\ stage = [t \in Stoppers |-> "wait"]

-----------------------------------------------------------------------------
(* The clients. *)

\* What a client of this protocol may write next: it cancels only a listen it has sent.
NextFrames(c) ==
    {f \in Frame : f.method = "cancel" => f.arg <= Len(log[c]) /\ log[c][f.arg].method = "listen"}

\* open_unix_connection succeeds while the socket listens; the event loop attaches the
\* transport and schedules the handler's task, whose first step is still to come.
Connect(c) ==
    /\ pc[c] = "free" /\ server = "listening"
    /\ pc' = [pc EXCEPT ![c] = "accepted"]
    /\ peer' = [peer EXCEPT ![c] = "open"]
    /\ link' = [link EXCEPT ![c] = "open"]
    /\ UNCHANGED <<log, loopVars, countVars, idleVars, stopVars>>

\* How many frames all clients have written.
FramesSent == Cardinality({f \in Conns \X Ids : f[2] <= Len(log[f[1]])})

\* DaemonRpcClient.call, stream and the cancel of a stream write one frame each.
Send(c) ==
    /\ CanWrite(c) /\ Len(log[c]) < MaxRequests /\ FramesSent < MaxFrames
    /\ \E f \in NextFrames(c) : log' = [log EXCEPT ![c] = Append(@, f)]
    /\ UNCHANGED <<peer, link, loopVars, pc, countVars, idleVars, stopVars>>

\* The client closes its socket, or its process dies, at any point.
HangUp(c) ==
    /\ peer[c] = "open"
    /\ peer' = [peer EXCEPT ![c] = "gone"]
    /\ UNCHANGED <<log, link, loopVars, pc, countVars, idleVars, stopVars>>

-----------------------------------------------------------------------------
(* Leaving the connection loop: the finally block of _handle_connection. *)

\* writer.close() on the transport of every connection of cs.
CloseLinks(cs) ==
    link' = [c \in Conns |-> IF c \in cs /\ link[c] = "open" THEN "closing" ELSE link[c]]

\* Mutant: the disconnect is not recorded as activity.
UncountUntimed(c) == active' = active - 1 /\ writers' = writers \ {c} /\ UNCHANGED age

\* The accounting at the end of the finally block.
Uncount(c) == active' = active - 1 /\ writers' = writers \ {c} /\ age' = 0

\* The tracked streams are cancelled and the first of them is awaited, which suspends the
\* handler; with none tracked the block runs to its end.  a: the age left by the caller.
Leave(c, a) ==
    \/ /\ streams[c] = {}
       /\ pc' = [pc EXCEPT ![c] = "closed"]
       /\ Uncount(c)
       /\ CloseLinks({c})
    \/ /\ streams[c] # {}
       /\ pc' = [pc EXCEPT ![c] = "unwinding"]
       /\ age' = a
       /\ UNCHANGED <<active, writers, link>>

\* The awaited stream task ends.  Its done-callback, registered before the await, has
\* removed it from active_streams by the time the handler runs again, so the loop over
\* the dictionary raises RuntimeError.  Nothing after it in the finally block runs;
\* asyncio's stream protocol closes the transport of a handler that failed.
UnwindFails(c) ==
    /\ Alive /\ pc[c] = "unwinding"
    /\ pc' = [pc EXCEPT ![c] = "leaked"]
    /\ streams' = [streams EXCEPT ![c] = {}]
    /\ CloseLinks({c})
    /\ UNCHANGED <<clientVars, taken, out, queue, countVars, idleVars, stopVars>>

-----------------------------------------------------------------------------
(* Writing answers.  A write fails once the client or the transport is gone. *)

\* The handler goes back to read_frame.
Resume(c, a) ==
    /\ pc' = [pc EXCEPT ![c] = "reading"]
    /\ age' = a
    /\ UNCHANGED <<active, writers, link>>

\* Mutant: the error path falls through to the result frame (a missing return).
AnswerTwice(c, i) == out' = [out EXCEPT ![c] = Append(Append(@, i), i)]

\* The final frame of request i is written.
Answer(c, i) == out' = [out EXCEPT ![c] = Append(@, i)]

\* write_frame of a result: a failure escapes the loop.
SendResult(c, i, a) ==
    \/ CanWrite(c) /\ Answer(c, i) /\ Resume(c, a)
    \/ ~CanWrite(c) /\ Leave(c, age) /\ UNCHANGED out

\* _send_error: a failure is suppressed.  If it was the client that left, the reader has
\* been given the transport's exception and the next read raises it.
SendError(c, i, a) ==
    \/ CanWrite(c) /\ Answer(c, i) /\ Resume(c, a)
    \/ ~CanWrite(c) /\ link[c] = "open" /\ Leave(c, a) /\ UNCHANGED out
    \/ ~CanWrite(c) /\ link[c] # "open" /\ Resume(c, a) /\ UNCHANGED out

-----------------------------------------------------------------------------
(* The connection loop of _handle_connection. *)

\* Mutant: the connection is not counted in.
EnlistWriter(c) == writers' = writers \cup {c} /\ age' = 0 /\ UNCHANGED active

\* The accounting at the top of the handler.
Enlist(c) == active' = active + 1 /\ writers' = writers \cup {c} /\ age' = 0

\* The handler's first step.
Register(c) ==
    /\ Alive /\ pc[c] = "accepted"
    /\ pc' = [pc EXCEPT ![c] = "reading"]
    /\ Enlist(c)
    /\ quiet' = 0
    /\ UNCHANGED <<clientVars, link, loopVars, sleep, monitor, shutdown, stopVars>>

\* The handler reads a buffered frame with method m.
Read(c, m) ==
    /\ Alive /\ pc[c] = "reading"
    /\ taken[c] < Len(log[c]) /\ log[c][taken[c] + 1].method = m
    /\ taken' = [taken EXCEPT ![c] = @ + 1]

Ping(c) ==
    /\ Read(c, "ping")
    /\ SendResult(c, taken[c] + 1, age)
    /\ UNCHANGED <<clientVars, streams, queue, idleVars, stopVars>>

\* The shutdown event is set only if the acknowledgement could be written.
Shutdown(c) ==
    /\ Read(c, "shutdown")
    /\ SendResult(c, taken[c] + 1, age)
    /\ shutdown' = (shutdown \/ CanWrite(c))
    /\ UNCHANGED <<clientVars, streams, queue, clockVars, monitor, stopVars>>

\* A frame without an integer id or a method, or whose method is not in the table.
Unknown(c) ==
    /\ Read(c, "unknown")
    /\ SendError(c, taken[c] + 1, age)
    /\ UNCHANGED <<clientVars, streams, queue, idleVars, stopVars>>

\* A line that does not decode: the error carries no id and the loop ends.
Garbage(c) ==
    /\ Read(c, "garbage")
    /\ Leave(c, age)
    /\ UNCHANGED <<clientVars, out, streams, queue, idleVars, stopVars>>

\* A listen request gets a task of its own, and the loop reads on.
Listen(c) ==
    /\ Read(c, "listen")
    /\ streams' = [streams EXCEPT ![c] = @ \cup {taken[c] + 1}]
    /\ UNCHANGED <<clientVars, link, out, queue, pc, countVars, idleVars, stopVars>>

\* A cancel frame: the task is forgotten at once and writes nothing more.
Cancel(c) ==
    /\ Read(c, "cancel")
    /\ streams' = [streams EXCEPT ![c] = @ \ {log[c][taken[c] + 1].arg}]
    /\ UNCHANGED <<clientVars, link, out, queue, pc, countVars, idleVars, stopVars>>

\* A listen task fails, runs out of events or cannot write one: it writes its end or
\* error frame if it can, and its done-callback removes it.
StreamEnds(c) ==
    /\ Alive /\ pc[c] # "unwinding"
    /\ \E i \in streams[c] :
         /\ streams' = [streams EXCEPT ![c] = @ \ {i}]
         /\ IF CanWrite(c) THEN Answer(c, i) ELSE UNCHANGED out
    /\ UNCHANGED <<clientVars, link, taken, queue, pc, countVars, idleVars, stopVars>>

\* End of file: the client has left, or the transport was closed under the handler.
ReadEof(c) ==
    /\ Alive /\ pc[c] = "reading" /\ taken[c] = Len(log[c])
    /\ link[c] = "down" \/ (link[c] = "open" /\ peer[c] = "gone")
    /\ Leave(c, age)
    /\ UNCHANGED <<clientVars, loopVars, idleVars, stopVars>>

-----------------------------------------------------------------------------
(* _dispatch_unary and the per-key locks. *)

\* The lock of k is neither held nor waited for.
LockFree(k) == queue[k] = <<>>

\* Mutant: the newest waiter is woken first.
NewestWaiter(k) == queue[k][Len(queue[k])]

\* asyncio.Lock wakes its waiters first come, first served.
NextHolder(k) == Head(queue[k])

\* A request with a lock key joins the key's lock, and enters its handler at once if the
\* lock is free; a request without one just enters its handler.
Dispatch(c) ==
    /\ Read(c, "call")
    /\ LET k == log[c][taken[c] + 1].arg IN
         \/ k = NoKey /\ pc' = [pc EXCEPT ![c] = "serving"] /\ UNCHANGED queue
         \/ /\ k # NoKey
            /\ pc' = [pc EXCEPT ![c] = IF LockFree(k) THEN "serving" ELSE "locking"]
            /\ queue' = [queue EXCEPT ![k] = Append(@, c)]
    /\ UNCHANGED <<clientVars, link, out, streams, countVars, idleVars, stopVars>>

LockGranted(c) ==
    /\ Alive /\ pc[c] = "locking" /\ NextHolder(KeyOf(c)) = c
    /\ pc' = [pc EXCEPT ![c] = "serving"]
    /\ UNCHANGED <<clientVars, link, loopVars, countVars, idleVars, stopVars>>

\* Mutant: a request that fails keeps its lock.
ReleaseOnSuccess(c, outcome) ==
    queue' = IF KeyOf(c) = NoKey \/ outcome # "result" THEN queue
             ELSE [queue EXCEPT ![KeyOf(c)] = Tail(@)]

\* The end of async with lock, whatever the outcome of its body.
Release(c, outcome) ==
    queue' = IF KeyOf(c) = NoKey THEN queue ELSE [queue EXCEPT ![KeyOf(c)] = Tail(@)]

\* The handler's await on the HomeKitClient ends: with a result, with an exception, or
\* with a result whose frame encode_frame refuses, an error outside the try block.
HandlerReturns(c) ==
    /\ Alive /\ pc[c] = "serving"
    /\ \/ Release(c, "result") /\ SendResult(c, taken[c], 0)
       \/ Release(c, "error") /\ SendError(c, taken[c], 0)
       \/ Release(c, "oversized") /\ Leave(c, age) /\ UNCHANGED out
    /\ UNCHANGED <<clientVars, taken, streams, idleVars, stopVars>>

\* connection_lost: a transport that is closing goes down and detaches from the server.
ConnectionLost(c) ==
    /\ Alive /\ link[c] = "closing"
    /\ link' = [link EXCEPT ![c] = "down"]
    /\ UNCHANGED <<clientVars, loopVars, pc, countVars, idleVars, stopVars>>

-----------------------------------------------------------------------------
(* Time and the idle monitor. *)

Later(n) == IF n < IdleTimeout THEN n + 1 ELSE n

\* The clock advances.
Tick ==
    /\ Alive /\ "idle" \in StopCauses
    /\ age' = Later(age)
    /\ sleep' = IF sleep > 0 THEN sleep - 1 ELSE 0
    /\ quiet' = IF \E c \in Conns : InLoop(c) THEN 0 ELSE Later(quiet)
    /\ UNCHANGED <<clientVars, link, loopVars, pc, active, writers, monitor, shutdown, stopVars>>

IdleNow == active <= 0 /\ age >= IdleTimeout

\* Mutant: a monitor that finds clients connected gives up instead of sleeping again.
AfterOnePoll == IF IdleNow THEN "fired" ELSE "done"

AfterPoll == IF IdleNow THEN "fired" ELSE IF shutdown THEN "done" ELSE "sleeping"

\* The idle monitor wakes: it asks for the stop if nobody is connected and nothing has
\* happened for the timeout, ends if the stop has been asked for, or sleeps again.
IdleCheck ==
    /\ Alive /\ "idle" \in StopCauses /\ monitor = "sleeping" /\ sleep = 0
    /\ shutdown' = (shutdown \/ IdleNow)
    /\ monitor' = AfterPoll
    /\ sleep' = IF AfterPoll = "sleeping" THEN Period ELSE sleep
    /\ UNCHANGED <<clientVars, link, loopVars, pc, countVars, quiet, stopVars>>

-----------------------------------------------------------------------------
(* Stopping: DaemonServer.stop, run by serve_forever and then again by main's _serve. *)

Signal ==
    /\ Alive /\ "signal" \in StopCauses /\ ~signalled
    /\ signalled' = TRUE
    /\ UNCHANGED <<clientVars, link, loopVars, pc, countVars, idleVars, server, stage, backend>>

\* asyncio.wait returns in _serve: a signal arrived, or the serve task ended.  The serve
\* task is cancelled.  Waiting for the event it goes on to its stop(); waiting for the
\* idle task the cancellation is swallowed; at a later await it abandons stop().
MainWakes ==
    /\ stage["main"] = "wait" /\ (signalled \/ stage["serve"] = "done")
    /\ stage' = [main |-> "join",
                 serve |-> IF stage["serve"] \in {"waitClosed", "stopClient"}
                           THEN "done" ELSE stage["serve"]]
    /\ UNCHANGED <<clientVars, link, loopVars, pc, countVars, idleVars, server, signalled, backend>>

\* Task t enters stop(): the serve task when its event is set or it is cancelled, main
\* when the serve task has ended.
MayStop(t) ==
    \/ t = "serve" /\ stage[t] = "wait" /\ (shutdown \/ stage["main"] = "join")
    \/ t = "main" /\ stage[t] = "join" /\ stage["serve"] = "done"

\* Mutant: main trusts the serve task to have stopped the server.
StopOnce(t) == IF t = "main" THEN "done" ELSE "cancelIdle"

FirstStage(t) == "cancelIdle"

\* stop() up to the await of the cancelled idle task.
StopBegins(t) ==
    /\ MayStop(t)
    /\ shutdown' = TRUE
    /\ monitor' = IF monitor = "sleeping" THEN "done" ELSE monitor
    /\ stage' = [stage EXCEPT ![t] = FirstStage(t)]
    /\ UNCHANGED <<clientVars, link, loopVars, pc, countVars, clockVars, server, signalled, backend>>

\* Mutant: the connections that wait for a request are left to their clients.
BusyWriters == {c \in writers : pc[c] # "reading"}

StopTargets == writers

\* stop() closes every registered writer and the listening socket.
StopCloses(t) ==
    /\ Alive /\ stage[t] = "cancelIdle"
    /\ CloseLinks(StopTargets)
    /\ server' = IF server = "none" THEN "none" ELSE "closing"
    /\ stage' = [stage EXCEPT ![t] = "waitClosed"]
    /\ UNCHANGED <<clientVars, loopVars, pc, countVars, idleVars, signalled, backend>>

\* Mutant: wait_closed does not wait for the connections.
NoWait == TRUE

\* wait_closed returns once no transport is attached; there is nothing to wait for when
\* an earlier stop() has got past it.
WaitedClosed == server = "none" \/ \A c \in Conns : link[c] \notin {"open", "closing"}

\* stop() goes on from wait_closed to the await of the client's stop.
StopWaited(t) ==
    /\ Alive /\ stage[t] = "waitClosed" /\ WaitedClosed
    /\ server' = "none"
    /\ writers' = {}
    /\ backend' = IF backend = "up" THEN "stopping" ELSE backend
    /\ stage' = [stage EXCEPT ![t] = "stopClient"]
    /\ UNCHANGED <<clientVars, link, loopVars, pc, active, age, idleVars, signalled>>

\* HomeKitClient.stop returns: the task is done, and with main the process.
StopEnds(t) ==
    /\ Alive /\ stage[t] = "stopClient"
    /\ backend' = "stopped"
    /\ stage' = [stage EXCEPT ![t] = "done"]
    /\ UNCHANGED <<clientVars, link, loopVars, pc, countVars, idleVars, server, signalled>>

-----------------------------------------------------------------------------
Client(c) == Connect(c) \/ Send(c) \/ HangUp(c)

\* The steps the event loop takes on behalf of connection c.
Handle(c) ==
    \/ Register(c) \/ Ping(c) \/ Shutdown(c) \/ Unknown(c) \/ Garbage(c) \/ Listen(c)
    \/ Cancel(c) \/ ReadEof(c) \/ Dispatch(c) \/ LockGranted(c) \/ HandlerReturns(c)
    \/ UnwindFails(c) \/ ConnectionLost(c)

Stop(t) == StopBegins(t) \/ StopCloses(t) \/ StopWaited(t) \/ StopEnds(t)

Next ==
    \/ \E c \in Conns : Client(c) \/ Handle(c) \/ StreamEnds(c)
    \/ Tick \/ IdleCheck \/ Signal \/ MainWakes
    \/ \E t \in Stoppers : Stop(t)

Spec == Init /\ [][Next]_vars

\* The event loop runs every step that is ready, and time passes.  That the calls into
\* an accessory end is an assumption on the backend.  Nothing is assumed of the clients,
\* of a signal's arrival or of a stream's end.
Fairness ==
    /\ \A c \in Conns : WF_vars(Handle(c))
    /\ WF_vars(Tick) /\ WF_vars(IdleCheck) /\ WF_vars(MainWakes)
    /\ \A t \in Stoppers : WF_vars(Stop(t))

FairSpec == Spec /\ Fairness

-----------------------------------------------------------------------------
(* Safety. *)

\* At most one handler at a time works under a lock key (server.py: async with lock).
OneHandlerPerKey ==
    \A c, d \in Conns :
        (pc[c] = "serving" /\ pc[d] = "serving" /\ KeyOf(c) = KeyOf(d) /\ KeyOf(c) # NoKey)
            => c = d

\* _active_connections counts the handlers that have registered and not been counted out,
\* those whose finally block failed included: the idle monitor trusts it.
ActiveCounts == active = Cardinality({c \in Conns : InLoop(c) \/ pc[c] = "leaked"})

\* No request gets two final frames, however results, errors and the ends of streams
\* interleave on the connection.
AnsweredOnce ==
    \A c \in Conns : \A i, j \in 1..Len(out[c]) : out[c][i] = out[c][j] => i = j

\* The shared HomeKitClient is taken down only when no client can reach it any more: the
\* server is gone and every transport detached, also when a signal cancels a stop() halfway.
BackendStopsLast ==
    backend # "up" => server = "none" /\ \A c \in Conns : link[c] \in {"none", "down"}

\* The process ends with everything torn down, wherever a signal interrupted stop().
ExitIsClean ==
    ~Alive => backend = "stopped" /\ server = "none" /\ monitor # "sleeping" /\ writers = {}

\* The idle monitor asks for the stop only if no handler is in its loop and none has been
\* for the whole timeout, however long ago the last request was.
IdleStopIsQuiet ==
    [][(monitor' = "fired" /\ monitor # "fired") =>
          quiet >= IdleTimeout /\ \A c \in Conns : ~InLoop(c)]_vars

-----------------------------------------------------------------------------
(* Liveness. *)

\* A request written to the daemon gets its final frame unless its connection ends, also
\* behind a queue of requests for the same lock key.  Streams and cancels are excepted.
RequestsAnswered ==
    \A c \in Conns : \A i \in Ids :
        (i <= Len(log[c]) /\ log[c][i].method \in {"ping", "shutdown", "unknown", "call"})
            ~> (~CanWrite(c) \/ \E n \in 1..Len(out[c]) : out[c][n] = i)

\* Once every client has left for good the daemon times out and exits (docs/daemon.md).
IdleStops == <>[](\A c \in Conns : peer[c] # "open") => <>(~Alive)

\* A requested stop runs to the end of the process without the help of the clients, unless
\* a connection whose handler had not started missed the closing of the writers.
StopCompletes ==
    <>shutdown => <>(~Alive \/ (server = "closing" /\ \E c \in Conns : pc[c] = "accepted"))

-----------------------------------------------------------------------------
\* The locks keep the discipline of a first-come first-served mutex per key.
Locks == INSTANCE KeyedMutex WITH
    Clients <- Conns,
    line <- queue,
    inside <- {c \in Conns : pc[c] = "serving" /\ KeyOf(c) # NoKey}

LocksRefine == Locks!Spec
=============================================================================
