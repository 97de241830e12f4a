--------------------------- MODULE DaemonRpcProofs ---------------------------
(***************************************************************************)
(* Theorems about the daemon's RPC client, for every set of calls and      *)
(* streams, however often it connects and whatever the daemon sends.       *)
(***************************************************************************)
EXTENDS DaemonRpc, FiniteSetTheorems, TLAPS

\* The tasks that have made their request.
Drawn == {t \in Tasks : id[t] # 0}

\* Every request has an id of its own, and the ids were drawn in order.
IdsDistinct ==
    /\ lastId = Cardinality(Drawn)
    /\ \A t \in Tasks : id[t] \in 0..lastId
    /\ \A t, u \in Tasks : id[t] # 0 /\ id[t] = id[u] => t = u
    /\ \A t \in Tasks : state[t] = "idle" => id[t] = 0
    /\ \A t \in Tasks : state[t] = "waiting" => id[t] # 0

\* The tables hold a task under its own id only.
TablesTrue ==
    /\ \A i \in Ids : pending[i] # NoTask => pending[i] \in Calls /\ id[pending[i]] = i
    /\ \A i \in Ids : streams[i] # NoTask => streams[i] \in Streams /\ id[streams[i]] = i

\* What is on the wire, and what the daemon runs, bears the id of the request it is of.
TrueRequest(r) ==
    id[r.of] = r.id /\ (IF r.kind = "call" THEN r.of \in Calls ELSE r.of \in Streams)
TrueFrame(f) ==
    /\ id[f.of] = f.id
    /\ f.kind \in {"event", "end"} => f.of \in Streams
    /\ f.kind \in {"result", "long"} => f.of \in Calls
    /\ f.kind = "event" => f.n > 0
FramesTrue ==
    /\ \A i \in 1..Len(up) : TrueRequest(up[i])
    /\ \A i \in 1..Len(down) : TrueFrame(down[i])
    /\ \A s \in live : s.of \in Streams /\ id[s.of] = s.id
    /\ \A t \in Streams : \A i \in 1..Len(inbox[t]) :
          inbox[t][i].kind = "event" => inbox[t][i].n > 0

IdInv == TypeOK /\ IdsDistinct /\ TablesTrue /\ FramesTrue /\ OwnReply

-----------------------------------------------------------------------------
\* The daemon has no more events for a stream, nor will it start it again.
Over(t) ==
    /\ \A s \in live : s.of # t
    /\ \A i \in 1..Len(up) : up[i].of = t => up[i].kind # "listen"

Listens(i, t) == up[i].of = t /\ up[i].kind = "listen"
EventOf(i, t) == down[i].of = t /\ down[i].kind = "event"
EndOf(i, t) == down[i].of = t /\ down[i].kind = "end"
Attached(t) == state[t] = "waiting" /\ streams[id[t]] = t

\* The client has a reader exactly while it has a socket.
ReaderLives == reader = "none" <=> socket = "none"

\* A stream is asked for once, and an end is the last that comes of it.
OneListen(t) ==
    /\ \A i, j \in 1..Len(up) : Listens(i, t) /\ Listens(j, t) => i = j
    /\ \A i \in 1..Len(up) : Listens(i, t) => \A s \in live : s.of # t
    /\ \A j \in 1..Len(down) : EndOf(j, t) =>
          Over(t) /\ \A i \in 1..Len(down) : EventOf(i, t) => i < j

\* A task that has not begun has no stream behind it.
Untouched(t) == state[t] = "idle" => Len(seen[t]) = 0 /\ Len(inbox[t]) = 0 /\ sent[t] = 0

\* The k events at the head of a stream's queue go on where the stream has got.
Queued(t, k) ==
    /\ Len(seen[t]) + k <= sent[t]
    /\ \A i \in 1..Len(inbox[t]) :
          /\ inbox[t][i].kind = "event" <=> i <= k
          /\ i <= k => inbox[t][i].n = Len(seen[t]) + i
          /\ inbox[t][i].kind = "end" => Over(t) /\ Len(seen[t]) + k = sent[t]
          /\ inbox[t][i].kind = "closed" /\ Attached(t) => reader = "ended"

\* The events on the wire go on where the queue ends, in order and without a gap.
OnTheWire(t, k) ==
    /\ \A i \in 1..Len(down) : EventOf(i, t) => down[i].n \in Len(seen[t]) + k + 1 .. sent[t]
    /\ \A i, j \in 1..Len(down) : EventOf(i, t) /\ EventOf(j, t) /\ i < j => down[i].n < down[j].n
    /\ \A n \in Len(seen[t]) + k + 1 .. sent[t] :
          \E i \in 1..Len(down) : EventOf(i, t) /\ down[i].n = n

\* Where the events of a stream are that has not ended yet.
InFlight(t) == state[t] = "waiting" =>
    \E k \in 0..Len(inbox[t]) : Queued(t, k) /\ (Attached(t) => OnTheWire(t, k))

EndedInFull(t) == state[t] = "end" => Over(t) /\ Len(seen[t]) = sent[t]

Consecutive(t) == \A i \in 1..Len(seen[t]) : seen[t][i] = i

StreamInv(t) ==
    OneListen(t) /\ Untouched(t) /\ InFlight(t) /\ EndedInFull(t) /\ Consecutive(t)

EventInv == ReaderLives /\ \A t \in Streams : StreamInv(t)

IInv == IdInv /\ EventInv

-----------------------------------------------------------------------------
(* Sequences. *)

LEMMA Appended ==
  ASSUME NEW S, NEW q \in Seq(S), NEW e \in S
  PROVE  /\ Append(q, e) \in Seq(S)
         /\ Len(Append(q, e)) = Len(q) + 1
         /\ \A i \in 1..Len(q) + 1 : Append(q, e)[i] = IF i = Len(q) + 1 THEN e ELSE q[i]
OBVIOUS

LEMMA HeadOf ==
  ASSUME NEW S, NEW q \in Seq(S), q # <<>>
  PROVE  /\ Len(q) \in Nat \ {0} /\ Head(q) = q[1] /\ Head(q) \in S
         /\ Tail(q) \in Seq(S) /\ Len(Tail(q)) = Len(q) - 1
         /\ \A i \in 1..Len(q) - 1 : Tail(q)[i] = q[i + 1]
OBVIOUS

LEMMA NoneOf ==
  ASSUME NEW S
  PROVE  <<>> \in Seq(S) /\ Len(<<>>) = 0
OBVIOUS

-----------------------------------------------------------------------------
(* The ids. *)

\* There is an id for a task that has not drawn one.
LEMMA IdFree ==
  ASSUME TypeOK, IdsDistinct, NEW t \in Tasks, state[t] = "idle"
  PROVE  /\ id[t] = 0 /\ NextId \in Ids /\ NextId \in Nat \ {0}
         /\ lastId + 1 = Cardinality(Drawn \cup {t})
<1>1. t \notin Drawn /\ id[t] = 0
  BY DEF IdsDistinct, Drawn
<1>2. IsFiniteSet(Drawn) /\ IsFiniteSet(Drawn \cup {t}) /\ Drawn \cup {t} \subseteq Tasks
  BY RpcAssumption, FS_Subset DEF Drawn
<1>3. Cardinality(Drawn \cup {t}) = Cardinality(Drawn) + 1
  BY <1>1, <1>2, FS_AddElement
<1>4. Cardinality(Drawn \cup {t}) <= Cardinality(Tasks)
  BY <1>2, RpcAssumption, FS_Subset
<1>5. Cardinality(Drawn) \in Nat /\ Cardinality(Tasks) \in Nat
  BY <1>2, RpcAssumption, FS_CardinalityType
<1> QED
  BY <1>1, <1>3, <1>4, <1>5 DEF NextId, Ids, IdsDistinct

LEMMA InitIds == Init => IdInv
<1> SUFFICES ASSUME Init PROVE IdInv
  OBVIOUS
<1> USE RpcAssumption
<1>1. Cardinality(Tasks) \in Nat /\ Cardinality({}) = 0
  BY FS_CardinalityType, FS_EmptySet
<1>2. Drawn = {}
  BY DEF Init, Drawn
<1>3. TypeOK
  BY <1>1 DEF Init, TypeOK, Table, Tasks
<1>4. IdsDistinct
  BY <1>1, <1>2 DEF Init, IdsDistinct
<1> QED
  BY <1>3, <1>4 DEF Init, IdInv, TablesTrue, FramesTrue, OwnReply, Tasks

\* A request begins: its id is new.
LEMMA BeginIds ==
  ASSUME IdInv, NEW t \in Tasks, NEW kind \in {"call", "listen"}, Begin(t, kind)
  PROVE  /\ IdsDistinct'
         /\ id' = [id EXCEPT ![t] = NextId] /\ id[t] = 0 /\ NextId \in Ids
         /\ \A u \in Tasks : id[u] # NextId
         /\ up' \in Seq(Request) /\ Len(up') >= Len(up)
         /\ \A i \in 1..Len(up') :
              IF i <= Len(up) THEN up'[i] = up[i]
              ELSE /\ i = Len(up) + 1
                   /\ up'[i] = [kind |-> kind, id |-> NextId, of |-> t]
<1> USE DEF IdInv, Begin
<1>1. /\ id[t] = 0 /\ NextId \in Ids /\ NextId \in Nat \ {0}
      /\ lastId + 1 = Cardinality(Drawn \cup {t})
  BY IdFree
<1>2. \A u \in Tasks : id[u] # NextId
  BY DEF IdsDistinct, NextId, TypeOK
<1>3. Drawn' = Drawn \cup {t}
  BY <1>1 DEF Drawn, TypeOK
<1>4. IdsDistinct'
  <2>1. lastId' = Cardinality(Drawn')
    BY <1>1, <1>3
  <2>2. \A u \in Tasks : id'[u] = IF u = t THEN NextId ELSE id[u]
    BY DEF TypeOK
  <2>3. \A u \in Tasks : id'[u] \in 0..lastId'
    BY <1>1, <2>2 DEF IdsDistinct, NextId, TypeOK
  <2>4. \A u, v \in Tasks : id'[u] # 0 /\ id'[u] = id'[v] => u = v
    BY <1>2, <2>2 DEF IdsDistinct
  <2>5. \A u \in Tasks : (state'[u] = "idle" => id'[u] = 0) /\ (state'[u] = "waiting" => id'[u] # 0)
    BY <1>1, <2>2 DEF IdsDistinct, TypeOK
  <2> QED
    BY <2>1, <2>3, <2>4, <2>5 DEF IdsDistinct
<1>5. [kind |-> kind, id |-> NextId, of |-> t] \in Request
  BY <1>1 DEF Request
<1>6. /\ up' \in Seq(Request) /\ Len(up') >= Len(up)
      /\ \A i \in 1..Len(up') :
           IF i <= Len(up) THEN up'[i] = up[i]
           ELSE i = Len(up) + 1 /\ up'[i] = [kind |-> kind, id |-> NextId, of |-> t]
  <2>1. CASE Writable
    BY <2>1, <1>5, Appended DEF Write, TypeOK
  <2>2. CASE ~Writable
    BY <2>2 DEF Write, TypeOK
  <2> QED
    BY <2>1, <2>2
<1> QED
  BY <1>1, <1>2, <1>4, <1>6

\* What bears the id of its request still does when another task draws one.
LEMMA StillTrue ==
  ASSUME IdInv, NEW t \in Tasks, id' = [id EXCEPT ![t] = NextId], id[t] = 0
  PROVE  /\ \A r \in Request : TrueRequest(r) => TrueRequest(r)'
         /\ \A f \in Frame : TrueFrame(f) => TrueFrame(f)'
         /\ \A s \in live : id'[s.of] = s.id
         /\ \A i \in Ids, u \in Tasks : id[u] = i => id'[u] = i
<1>1. \A i \in Ids, u \in Tasks : id[u] = i => id'[u] = i
  BY DEF Ids, IdInv, TypeOK
<1>2. \A r \in Request : r.id \in Ids /\ r.of \in Tasks
  BY DEF Request
<1>3. \A f \in Frame : f.id \in Ids /\ f.of \in Tasks
  BY DEF Frame
<1>4. \A s \in live : s.id \in Ids /\ s.of \in Tasks /\ id[s.of] = s.id
  BY DEF IdInv, TypeOK, FramesTrue
<1> QED
  BY <1>1, <1>2, <1>3, <1>4 DEF TrueRequest, TrueFrame

LEMMA StartIds ==
  ASSUME IdInv, NEW t \in Tasks,
         (t \in Calls /\ Call(t)) \/ (t \in Streams /\ Stream(t))
  PROVE  IdInv'
<1> DEFINE kind == IF t \in Calls THEN "call" ELSE "listen"
<1> USE RpcAssumption
<1>1. Begin(t, kind) /\ kind \in {"call", "listen"}
  BY DEF Call, Stream
<1> HIDE DEF kind
<1>2. /\ IdsDistinct'
      /\ id' = [id EXCEPT ![t] = NextId] /\ id[t] = 0 /\ NextId \in Ids
      /\ \A u \in Tasks : id[u] # NextId
      /\ up' \in Seq(Request) /\ Len(up') >= Len(up)
      /\ \A i \in 1..Len(up') :
           IF i <= Len(up) THEN up'[i] = up[i]
           ELSE i = Len(up) + 1 /\ up'[i] = [kind |-> kind, id |-> NextId, of |-> t]
  BY <1>1, BeginIds
<1>3. /\ \A r \in Request : TrueRequest(r) => TrueRequest(r)'
      /\ \A f \in Frame : TrueFrame(f) => TrueFrame(f)'
      /\ \A s \in live : id'[s.of] = s.id
      /\ \A i \in Ids, u \in Tasks : id[u] = i => id'[u] = i
  BY <1>2, StillTrue
<1>4. TypeOK'
  <2>1. lastId' \in 0..Cardinality(Tasks)
    BY <1>1, <1>2 DEF Begin, NextId, Ids
  <2>2. pending' \in Table /\ streams' \in Table
    BY ZenonT(60), <1>2 DEF Call, Stream, IdInv, TypeOK, Table
  <2> QED
    BY <1>1, <1>2, <2>1, <2>2
       DEF Begin, IdInv, TypeOK, connVars, daemonVars
<1>5. TablesTrue'
  <2>1. \A i \in Ids : pending'[i] # NoTask => pending'[i] \in Calls /\ id'[pending'[i]] = i
    BY <1>2, <1>3 DEF Call, Stream, IdInv, TypeOK, Table, TablesTrue, Tasks
  <2>2. \A i \in Ids : streams'[i] # NoTask => streams'[i] \in Streams /\ id'[streams'[i]] = i
    BY <1>2, <1>3 DEF Call, Stream, IdInv, TypeOK, Table, TablesTrue, Tasks
  <2> QED
    BY <2>1, <2>2 DEF TablesTrue
<1>6. FramesTrue'
  <2> USE DEF TrueRequest, TrueFrame
  <2>1. ASSUME NEW i \in 1..Len(up') PROVE TrueRequest(up[i])'
    <3>1. CASE i <= Len(up)
      <4>1. i \in 1..Len(up) /\ up[i] \in Request /\ up'[i] = up[i] /\ TrueRequest(up[i])
        BY <1>2, <3>1 DEF IdInv, TypeOK, FramesTrue
      <4> QED
        BY <1>3, <4>1
    <3>2. CASE ~(i <= Len(up))
      <4>1. up'[i] = [kind |-> kind, id |-> NextId, of |-> t] /\ id'[t] = NextId
        BY <1>2, <3>2 DEF IdInv, TypeOK
      <4> QED
        BY <1>2, <4>1 DEF kind, Tasks
    <3> QED
      BY <3>1, <3>2
  <2>2. down' = down /\ live' = live /\ inbox' = inbox
    BY <1>1 DEF Begin, daemonVars
  <2>3. ASSUME NEW i \in 1..Len(down) PROVE TrueFrame(down[i])'
    <3>1. down[i] \in Frame /\ TrueFrame(down[i])
      BY DEF IdInv, TypeOK, FramesTrue
    <3> QED
      BY <1>3, <2>2, <3>1
  <2> QED
    BY <1>3, <2>1, <2>2, <2>3 DEF IdInv, FramesTrue
<1>7. OwnReply'
  BY <1>1 DEF Begin, IdInv, OwnReply, TypeOK, Tasks
<1> QED
  BY <1>2, <1>4, <1>5, <1>6, <1>7 DEF IdInv

\* The other steps draw no id: what they leave on the wire is what was there, or bears the
\* id of its request too.
LEMMA KeptIds ==
  ASSUME IdInv, UNCHANGED <<lastId, id>>, TypeOK', TablesTrue', OwnReply',
         \A t \in Tasks : state'[t] \in {"idle", "waiting"} => state'[t] = state[t],
         \A i \in 1..Len(up') : TrueRequest(up'[i]),
         \A i \in 1..Len(down') : TrueFrame(down'[i]),
         \A s \in live' : s.of \in Streams /\ id[s.of] = s.id,
         \A t \in Streams : \A i \in 1..Len(inbox'[t]) :
            inbox'[t][i].kind = "event" => inbox'[t][i].n > 0
  PROVE  IdInv'
<1>1. Drawn' = Drawn
  BY DEF Drawn
<1>2. IdsDistinct'
  BY <1>1 DEF IdInv, IdsDistinct
<1>3. FramesTrue'
  BY DEF FramesTrue, TrueRequest, TrueFrame
<1> QED
  BY <1>2, <1>3 DEF IdInv

\* A step that leaves the wire, the tables and the queues alone.
LEMMA QuietIds ==
  ASSUME IdInv, UNCHANGED <<tableVars, reply, inbox, up, down, live>>, TypeOK',
         \A t \in Tasks : state'[t] \in {"idle", "waiting"} => state'[t] = state[t],
         \A t \in Calls : state'[t] \in {"result", "error"} => state'[t] = state[t]
  PROVE  IdInv'
<1>1. TablesTrue' /\ OwnReply'
  BY DEF IdInv, TablesTrue, OwnReply, tableVars
<1> QED
  BY <1>1, KeptIds DEF IdInv, FramesTrue, tableVars

LEMMA ConnectionIds ==
  ASSUME IdInv, Connect \/ CloseBegins \/ CloseWriter
  PROVE  IdInv'
<1>1. TypeOK'
  <2> USE RpcAssumption DEF IdInv, TypeOK, tableVars, taskVars
  <2>1. CASE Connect
    BY <2>1 DEF Connect
  <2>2. CASE CloseBegins
    BY <2>2 DEF CloseBegins, daemonVars
  <2>3. CASE CloseWriter
    BY <2>3 DEF CloseWriter, daemonVars
  <2> QED
    BY <2>1, <2>2, <2>3
<1> QED
  BY <1>1, QuietIds
     DEF Connect, CloseBegins, CloseWriter, tableVars, taskVars, daemonVars

LEMMA StoppedIds ==
  ASSUME IdInv, NEW t \in Tasks, NotConnected(t) \/ GiveUp(t)
  PROVE  IdInv'
<1>1. TypeOK'
  BY DEF NotConnected, GiveUp, IdInv, TypeOK, connVars, tableVars, daemonVars
<1>2. /\ \A u \in Tasks : state'[u] \in {"idle", "waiting"} => state'[u] = state[u]
      /\ \A u \in Calls : state'[u] \in {"result", "error"} => state'[u] = state[u]
  BY DEF NotConnected, GiveUp, IdInv, TypeOK, Tasks
<1> QED
  BY <1>1, <1>2, QuietIds DEF NotConnected, GiveUp, tableVars, daemonVars

\* The frame at the head of the wire is true, and so are the ones behind it.
LEMMA NextFrame ==
  ASSUME IdInv, down # <<>>
  PROVE  /\ Head(down) \in Frame /\ TrueFrame(Head(down)) /\ Head(down) = down[1]
         /\ Len(down) \in Nat \ {0} /\ Tail(down) \in Seq(Frame)
         /\ Len(Tail(down)) = Len(down) - 1
         /\ \A i \in 1..Len(Tail(down)) :
              i + 1 \in 1..Len(down) /\ Tail(down)[i] = down[i + 1] /\ TrueFrame(Tail(down)[i])
<1>1. down \in Seq(Frame)
  BY DEF IdInv, TypeOK
<1> QED
  BY <1>1, HeadOf DEF IdInv, FramesTrue

LEMMA ReadIds ==
  ASSUME IdInv, ReadFrame
  PROVE  IdInv'
<1> DEFINE f == Head(down)
<1>1. /\ f \in Frame /\ TrueFrame(f) /\ down' = Tail(down) /\ Tail(down) \in Seq(Frame)
      /\ \A i \in 1..Len(down') : TrueFrame(down'[i])
  BY NextFrame DEF ReadFrame
<1>2. f.id \in Ids /\ f.of \in Tasks /\ f.n \in 0..MaxEvents
  BY <1>1 DEF Frame
<1>3. CASE DispatchToStream(f)
  <2> USE <1>1, <1>2, <1>3 DEF ReadFrame, DispatchToStream, tableVars
  <2> DEFINE e == [kind |-> f.kind, n |-> f.n]
  <2>1. e \in Item
    BY DEF Item
  <2>2. \/ inbox' = inbox
        \/ \E t \in Streams : inbox' = [inbox EXCEPT ![t] = Append(@, e)]
    BY DEF Put, IdInv, TablesTrue
  <2>3. e.kind = "event" => e.n > 0
    BY DEF TrueFrame
  <2> HIDE DEF e
  <2>4. inbox' \in [Streams -> Seq(Item)]
    <3>1. \A t \in Streams : inbox[t] \in Seq(Item) /\ Append(inbox[t], e) \in Seq(Item)
      BY <2>1, Appended DEF IdInv, TypeOK
    <3> QED
      BY <2>2, <3>1 DEF IdInv, TypeOK
  <2>5. \A t \in Streams : \A i \in 1..Len(inbox'[t]) :
           inbox'[t][i].kind = "event" => inbox'[t][i].n > 0
    <3>1. CASE inbox' = inbox
      BY <3>1 DEF IdInv, FramesTrue
    <3>2. ASSUME NEW t \in Streams, inbox' = [inbox EXCEPT ![t] = Append(@, e)]
          PROVE  \A u \in Streams : \A i \in 1..Len(inbox'[u]) :
                    inbox'[u][i].kind = "event" => inbox'[u][i].n > 0
      <4>1. inbox[t] \in Seq(Item) /\ inbox'[t] = Append(inbox[t], e)
        BY <3>2 DEF IdInv, TypeOK
      <4>2. \A i \in 1..Len(inbox'[t]) : i \in 1..Len(inbox[t]) \/ inbox'[t][i] = e
        BY <4>1, <2>1, Appended
      <4>3. \A i \in 1..Len(inbox[t]) : inbox'[t][i] = inbox[t][i]
        BY <4>1, <2>1, Appended
      <4>4. \A u \in Streams : u # t => inbox'[u] = inbox[u]
        BY <3>2 DEF IdInv, TypeOK
      <4> QED
        BY <4>2, <4>3, <4>4, <2>3 DEF IdInv, FramesTrue
    <3> QED
      BY <3>1, <3>2, <2>2
  <2>6. TypeOK'
    BY <2>4 DEF IdInv, TypeOK, connVars, daemonVars
  <2>7. TablesTrue' /\ OwnReply'
    BY DEF IdInv, TablesTrue, OwnReply
  <2> QED
    BY <2>5, <2>6, <2>7, KeptIds DEF IdInv, FramesTrue, daemonVars
<1>4. CASE DispatchToCall(f)
  <2> USE <1>1, <1>2, <1>4 DEF ReadFrame, DispatchToCall
  <2>1. TypeOK'
    BY DEF IdInv, TypeOK, Table, connVars, daemonVars
  <2>2. TablesTrue'
    BY DEF IdInv, TypeOK, Table, TablesTrue
  <2>3. OwnReply'
    <3>1. pending[f.id] # NoTask => pending[f.id] = f.of
      BY DEF IdInv, TablesTrue, TrueFrame, IdsDistinct, Ids, Tasks
    <3> QED
      BY <3>1 DEF IdInv, TypeOK, OwnReply, Tasks
  <2>4. \A t \in Tasks : state'[t] \in {"idle", "waiting"} => state'[t] = state[t]
    BY DEF IdInv, TypeOK
  <2> QED
    BY <2>1, <2>2, <2>3, <2>4, KeptIds DEF IdInv, FramesTrue, daemonVars
<1> QED
  BY <1>3, <1>4 DEF ReadFrame

\* What every registered stream is told goes behind what its queue holds.
LEMMA Told ==
  ASSUME IdInv, TellStreams
  PROVE  /\ inbox' \in [Streams -> Seq(Item)]
         /\ \A t \in Streams :
              /\ inbox[t] \in Seq(Item) /\ Len(inbox[t]) \in Nat
              /\ Len(inbox'[t]) \in {Len(inbox[t]), Len(inbox[t]) + 1}
              /\ \A i \in 1..Len(inbox[t]) : inbox'[t][i] = inbox[t][i]
              /\ Len(inbox'[t]) = Len(inbox[t]) + 1 =>
                    inbox'[t][Len(inbox[t]) + 1] = [kind |-> "closed", n |-> 0]
              /\ \A i \in 1..Len(inbox'[t]) :
                    inbox'[t][i].kind = "event" => inbox'[t][i].n > 0
<1> DEFINE e == [kind |-> "closed", n |-> 0]
<1>1. e \in Item
  BY RpcAssumption DEF Item
<1>2. ASSUME NEW t \in Streams
      PROVE  /\ inbox[t] \in Seq(Item) /\ Len(inbox[t]) \in Nat
             /\ inbox'[t] = inbox[t] \/ inbox'[t] = Append(inbox[t], e)
  BY DEF TellStreams, IdInv, TypeOK
<1>3. e.kind = "closed"
  OBVIOUS
<1>4. \A t \in Streams : \A i \in 1..Len(inbox[t]) :
         inbox[t][i].kind = "event" => inbox[t][i].n > 0
  BY DEF IdInv, FramesTrue
<1> HIDE DEF e
<1>5. ASSUME NEW t \in Streams
      PROVE  /\ inbox'[t] \in Seq(Item)
             /\ Len(inbox'[t]) \in {Len(inbox[t]), Len(inbox[t]) + 1}
             /\ \A i \in 1..Len(inbox[t]) : inbox'[t][i] = inbox[t][i]
             /\ Len(inbox'[t]) = Len(inbox[t]) + 1 => inbox'[t][Len(inbox[t]) + 1] = e
  BY SMTT(60), <1>1, <1>2, Appended
<1>6. ASSUME NEW t \in Streams
      PROVE  \A i \in 1..Len(inbox'[t]) : inbox'[t][i].kind = "event" => inbox'[t][i].n > 0
  BY <1>2, <1>3, <1>4, <1>5
<1>7. inbox' \in [Streams -> Seq(Item)]
  <2>1. inbox' = [t \in Streams |-> inbox'[t]]
    BY DEF TellStreams
  <2> QED
    BY <1>5, <2>1
<1> QED
  BY <1>2, <1>5, <1>6, <1>7 DEF e

LEMMA EndIds ==
  ASSUME IdInv, ReaderEnds \/ CloseEnds
  PROVE  IdInv'
<1> USE DEF IdInv
<1>1. FailPending /\ TellStreams
  BY DEF ReaderEnds, ReaderFails, CloseEnds
<1>2. /\ inbox' \in [Streams -> Seq(Item)]
      /\ \A t \in Streams : \A i \in 1..Len(inbox'[t]) :
            inbox'[t][i].kind = "event" => inbox'[t][i].n > 0
  BY <1>1, Told
<1>3. /\ state' \in [Tasks -> {"idle", "waiting", "result", "error", "end", "closed", "failed", "left"}]
      /\ pending' \in Table
      /\ \A t \in Tasks : state'[t] \in {state[t], "closed"}
  BY <1>1 DEF FailPending, TypeOK, Table
<1>4. TypeOK'
  <2>1. CASE ReaderEnds
    BY <1>2, <1>3, <2>1 DEF ReaderEnds, TypeOK, daemonVars
  <2>2. CASE CloseEnds
    BY <1>2, <1>3, <2>2, NoneOf DEF CloseEnds, TypeOK, Table
  <2> QED
    BY <2>1, <2>2
<1>5. TablesTrue'
  BY <1>1 DEF FailPending, TablesTrue, ReaderEnds, CloseEnds
<1>6. OwnReply'
  BY <1>3 DEF OwnReply, ReaderEnds, CloseEnds, Tasks
<1>7. \/ up' = up /\ down' = down /\ live' = live
      \/ up' = <<>> /\ down' = <<>> /\ live' = {}
  BY DEF ReaderEnds, CloseEnds, daemonVars
<1> QED
  BY <1>2, <1>3, <1>4, <1>5, <1>6, <1>7, KeptIds, NoneOf DEF FramesTrue, ReaderEnds, CloseEnds

\* What a stream that ends writes, if it can.
LEMMA Written ==
  ASSUME IdInv, NEW t \in Streams, id[t] # 0,
         Write([kind |-> "cancel", id |-> id[t], of |-> t])
  PROVE  /\ up' \in Seq(Request) /\ Len(up) \in Nat
         /\ Len(up') \in {Len(up), Len(up) + 1}
         /\ \A i \in 1..Len(up) : up'[i] = up[i]
         /\ Len(up') = Len(up) + 1 =>
               up'[Len(up) + 1] = [kind |-> "cancel", id |-> id[t], of |-> t]
         /\ \A i \in 1..Len(up') : TrueRequest(up'[i])
<1> DEFINE r == [kind |-> "cancel", id |-> id[t], of |-> t]
<1>1. r \in Request /\ TrueRequest(r)
  BY DEF Request, TrueRequest, IdInv, TypeOK, Tasks
<1>2. up \in Seq(Request) /\ Len(up) \in Nat /\ \A i \in 1..Len(up) : TrueRequest(up[i])
  BY DEF IdInv, TypeOK, FramesTrue
<1>3. up' = up \/ up' = Append(up, r)
  BY DEF Write
<1> HIDE DEF r
<1>4. CASE up' = Append(up, r)
  BY <1>1, <1>2, <1>4, Appended DEF r
<1> QED
  BY <1>2, <1>3, <1>4

\* The queue of a stream whose head is taken.
LEMMA NextItem ==
  ASSUME IdInv, NEW t \in Streams, inbox[t] # <<>>
  PROVE  /\ inbox[t] \in Seq(Item) /\ Len(inbox[t]) \in Nat \ {0}
         /\ Head(inbox[t]) \in Item /\ Head(inbox[t]) = inbox[t][1]
         /\ Tail(inbox[t]) \in Seq(Item) /\ Len(Tail(inbox[t])) = Len(inbox[t]) - 1
         /\ \A i \in 1..Len(inbox[t]) - 1 : Tail(inbox[t])[i] = inbox[t][i + 1]
         /\ Head(inbox[t]).kind = "event" => Head(inbox[t]).n \in 1..MaxEvents
<1>1. inbox[t] \in Seq(Item)
  BY DEF IdInv, TypeOK
<1>2. 1 \in 1..Len(inbox[t]) /\ Head(inbox[t]) = inbox[t][1] /\ Head(inbox[t]) \in Item
  BY <1>1, HeadOf
<1>3. Head(inbox[t]).kind = "event" => Head(inbox[t]).n > 0
  BY <1>2 DEF IdInv, FramesTrue
<1>4. Head(inbox[t]).n \in 0..MaxEvents
  BY <1>2 DEF Item
<1> QED
  BY <1>1, <1>2, <1>3, <1>4, HeadOf, RpcAssumption

\* A stream that takes an event keeps the rest of its queue.
LEMMA YieldIds ==
  ASSUME IdInv, NEW t \in Streams, TakeItem(t), Head(inbox[t]).kind = "event"
  PROVE  /\ IdInv'
         /\ inbox' = [inbox EXCEPT ![t] = Tail(@)]
         /\ seen' = [seen EXCEPT ![t] = Append(@, Head(inbox[t]).n)]
         /\ UNCHANGED <<connVars, tableVars, state, reply, up, down, daemonVars>>
<1>1. /\ inbox' = [inbox EXCEPT ![t] = Tail(@)]
      /\ seen' = [seen EXCEPT ![t] = Append(@, Head(inbox[t]).n)]
      /\ UNCHANGED <<connVars, tableVars, state, reply, up, down, daemonVars>>
  BY DEF TakeItem, tableVars
<1>2. /\ Tail(inbox[t]) \in Seq(Item) /\ Head(inbox[t]).n \in 1..MaxEvents
      /\ \A i \in 1..Len(Tail(inbox[t])) :
            i + 1 \in 1..Len(inbox[t]) /\ Tail(inbox[t])[i] = inbox[t][i + 1]
  BY NextItem DEF TakeItem
<1>3. TypeOK'
  <2>1. Append(seen[t], Head(inbox[t]).n) \in Seq(1..MaxEvents)
    BY <1>2, Appended DEF IdInv, TypeOK
  <2> QED
    BY <1>1, <1>2, <2>1 DEF IdInv, TypeOK, connVars, tableVars, daemonVars
<1>4. TablesTrue' /\ OwnReply'
  BY <1>1 DEF IdInv, TablesTrue, OwnReply, tableVars
<1>5. \A u \in Streams : \A i \in 1..Len(inbox'[u]) :
         inbox'[u][i].kind = "event" => inbox'[u][i].n > 0
  <2>1. inbox'[t] = Tail(inbox[t]) /\ \A u \in Streams : u # t => inbox'[u] = inbox[u]
    BY <1>1 DEF IdInv, TypeOK
  <2> QED
    BY ZenonT(60), <1>2, <2>1, \A i \in 1..Len(inbox[t]) : inbox[t][i].kind = "event" => inbox[t][i].n > 0
       DEF IdInv, FramesTrue
<1> QED
  BY <1>1, <1>3, <1>4, <1>5, KeptIds DEF IdInv, FramesTrue, tableVars, daemonVars

\* A stream that has begun has an id.
LEMMA Begun ==
  ASSUME IdInv, NEW s \in live
  PROVE  s.id \in Ids /\ s.id # 0 /\ id[s.of] = s.id /\ s.of \in Streams
BY DEF IdInv, TypeOK, FramesTrue, Ids

\* A stream ends, and so does its entry: by an end, with the connection, or its consumer left.
LEMMA FinishIds ==
  ASSUME IdInv, NEW t \in Streams, state[t] = "waiting",
         NEW how \in {"end", "closed", "left"}, Finish(t, how),
         UNCHANGED <<connVars, lastId, id, pending, reply, seen, down, daemonVars>>
  PROVE  /\ IdInv'
         /\ id[t] # 0 /\ id[t] \in Ids /\ streams'[id[t]] = NoTask
         /\ \A i \in Ids : streams'[i] \in {streams[i], NoTask}
         /\ state' = [state EXCEPT ![t] = how]
         /\ inbox' = [inbox EXCEPT ![t] = <<>>]
         /\ up' \in Seq(Request) /\ Len(up) \in Nat
         /\ Len(up') \in {Len(up), Len(up) + 1}
         /\ \A i \in 1..Len(up) : up'[i] = up[i]
         /\ Len(up') = Len(up) + 1 => up'[Len(up) + 1].kind = "cancel"
<1> USE DEF Finish
<1>1. id[t] # 0 /\ id[t] \in Ids
  BY DEF IdInv, IdsDistinct, TypeOK, Tasks
<1>2. /\ up' \in Seq(Request) /\ Len(up) \in Nat
      /\ Len(up') \in {Len(up), Len(up) + 1}
      /\ \A i \in 1..Len(up) : up'[i] = up[i]
      /\ Len(up') = Len(up) + 1 =>
            up'[Len(up) + 1] = [kind |-> "cancel", id |-> id[t], of |-> t]
      /\ \A i \in 1..Len(up') : TrueRequest(up'[i])
  BY <1>1, Written
<1>3. streams' \in Table /\ \A i \in Ids : streams'[i] \in {streams[i], NoTask}
  BY DEF IdInv, TypeOK, Table
<1>4. TypeOK'
  BY <1>2, <1>3, NoneOf DEF IdInv, TypeOK, connVars, daemonVars, Tasks
<1>5. TablesTrue'
  BY <1>3 DEF IdInv, TablesTrue
<1>6. OwnReply'
  BY DEF IdInv, OwnReply, TypeOK, Tasks
<1>7. \A u \in Tasks : state'[u] \in {"idle", "waiting"} => state'[u] = state[u]
  BY DEF IdInv, TypeOK
<1>8. \A u \in Streams : \A i \in 1..Len(inbox'[u]) :
         inbox'[u][i].kind = "event" => inbox'[u][i].n > 0
  <2>1. inbox'[t] = <<>> /\ \A u \in Streams : u # t => inbox'[u] = inbox[u]
    BY DEF IdInv, TypeOK
  <2> QED
    BY <2>1, NoneOf DEF IdInv, FramesTrue
<1>9. IdInv'
  BY <1>2, <1>4, <1>5, <1>6, <1>7, <1>8, KeptIds DEF IdInv, FramesTrue, daemonVars
<1> QED
  BY <1>1, <1>2, <1>3, <1>9 DEF IdInv, TypeOK, Table

\* A consumer takes an item that is no event, or leaves.
LEMMA ConsumerEnds ==
  ASSUME IdInv, NEW t \in Streams,
         Leave(t) \/ (TakeItem(t) /\ Head(inbox[t]).kind # "event")
  PROVE  \E how \in {"end", "closed", "left"} :
            /\ state[t] = "waiting" /\ Finish(t, how)
            /\ UNCHANGED <<connVars, lastId, id, pending, reply, seen, down, daemonVars>>
            /\ how # "left" => inbox[t] # <<>> /\ how = Head(inbox[t]).kind
<1>1. CASE Leave(t)
  BY <1>1 DEF Leave
<1>2. CASE TakeItem(t) /\ Head(inbox[t]).kind # "event"
  <2>1. Head(inbox[t]) \in Item
    BY <1>2, NextItem DEF TakeItem
  <2> QED
    BY <1>2, <2>1 DEF TakeItem, Item
<1> QED
  BY <1>1, <1>2

-----------------------------------------------------------------------------
(* The daemon's steps. *)

\* The request at the head of the wire is true, and so are the ones behind it.
LEMMA NextRequest ==
  ASSUME IdInv, NEW kind, Receive(kind)
  PROVE  /\ Head(up) \in Request /\ TrueRequest(Head(up)) /\ Head(up) = up[1]
         /\ Head(up).kind = kind
         /\ up' \in Seq(Request) /\ Len(up) \in Nat \ {0} /\ Len(up') = Len(up) - 1
         /\ \A i \in 1..Len(up') : up'[i] = up[i + 1] /\ TrueRequest(up'[i])
<1>1. up \in Seq(Request) /\ up # <<>> /\ up' = Tail(up) /\ Head(up).kind = kind
  BY DEF IdInv, TypeOK, Receive
<1>2. \A i \in 1..Len(up) : TrueRequest(up[i])
  BY DEF IdInv, FramesTrue
<1>3. /\ Len(up) \in Nat \ {0} /\ Head(up) = up[1] /\ Head(up) \in Request
      /\ up' \in Seq(Request) /\ Len(up') = Len(up) - 1
      /\ \A i \in 1..Len(up) - 1 : up'[i] = up[i + 1]
  BY <1>1, HeadOf
<1>4. \A i \in 1..Len(up') : i + 1 \in 1..Len(up)
  BY <1>3
<1> QED
  BY <1>1, <1>2, <1>3, <1>4

\* A frame the daemon writes goes behind the others.
LEMMA Replied ==
  ASSUME IdInv, NEW kind \in {"result", "long", "error", "event", "end"}, NEW r,
         NEW n \in 0..MaxEvents, r.id \in Ids, r.of \in Tasks, id[r.of] = r.id,
         kind \in {"event", "end"} => r.of \in Streams,
         kind \in {"result", "long"} => r.of \in Calls,
         kind = "event" => n > 0,
         down' = Reply(kind, r, n)
  PROVE  /\ down' \in Seq(Frame) /\ Len(down) \in Nat /\ Len(down') = Len(down) + 1
         /\ \A i \in 1..Len(down) : down'[i] = down[i]
         /\ down'[Len(down) + 1] = [kind |-> kind, id |-> r.id, of |-> r.of, n |-> n]
         /\ \A i \in 1..Len(down') : TrueFrame(down'[i])
<1> DEFINE f == [kind |-> kind, id |-> r.id, of |-> r.of, n |-> n]
<1>1. f \in Frame /\ TrueFrame(f)
  BY DEF Frame, TrueFrame
<1>2. down \in Seq(Frame) /\ Len(down) \in Nat /\ \A i \in 1..Len(down) : TrueFrame(down[i])
  BY DEF IdInv, TypeOK, FramesTrue
<1>3. down' = Append(down, f)
  BY DEF Reply
<1> HIDE DEF f
<1>4. /\ down' \in Seq(Frame) /\ Len(down') = Len(down) + 1
      /\ \A i \in 1..Len(down) : down'[i] = down[i]
      /\ down'[Len(down) + 1] = f
      /\ \A i \in 1..Len(down') : TrueFrame(down'[i])
  BY <1>1, <1>2, <1>3, Appended
<1> QED
  BY <1>2, <1>4 DEF f

LEMMA AnswerIds ==
  ASSUME IdInv, AnswerCall
  PROVE  /\ IdInv'
         /\ down' \in Seq(Frame) /\ Len(down) \in Nat /\ Len(down') = Len(down) + 1
         /\ \A i \in 1..Len(down) : down'[i] = down[i]
         /\ down'[Len(down) + 1].kind \in {"result", "error", "long"}
<1>1. /\ Head(up) \in Request /\ TrueRequest(Head(up)) /\ Head(up).kind = "call"
      /\ up' \in Seq(Request) /\ \A i \in 1..Len(up') : TrueRequest(up'[i])
  BY NextRequest DEF AnswerCall
<1>2. /\ Head(up).id \in Ids /\ Head(up).of \in Calls /\ Head(up).of \in Tasks
      /\ id[Head(up).of] = Head(up).id
  BY <1>1 DEF Request, TrueRequest
<1>3. PICK kind \in {"result", "error", "long"} : down' = Reply(kind, Head(up), 0)
  BY DEF AnswerCall
<1>4. /\ down' \in Seq(Frame) /\ Len(down) \in Nat /\ Len(down') = Len(down) + 1
      /\ \A i \in 1..Len(down) : down'[i] = down[i]
      /\ down'[Len(down) + 1] = [kind |-> kind, id |-> Head(up).id, of |-> Head(up).of, n |-> 0]
      /\ \A i \in 1..Len(down') : TrueFrame(down'[i])
  BY <1>2, <1>3, Replied, RpcAssumption
<1>5. TypeOK'
  BY <1>1, <1>4
     DEF AnswerCall, Receive, IdInv, TypeOK, connVars, tableVars, taskVars, daemonVars
<1>6. TablesTrue' /\ OwnReply'
  BY DEF AnswerCall, IdInv, TablesTrue, OwnReply, tableVars, taskVars
<1>7. IdInv'
  BY <1>1, <1>4, <1>5, <1>6, KeptIds
     DEF AnswerCall, IdInv, FramesTrue, tableVars, taskVars, daemonVars
<1> QED
  BY <1>4, <1>7

LEMMA ListenIds ==
  ASSUME IdInv, StartListen \/ StopListen
  PROVE  IdInv'
<1>1. /\ Head(up) \in Request /\ TrueRequest(Head(up)) /\ Head(up).kind \in {"listen", "cancel"}
      /\ up' \in Seq(Request) /\ \A i \in 1..Len(up') : TrueRequest(up'[i])
  BY NextRequest DEF StartListen, StopListen
<1>2. /\ Head(up).id \in Ids /\ Head(up).of \in Streams /\ Head(up).of \in Tasks
      /\ id[Head(up).of] = Head(up).id
  BY <1>1 DEF Request, TrueRequest
<1>3. live' \subseteq live \cup {[id |-> Head(up).id, of |-> Head(up).of]}
  BY DEF StartListen, StopListen
<1>4. /\ live' \subseteq [id : Ids, of : Tasks]
      /\ \A s \in live' : s.of \in Streams /\ id[s.of] = s.id
  BY <1>2, <1>3 DEF IdInv, TypeOK, FramesTrue
<1>5. TypeOK'
  BY <1>1, <1>4
     DEF StartListen, StopListen, IdInv, TypeOK, connVars, tableVars, taskVars
<1>6. TablesTrue' /\ OwnReply'
  BY DEF StartListen, StopListen, IdInv, TablesTrue, OwnReply, tableVars, taskVars
<1> QED
  BY <1>1, <1>4, <1>5, <1>6, KeptIds
     DEF StartListen, StopListen, IdInv, FramesTrue, tableVars, taskVars

LEMMA EventIds ==
  ASSUME IdInv, NEW s \in live, SendEvent(s)
  PROVE  /\ IdInv'
         /\ down' \in Seq(Frame) /\ Len(down) \in Nat /\ Len(down') = Len(down) + 1
         /\ \A i \in 1..Len(down) : down'[i] = down[i]
         /\ down'[Len(down) + 1] =
               [kind |-> "event", id |-> s.id, of |-> s.of, n |-> sent[s.of] + 1]
         /\ sent' = [sent EXCEPT ![s.of] = @ + 1]
         /\ UNCHANGED <<connVars, tableVars, taskVars, up, live>>
<1>1. s.id \in Ids /\ id[s.of] = s.id /\ s.of \in Streams /\ s.of \in Tasks
  BY Begun DEF Tasks
<1>2. sent[s.of] + 1 \in 0..MaxEvents /\ sent[s.of] + 1 > 0
  BY <1>1, RpcAssumption DEF SendEvent, IdInv, TypeOK
<1>3. down' = Reply("event", s, sent[s.of] + 1)
  BY DEF SendEvent
<1>4. /\ down' \in Seq(Frame) /\ Len(down) \in Nat /\ Len(down') = Len(down) + 1
      /\ \A i \in 1..Len(down) : down'[i] = down[i]
      /\ down'[Len(down) + 1] =
            [kind |-> "event", id |-> s.id, of |-> s.of, n |-> sent[s.of] + 1]
      /\ \A i \in 1..Len(down') : TrueFrame(down'[i])
  BY <1>1, <1>2, <1>3, Replied
<1>5. TypeOK'
  BY <1>1, <1>2, <1>4
     DEF SendEvent, IdInv, TypeOK, connVars, tableVars, taskVars
<1>6. TablesTrue' /\ OwnReply'
  BY DEF SendEvent, IdInv, TablesTrue, OwnReply, tableVars, taskVars
<1>7. IdInv'
  BY <1>4, <1>5, <1>6, KeptIds
     DEF SendEvent, IdInv, FramesTrue, tableVars, taskVars
<1> QED
  BY <1>4, <1>7 DEF SendEvent

LEMMA EndListenIds ==
  ASSUME IdInv, NEW s \in live, EndListen(s)
  PROVE  /\ IdInv'
         /\ down' \in Seq(Frame) /\ Len(down) \in Nat /\ Len(down') = Len(down) + 1
         /\ \A i \in 1..Len(down) : down'[i] = down[i]
         /\ down'[Len(down) + 1].kind \in {"end", "error"}
         /\ down'[Len(down) + 1].of = s.of
<1>1. s.id \in Ids /\ id[s.of] = s.id /\ s.of \in Streams /\ s.of \in Tasks
  BY Begun DEF Tasks
<1>2. PICK kind \in {"end", "error"} : down' = Reply(kind, s, 0)
  BY DEF EndListen
<1>3. /\ down' \in Seq(Frame) /\ Len(down) \in Nat /\ Len(down') = Len(down) + 1
      /\ \A i \in 1..Len(down) : down'[i] = down[i]
      /\ down'[Len(down) + 1] = [kind |-> kind, id |-> s.id, of |-> s.of, n |-> 0]
      /\ \A i \in 1..Len(down') : TrueFrame(down'[i])
  BY <1>1, <1>2, Replied, RpcAssumption
<1>4. TypeOK'
  BY <1>3 DEF EndListen, IdInv, TypeOK, connVars, tableVars, taskVars
<1>5. TablesTrue' /\ OwnReply'
  BY DEF EndListen, IdInv, TablesTrue, OwnReply, tableVars, taskVars
<1>6. IdInv'
  BY <1>3, <1>4, <1>5, KeptIds
     DEF EndListen, IdInv, FramesTrue, tableVars, taskVars
<1> QED
  BY <1>3, <1>6

LEMMA HangUpIds ==
  ASSUME IdInv, HangUp
  PROVE  IdInv'
<1>1. TypeOK'
  BY NoneOf DEF HangUp, IdInv, TypeOK, connVars, tableVars, taskVars
<1>2. TablesTrue' /\ OwnReply'
  BY DEF HangUp, IdInv, TablesTrue, OwnReply, tableVars, taskVars
<1> QED
  BY <1>1, <1>2, NoneOf, KeptIds DEF HangUp, IdInv, FramesTrue, tableVars, taskVars

\* The ids are kept apart by every step.
LEMMA NextIds == IdInv /\ [Next]_vars => IdInv'
<1> SUFFICES ASSUME IdInv, [Next]_vars PROVE IdInv'
  OBVIOUS
<1>1. ASSUME Connect \/ CloseBegins \/ Close \/ Reader \/ Daemon \/ HangUp PROVE IdInv'
  BY <1>1, ConnectionIds, EndIds, ReadIds, AnswerIds, ListenIds, HangUpIds
     DEF Close, Reader, Daemon
<1>2. ASSUME NEW t \in Calls, Call(t) \/ GiveUp(t) PROVE IdInv'
  <2>1. t \in Tasks
    BY DEF Tasks
  <2> QED
    <3>1. CASE Call(t)
      BY <2>1, <3>1, StartIds
    <3>2. CASE GiveUp(t)
      BY <2>1, <3>2, StoppedIds
    <3> QED
      BY <1>2, <3>1, <3>2
<1>3. ASSUME NEW t \in Streams, Stream(t) PROVE IdInv'
  BY <1>3, StartIds DEF Tasks
<1>4. ASSUME NEW t \in Streams, TakeItem(t) \/ Leave(t) PROVE IdInv'
  <2>1. CASE TakeItem(t) /\ Head(inbox[t]).kind = "event"
    BY <2>1, YieldIds
  <2>2. ASSUME Leave(t) \/ (TakeItem(t) /\ Head(inbox[t]).kind # "event") PROVE IdInv'
    <3>1. PICK how \in {"end", "closed", "left"} :
             /\ state[t] = "waiting" /\ Finish(t, how)
             /\ UNCHANGED <<connVars, lastId, id, pending, reply, seen, down, daemonVars>>
      BY <2>2, ConsumerEnds
    <3> QED
      BY <3>1, FinishIds
  <2> QED
    BY <1>4, <2>1, <2>2
<1>5. ASSUME NEW t \in Tasks, NotConnected(t) PROVE IdInv'
  BY <1>5, StoppedIds
<1>6. ASSUME NEW s \in live, SendEvent(s) \/ EndListen(s) PROVE IdInv'
  BY <1>6, EventIds, EndListenIds
<1>7. CASE UNCHANGED vars
  BY <1>7
     DEF vars, connVars, tableVars, taskVars, daemonVars, IdInv, TypeOK, IdsDistinct, Drawn,
         TablesTrue, FramesTrue, TrueRequest, TrueFrame, OwnReply
<1> QED
  BY <1>1, <1>2, <1>3, <1>4, <1>5, <1>6, <1>7 DEF Next

\* The tables, the wire and the ids agree in every behaviour.
THEOREM IdsAgree == Spec => []IdInv
BY InitIds, NextIds, PTL DEF Spec

\* The variables keep their types: there is an id for every request, and no event without
\* a number.
THEOREM TypeCorrect == Spec => []TypeOK
<1>1. IdInv => TypeOK
  BY DEF IdInv
<1> QED
  BY <1>1, IdsAgree, PTL

\* docs/daemon.md, matched by id: a call is only ever settled by the answer to its own
\* request, also over several connections and beside streams that were left.
THEOREM RepliesMatched == Spec => []OwnReply
<1>1. IdInv => OwnReply
  BY DEF IdInv
<1> QED
  BY <1>1, IdsAgree, PTL

-----------------------------------------------------------------------------
(* The events of a stream. *)

\* The values that the events of a stream are counted with.
LEMMA Counts ==
  ASSUME IdInv, NEW t \in Streams
  PROVE  /\ t \in Tasks
         /\ Len(seen[t]) \in Nat /\ Len(inbox[t]) \in Nat /\ sent[t] \in Nat
         /\ Len(up) \in Nat /\ Len(down) \in Nat
         /\ \A i \in 1..Len(down) : down[i].n \in Nat
         /\ \A i \in 1..Len(inbox[t]) : inbox[t][i] \in Item
<1>1. \A i \in 1..Len(down) : down[i] \in Frame
  BY DEF IdInv, TypeOK
<1> QED
  BY <1>1, RpcAssumption DEF IdInv, TypeOK, Tasks, Frame

LEMMA InitEvents == Init => EventInv
BY NoneOf
   DEF Init, EventInv, ReaderLives, StreamInv, OneListen, Untouched, InFlight, EndedInFull,
       Consecutive, Tasks

\* What stays of the requests, and what stays or comes of the frames of a stream: d and e
\* are the places that the wires have moved on by.
UpFrom(t, d) == \A i \in 1..Len(up') :
    up'[i].of = t /\ up'[i].kind = "listen" => i + d \in 1..Len(up) /\ up'[i] = up[i + d]
DownFrom(t, e) == \A i \in 1..Len(down') :
    down'[i].of = t /\ down'[i].kind \in {"event", "end"} =>
        i + e \in 1..Len(down) /\ down'[i] = down[i + e]
DownKeeps(t, e) == \A i \in 1..Len(down) :
    EventOf(i, t) => i - e \in 1..Len(down') /\ down'[i - e] = down[i]
LiveFrom(t) == \A s \in live' : s.of = t => s \in live

LEMMA OverStays ==
  ASSUME NEW t, NEW d \in Nat, Over(t), UpFrom(t, d), LiveFrom(t)
  PROVE  Over(t)'
BY DEF Over, UpFrom, LiveFrom

\* A stream is asked for once also after a step that asks for none.
LEMMA ListenStays ==
  ASSUME IdInv, IdInv', NEW t \in Streams, OneListen(t), NEW d \in {0, 1}, NEW e \in {0, 1},
         UpFrom(t, d), LiveFrom(t), DownFrom(t, e)
  PROVE  OneListen(t)'
<1>1. Len(up) \in Nat /\ Len(down) \in Nat /\ Len(up') \in Nat /\ Len(down') \in Nat
  BY Counts DEF IdInv, TypeOK
<1>2. \A i \in 1..Len(up') : Listens(i, t)' => i + d \in 1..Len(up) /\ Listens(i + d, t)
  BY DEF UpFrom, Listens
<1>3. \A i \in 1..Len(down') : /\ EventOf(i, t)' => i + e \in 1..Len(down) /\ EventOf(i + e, t)
                               /\ EndOf(i, t)' => i + e \in 1..Len(down) /\ EndOf(i + e, t)
  BY DEF DownFrom, EventOf, EndOf
<1>4. \A i, j \in 1..Len(up') : Listens(i, t)' /\ Listens(j, t)' => i = j
  BY <1>1, <1>2 DEF OneListen
<1>5. \A i \in 1..Len(up') : Listens(i, t)' => \A s \in live' : s.of # t
  BY <1>2 DEF OneListen, LiveFrom
<1>6. ASSUME NEW j \in 1..Len(down'), EndOf(j, t)'
      PROVE  Over(t)' /\ \A i \in 1..Len(down') : EventOf(i, t)' => i < j
  <2>1. j + e \in 1..Len(down) /\ EndOf(j + e, t)
    BY <1>3, <1>6
  <2>2. Over(t) /\ \A i \in 1..Len(down) : EventOf(i, t) => i < j + e
    BY <2>1 DEF OneListen
  <2>3. \A i \in 1..Len(down') : EventOf(i, t)' => i + e < j + e
    BY <1>3, <2>2
  <2>4. Over(t)'
    BY <2>2, OverStays
  <2> QED
    BY <1>1, <2>3, <2>4
<1> QED
  BY <1>4, <1>5, <1>6 DEF OneListen

\* The events of a stream stay where they are in a step that is none of its own.
LEMMA QuietEvents ==
  ASSUME IdInv, IdInv', NEW t \in Streams, StreamInv(t), NEW d \in {0, 1}, NEW e \in {0, 1},
         UpFrom(t, d), LiveFrom(t), DownFrom(t, e),
         seen'[t] = seen[t], sent'[t] = sent[t], inbox'[t] = inbox[t],
         state'[t] \in {state[t], "failed"},
         Attached(t)' => /\ Attached(t) /\ DownKeeps(t, e)
                         /\ reader = "ended" => reader' = "ended"
  PROVE  StreamInv(t)'
<1> USE DEF StreamInv
<1>1. OneListen(t)'
  BY ListenStays
<1>2. Untouched(t)' /\ Consecutive(t)'
  BY DEF Untouched, Consecutive
<1>3. Over(t) => Over(t)'
  BY OverStays
<1>4. EndedInFull(t)'
  BY <1>3 DEF EndedInFull
<1>5. ASSUME state'[t] = "waiting"
      PROVE  \E k \in 0..Len(inbox'[t]) : Queued(t, k)' /\ (Attached(t)' => OnTheWire(t, k)')
  <2>1. PICK k \in 0..Len(inbox[t]) : Queued(t, k) /\ (Attached(t) => OnTheWire(t, k))
    BY <1>5 DEF InFlight
  <2>2. Queued(t, k)'
    BY <1>3, <2>1 DEF Queued
  <2>3. ASSUME Attached(t)' PROVE OnTheWire(t, k)'
    <3>1. OnTheWire(t, k) /\ DownKeeps(t, e)
      BY <2>1, <2>3
    <3>2. \A i \in 1..Len(down') :
             EventOf(i, t)' => i + e \in 1..Len(down) /\ EventOf(i + e, t) /\ down'[i] = down[i + e]
      BY DEF DownFrom, EventOf
    <3>3. \A i \in 1..Len(down') : EventOf(i, t)' => down'[i].n \in Len(seen'[t]) + k + 1 .. sent'[t]
      BY <3>1, <3>2 DEF OnTheWire
    <3>4. \A i, j \in 1..Len(down') :
             EventOf(i, t)' /\ EventOf(j, t)' /\ i < j => down'[i].n < down'[j].n
      <4> SUFFICES ASSUME NEW i \in 1..Len(down'), NEW j \in 1..Len(down'),
                          EventOf(i, t)', EventOf(j, t)', i < j
                   PROVE  down'[i].n < down'[j].n
        OBVIOUS
      <4>1. /\ i + e \in 1..Len(down) /\ EventOf(i + e, t) /\ down'[i] = down[i + e]
            /\ j + e \in 1..Len(down) /\ EventOf(j + e, t) /\ down'[j] = down[j + e]
        BY <3>2
      <4>2. i + e < j + e
        OBVIOUS
      <4> QED
        BY <3>1, <4>1, <4>2 DEF OnTheWire
    <3>5. \A n \in Len(seen'[t]) + k + 1 .. sent'[t] :
             \E i \in 1..Len(down') : EventOf(i, t)' /\ down'[i].n = n
      BY SMTT(60), <3>1 DEF OnTheWire, DownKeeps, EventOf
    <3> QED
      BY <3>3, <3>4, <3>5 DEF OnTheWire
  <2> QED
    BY <2>1, <2>2, <2>3
<1>6. InFlight(t)'
  BY <1>5 DEF InFlight
<1> QED
  BY <1>1, <1>2, <1>4, <1>6

\* A stream that begins: nothing of it is on the wire yet.
LEMMA BeginEvents ==
  ASSUME IdInv, IdInv', NEW t \in Streams, StreamInv(t), Stream(t)
  PROVE  StreamInv(t)'
<1>1. Begin(t, "listen") /\ state[t] = "idle" /\ t \in Tasks
  BY Counts DEF Stream, Begin
<1>2. /\ id[t] = 0 /\ Len(up') >= Len(up)
      /\ \A i \in 1..Len(up') : IF i <= Len(up) THEN up'[i] = up[i] ELSE i = Len(up) + 1
  BY <1>1, BeginIds
<1>3. \A i \in 1..Len(up) : up[i].of # t
  <2>1. \A i \in 1..Len(up) : up[i] \in Request /\ id[up[i].of] = up[i].id
    BY DEF IdInv, TypeOK, FramesTrue, TrueRequest
  <2> QED
    BY <1>2, <2>1 DEF Request, Ids
<1>4. \A i \in 1..Len(down) : down[i].of # t
  <2>1. \A i \in 1..Len(down) : down[i] \in Frame /\ id[down[i].of] = down[i].id
    BY DEF IdInv, TypeOK, FramesTrue, TrueFrame
  <2> QED
    BY <1>2, <2>1 DEF Frame, Ids
<1>5. \A s \in live : s.of # t
  BY <1>2, Begun
<1>6. /\ UNCHANGED <<inbox, seen, down, live, sent>>
      /\ state'[t] \in {"waiting", "failed"}
  BY <1>1 DEF Begin, daemonVars, IdInv, TypeOK
<1>7. Len(up) \in Nat /\ Len(seen[t]) = 0 /\ Len(inbox[t]) = 0 /\ sent[t] = 0
  BY <1>1, Counts DEF StreamInv, Untouched
<1>8. \A i \in 1..Len(up') : Listens(i, t)' => i = Len(up) + 1
  BY <1>2, <1>3, <1>7 DEF Listens
<1>9. OneListen(t)'
  BY <1>4, <1>5, <1>6, <1>8 DEF OneListen, EndOf
<1>10. InFlight(t)'
  <2>1. Queued(t, 0)'
    BY <1>6, <1>7 DEF Queued
  <2>2. OnTheWire(t, 0)'
    BY <1>4, <1>6, <1>7 DEF OnTheWire, EventOf
  <2> QED
    BY <1>6, <1>7, <2>1, <2>2 DEF InFlight
<1> QED
  BY <1>6, <1>9, <1>10 DEF StreamInv, Untouched, EndedInFull, Consecutive

\* The reader puts an event or the end into the queue of its stream.
LEMMA PutEvents ==
  ASSUME IdInv, IdInv', NEW t \in Streams, StreamInv(t), reader = "running", down # <<>>,
         down' = Tail(down), Head(down).kind \in {"event", "end"}, Head(down).of = t,
         UNCHANGED <<state, id, streams, seen, sent, reader, up, live>>,
         inbox' = [inbox EXCEPT ![t] =
                      Append(@, [kind |-> Head(down).kind, n |-> Head(down).n])],
         streams[id[t]] = t
  PROVE  StreamInv(t)'
<1> DEFINE f == Head(down)
           e == [kind |-> f.kind, n |-> f.n]
           q == Len(inbox[t])
<1>1. /\ f = down[1] /\ f \in Frame /\ Len(down) \in Nat \ {0} /\ Len(down') = Len(down) - 1
      /\ \A i \in 1..Len(down') : i + 1 \in 1..Len(down) /\ down'[i] = down[i + 1]
  BY NextFrame
<1>2. e \in Item /\ e.kind = f.kind /\ e.n = f.n
  BY <1>1 DEF Item, Frame
<1>3. /\ q \in Nat /\ Len(inbox'[t]) = q + 1 /\ inbox'[t][q + 1] = e
      /\ \A i \in 1..q : inbox'[t][i] = inbox[t][i]
  <2>1. inbox[t] \in Seq(Item) /\ inbox'[t] = Append(inbox[t], e)
    BY DEF IdInv, TypeOK
  <2> HIDE DEF e
  <2> QED
    BY <2>1, <1>2, Appended
<1> HIDE DEF e, f, q
<1>4. f.kind \in {"event", "end"} /\ f.of = t
  BY DEF f
<1>5. /\ Len(seen[t]) \in Nat /\ sent[t] \in Nat /\ \A i \in 1..Len(down) : down[i].n \in Nat
  BY Counts
<1>6. Over(t) => Over(t)'
  BY DEF Over
<1>7. \A i \in 1..Len(down') : /\ EventOf(i, t)' <=> EventOf(i + 1, t)
                               /\ EndOf(i, t)' <=> EndOf(i + 1, t)
  BY <1>1 DEF EventOf, EndOf
<1>8. OneListen(t)'
  <2>1. UpFrom(t, 0) /\ LiveFrom(t) /\ DownFrom(t, 1)
    BY <1>1 DEF UpFrom, LiveFrom, DownFrom
  <2> QED
    BY <2>1, ListenStays DEF StreamInv
<1>9. ASSUME state[t] = "waiting"
      PROVE  \E k \in 0..Len(inbox'[t]) : Queued(t, k)' /\ OnTheWire(t, k)'
  <2>1. PICK k \in 0..q : Queued(t, k) /\ OnTheWire(t, k)
    BY <1>9 DEF StreamInv, InFlight, Attached, q
  <2>2. k \in Nat
    BY <1>3, <2>1
  <2>3. PICK L \in Nat, last \in Nat, next \in Nat, k1 \in Nat :
           /\ L = Len(seen[t]) /\ L = Len(seen'[t]) /\ last = sent[t] /\ last = sent'[t]
           /\ next = L + k + 1 /\ next <= last + 1 /\ k1 = k + 1 /\ next = L + k1
           /\ next = last + 1 => L + k = last
    <3>1. PICK L \in Nat, last \in Nat :
             /\ L = Len(seen[t]) /\ L = Len(seen'[t]) /\ last = sent[t] /\ last = sent'[t]
      BY <1>5
    <3>2. L + k <= last
      BY <2>1, <3>1 DEF Queued
    <3>3. /\ L + k + 1 \in Nat /\ L + k + 1 <= last + 1 /\ k + 1 \in Nat
          /\ L + k + 1 = L + (k + 1) /\ (L + k + 1 = last + 1 => L + k = last)
      <4>1. L + k + 1 \in Nat /\ L + k + 1 <= last + 1
        BY <2>2, <3>2
      <4>2. k + 1 \in Nat /\ L + k + 1 = L + (k + 1)
        BY <2>2
      <4>3. L + k + 1 = last + 1 => L + k = last
        BY <2>2
      <4> QED
        BY <4>1, <4>2, <4>3
    <3> QED
      BY <3>1, <3>3
  <2>4. /\ \A i \in 1..Len(down) : EventOf(i, t) => down[i].n \in next .. last
        /\ \A n \in next .. last : \E i \in 1..Len(down) : EventOf(i, t) /\ down[i].n = n
    BY <2>3, <2>1 DEF OnTheWire
  <2>5. Attached(t)
    BY <1>9 DEF Attached
  <2>6. \A i \in 1..q : inbox[t][i].kind # "closed"
    <3>1. \A i \in 1..q : inbox[t][i].kind = "closed" => reader = "ended"
      BY <2>1, <2>5 DEF Queued, q
    <3> QED
      BY <3>1
  <2>7. CASE f.kind = "event"
    <3>1. EventOf(1, t) /\ 1 \in 1..Len(down)
      BY <1>1, <1>4, <2>7 DEF EventOf
    <3>2. f.n \in next .. last /\ next \in next .. last
      BY <1>1, <2>2, <2>3, <2>4, <3>1
    <3>3. PICK i \in 1..Len(down) : EventOf(i, t) /\ down[i].n = next
      BY <2>4, <3>2
    <3>4. i = 1 /\ f.n = next
      BY <1>1, <2>2, <2>3, <2>1, <3>1, <3>2, <3>3 DEF OnTheWire
    <3>5. k = q
      <4>1. ASSUME NEW j \in 1..q, inbox[t][j].kind = "end" PROVE FALSE
        BY <2>2, <2>3, <2>1, <3>2, <4>1 DEF Queued, q
      <4>2. \A j \in 1..q : inbox[t][j].kind = "event"
        BY <2>6, <4>1, Counts DEF Item, q
      <4> QED
        <5>1. q \in 1..q => q <= k
          BY <2>1, <4>2 DEF Queued, q
        <5>2. q \in Nat
          BY <1>3
        <5>3. k \in Nat /\ k <= q
          BY <2>2, <5>2
        <5>4. q # 0 => q <= k
          BY <5>1, <5>2
        <5> QED
          BY <5>2, <5>3, <5>4
    <3>6. Queued(t, k1)'
      <4>1. Len(seen'[t]) + k1 <= sent'[t]
        <5>1. L + k1 <= last
          <6>1. next <= last
            BY <3>2
          <6> QED
            BY <2>3, <6>1
        <5> QED
          BY <2>3, <5>1
      <4>2. ASSUME NEW j \in 1..Len(inbox'[t])
            PROVE  inbox'[t][j].kind = "event" /\ j <= k1 /\ inbox'[t][j].n = L + j
        <5>1. CASE j = q + 1
          <6>1. j = k1 /\ inbox'[t][j] = e
            BY <1>3, <2>3, <3>5, <5>1
          <6>2. e.kind = "event" /\ e.n = next
            BY <1>2, <2>7, <3>4
          <6>3. next = L + j /\ j <= k1
            <7>1. next = L + k1 /\ k1 \in Nat
              BY <2>3
            <7> QED
              BY <6>1, <7>1
          <6> QED
            BY <6>1, <6>2, <6>3
        <5>2. CASE j # q + 1
          <6>1. j \in 1..q /\ j <= k1 /\ j <= k /\ inbox'[t][j] = inbox[t][j]
            BY SMTT(60), <1>3, <2>3, <3>5, <5>2
          <6> QED
            BY <2>1, <2>3, <6>1 DEF Queued, q
        <5> QED
          BY <5>1, <5>2
      <4> QED
        BY <2>3, <4>1, <4>2 DEF Queued
    <3>7. OnTheWire(t, k1)'
      <4>1. ASSUME NEW j \in 1..Len(down'), EventOf(j, t)'
            PROVE  down'[j].n \in next + 1 .. last
        <5>1. j + 1 \in 1..Len(down) /\ EventOf(j + 1, t) /\ down'[j] = down[j + 1] /\ 1 < j + 1
          BY <1>1, <1>7, <4>1
        <5>2. down[1].n < down[j + 1].n /\ down[j + 1].n \in next .. last
          BY <2>1, <2>4, <3>1, <5>1 DEF OnTheWire
        <5>3. down[j + 1].n \in next + 1 .. last
          <6>1. down[1].n = next
            BY <1>1, <3>4
          <6>2. next < down[j + 1].n /\ down[j + 1].n \in next .. last
            BY <5>2, <6>1
          <6> QED
            BY <6>2
        <5> QED
          BY <2>2, <2>3, <5>1, <5>3
      <4>2. ASSUME NEW j \in 1..Len(down'), NEW m \in 1..Len(down'),
                   EventOf(j, t)', EventOf(m, t)', j < m
            PROVE  down'[j].n < down'[m].n
        BY <1>1, <1>7, <2>1, <4>2 DEF OnTheWire
      <4>3. ASSUME NEW n \in next + 1 .. last
            PROVE  \E j \in 1..Len(down') : EventOf(j, t)' /\ down'[j].n = n
        <5>1. PICK j \in 1..Len(down) : EventOf(j, t) /\ down[j].n = n
          BY SMTT(60), <2>2, <2>3, <2>4
        <5>2. j # 1
          BY <1>1, <2>2, <2>3, <3>4, <5>1
        <5>3. j - 1 \in 1..Len(down') /\ down'[j - 1] = down[(j - 1) + 1] /\ EventOf(j - 1, t)'
          BY <1>1, <1>7, <5>1, <5>2
        <5> QED
          BY <5>1, <5>3
      <4> QED
        BY <2>3, <4>1, <4>2, <4>3 DEF OnTheWire
    <3> QED
      <4>1. k1 \in 0..Len(inbox'[t])
        BY <1>3, <2>3, <3>5
      <4> QED
        BY <3>6, <3>7, <4>1
  <2>8. CASE f.kind = "end"
    <3>1. EndOf(1, t) /\ 1 \in 1..Len(down)
      BY <1>1, <1>4, <2>8 DEF EndOf
    <3>2. Over(t) /\ \A i \in 1..Len(down) : ~EventOf(i, t)
      BY <3>1 DEF StreamInv, OneListen
    <3>3. L + k = last
      <4>1. next \notin next .. last
        BY <2>4, <3>2
      <4>2. next = last + 1
        <5>1. next <= last + 1
          BY <2>3
        <5>2. ~(next <= last)
          BY <4>1
        <5> QED
          BY <5>1, <5>2
      <4> QED
        BY <2>3, <4>2
    <3>4. Queued(t, k)'
      <4>1. ASSUME NEW j \in 1..Len(inbox'[t])
            PROVE  /\ inbox'[t][j].kind = "event" <=> j <= k
                   /\ j <= k => inbox'[t][j].n = L + j
                   /\ inbox'[t][j].kind # "closed"
        <5>1. CASE j = q + 1
          <6>1. inbox'[t][j].kind = "end" /\ ~(j <= k)
            BY <1>2, <1>3, <2>2, <2>8, <5>1
          <6> QED
            BY <6>1
        <5>2. CASE j # q + 1
          <6>1. j \in 1..q /\ inbox'[t][j] = inbox[t][j]
            BY <1>3, <5>2
          <6> QED
            BY <2>1, <2>3, <2>6, <6>1 DEF Queued, q
        <5> QED
          BY <5>1, <5>2
      <4> QED
        BY <1>6, <2>3, <3>2, <3>3, <4>1 DEF Queued
    <3>5. OnTheWire(t, k)'
      <4>1. \A i \in 1..Len(down') : ~EventOf(i, t)'
        BY <1>1, <1>7, <3>2
      <4> QED
        BY <2>3, <2>2, <2>3, <3>3, <4>1 DEF OnTheWire
    <3> QED
      BY <1>3, <2>1, <3>4, <3>5
  <2> QED
    BY <1>4, <2>7, <2>8
<1>10. InFlight(t)'
  BY <1>9 DEF InFlight
<1>11. Untouched(t)'
  BY <1>4, <1>1, Counts DEF IdInv, IdsDistinct, FramesTrue, TrueFrame, Untouched, Frame, Ids, Tasks
<1>12. EndedInFull(t)' /\ Consecutive(t)'
  BY <1>6 DEF StreamInv, EndedInFull, Consecutive
<1> QED
  BY <1>8, <1>10, <1>11, <1>12 DEF StreamInv

\* The reader takes a frame: it is of one stream at most, and lost only if nobody listens.
LEMMA ReadEvents ==
  ASSUME IdInv, IdInv', NEW t \in Streams, StreamInv(t), ReadFrame
  PROVE  StreamInv(t)'
<1> DEFINE f == Head(down)
<1>1. /\ f = down[1] /\ f \in Frame /\ TrueFrame(f) /\ Len(down) \in Nat \ {0}
      /\ down' = Tail(down) /\ Len(down') = Len(down) - 1
      /\ \A i \in 1..Len(down') : i + 1 \in 1..Len(down) /\ down'[i] = down[i + 1]
  BY NextFrame DEF ReadFrame
<1>2. /\ reader = "running" /\ down # <<>> /\ UNCHANGED <<id, streams, seen, sent, reader, up, live>>
      /\ f.id \in Ids /\ id[f.of] = f.id
  BY <1>1 DEF ReadFrame, DispatchToStream, DispatchToCall, connVars, tableVars, daemonVars,
              Frame, TrueFrame
<1>3. state'[t] = state[t]
  <2>1. CASE DispatchToStream(f)
    BY <2>1 DEF DispatchToStream
  <2>2. CASE DispatchToCall(f)
    <3>1. t \notin Calls
      BY RpcAssumption
    <3>2. pending[f.id] # NoTask => pending[f.id] # t
      BY <1>2, <3>1 DEF IdInv, TablesTrue
    <3> QED
      BY <2>2, <3>2, Counts DEF DispatchToCall, IdInv, TypeOK
  <2> QED
    BY <2>1, <2>2 DEF ReadFrame
<1>4. CASE DispatchToStream(f) /\ streams[f.id] = t
  <2>1. f.of = t /\ id[t] = f.id
    <3>1. id[t] = f.id /\ id[t] # 0 /\ f.of \in Tasks
      BY <1>1, <1>2, <1>4, Counts, RpcAssumption DEF IdInv, TablesTrue, Ids, Frame
    <3> QED
      BY <1>2, <3>1, Counts DEF IdInv, IdsDistinct
  <2>2. t # NoTask
    BY Counts, RpcAssumption
  <2>3. /\ f.kind \in {"event", "end"} /\ UNCHANGED state
        /\ inbox' = [inbox EXCEPT ![t] = Append(@, [kind |-> f.kind, n |-> f.n])]
    BY <1>4, <2>2 DEF DispatchToStream, Put
  <2> QED
    BY <1>1, <1>2, <1>4, <2>1, <2>3, PutEvents
<1>5. CASE ~(DispatchToStream(f) /\ streams[f.id] = t)
  <2>1. inbox'[t] = inbox[t]
    BY <1>2, <1>5 DEF ReadFrame, DispatchToStream, DispatchToCall, Put, IdInv, TypeOK
  <2>2. UpFrom(t, 0) /\ LiveFrom(t) /\ DownFrom(t, 1)
    BY <1>1, <1>2 DEF UpFrom, LiveFrom, DownFrom
  <2>3. Attached(t)' => Attached(t) /\ DownKeeps(t, 1)
    <3>1. Attached(t)' => Attached(t)
      BY <1>2, <1>3 DEF Attached
    <3>2. ASSUME Attached(t), EventOf(1, t) PROVE FALSE
      <4>1. f.kind = "event" /\ f.of = t /\ streams[f.id] = t
        BY <1>1, <1>2, <3>2 DEF EventOf, Attached
      <4> QED
        BY <1>5, <4>1 DEF ReadFrame, DispatchToCall
    <3>3. \A i \in 1..Len(down) : i # 1 => i - 1 \in 1..Len(down') /\ down'[i - 1] = down[i]
      <4> SUFFICES ASSUME NEW i \in 1..Len(down), i # 1
                   PROVE  i - 1 \in 1..Len(down') /\ down'[i - 1] = down[i]
        OBVIOUS
      <4>1. i - 1 \in 1..Len(down') /\ (i - 1) + 1 = i
        BY <1>1
      <4> QED
        BY <1>1, <4>1
    <3> QED
      BY <3>1, <3>2, <3>3 DEF DownKeeps
  <2> QED
    BY <1>2, <1>3, <2>1, <2>2, <2>3, QuietEvents
<1> QED
  BY <1>4, <1>5

\* The connection ends for a stream: what its queue holds stays, and it is told at the end.
LEMMA ToldEvents ==
  ASSUME IdInv, IdInv', NEW t \in Streams, StreamInv(t), ReaderEnds \/ CloseEnds
  PROVE  StreamInv(t)'
<1> USE DEF StreamInv
<1>1. FailPending /\ TellStreams /\ UNCHANGED <<id, seen, sent>>
  BY DEF ReaderEnds, ReaderFails, CloseEnds, daemonVars
<1>2. state'[t] = state[t]
  <2>1. \A i \in Ids : pending[i] # t
    BY RpcAssumption, Counts DEF IdInv, TablesTrue
  <2> QED
    BY <1>1, <2>1, Counts DEF FailPending
<1>3. \/ UNCHANGED <<up, down, live, streams>> /\ reader' = "ended"
      \/ up' = <<>> /\ down' = <<>> /\ live' = {} /\ \A i \in Ids : streams'[i] = NoTask
  BY DEF ReaderEnds, CloseEnds, daemonVars
<1>4. UpFrom(t, 0) /\ LiveFrom(t) /\ DownFrom(t, 0)
  BY <1>3, NoneOf DEF UpFrom, LiveFrom, DownFrom
<1>5. Over(t) => Over(t)'
  BY <1>4, OverStays
<1>6. Attached(t)' => Attached(t) /\ UNCHANGED down /\ reader' = "ended"
  <2>1. state[t] = "waiting" => id[t] \in Ids
    BY Counts DEF IdInv, IdsDistinct, TypeOK
  <2> QED
    BY <1>1, <1>2, <1>3, <2>1, Counts, RpcAssumption DEF Attached
<1>7. /\ Len(inbox[t]) \in Nat /\ Len(inbox'[t]) \in {Len(inbox[t]), Len(inbox[t]) + 1}
      /\ \A i \in 1..Len(inbox[t]) : inbox'[t][i] = inbox[t][i]
      /\ Len(inbox'[t]) = Len(inbox[t]) + 1 => inbox'[t][Len(inbox[t]) + 1].kind = "closed"
  BY <1>1, Told
<1>8. InFlight(t)'
  <2> SUFFICES ASSUME state[t] = "waiting"
               PROVE  \E k \in 0..Len(inbox'[t]) : Queued(t, k)' /\ (Attached(t)' => OnTheWire(t, k)')
    BY <1>2 DEF InFlight
  <2>1. PICK k \in 0..Len(inbox[t]) : Queued(t, k) /\ (Attached(t) => OnTheWire(t, k))
    BY DEF InFlight
  <2>2. k \in 0..Len(inbox'[t])
    BY <1>7
  <2>3. Attached(t)' => OnTheWire(t, k)'
    BY <1>1, <1>6, <2>1 DEF OnTheWire, EventOf
  <2>4. ASSUME NEW i \in 1..Len(inbox'[t])
        PROVE  /\ inbox'[t][i].kind = "event" <=> i <= k
               /\ i <= k => inbox'[t][i].n = Len(seen[t]) + i
               /\ inbox'[t][i].kind = "end" => Over(t) /\ Len(seen[t]) + k = sent[t]
    <3>1. CASE i \in 1..Len(inbox[t])
      BY <1>7, <2>1, <3>1 DEF Queued
    <3>2. CASE i \notin 1..Len(inbox[t])
      <4>1. inbox'[t][i].kind = "closed" /\ ~(i <= k)
        BY <1>7, <3>2
      <4> QED
        BY <4>1
    <3> QED
      BY <3>1, <3>2
  <2>5. Queued(t, k)'
    BY <1>1, <1>5, <1>6, <2>1, <2>4 DEF Queued
  <2> QED
    BY <2>2, <2>3, <2>5
<1>9. OneListen(t)'
  BY <1>4, ListenStays
<1>10. Untouched(t)'
  <2>1. state[t] = "idle" => ~\E i \in Ids : streams[i] = t
    BY Counts, RpcAssumption DEF IdInv, IdsDistinct, TablesTrue, Ids
  <2>2. state[t] = "idle" => inbox'[t] = inbox[t]
    BY <1>1, <2>1 DEF TellStreams
  <2> QED
    BY <1>1, <1>2, <2>2 DEF Untouched
<1>11. EndedInFull(t)' /\ Consecutive(t)'
  BY <1>1, <1>2, <1>5 DEF EndedInFull, Consecutive
<1> QED
  BY <1>8, <1>9, <1>10, <1>11

\* The consumer takes an event: it is the next one.
LEMMA YieldEvents ==
  ASSUME IdInv, IdInv', NEW t \in Streams, StreamInv(t),
         TakeItem(t), Head(inbox[t]).kind = "event"
  PROVE  StreamInv(t)'
<1> USE DEF StreamInv
<1> DEFINE n == Head(inbox[t]).n
           q == Len(inbox[t])
<1>1. /\ q \in Nat \ {0} /\ Head(inbox[t]) = inbox[t][1] /\ n \in 1..MaxEvents
      /\ Len(Tail(inbox[t])) = q - 1
      /\ \A i \in 1..q - 1 : Tail(inbox[t])[i] = inbox[t][i + 1]
  BY NextItem DEF TakeItem
<1>2. /\ inbox'[t] = Tail(inbox[t]) /\ seen'[t] = Append(seen[t], n)
      /\ UNCHANGED <<socket, opens, reader, closer, lastId, id, pending, streams, state, up,
                     down, daemon, live, sent>>
  BY YieldIds DEF IdInv, TypeOK, connVars, tableVars, daemonVars
<1> HIDE DEF n, q
<1>3. state[t] = "waiting" /\ state'[t] = "waiting"
  BY <1>2 DEF TakeItem
<1>4. PICK k \in 0..q : Queued(t, k) /\ (Attached(t) => OnTheWire(t, k))
  BY <1>3 DEF InFlight, q
<1>5. PICK L \in Nat, last \in Nat, k0 \in Nat, L1 \in Nat :
        /\ L = Len(seen[t]) /\ last = sent[t] /\ last = sent'[t]
        /\ k = k0 + 1 /\ L1 = L + 1 /\ L1 + k0 = L + k
  <2>1. 1 <= k /\ k \in Nat
    <3>1. inbox[t][1].kind = "event" /\ 1 \in 1..q
      BY <1>1, TakeItem(t), Head(inbox[t]).kind = "event"
    <3> QED
      BY <1>1, <1>4, <3>1 DEF Queued, q
  <2>2. PICK L \in Nat, last \in Nat : L = Len(seen[t]) /\ last = sent[t] /\ last = sent'[t]
    BY <1>2, Counts
  <2>3. k - 1 \in Nat /\ k = (k - 1) + 1 /\ L + 1 \in Nat /\ (L + 1) + (k - 1) = L + k
    BY <2>1
  <2> QED
    BY <2>2, <2>3
<1>6. /\ Len(seen'[t]) = L1 /\ seen'[t][L1] = n
      /\ \A i \in 1..L : seen'[t][i] = seen[t][i]
  <2>1. seen[t] \in Seq(1..MaxEvents)
    BY DEF IdInv, TypeOK
  <2> QED
    BY <1>1, <1>2, <1>5, <2>1, Appended
<1>7. n = L1
  <2>1. 1 \in 1..q /\ 1 <= k
    BY <1>1, <1>5
  <2>2. inbox[t][1].n = L + 1
    BY <1>4, <1>5, <2>1 DEF Queued, q
  <2> QED
    BY <1>1, <1>5, <2>2 DEF n
<1>8. Consecutive(t)'
  <2>1. \A i \in 1..L1 : i \in 1..L \/ i = L1
    BY <1>5
  <2>2. \A i \in 1..L : seen[t][i] = i
    BY <1>5 DEF Consecutive
  <2> QED
    BY <1>6, <1>7, <2>1, <2>2 DEF Consecutive
<1>9. Over(t)' <=> Over(t)
  BY <1>2 DEF Over
<1>10. Attached(t)' <=> Attached(t)
  BY <1>2 DEF Attached
<1>11. Queued(t, k0)'
  <2>1. ASSUME NEW i \in 1..Len(inbox'[t])
        PROVE  /\ inbox'[t][i].kind = "event" <=> i <= k0
               /\ i <= k0 => inbox'[t][i].n = L1 + i
               /\ inbox'[t][i].kind = "end" => Over(t) /\ L1 + k0 = last
               /\ inbox'[t][i].kind = "closed" /\ Attached(t) => reader = "ended"
    <3>1. i + 1 \in 1..q /\ inbox'[t][i] = inbox[t][i + 1]
      BY <1>1, <1>2
    <3>2. /\ inbox[t][i + 1].kind = "event" <=> i + 1 <= k
          /\ i + 1 <= k => inbox[t][i + 1].n = L + (i + 1)
          /\ inbox[t][i + 1].kind = "end" => Over(t) /\ L + k = last
          /\ inbox[t][i + 1].kind = "closed" /\ Attached(t) => reader = "ended"
      BY <1>4, <1>5, <3>1 DEF Queued, q
    <3>3. (i + 1 <= k <=> i <= k0) /\ L + (i + 1) = L1 + i
      <4>1. k = k0 + 1 /\ L1 = L + 1 /\ i \in Nat
        BY <1>5
      <4>2. i + 1 <= k <=> i <= k0
        BY <4>1
      <4>3. L + (i + 1) = L1 + i
        BY <4>1
      <4> QED
        BY <4>2, <4>3
    <3> QED
      BY <1>5, <3>1, <3>2, <3>3
  <2>2. L + k <= last
    BY <1>4, <1>5 DEF Queued
  <2> QED
    BY <1>2, <1>5, <1>6, <1>9, <1>10, <2>1, <2>2 DEF Queued
<1>12. OnTheWire(t, k) => OnTheWire(t, k0)'
  <2>1. OnTheWire(t, k) =>
          /\ \A i \in 1..Len(down) : EventOf(i, t) => down[i].n \in L + k + 1 .. last
          /\ \A i, j \in 1..Len(down) : EventOf(i, t) /\ EventOf(j, t) /\ i < j => down[i].n < down[j].n
          /\ \A m \in L + k + 1 .. last : \E i \in 1..Len(down) : EventOf(i, t) /\ down[i].n = m
    BY <1>5 DEF OnTheWire
  <2>2. Len(seen'[t]) + k0 + 1 = L + k + 1
    BY <1>5, <1>6
  <2> QED
    BY <1>2, <1>5, <2>1, <2>2 DEF OnTheWire, EventOf
<1>13. InFlight(t)'
  <2>1. k0 \in 0..Len(inbox'[t])
    <3>1. Len(inbox'[t]) = q - 1
      BY <1>1, <1>2
    <3>2. k <= q
      BY <1>1, <1>4
    <3> QED
      BY <1>1, <1>5, <3>1, <3>2
  <2> QED
    BY <1>4, <1>10, <1>11, <1>12, <2>1 DEF InFlight
<1>14. OneListen(t)'
  BY <1>2 DEF OneListen, Listens, EndOf, EventOf, Over
<1> QED
  BY <1>3, <1>8, <1>13, <1>14 DEF Untouched, EndedInFull

\* A stream ends: if by the end the daemon sent, it has yielded everything.
LEMMA FinishEvents ==
  ASSUME IdInv, IdInv', NEW t \in Streams, StreamInv(t),
         NEW how \in {"end", "closed", "left"}, state[t] = "waiting", Finish(t, how),
         UNCHANGED <<connVars, lastId, id, pending, reply, seen, down, daemonVars>>,
         how # "left" => inbox[t] # <<>> /\ how = Head(inbox[t]).kind
  PROVE  StreamInv(t)'
<1> USE DEF StreamInv
<1>1. /\ state'[t] = how /\ Len(up) \in Nat
      /\ Len(up') \in {Len(up), Len(up) + 1}
      /\ \A i \in 1..Len(up) : up'[i] = up[i]
      /\ Len(up') = Len(up) + 1 => up'[Len(up) + 1].kind = "cancel"
      /\ UNCHANGED <<seen, down, live, sent>>
  BY FinishIds, Counts DEF IdInv, TypeOK, daemonVars
<1>2. UpFrom(t, 0) /\ LiveFrom(t) /\ DownFrom(t, 0)
  <2>1. ASSUME NEW i \in 1..Len(up'), up'[i].kind = "listen"
        PROVE  i \in 1..Len(up) /\ up'[i] = up[i] /\ i + 0 = i
    <3>1. i # Len(up) + 1
      BY <1>1, <2>1
    <3> QED
      BY <1>1, <3>1
  <2>2. \A i \in 1..Len(down) : i + 0 = i
    OBVIOUS
  <2> QED
    BY <1>1, <2>1, <2>2 DEF UpFrom, LiveFrom, DownFrom
<1>3. Over(t) => Over(t)'
  BY <1>2, OverStays
<1>4. ASSUME how = "end" PROVE Over(t) /\ Len(seen[t]) = sent[t]
  <2>1. PICK k \in 0..Len(inbox[t]) : Queued(t, k)
    BY DEF InFlight
  <2>2. Len(inbox[t]) \in Nat \ {0} /\ inbox[t][1].kind = "end"
    BY <1>4, NextItem
  <2>3. k = 0 /\ Over(t) /\ Len(seen[t]) + k = sent[t]
    BY <2>1, <2>2 DEF Queued
  <2> QED
    BY <2>3, Counts
<1>5. OneListen(t)'
  BY <1>2, ListenStays
<1> QED
  BY <1>1, <1>3, <1>4, <1>5 DEF Untouched, InFlight, EndedInFull, Consecutive

\* The daemon starts a stream, which nothing has come of so far that would end it.
LEMMA ListenEvents ==
  ASSUME IdInv, IdInv', NEW t \in Streams, StreamInv(t), StartListen
  PROVE  StreamInv(t)'
<1> USE DEF StreamInv
<1>1. /\ Len(up) \in Nat \ {0} /\ Len(up') = Len(up) - 1 /\ Head(up) = up[1]
      /\ up[1].kind = "listen" /\ \A i \in 1..Len(up') : up'[i] = up[i + 1]
      /\ live' = live \cup {[id |-> up[1].id, of |-> up[1].of]}
      /\ UNCHANGED <<reader, id, streams, state, inbox, seen, down, sent>>
  BY NextRequest DEF StartListen, connVars, tableVars, taskVars
<1>2. \A i \in 1..Len(up') : i + 1 \in 1..Len(up) /\ 1 < i + 1
  BY <1>1
<1>3. UpFrom(t, 1) /\ DownFrom(t, 0) /\ DownKeeps(t, 0)
  BY <1>1, <1>2 DEF UpFrom, DownFrom, DownKeeps
<1>4. CASE up[1].of # t
  <2>1. LiveFrom(t)
    BY <1>1, <1>4 DEF LiveFrom
  <2>2. Attached(t)' => Attached(t)
    BY <1>1 DEF Attached
  <2> QED
    BY <1>1, <1>3, <2>1, <2>2, QuietEvents
<1>5. CASE up[1].of = t
  <2>1. Listens(1, t) /\ 1 \in 1..Len(up) /\ ~Over(t)
    BY <1>1, <1>5 DEF Listens, Over
  <2>2. \A j \in 1..Len(down) : ~EndOf(j, t)
    BY <2>1 DEF OneListen
  <2>3. \A i \in 1..Len(up') : ~Listens(i, t)'
    <3>1. \A i \in 1..Len(up') : Listens(i, t)' => Listens(i + 1, t) /\ i + 1 \in 1..Len(up)
      BY <1>1, <1>2 DEF Listens
    <3> QED
      BY <1>2, <2>1, <3>1 DEF OneListen
  <2>4. OneListen(t)'
    BY <1>1, <2>2, <2>3 DEF OneListen, EndOf
  <2>5. InFlight(t)'
    <3> SUFFICES ASSUME state[t] = "waiting"
                 PROVE  \E k \in 0..Len(inbox[t]) : Queued(t, k)' /\ (Attached(t)' => OnTheWire(t, k)')
      BY <1>1 DEF InFlight
    <3>1. PICK k \in 0..Len(inbox[t]) : Queued(t, k) /\ (Attached(t) => OnTheWire(t, k))
      BY DEF InFlight
    <3>2. Queued(t, k)'
      BY <1>1, <2>1, <3>1 DEF Queued, Attached
    <3>3. Attached(t)' => OnTheWire(t, k)'
      BY <1>1, <3>1 DEF OnTheWire, EventOf, Attached
    <3> QED
      BY <3>2, <3>3
  <2>6. Untouched(t)' /\ EndedInFull(t)' /\ Consecutive(t)'
    BY <1>1, <2>1 DEF Untouched, EndedInFull, Consecutive
  <2> QED
    BY <2>4, <2>5, <2>6
<1> QED
  BY <1>4, <1>5

\* The daemon sends the next event of a stream, behind the others of it.
LEMMA SendEvents ==
  ASSUME IdInv, IdInv', NEW t \in Streams, StreamInv(t), NEW s \in live, s.of = t, SendEvent(s)
  PROVE  StreamInv(t)'
<1> USE DEF StreamInv
<1> DEFINE w == Len(down)
<1>1. /\ w \in Nat /\ Len(down') = w + 1
      /\ \A i \in 1..w : down'[i] = down[i]
      /\ down'[w + 1].kind = "event" /\ down'[w + 1].of = t /\ down'[w + 1].n = sent[t] + 1
      /\ sent'[t] = sent[t] + 1
      /\ UNCHANGED <<reader, id, streams, state, inbox, seen, up, live>>
  <2>1. /\ Len(down) \in Nat /\ Len(down') = Len(down) + 1
        /\ \A i \in 1..Len(down) : down'[i] = down[i]
        /\ down'[Len(down) + 1] =
              [kind |-> "event", id |-> s.id, of |-> s.of, n |-> sent[s.of] + 1]
        /\ sent' = [sent EXCEPT ![s.of] = @ + 1]
        /\ UNCHANGED <<connVars, tableVars, taskVars, up, live>>
    BY EventIds
  <2>2. sent'[t] = sent[t] + 1
    BY <2>1 DEF IdInv, TypeOK
  <2> QED
    BY <2>1, <2>2 DEF connVars, tableVars, taskVars
<1>2. ~Over(t)
  BY DEF Over
<1> HIDE DEF w
<1>3. \A i \in 1..Len(down') : /\ EventOf(i, t)' <=> (i \in 1..w /\ EventOf(i, t)) \/ i = w + 1
                               /\ ~EndOf(i, t)'
  <2>1. \A i \in 1..w : ~EndOf(i, t)
    BY <1>2 DEF OneListen, w
  <2> QED
    BY <1>1, <2>1 DEF EventOf, EndOf
<1>4. OneListen(t)'
  BY <1>1, <1>3 DEF OneListen, Listens
<1>5. Untouched(t)'
  <2>1. state[t] # "idle"
    BY Begun, Counts DEF IdInv, IdsDistinct
  <2> QED
    BY <1>1, <2>1 DEF Untouched
<1>6. InFlight(t)'
  <2> SUFFICES ASSUME state[t] = "waiting"
               PROVE  \E k \in 0..Len(inbox[t]) : Queued(t, k)' /\ (Attached(t)' => OnTheWire(t, k)')
    BY <1>1 DEF InFlight
  <2>1. PICK k \in 0..Len(inbox[t]) : Queued(t, k) /\ (Attached(t) => OnTheWire(t, k))
    BY DEF InFlight
  <2>2. PICK L \in Nat, last \in Nat, next \in Nat :
          /\ L = Len(seen[t]) /\ L = Len(seen'[t]) /\ last = sent[t] /\ sent'[t] = last + 1
          /\ next = L + k + 1 /\ next = Len(seen'[t]) + k + 1 /\ next <= last + 1 /\ L + k <= last + 1
    <3>1. PICK L \in Nat, last \in Nat :
            L = Len(seen[t]) /\ L = Len(seen'[t]) /\ last = sent[t] /\ sent'[t] = last + 1
      BY <1>1, Counts
    <3>2. L + k <= last /\ k \in Nat
      BY <2>1, <3>1, Counts DEF Queued
    <3>3. L + k + 1 \in Nat /\ L + k + 1 <= last + 1 /\ L + k <= last + 1
      BY <3>2
    <3> QED
      BY <3>1, <3>3
  <2>3. Queued(t, k)'
    <3>1. \A i \in 1..Len(inbox[t]) : inbox[t][i].kind # "end"
      BY <1>2, <2>1 DEF Queued
    <3>2. Attached(t)' <=> Attached(t)
      BY <1>1 DEF Attached
    <3> QED
      BY <1>1, <2>1, <2>2, <3>1, <3>2 DEF Queued
  <2>4. ASSUME Attached(t)' PROVE OnTheWire(t, k)'
    <3>1. /\ \A i \in 1..w : EventOf(i, t) => down[i].n \in next .. last
          /\ \A i, j \in 1..w : EventOf(i, t) /\ EventOf(j, t) /\ i < j => down[i].n < down[j].n
          /\ \A n \in next .. last : \E i \in 1..w : EventOf(i, t) /\ down[i].n = n
      BY <1>1, <2>1, <2>2, <2>4 DEF OnTheWire, Attached, w
    <3>2. down'[w + 1].n = last + 1
      BY <1>1, <2>2
    <3>3. ASSUME NEW i \in 1..Len(down'), EventOf(i, t)'
          PROVE  /\ down'[i].n \in next .. last + 1
                 /\ i \in 1..w => down'[i].n \in next .. last
      <4>1. CASE i \in 1..w
        <5>1. down'[i].n \in next .. last
          BY <1>1, <1>3, <3>1, <3>3, <4>1
        <5> QED
          BY <5>1
      <4>2. CASE i = w + 1
        <5>1. last + 1 \in next .. last + 1 /\ ~(w + 1 \in 1..w)
          BY <1>1, <2>2
        <5> QED
          BY <3>2, <4>2, <5>1
      <4> QED
        BY <1>1, <4>1, <4>2
    <3>4. ASSUME NEW i \in 1..Len(down'), NEW j \in 1..Len(down'),
                 EventOf(i, t)', EventOf(j, t)', i < j
          PROVE  down'[i].n < down'[j].n
      <4>1. i \in 1..w
        BY <1>1, <3>4
      <4>2. CASE j \in 1..w
        BY <1>1, <1>3, <3>1, <3>4, <4>1, <4>2
      <4>3. CASE j = w + 1
        <5>1. down'[i].n \in next .. last
          BY <3>3, <3>4, <4>1
        <5> QED
          BY <3>2, <4>3, <5>1
      <4> QED
        BY <1>1, <4>2, <4>3
    <3>5. ASSUME NEW n \in next .. last + 1
          PROVE  \E i \in 1..Len(down') : EventOf(i, t)' /\ down'[i].n = n
      <4>1. CASE n = last + 1
        BY <1>1, <1>3, <3>2, <4>1
      <4>2. CASE n # last + 1
        <5>1. n \in next .. last
          BY <4>2
        <5>2. PICK i \in 1..w : EventOf(i, t) /\ down[i].n = n
          BY <3>1, <5>1
        <5>3. i \in 1..Len(down') /\ EventOf(i, t)' /\ down'[i] = down[i]
          BY <1>1, <1>3, <5>2
        <5> QED
          BY <5>2, <5>3
      <4> QED
        BY <4>1, <4>2
    <3> QED
      BY <2>2, <3>3, <3>4, <3>5 DEF OnTheWire
  <2> QED
    BY <2>1, <2>3, <2>4
<1>7. EndedInFull(t)' /\ Consecutive(t)'
  BY <1>1, <1>2 DEF EndedInFull, Consecutive
<1> QED
  BY <1>4, <1>5, <1>6, <1>7

\* A stream of the daemon's runs out: what it writes last is behind all its events.
LEMMA EndEvents ==
  ASSUME IdInv, IdInv', NEW t \in Streams, StreamInv(t), NEW s \in live, s.of = t, EndListen(s)
  PROVE  StreamInv(t)'
<1> USE DEF StreamInv
<1> DEFINE w == Len(down)
<1>1. /\ w \in Nat /\ Len(down') = w + 1
      /\ \A i \in 1..w : down'[i] = down[i]
      /\ down'[w + 1].kind \in {"end", "error"}
      /\ live' = live \ {s}
      /\ UNCHANGED <<reader, id, streams, state, inbox, seen, up, sent>>
  BY EndListenIds, Counts DEF EndListen, connVars, tableVars, taskVars
<1>2. ~Over(t)
  BY DEF Over
<1>3. Over(t)'
  <2>1. \A u \in live : u.of = t => u = s
    <3>1. \A u \in live : u.of = t => u.id = s.id
      BY Begun
    <3>2. live \subseteq [id : Ids, of : Tasks]
      BY DEF IdInv, TypeOK
    <3> QED
      BY <3>1, <3>2
  <2>2. \A i \in 1..Len(up) : ~Listens(i, t)
    BY DEF OneListen
  <2> QED
    BY <1>1, <2>1, <2>2 DEF Over, Listens
<1> HIDE DEF w
<1>4. \A i \in 1..Len(down') : /\ EventOf(i, t)' <=> i \in 1..w /\ EventOf(i, t)
                               /\ EndOf(i, t)' => i = w + 1
  <2>1. \A i \in 1..w : ~EndOf(i, t)
    BY <1>2 DEF OneListen, w
  <2> QED
    BY <1>1, <2>1 DEF EventOf, EndOf
<1>5. OneListen(t)'
  <2>1. \A j \in 1..Len(down') : EndOf(j, t)' =>
           Over(t)' /\ \A i \in 1..Len(down') : EventOf(i, t)' => i < j
    BY <1>1, <1>3, <1>4
  <2> QED
    BY <1>1, <1>3, <2>1 DEF OneListen, Over, Listens
<1>6. InFlight(t)'
  <2> SUFFICES ASSUME state[t] = "waiting"
               PROVE  \E k \in 0..Len(inbox[t]) : Queued(t, k)' /\ (Attached(t)' => OnTheWire(t, k)')
    BY <1>1 DEF InFlight
  <2>1. PICK k \in 0..Len(inbox[t]) : Queued(t, k) /\ (Attached(t) => OnTheWire(t, k))
    BY DEF InFlight
  <2>2. Queued(t, k)'
    BY <1>1, <1>2, <2>1 DEF Queued, Attached
  <2>3. ASSUME Attached(t)' PROVE OnTheWire(t, k)'
    <3>1. OnTheWire(t, k)
      BY <1>1, <2>1, <2>3 DEF Attached
    <3>2. \A i \in 1..w : i \in 1..Len(down')
      BY <1>1
    <3> QED
      BY <1>1, <1>4, <3>1, <3>2 DEF OnTheWire, w
  <2> QED
    BY <2>1, <2>2, <2>3
<1>7. Untouched(t)' /\ EndedInFull(t)' /\ Consecutive(t)'
  BY <1>1, <1>2 DEF Untouched, EndedInFull, Consecutive
<1> QED
  BY <1>5, <1>6, <1>7

\* The steps that do not concern the events of a stream.
LEMMA OtherEvents ==
  ASSUME IdInv, IdInv', ReaderLives, NEW t \in Streams, StreamInv(t),
         \/ Connect \/ CloseBegins \/ CloseWriter \/ AnswerCall \/ StopListen \/ HangUp
         \/ \E c \in Calls : Call(c) \/ GiveUp(c)
         \/ \E u \in Tasks : NotConnected(u)
         \/ \E u \in Streams \ {t} : Stream(u) \/ TakeItem(u) \/ Leave(u)
         \/ \E s \in live : s.of # t /\ (SendEvent(s) \/ EndListen(s))
  PROVE  StreamInv(t)'
<1> DEFINE Same == /\ seen'[t] = seen[t] /\ sent'[t] = sent[t] /\ inbox'[t] = inbox[t]
                   /\ Attached(t)' => Attached(t) /\ (reader = "ended" => reader' = "ended")
<1>1. \A i \in 1..Len(up) : i + 0 = i /\ i - 0 = i
  OBVIOUS
<1>2. \A i \in 1..Len(down) : i + 0 = i /\ i - 0 = i
  OBVIOUS
<1>3. UNCHANGED up => UpFrom(t, 0)
  BY <1>1 DEF UpFrom
<1>4. UNCHANGED down => DownFrom(t, 0) /\ DownKeeps(t, 0)
  BY <1>2 DEF DownFrom, DownKeeps
<1>5. UNCHANGED live => LiveFrom(t)
  BY DEF LiveFrom
<1>6. t \in Tasks /\ t \notin Calls /\ Len(up) \in Nat /\ Len(down) \in Nat
  BY Counts, RpcAssumption
<1>7. CASE Connect \/ CloseBegins \/ CloseWriter
  <2>1. UNCHANGED <<up, down, live, state>> /\ Same
    BY <1>7 DEF Connect, CloseBegins, CloseWriter, ReaderLives, tableVars, taskVars, daemonVars,
                Attached
  <2> QED
    BY <1>3, <1>4, <1>5, <2>1, QuietEvents
<1>8. CASE HangUp
  <2>1. UNCHANGED <<down, state>> /\ up' = <<>> /\ live' = {} /\ Same
    BY <1>8 DEF HangUp, connVars, tableVars, taskVars, Attached
  <2>2. UpFrom(t, 0) /\ LiveFrom(t)
    BY <2>1, NoneOf DEF UpFrom, LiveFrom
  <2> QED
    BY <1>4, <2>1, <2>2, QuietEvents
<1>9. ASSUME NEW u \in Tasks, NotConnected(u) \/ (u \in Calls /\ GiveUp(u))
      PROVE  StreamInv(t)'
  <2>1. UNCHANGED <<up, down, live>> /\ Same /\ state'[t] \in {state[t], "failed"}
    BY <1>6, <1>9 DEF NotConnected, GiveUp, connVars, tableVars, daemonVars, Attached, IdInv, TypeOK
  <2> QED
    BY <1>3, <1>4, <1>5, <2>1, QuietEvents
<1>10. ASSUME AnswerCall \/ StopListen PROVE StreamInv(t)'
  <2>1. /\ Len(up') = Len(up) - 1 /\ \A i \in 1..Len(up') : up'[i] = up[i + 1]
        /\ Len(up) \in Nat \ {0}
    BY <1>10, NextRequest DEF AnswerCall, StopListen
  <2>2. UpFrom(t, 1)
    BY <2>1 DEF UpFrom
  <2>3. UNCHANGED state /\ Same /\ LiveFrom(t)
    BY <1>10 DEF AnswerCall, StopListen, connVars, tableVars, taskVars, daemonVars, Attached,
                LiveFrom
  <2>4. DownFrom(t, 0) /\ DownKeeps(t, 0)
    <3>1. CASE AnswerCall
      <4>1. /\ Len(down') = Len(down) + 1 /\ \A i \in 1..Len(down) : down'[i] = down[i]
            /\ down'[Len(down) + 1].kind \in {"result", "error", "long"}
        BY <3>1, AnswerIds
      <4>2. \A i \in 1..Len(down') : i + 0 = i /\ (i \in 1..Len(down) \/ i = Len(down) + 1)
        BY <1>6, <4>1
      <4>3. \A i \in 1..Len(down) : i \in 1..Len(down')
        BY <1>6, <4>1
      <4> QED
        BY <1>2, <4>1, <4>2, <4>3 DEF DownFrom, DownKeeps
    <3>2. CASE StopListen
      BY <1>4, <3>2 DEF StopListen
    <3> QED
      BY <1>10, <3>1, <3>2
  <2> QED
    BY <2>2, <2>3, <2>4, QuietEvents
<1>11. ASSUME NEW u \in Tasks \ {t}, NEW kind \in {"call", "listen"}, Begin(u, kind),
              \A i \in Ids \ {NextId} : streams'[i] = streams[i]
       PROVE  StreamInv(t)'
  <2>1. /\ id' = [id EXCEPT ![u] = NextId]
        /\ \A v \in Tasks : id[v] # NextId
        /\ Len(up') >= Len(up)
        /\ \A i \in 1..Len(up') :
             IF i <= Len(up) THEN up'[i] = up[i]
             ELSE /\ i = Len(up) + 1
                  /\ up'[i] = [kind |-> kind, id |-> NextId, of |-> u]
    BY <1>11, BeginIds
  <2>2. UpFrom(t, 0)
    <3>1. \A i \in 1..Len(up') : i + 0 = i /\ (up'[i].of = t => i <= Len(up))
      BY <1>11, <2>1
    <3> QED
      BY <1>6, <2>1, <3>1 DEF UpFrom
  <2>3. UNCHANGED <<down, live, seen, sent, inbox, reader>> /\ state'[t] = state[t]
    BY <1>11 DEF Begin, connVars, daemonVars, IdInv, TypeOK
  <2>4. Same
    <3>1. state[t] = "waiting" => id[t] \in Ids \ {NextId} /\ id'[t] = id[t]
      BY <1>6, <1>11, <2>1 DEF IdInv, IdsDistinct, TypeOK
    <3> QED
      BY <1>11, <2>3, <3>1 DEF Attached
  <2> QED
    BY <1>4, <1>5, <2>2, <2>3, <2>4, QuietEvents
<1>12. ASSUME NEW c \in Calls, Call(c) PROVE StreamInv(t)'
  <2>1. c \in Tasks \ {t} /\ Begin(c, "call") /\ UNCHANGED streams
    BY <1>6, <1>12 DEF Call, Tasks
  <2> QED
    BY <1>11, <2>1
<1>13. ASSUME NEW u \in Streams \ {t}, Stream(u) PROVE StreamInv(t)'
  <2>1. u \in Tasks \ {t} /\ Begin(u, "listen")
    BY <1>13 DEF Stream, Tasks
  <2>2. \A i \in Ids \ {NextId} : streams'[i] = streams[i]
    BY <1>13 DEF Stream, IdInv, TypeOK, Table
  <2> QED
    BY <1>11, <2>1, <2>2
<1>14. ASSUME NEW u \in Streams \ {t}, TakeItem(u), Head(inbox[u]).kind = "event"
       PROVE  StreamInv(t)'
  <2>1. /\ inbox' = [inbox EXCEPT ![u] = Tail(@)]
        /\ seen' = [seen EXCEPT ![u] = Append(@, Head(inbox[u]).n)]
        /\ UNCHANGED <<connVars, tableVars, state, reply, up, down, daemonVars>>
    BY <1>14, YieldIds
  <2>2. UNCHANGED <<up, down, live, state>> /\ Same
    BY <2>1 DEF connVars, tableVars, daemonVars, IdInv, TypeOK, Attached
  <2> QED
    BY <1>3, <1>4, <1>5, <2>2, QuietEvents
<1>15. ASSUME NEW u \in Streams \ {t}, NEW how \in {"end", "closed", "left"},
              state[u] = "waiting", Finish(u, how),
              UNCHANGED <<connVars, lastId, id, pending, reply, seen, down, daemonVars>>
       PROVE  StreamInv(t)'
  <2>1. /\ \A i \in Ids : streams'[i] \in {streams[i], NoTask}
        /\ state' = [state EXCEPT ![u] = how] /\ inbox' = [inbox EXCEPT ![u] = <<>>]
        /\ Len(up') \in {Len(up), Len(up) + 1}
        /\ \A i \in 1..Len(up) : up'[i] = up[i]
        /\ Len(up') = Len(up) + 1 => up'[Len(up) + 1].kind = "cancel"
    BY <1>15, FinishIds
  <2>2. UpFrom(t, 0)
    <3>1. \A i \in 1..Len(up') : i + 0 = i /\ (i \in 1..Len(up) \/ up'[i].kind = "cancel")
      BY <1>6, <2>1
    <3> QED
      BY <2>1, <3>1 DEF UpFrom
  <2>3. /\ UNCHANGED <<down, live, seen, sent, reader, id>>
        /\ state'[t] = state[t] /\ inbox'[t] = inbox[t]
    BY <1>15, <2>1 DEF connVars, daemonVars, IdInv, TypeOK
  <2>4. Same
    <3>1. state[t] = "waiting" => id[t] \in Ids
      BY <1>6 DEF IdInv, IdsDistinct, TypeOK
    <3> QED
      BY <1>6, <2>1, <2>3, <3>1, RpcAssumption DEF Attached
  <2> QED
    BY <1>4, <1>5, <2>2, <2>3, <2>4, QuietEvents
<1>16. ASSUME NEW u \in Streams \ {t}, TakeItem(u) \/ Leave(u) PROVE StreamInv(t)'
  <2>1. CASE TakeItem(u) /\ Head(inbox[u]).kind = "event"
    BY <1>14, <2>1
  <2>2. ASSUME Leave(u) \/ (TakeItem(u) /\ Head(inbox[u]).kind # "event") PROVE StreamInv(t)'
    <3>1. PICK how \in {"end", "closed", "left"} :
             /\ state[u] = "waiting" /\ Finish(u, how)
             /\ UNCHANGED <<connVars, lastId, id, pending, reply, seen, down, daemonVars>>
      BY <2>2, ConsumerEnds
    <3> QED
      BY <1>15, <3>1
  <2> QED
    BY <1>16, <2>1, <2>2
<1>17. ASSUME NEW s \in live, s.of # t, SendEvent(s) \/ EndListen(s) PROVE StreamInv(t)'
  <2>1. /\ Len(down') = Len(down) + 1 /\ \A i \in 1..Len(down) : down'[i] = down[i]
        /\ down'[Len(down) + 1].of = s.of
    <3>1. CASE SendEvent(s)
      <4>1. /\ Len(down') = Len(down) + 1 /\ \A i \in 1..Len(down) : down'[i] = down[i]
            /\ down'[Len(down) + 1] =
                  [kind |-> "event", id |-> s.id, of |-> s.of, n |-> sent[s.of] + 1]
        BY <3>1, EventIds
      <4> QED
        BY <4>1
    <3>2. CASE EndListen(s)
      BY <3>2, EndListenIds
    <3> QED
      BY <1>17, <3>1, <3>2
  <2>2. DownFrom(t, 0) /\ DownKeeps(t, 0)
    <3>1. \A i \in 1..Len(down') : i + 0 = i /\ (i \in 1..Len(down) \/ i = Len(down) + 1)
      BY <1>6, <2>1
    <3>2. \A i \in 1..Len(down) : i \in 1..Len(down')
      BY <1>6, <2>1
    <3> QED
      BY <1>2, <1>17, <2>1, <3>1, <3>2 DEF DownFrom, DownKeeps
  <2>3. UNCHANGED <<up, state>> /\ LiveFrom(t) /\ Same
    BY <1>17 DEF SendEvent, EndListen, connVars, tableVars, taskVars, IdInv, TypeOK, LiveFrom,
                Attached
  <2> QED
    BY <1>3, <2>2, <2>3, QuietEvents
<1> QED
  BY <1>7, <1>8, <1>9, <1>10, <1>12, <1>13, <1>16, <1>17 DEF Tasks

\* The reader exists exactly while the socket does, whoever ends first.
LEMMA ReaderStays ==
  ASSUME ReaderLives, [Next]_vars
  PROVE  ReaderLives'
<1> USE DEF ReaderLives
<1>1. CASE Connect \/ CloseBegins \/ Close
  BY <1>1 DEF Connect, CloseBegins, Close, CloseWriter, CloseEnds
<1>2. CASE Reader
  BY <1>2 DEF Reader, ReadFrame, ReaderEnds, connVars
<1>3. CASE Daemon \/ HangUp
  BY <1>3 DEF Daemon, AnswerCall, StartListen, StopListen, HangUp, connVars
<1>4. ASSUME NEW t \in Tasks, Call(t) \/ GiveUp(t) \/ Stream(t) \/ NotConnected(t)
      PROVE  ReaderLives'
  BY <1>4 DEF Call, GiveUp, Stream, NotConnected, Begin, connVars
<1>5. ASSUME NEW t \in Streams, TakeItem(t) \/ Leave(t) PROVE ReaderLives'
  BY <1>5 DEF TakeItem, Leave, connVars
<1>6. ASSUME NEW s \in live, SendEvent(s) \/ EndListen(s) PROVE ReaderLives'
  BY <1>6 DEF SendEvent, EndListen, connVars
<1>7. CASE UNCHANGED vars
  BY <1>7 DEF vars, connVars
<1> QED
  BY <1>1, <1>2, <1>3, <1>4, <1>5, <1>6, <1>7 DEF Next, Tasks

\* The events of a stream stay in order in the steps of its own consumer.
LEMMA TakeEvents ==
  ASSUME IdInv, IdInv', NEW t \in Streams, StreamInv(t), TakeItem(t) \/ Leave(t)
  PROVE  StreamInv(t)'
<1>1. CASE TakeItem(t) /\ Head(inbox[t]).kind = "event"
  BY <1>1, YieldEvents
<1>2. CASE TakeItem(t) /\ Head(inbox[t]).kind # "event"
  <2> DEFINE how == Head(inbox[t]).kind
  <2>1. /\ state[t] = "waiting" /\ inbox[t] # <<>> /\ Finish(t, how)
        /\ UNCHANGED <<connVars, lastId, id, pending, reply, seen, down, daemonVars>>
    BY <1>2 DEF TakeItem
  <2>2. how \in {"end", "closed"}
    BY <1>2, <2>1, NextItem DEF Item
  <2> QED
    BY <2>1, <2>2, FinishEvents
<1>3. CASE Leave(t)
  <2>1. /\ state[t] = "waiting" /\ Finish(t, "left")
        /\ UNCHANGED <<connVars, lastId, id, pending, reply, seen, down, daemonVars>>
    BY <1>3 DEF Leave
  <2> QED
    BY <2>1, FinishEvents
<1> QED
  BY <1>1, <1>2, <1>3

\* No step of anybody loses, repeats or reorders an event of a stream.
LEMMA NextEvents == IInv /\ [Next]_vars => IInv'
<1> SUFFICES ASSUME IdInv, ReaderLives, \A t \in Streams : StreamInv(t), [Next]_vars PROVE IInv'
  BY DEF IInv, EventInv
<1>1. IdInv' /\ ReaderLives'
  BY NextIds, ReaderStays
<1>2. ASSUME NEW t \in Streams PROVE StreamInv(t)'
  <2>1. StreamInv(t)
    OBVIOUS
  <2>2. CASE Connect \/ CloseBegins \/ CloseWriter \/ AnswerCall \/ StopListen \/ HangUp
    BY <1>1, <2>1, <2>2, OtherEvents
  <2>3. CASE ReadFrame
    BY <1>1, <2>1, <2>3, ReadEvents
  <2>4. CASE ReaderEnds \/ CloseEnds
    BY <1>1, <2>1, <2>4, ToldEvents
  <2>5. CASE StartListen
    BY <1>1, <2>1, <2>5, ListenEvents
  <2>6. ASSUME NEW c \in Calls, Call(c) \/ GiveUp(c) PROVE StreamInv(t)'
    BY <1>1, <2>1, <2>6, OtherEvents
  <2>7. ASSUME NEW u \in Tasks, NotConnected(u) PROVE StreamInv(t)'
    BY <1>1, <2>1, <2>7, OtherEvents
  <2>8. ASSUME NEW u \in Streams, Stream(u) \/ TakeItem(u) \/ Leave(u) PROVE StreamInv(t)'
    <3>1. CASE u # t
      BY <1>1, <2>1, <2>8, <3>1, OtherEvents
    <3>2. CASE u = t /\ Stream(t)
      BY <1>1, <2>1, <3>2, BeginEvents
    <3>3. CASE u = t /\ (TakeItem(t) \/ Leave(t))
      BY <1>1, <2>1, <3>3, TakeEvents
    <3> QED
      BY <2>8, <3>1, <3>2, <3>3
  <2>9. ASSUME NEW s \in live, SendEvent(s) \/ EndListen(s) PROVE StreamInv(t)'
    <3>1. CASE s.of # t
      BY <1>1, <2>1, <2>9, <3>1, OtherEvents
    <3>2. CASE s.of = t /\ SendEvent(s)
      BY <1>1, <2>1, <3>2, SendEvents
    <3>3. CASE s.of = t /\ EndListen(s)
      BY <1>1, <2>1, <3>3, EndEvents
    <3> QED
      BY <2>9, <3>1, <3>2, <3>3
  <2>10. CASE UNCHANGED vars
    <3>1. UNCHANGED <<reader, id, streams, state, inbox, seen, up, down, live, sent>>
      BY <2>10 DEF vars, connVars, tableVars, taskVars, daemonVars
    <3>2. UpFrom(t, 0) /\ LiveFrom(t) /\ DownFrom(t, 0) /\ DownKeeps(t, 0)
      <4>1. /\ \A i \in 1..Len(up) : i + 0 = i
            /\ \A i \in 1..Len(down) : i + 0 = i /\ i - 0 = i
        OBVIOUS
      <4> QED
        BY <3>1, <4>1 DEF UpFrom, LiveFrom, DownFrom, DownKeeps
    <3>3. Attached(t)' => Attached(t)
      BY <3>1 DEF Attached
    <3> QED
      BY <1>1, <2>1, <3>1, <3>2, <3>3, QuietEvents
  <2> QED
    BY <2>2, <2>3, <2>4, <2>5, <2>6, <2>7, <2>8, <2>9, <2>10 DEF Next, Close, Reader, Daemon
<1> QED
  BY <1>1, <1>2 DEF IInv, EventInv

\* The events of every stream are where the streams' counts say, in every behaviour.
THEOREM Invariance == Spec => []IInv
<1>1. Init => IInv
  BY InitIds, InitEvents DEF IInv
<1> QED
  BY <1>1, NextEvents, PTL DEF Spec

\* A stream yields the daemon's events in order and without a gap, however many there are,
\* and all of them before it ends as the daemon ended it, whatever other calls, other streams
\* and close() do meanwhile.
THEOREM EventsComplete == Spec => []EventsInOrder
<1>1. IInv => EventsInOrder
  BY DEF IInv, EventInv, StreamInv, EventsInOrder, Consecutive, EndedInFull
<1> QED
  BY <1>1, Invariance, PTL
=============================================================================
