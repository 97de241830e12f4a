------------------------- MODULE DaemonServerProofs -------------------------
(***************************************************************************)
(* Theorems about the daemon, for every set of connections and lock keys,  *)
(* every bound and every timeout.                                          *)
(***************************************************************************)
EXTENDS DaemonServer, FiniteSetTheorems, TLAPS

\* The handlers that _active_connections counts.
Counted == {c \in Conns : InLoop(c) \/ pc[c] = "leaked"}

\* A handler that has joined a lock's queue or works without one.
Busy(c) == pc[c] \in {"locking", "serving"}

\* What the locks rest on: a queue holds the busy handlers of its key, once each; one that
\* works under a key is first in its queue, one that waits is somewhere in it.
LockInv ==
    /\ \A c \in Conns : Busy(c) =>
          taken[c] \in 1..Len(log[c]) /\ log[c][taken[c]].method = "call"
    /\ \A k \in Keys : \A i \in 1..Len(queue[k]) :
          Busy(queue[k][i]) /\ KeyOf(queue[k][i]) = k
    /\ \A k \in Keys : \A i, j \in 1..Len(queue[k]) : queue[k][i] = queue[k][j] => i = j
    /\ \A c \in Conns : pc[c] = "serving" /\ KeyOf(c) # NoKey =>
          Len(queue[KeyOf(c)]) > 0 /\ queue[KeyOf(c)][1] = c
    /\ \A c \in Conns : pc[c] = "locking" =>
          KeyOf(c) # NoKey /\ \E i \in 1..Len(queue[KeyOf(c)]) : queue[KeyOf(c)][i] = c

IInv == TypeOK /\ ActiveCounts /\ LockInv

-----------------------------------------------------------------------------
(* The connection counter. *)

\* The counter and the set it counts, as ActiveCounts relates them.
LEMMA CountOfCounted == ActiveCounts <=> active = Cardinality(Counted)
BY DEF ActiveCounts, Counted

\* Only finitely many connections exist, so the counted set has a size.
LEMMA CountedFinite == IsFiniteSet(Counted) /\ Cardinality(Counted) \in Nat
<1>1. Counted \subseteq Conns
  BY DEF Counted
<1> QED
  BY <1>1, ConstAssumption, FS_Subset, FS_CardinalityType

\* A step that counts nobody in or out.
LEMMA CountSame ==
  ASSUME ActiveCounts, active' = active, Counted' = Counted
  PROVE  ActiveCounts'
<1>1. ActiveCounts' <=> active' = Cardinality(Counted')
  BY DEF ActiveCounts, Counted
<1> QED
  BY <1>1, CountOfCounted

\* A step that counts c in.
LEMMA CountIn ==
  ASSUME ActiveCounts, NEW c \in Conns, c \notin Counted,
         active' = active + 1, Counted' = Counted \cup {c}
  PROVE  ActiveCounts' /\ active' \in Nat
<1>1. ActiveCounts' <=> active' = Cardinality(Counted')
  BY DEF ActiveCounts, Counted
<1>2. Cardinality(Counted \cup {c}) = Cardinality(Counted) + 1
  BY CountedFinite, FS_AddElement
<1> QED
  BY <1>1, <1>2, CountOfCounted, CountedFinite

\* A step that counts c out.
LEMMA CountOut ==
  ASSUME ActiveCounts, NEW c \in Conns, c \in Counted,
         active' = active - 1, Counted' = Counted \ {c}
  PROVE  ActiveCounts' /\ active' \in Nat
<1>1. ActiveCounts' <=> active' = Cardinality(Counted')
  BY DEF ActiveCounts, Counted
<1>2. Cardinality(Counted \ {c}) = Cardinality(Counted) - 1
  BY CountedFinite, FS_RemoveElement
<1>3. Cardinality(Counted \ {c}) \in Nat
  BY CountedFinite, FS_RemoveElement, FS_CardinalityType
<1> QED
  BY <1>1, <1>2, <1>3, CountOfCounted, CountedFinite

-----------------------------------------------------------------------------
(* The locks. *)

\* A step that moves no busy handler and no queue keeps the lock invariant.
LEMMA LockSame ==
  ASSUME ClientOK, ClientOK', HandlerOK, LockInv, queue' = queue,
         \A c \in Conns : Busy(c)' => pc'[c] = pc[c],
         \A c \in Conns : Busy(c) =>
             /\ pc'[c] = pc[c] /\ taken'[c] = taken[c]
             /\ Len(log'[c]) >= Len(log[c])
             /\ log'[c][taken[c]] = log[c][taken[c]]
  PROVE  LockInv'
<1> USE DEF Busy
<1>1. \A c \in Conns : Busy(c)' => Busy(c) /\ KeyOf(c)' = KeyOf(c)
  BY DEF KeyOf
<1>2. \A c \in Conns : Busy(c)' =>
          (taken[c] \in 1..Len(log[c]) /\ log[c][taken[c]].method = "call")'
  <2> SUFFICES ASSUME NEW c \in Conns, Busy(c)'
               PROVE  (taken[c] \in 1..Len(log[c]) /\ log[c][taken[c]].method = "call")'
    OBVIOUS
  <2>1. taken[c] \in 1..Len(log[c]) /\ log[c][taken[c]].method = "call"
    BY <1>1 DEF LockInv
  <2>2. Len(log[c]) \in Nat /\ Len(log'[c]) \in Nat
    BY DEF ClientOK
  <2> QED
    BY <1>1, <2>1, <2>2
<1>3. \A k \in Keys : \A i \in 1..Len(queue[k]) : queue[k][i] \in Conns
  BY DEF HandlerOK
<1>4. \A k \in Keys : \A i \in 1..Len(queue[k]) :
          (Busy(queue[k][i]) /\ KeyOf(queue[k][i]) = k)'
  BY <1>1, <1>3 DEF LockInv, KeyOf
<1> QED
  BY <1>1, <1>2, <1>4 DEF LockInv

\* A busy handler works on a request whose lock key is a key or none.
LEMMA BusyKey ==
  ASSUME ClientOK, LockInv, NEW c \in Conns, Busy(c)
  PROVE  KeyOf(c) \in Keys \cup {NoKey}
<1>1. log[c][taken[c]] \in Frame /\ log[c][taken[c]].method = "call"
  BY DEF LockInv, ClientOK
<1> QED
  BY <1>1 DEF Frame, KeyOf

\* A request joins the lock of its key.
LEMMA LockJoined ==
  ASSUME ClientOK, HandlerOK, HandlerOK', LockInv, NEW c \in Conns, Dispatch(c)
  PROVE  LockInv'
<1> DEFINE k == log[c][taken[c] + 1].arg
<1> USE DEF Busy
<1>1. /\ pc[c] = "reading" /\ taken'[c] = taken[c] + 1 /\ log' = log
      /\ taken[c] \in Nat /\ taken[c] + 1 \in 1..Len(log[c])
      /\ log[c][taken[c] + 1].method = "call"
  BY DEF Dispatch, Read, clientVars, ClientOK, HandlerOK
<1>2. \A d \in Conns : d # c => pc'[d] = pc[d] /\ taken'[d] = taken[d]
  BY DEF Dispatch, Read, HandlerOK
<1>3. k \in Keys \cup {NoKey} /\ KeyOf(c)' = k
  <2>1. log[c][taken[c] + 1] \in Frame
    BY <1>1 DEF ClientOK
  <2> QED
    BY <1>1, <2>1 DEF Frame, KeyOf
<1>4. pc'[c] = IF k = NoKey THEN "serving" ELSE IF queue[k] = <<>> THEN "serving" ELSE "locking"
  BY DEF Dispatch, LockFree, HandlerOK
<1>5. /\ k = NoKey => queue' = queue
      /\ k # NoKey => queue' = [queue EXCEPT ![k] = Append(@, c)]
  BY DEF Dispatch
<1>6. \A d \in Conns : d # c => KeyOf(d)' = KeyOf(d)
  BY <1>1, <1>2 DEF KeyOf
<1>7. \A q \in Keys : \A i \in 1..Len(queue[q]) : queue[q][i] \in Conns \ {c}
  <2> SUFFICES ASSUME NEW q \in Keys, NEW i \in 1..Len(queue[q])
               PROVE  queue[q][i] \in Conns \ {c}
    OBVIOUS
  <2>1. queue[q] \in Seq(Conns)
    BY DEF HandlerOK
  <2>2. Busy(queue[q][i])
    BY DEF LockInv
  <2> QED
    BY <1>1, <2>1, <2>2
<1>8. ASSUME NEW q \in Keys
      PROVE  /\ queue'[q] \in Seq(Conns) /\ queue[q] \in Seq(Conns)
             /\ \/ q # k /\ queue'[q] = queue[q]
                \/ /\ q = k
                   /\ Len(queue'[q]) = Len(queue[q]) + 1
                   /\ \A i \in 1..Len(queue[q]) : queue'[q][i] = queue[q][i]
                   /\ queue'[q][Len(queue'[q])] = c
  <2>1. queue[q] \in Seq(Conns) /\ queue'[q] \in Seq(Conns) /\ q \in DOMAIN queue /\ q # NoKey
    BY ConstAssumption DEF HandlerOK
  <2>2. CASE q # k
    BY <1>5, <2>1, <2>2
  <2>3. CASE q = k
    <3>1. queue'[q] = Append(queue[q], c)
      BY <1>5, <2>1, <2>3
    <3> HIDE DEF k
    <3> QED
      BY <2>1, <2>3, <3>1
  <2> QED
    BY <2>2, <2>3
<1>10. \A d \in Conns : Busy(d)' =>
          (taken[d] \in 1..Len(log[d]) /\ log[d][taken[d]].method = "call")'
  BY <1>1, <1>2 DEF LockInv
<1>11. \A q \in Keys : \A i \in 1..Len(queue'[q]) :
          (Busy(queue[q][i]) /\ KeyOf(queue[q][i]) = q)'
  <2> SUFFICES ASSUME NEW q \in Keys, NEW i \in 1..Len(queue'[q])
               PROVE  (Busy(queue[q][i]) /\ KeyOf(queue[q][i]) = q)'
    OBVIOUS
  <2>1. CASE i \in 1..Len(queue[q])
    <3>1. queue'[q][i] = queue[q][i] /\ queue[q][i] \in Conns \ {c}
      BY <2>1, <1>7, <1>8
    <3> QED
      BY SMTT(60), <2>1, <3>1, <1>2, <1>6 DEF LockInv, KeyOf
  <2>2. CASE i \notin 1..Len(queue[q])
    <3>1. q = k /\ queue'[q][i] = c
      BY <2>2, <1>8
    <3> QED
      BY <3>1, <1>3, <1>4 DEF KeyOf
  <2> QED
    BY <2>1, <2>2
<1>12. \A q \in Keys : \A i, j \in 1..Len(queue'[q]) : queue'[q][i] = queue'[q][j] => i = j
  <2> SUFFICES ASSUME NEW q \in Keys PROVE
                 \A i, j \in 1..Len(queue'[q]) : queue'[q][i] = queue'[q][j] => i = j
    OBVIOUS
  <2> QED
    BY <1>7, <1>8 DEF LockInv
<1>13. \A d \in Conns : pc'[d] = "serving" /\ KeyOf(d)' # NoKey =>
          Len(queue'[KeyOf(d)']) > 0 /\ queue'[KeyOf(d)'][1] = d
  <2> SUFFICES ASSUME NEW d \in Conns, pc'[d] = "serving", KeyOf(d)' # NoKey
               PROVE  Len(queue'[KeyOf(d)']) > 0 /\ queue'[KeyOf(d)'][1] = d
    OBVIOUS
  <2>1. CASE d = c
    <3>1. k \in Keys /\ queue[k] = <<>>
      BY <2>1, <1>3, <1>4
    <3> QED
      BY <2>1, <3>1, <1>3, <1>8
  <2>2. CASE d # c
    <3>1. Busy(d) /\ KeyOf(d)' = KeyOf(d) /\ Len(queue[KeyOf(d)]) > 0 /\ queue[KeyOf(d)][1] = d
      BY <2>2, <1>2, <1>6 DEF LockInv
    <3>2. KeyOf(d) \in Keys
      BY <3>1, BusyKey
    <3> QED
      BY <3>1, <3>2, <1>8
  <2> QED
    BY <2>1, <2>2
<1>14. \A d \in Conns : pc'[d] = "locking" =>
          KeyOf(d)' # NoKey /\ \E i \in 1..Len(queue'[KeyOf(d)']) : queue'[KeyOf(d)'][i] = d
  <2> SUFFICES ASSUME NEW d \in Conns, pc'[d] = "locking"
               PROVE  KeyOf(d)' # NoKey
                      /\ \E i \in 1..Len(queue'[KeyOf(d)']) : queue'[KeyOf(d)'][i] = d
    OBVIOUS
  <2>1. CASE d = c
    <3>1. k \in Keys /\ KeyOf(c)' = k
      BY <2>1, <1>3, <1>4
    <3>2. Len(queue'[k]) \in 1..Len(queue'[k]) /\ queue'[k][Len(queue'[k])] = c
      BY <3>1, <1>8
    <3> QED
      BY <2>1, <3>1, <3>2, ConstAssumption
  <2>2. CASE d # c
    <3>1. KeyOf(d)' = KeyOf(d) /\ Busy(d)
          /\ KeyOf(d) # NoKey /\ \E i \in 1..Len(queue[KeyOf(d)]) : queue[KeyOf(d)][i] = d
      BY <2>2, <1>2, <1>6 DEF LockInv
    <3>2. KeyOf(d) \in Keys
      BY <3>1, BusyKey
    <3>3. PICK i \in 1..Len(queue[KeyOf(d)]) : queue[KeyOf(d)][i] = d
      BY <3>1
    <3>4. i \in 1..Len(queue'[KeyOf(d)]) /\ queue'[KeyOf(d)][i] = d
      BY <3>2, <3>3, <1>8
    <3> QED
      BY <3>1, <3>4
  <2> QED
    BY <2>1, <2>2
<1> QED
  BY <1>10, <1>11, <1>12, <1>13, <1>14 DEF LockInv, KeyOf

\* The first waiter of a key's lock goes to work.
LEMMA LockPassed ==
  ASSUME ClientOK, HandlerOK, LockInv, NEW c \in Conns, LockGranted(c)
  PROVE  LockInv'
<1> USE DEF Busy
<1>1. /\ pc' = [pc EXCEPT ![c] = "serving"] /\ queue' = queue
      /\ log' = log /\ taken' = taken /\ pc[c] = "locking"
      /\ Head(queue[KeyOf(c)]) = c
  BY DEF LockGranted, NextHolder, loopVars, clientVars
<1>2. \A d \in Conns : KeyOf(d)' = KeyOf(d) /\ (Busy(d)' <=> Busy(d))
  BY <1>1 DEF KeyOf, HandlerOK
<1>3. KeyOf(c) \in Keys
  BY <1>1, BusyKey DEF LockInv
<1>4. Len(queue[KeyOf(c)]) > 0 /\ queue[KeyOf(c)][1] = c
  <2>1. queue[KeyOf(c)] \in Seq(Conns)
    BY <1>3 DEF HandlerOK
  <2>2. \E i \in 1..Len(queue[KeyOf(c)]) : queue[KeyOf(c)][i] = c
    BY <1>1 DEF LockInv
  <2> QED
    BY <1>1, <2>1, <2>2
<1>5. \A q \in Keys : \A i \in 1..Len(queue[q]) : queue[q][i] \in Conns
  BY DEF HandlerOK
<1>6. \A q \in Keys : \A i \in 1..Len(queue[q]) :
          (Busy(queue[q][i]) /\ KeyOf(queue[q][i]) = q)'
  BY <1>1, <1>2, <1>5 DEF LockInv, KeyOf
<1>7. \A d \in Conns : pc'[d] = "serving" /\ KeyOf(d)' # NoKey =>
          Len(queue'[KeyOf(d)']) > 0 /\ queue'[KeyOf(d)'][1] = d
  BY SMTT(60), <1>1, <1>2, <1>4 DEF LockInv, HandlerOK
<1>8. \A d \in Conns : pc'[d] = "locking" =>
          KeyOf(d)' # NoKey /\ \E i \in 1..Len(queue'[KeyOf(d)']) : queue'[KeyOf(d)'][i] = d
  <2> SUFFICES ASSUME NEW d \in Conns, pc'[d] = "locking"
               PROVE  KeyOf(d) # NoKey /\ \E i \in 1..Len(queue[KeyOf(d)]) : queue[KeyOf(d)][i] = d
    BY <1>1, <1>2, ZenonT(60)
  <2>1. pc[d] = "locking"
    BY <1>1 DEF HandlerOK
  <2> QED
    BY <2>1 DEF LockInv
<1> QED
  BY <1>1, <1>2, <1>6, <1>7, <1>8 DEF LockInv, KeyOf

\* A handler stops working and gives its lock back, if it holds one.
LEMMA LockReleased ==
  ASSUME ClientOK, HandlerOK, LockInv, NEW c \in Conns, NEW x,
         x \notin {"locking", "serving"}, pc[c] = "serving",
         pc' = [pc EXCEPT ![c] = x], log' = log, taken' = taken,
         queue' = IF KeyOf(c) = NoKey THEN queue ELSE [queue EXCEPT ![KeyOf(c)] = Tail(@)]
  PROVE  LockInv' /\ queue' \in [Keys -> Seq(Conns)]
<1> DEFINE k == KeyOf(c)
<1> USE DEF Busy
<1>1. \A d \in Conns : KeyOf(d)' = KeyOf(d) /\ (Busy(d)' <=> Busy(d) /\ d # c)
                       /\ (d # c => pc'[d] = pc[d])
  BY DEF KeyOf, HandlerOK
<1>2. k \in Keys \cup {NoKey}
  BY BusyKey
<1>3. k \in Keys => Len(queue[k]) > 0 /\ queue[k][1] = c
  BY ConstAssumption DEF LockInv
<1>4. ASSUME NEW q \in Keys
      PROVE  /\ queue'[q] \in Seq(Conns) /\ queue[q] \in Seq(Conns)
             /\ \/ q # k /\ queue'[q] = queue[q]
                \/ /\ q = k
                   /\ Len(queue[q]) = Len(queue'[q]) + 1
                   /\ \A i \in 1..Len(queue'[q]) : queue'[q][i] = queue[q][i + 1]
  <2>1. queue[q] \in Seq(Conns) /\ q \in DOMAIN queue /\ q # NoKey
    BY ConstAssumption DEF HandlerOK
  <2>2. CASE q # k
    BY <2>1, <2>2
  <2>3. CASE q = k
    <3>1. queue'[q] = Tail(queue[q]) /\ Len(queue[q]) > 0
      BY <1>3, <2>1, <2>3
    <3> HIDE DEF k
    <3> QED
      BY <2>1, <2>3, <3>1
  <2> QED
    BY <2>2, <2>3
<1>5. queue' \in [Keys -> Seq(Conns)]
  <2>1. DOMAIN queue' = Keys /\ queue' = [q \in Keys |-> queue'[q]]
    BY DEF HandlerOK
  <2> QED
    BY <1>4, <2>1
<1>6. \A q \in Keys : \A i \in 1..Len(queue'[q]) :
          queue'[q][i] \in Conns \ {c} /\ Busy(queue'[q][i]) /\ KeyOf(queue'[q][i]) = q
  <2> SUFFICES ASSUME NEW q \in Keys, NEW i \in 1..Len(queue'[q])
               PROVE  queue'[q][i] \in Conns \ {c} /\ Busy(queue'[q][i]) /\ KeyOf(queue'[q][i]) = q
    OBVIOUS
  <2>1. CASE q = k
    <3>1. i + 1 \in 1..Len(queue[q]) /\ queue'[q][i] = queue[q][i + 1] /\ 1 \in 1..Len(queue[q])
          /\ queue[q] \in Seq(Conns)
      BY <1>4, <2>1
    <3>2. Busy(queue[q][i + 1]) /\ KeyOf(queue[q][i + 1]) = q /\ queue[q][i + 1] \in Conns
      BY <3>1 DEF LockInv
    <3>3. queue[q][i + 1] # c
      BY <1>3, <2>1, <3>1 DEF LockInv
    <3> QED
      BY <3>1, <3>2, <3>3
  <2>2. CASE q # k
    <3>1. queue'[q][i] = queue[q][i] /\ queue[q][i] \in Conns /\ i \in 1..Len(queue[q])
      BY <1>4, <2>2
    <3>2. Busy(queue[q][i]) /\ KeyOf(queue[q][i]) = q
      BY <3>1 DEF LockInv
    <3> QED
      BY <2>2, <3>1, <3>2
  <2> QED
    BY <2>1, <2>2
<1>7. \A q \in Keys : \A i \in 1..Len(queue'[q]) : (Busy(queue[q][i]) /\ KeyOf(queue[q][i]) = q)'
  <2> SUFFICES ASSUME NEW q \in Keys, NEW i \in 1..Len(queue'[q])
               PROVE  (Busy(queue[q][i]) /\ KeyOf(queue[q][i]) = q)'
    OBVIOUS
  <2>1. queue'[q][i] \in Conns \ {c} /\ Busy(queue'[q][i]) /\ KeyOf(queue'[q][i]) = q
    BY <1>6
  <2> QED
    BY <1>1, <2>1 DEF KeyOf
<1>8. \A q \in Keys : \A i, j \in 1..Len(queue'[q]) : queue'[q][i] = queue'[q][j] => i = j
  <2> SUFFICES ASSUME NEW q \in Keys PROVE
                 \A i, j \in 1..Len(queue'[q]) : queue'[q][i] = queue'[q][j] => i = j
    OBVIOUS
  <2>1. \A i, j \in 1..Len(queue[q]) : queue[q][i] = queue[q][j] => i = j
    BY DEF LockInv
  <2> QED
    BY <1>4, <2>1
<1>9. \A d \in Conns : pc'[d] = "serving" /\ KeyOf(d)' # NoKey =>
          Len(queue'[KeyOf(d)']) > 0 /\ queue'[KeyOf(d)'][1] = d
  <2> SUFFICES ASSUME NEW d \in Conns, pc'[d] = "serving", KeyOf(d)' # NoKey
               PROVE  Len(queue'[KeyOf(d)]) > 0 /\ queue'[KeyOf(d)][1] = d
    BY <1>1
  <2>1. d # c /\ pc[d] = "serving" /\ KeyOf(d) # NoKey
    BY <1>1 DEF HandlerOK
  <2>2. KeyOf(d) \in Keys /\ Len(queue[KeyOf(d)]) > 0 /\ queue[KeyOf(d)][1] = d
    BY <2>1, BusyKey DEF LockInv
  <2> QED
    BY <1>3, <1>4, <2>1, <2>2
<1>10. \A d \in Conns : pc'[d] = "locking" =>
          KeyOf(d) # NoKey /\ \E i \in 1..Len(queue'[KeyOf(d)]) : queue'[KeyOf(d)][i] = d
  <2> SUFFICES ASSUME NEW d \in Conns, pc'[d] = "locking"
               PROVE  KeyOf(d) # NoKey
                      /\ \E i \in 1..Len(queue'[KeyOf(d)]) : queue'[KeyOf(d)][i] = d
    OBVIOUS
  <2>1. d # c /\ pc[d] = "locking"
    BY <1>1 DEF HandlerOK
  <2>2. KeyOf(d) \in Keys /\ KeyOf(d) # NoKey
        /\ \E i \in 1..Len(queue[KeyOf(d)]) : queue[KeyOf(d)][i] = d
    BY <2>1, BusyKey DEF LockInv
  <2>3. PICK i \in 1..Len(queue[KeyOf(d)]) : queue[KeyOf(d)][i] = d
    BY <2>2
  <2>4. CASE KeyOf(d) = k
    <3>1. i # 1 /\ Len(queue[k]) = Len(queue'[k]) + 1 /\ queue'[k] \in Seq(Conns)
      BY <1>3, <1>4, <2>1, <2>2, <2>3, <2>4
    <3>2. i - 1 \in 1..Len(queue'[k]) /\ queue'[k][i - 1] = queue[k][(i - 1) + 1]
      BY <1>4, <2>2, <2>3, <2>4, <3>1
    <3>3. queue'[k][i - 1] = d
      BY <2>3, <2>4, <3>2
    <3> QED
      BY <2>2, <2>4, <3>2, <3>3, Zenon
  <2>5. CASE KeyOf(d) # k
    BY <1>4, <2>2, <2>3, <2>5
  <2> QED
    BY <2>4, <2>5
<1>11. \A d \in Conns : pc'[d] = "locking" =>
          KeyOf(d)' # NoKey /\ \E i \in 1..Len(queue'[KeyOf(d)']) : queue'[KeyOf(d)'][i] = d
  <2> TAKE d \in Conns
  <2>1. KeyOf(d)' = KeyOf(d)
    BY <1>1
  <2>2. pc'[d] = "locking" =>
           KeyOf(d) # NoKey /\ \E i \in 1..Len(queue'[KeyOf(d)]) : queue'[KeyOf(d)][i] = d
    BY <1>10
  <2> QED
    BY <2>1, <2>2
<1>12. \A d \in Conns : Busy(d)' =>
          (taken[d] \in 1..Len(log[d]) /\ log[d][taken[d]].method = "call")'
  BY <1>1 DEF LockInv
<1> QED
  BY <1>5, <1>7, <1>8, <1>9, <1>11, <1>12 DEF LockInv, KeyOf

-----------------------------------------------------------------------------
(* Leaving a request or the loop. *)

Links == {"none", "open", "closing", "down"}

\* Handler c is done with its request: it reads on, unwinds its streams or has left, and
\* the accounting is right.
Settled(c) ==
    /\ ActiveCounts' /\ CountOK' /\ link' \in [Conns -> Links]
    /\ \E y \in {"reading", "unwinding", "closed"} : pc' = [pc EXCEPT ![c] = y]

LEMMA CloseLinksType ==
  ASSUME HandlerOK, NEW cs, CloseLinks(cs)
  PROVE  link' \in [Conns -> Links]
BY DEF HandlerOK, CloseLinks, Links

LEMMA ResumeSettles ==
  ASSUME TypeOK, ActiveCounts, NEW c \in Conns, InLoop(c), NEW a \in 0..IdleTimeout, Resume(c, a)
  PROVE  Settled(c)
<1>1. pc' = [pc EXCEPT ![c] = "reading"] /\ age' = a /\ UNCHANGED <<active, writers, link>>
  BY DEF Resume
<1>2. Counted' = Counted
  BY <1>1 DEF Counted, InLoop, TypeOK, HandlerOK
<1>3. ActiveCounts'
  BY <1>1, <1>2, CountSame
<1> QED
  BY <1>1, <1>3 DEF Settled, TypeOK, CountOK, HandlerOK, Links

LEMMA LeaveSettles ==
  ASSUME TypeOK, ActiveCounts, NEW c \in Conns, InLoop(c), NEW a \in 0..IdleTimeout, Leave(c, a)
  PROVE  Settled(c)
<1>1. CASE streams[c] = {}
  <2>1. /\ pc' = [pc EXCEPT ![c] = "closed"] /\ CloseLinks({c})
        /\ active' = active - 1 /\ writers' = writers \ {c} /\ age' = 0
    BY <1>1 DEF Leave, Uncount
  <2>2. c \in Counted /\ Counted' = Counted \ {c}
    BY <2>1 DEF Counted, InLoop, TypeOK, HandlerOK
  <2>3. ActiveCounts' /\ active' \in Nat
    BY <2>1, <2>2, CountOut
  <2>4. CountOK'
    BY <2>1, <2>3, ConstAssumption DEF TypeOK, CountOK
  <2>5. link' \in [Conns -> Links]
    BY <2>1, CloseLinksType DEF TypeOK
  <2> QED
    BY <2>1, <2>3, <2>4, <2>5 DEF Settled
<1>2. CASE streams[c] # {}
  <2>1. pc' = [pc EXCEPT ![c] = "unwinding"] /\ age' = a /\ UNCHANGED <<active, writers, link>>
    BY <1>2 DEF Leave
  <2>2. Counted' = Counted
    BY <2>1 DEF Counted, InLoop, TypeOK, HandlerOK
  <2>3. ActiveCounts'
    BY <2>1, <2>2, CountSame
  <2> QED
    BY <2>1, <2>3 DEF Settled, TypeOK, CountOK, HandlerOK, Links
<1> QED
  BY <1>1, <1>2

LEMMA AnswerType ==
  ASSUME HandlerOK, NEW c \in Conns, NEW i \in Nat, Answer(c, i) \/ UNCHANGED out
  PROVE  out' \in [Conns -> Seq(Nat)]
<1>1. Append(out[c], i) \in Seq(Nat)
  BY DEF HandlerOK
<1> QED
  BY <1>1 DEF HandlerOK, Answer

LEMMA SendResultSettles ==
  ASSUME TypeOK, ActiveCounts, NEW c \in Conns, InLoop(c), NEW i \in Nat,
         NEW a \in 0..IdleTimeout, SendResult(c, i, a)
  PROVE  Settled(c) /\ out' \in [Conns -> Seq(Nat)]
<1>1. age \in 0..IdleTimeout
  BY DEF TypeOK, CountOK
<1> QED
  BY <1>1, ResumeSettles, LeaveSettles, AnswerType DEF SendResult, TypeOK

LEMMA SendErrorSettles ==
  ASSUME TypeOK, ActiveCounts, NEW c \in Conns, InLoop(c), NEW i \in Nat,
         NEW a \in 0..IdleTimeout, SendError(c, i, a)
  PROVE  Settled(c) /\ out' \in [Conns -> Seq(Nat)]
BY ResumeSettles, LeaveSettles, AnswerType DEF SendError, TypeOK

\* A frame that is read and settled at once leaves the locks alone.
LEMMA ReadSettled ==
  ASSUME IInv, NEW c \in Conns, NEW m, Read(c, m), Settled(c), out' \in [Conns -> Seq(Nat)],
         UNCHANGED <<clientVars, streams, queue>>, StopOK'
  PROVE  IInv'
<1>1. PICK y \in {"reading", "unwinding", "closed"} : pc' = [pc EXCEPT ![c] = y]
  BY DEF Settled
<1>2. /\ pc[c] = "reading" /\ taken' = [taken EXCEPT ![c] = @ + 1]
      /\ peer' = peer /\ log' = log /\ queue' = queue /\ streams' = streams
  BY DEF Read, clientVars
<1>3. ClientOK'
  BY <1>2 DEF IInv, TypeOK, ClientOK
<1>4. HandlerOK'
  <2>1. taken' \in [Conns -> Nat]
    BY <1>2 DEF IInv, TypeOK, HandlerOK
  <2>2. pc' \in [Conns -> {"free", "accepted", "reading", "locking", "serving", "unwinding",
                          "closed", "leaked"}]
    BY <1>1 DEF IInv, TypeOK, HandlerOK
  <2> QED
    BY <1>2, <2>1, <2>2 DEF IInv, TypeOK, HandlerOK, Settled, Links
<1>5. LockInv'
  <2>1. \A d \in Conns : Busy(d)' => pc'[d] = pc[d]
    BY <1>1, <1>2 DEF IInv, TypeOK, HandlerOK, Busy
  <2>2. \A d \in Conns : Busy(d) => pc'[d] = pc[d] /\ taken'[d] = taken[d]
                                    /\ Len(log'[d]) >= Len(log[d])
                                    /\ log'[d][taken[d]] = log[d][taken[d]]
    BY <1>1, <1>2 DEF IInv, TypeOK, ClientOK, HandlerOK, Busy
  <2> QED
    BY <1>2, <1>3, <2>1, <2>2, LockSame DEF IInv, TypeOK
<1> QED
  BY <1>3, <1>4, <1>5 DEF IInv, TypeOK, Settled

\* A step that moves no handler keeps the counter and the locks right.
LEMMA Unmoved ==
  ASSUME IInv, UNCHANGED <<log, pc, taken, queue, active>>
  PROVE  ActiveCounts' /\ LockInv' /\ active' \in Nat
<1>1. Counted' = Counted
  BY DEF Counted, InLoop
<1>2. ActiveCounts'
  BY <1>1, CountSame DEF IInv
<1>3. LockInv'
  <2>1. \A c \in Conns : Len(log[c]) >= Len(log[c])
    BY DEF IInv, TypeOK, ClientOK
  <2>2. ClientOK
    BY DEF IInv, TypeOK
  <2> QED
    BY DEF LockInv, Busy, KeyOf, IInv
<1> QED
  BY <1>2, <1>3 DEF IInv, TypeOK, CountOK

-----------------------------------------------------------------------------
(* The steps of the clients. *)

LEMMA ConnectStep == ASSUME IInv, NEW c \in Conns, Connect(c) PROVE IInv'
<1>1. /\ pc[c] = "free" /\ pc' = [pc EXCEPT ![c] = "accepted"]
      /\ peer' = [peer EXCEPT ![c] = "open"] /\ link' = [link EXCEPT ![c] = "open"]
      /\ UNCHANGED <<log, loopVars, countVars, idleVars, stopVars>>
  BY DEF Connect
<1>2. TypeOK'
  BY <1>1 DEF IInv, TypeOK, ClientOK, HandlerOK, CountOK, StopOK, loopVars, countVars, idleVars,
              clockVars, stopVars
<1>3. ActiveCounts'
  <2>1. Counted' = Counted /\ active' = active
    BY <1>1 DEF Counted, InLoop, IInv, TypeOK, HandlerOK, countVars
  <2> QED
    BY <2>1, CountSame DEF IInv
<1>4. LockInv'
  <2>1. \A d \in Conns : (Busy(d)' => pc'[d] = pc[d]) /\ (Busy(d) => pc'[d] = pc[d])
    BY <1>1 DEF Busy, IInv, TypeOK, HandlerOK
  <2>2. \A d \in Conns : Len(log'[d]) >= Len(log[d])
    BY <1>1 DEF IInv, TypeOK, ClientOK
  <2>3. queue' = queue /\ taken' = taken /\ log' = log
    BY <1>1 DEF loopVars
  <2> QED
    BY <1>2, <2>1, <2>2, <2>3, LockSame DEF IInv, TypeOK
<1> QED
  BY <1>2, <1>3, <1>4 DEF IInv

LEMMA SendStep == ASSUME IInv, NEW c \in Conns, Send(c) PROVE IInv'
<1>1. PICK f \in Frame : log' = [log EXCEPT ![c] = Append(@, f)]
  BY DEF Send, NextFrames
<1>2. UNCHANGED <<peer, link, loopVars, pc, countVars, idleVars, stopVars>>
  BY DEF Send
<1>3. TypeOK'
  <2>1. Append(log[c], f) \in Seq(Frame)
    BY DEF IInv, TypeOK, ClientOK
  <2>2. ClientOK'
    BY <1>1, <1>2, <2>1 DEF IInv, TypeOK, ClientOK
  <2> QED
    BY <1>2, <2>2 DEF IInv, TypeOK, HandlerOK, CountOK, StopOK, loopVars, countVars, idleVars,
                      clockVars, stopVars
<1>4. ActiveCounts'
  <2>1. Counted' = Counted /\ active' = active
    BY <1>2 DEF Counted, InLoop, countVars
  <2> QED
    BY <2>1, CountSame DEF IInv
<1>5. LockInv'
  <2>1. queue' = queue /\ taken' = taken /\ pc' = pc
    BY <1>2 DEF loopVars
  <2>2. \A d \in Conns : /\ Len(log'[d]) >= Len(log[d])
                         /\ \A i \in 1..Len(log[d]) : log'[d][i] = log[d][i]
    BY <1>1 DEF IInv, TypeOK, ClientOK
  <2>3. \A d \in Conns : Busy(d) => log'[d][taken[d]] = log[d][taken[d]]
    BY <2>2 DEF IInv, LockInv
  <2> QED
    BY <1>3, <2>1, <2>2, <2>3, LockSame DEF IInv, TypeOK
<1> QED
  BY <1>3, <1>4, <1>5 DEF IInv

LEMMA HangUpStep == ASSUME IInv, NEW c \in Conns, HangUp(c) PROVE IInv'
<1>1. /\ peer' = [peer EXCEPT ![c] = "gone"]
      /\ UNCHANGED <<log, link, loopVars, pc, countVars, idleVars, stopVars>>
  BY DEF HangUp
<1>2. TypeOK'
  BY <1>1 DEF IInv, TypeOK, ClientOK, HandlerOK, CountOK, StopOK, loopVars, countVars, idleVars,
              clockVars, stopVars
<1> QED
  BY <1>1, <1>2, Unmoved DEF IInv, loopVars, countVars

-----------------------------------------------------------------------------
(* The steps of the connection loop. *)

LEMMA RegisterStep == ASSUME IInv, NEW c \in Conns, Register(c) PROVE IInv'
<1>1. /\ pc[c] = "accepted" /\ pc' = [pc EXCEPT ![c] = "reading"]
      /\ active' = active + 1 /\ writers' = writers \cup {c} /\ age' = 0 /\ quiet' = 0
      /\ UNCHANGED <<clientVars, link, loopVars, sleep, monitor, shutdown, stopVars>>
  BY DEF Register, Enlist
<1>2. ActiveCounts' /\ active' \in Nat
  <2>1. c \notin Counted /\ Counted' = Counted \cup {c}
    BY <1>1 DEF Counted, InLoop, IInv, TypeOK, HandlerOK
  <2> QED
    BY <1>1, <2>1, CountIn DEF IInv
<1>3. TypeOK'
  BY <1>1, <1>2, ConstAssumption
     DEF IInv, TypeOK, ClientOK, HandlerOK, CountOK, StopOK, clientVars, loopVars, stopVars
<1>4. LockInv'
  <2>1. \A d \in Conns : (Busy(d)' => pc'[d] = pc[d]) /\ (Busy(d) => pc'[d] = pc[d])
    BY <1>1 DEF Busy, IInv, TypeOK, HandlerOK
  <2>2. \A d \in Conns : Len(log'[d]) >= Len(log[d])
    BY <1>1 DEF IInv, TypeOK, ClientOK, clientVars
  <2>3. queue' = queue /\ taken' = taken /\ log' = log
    BY <1>1 DEF loopVars, clientVars
  <2> QED
    BY <1>3, <2>1, <2>2, <2>3, LockSame DEF IInv, TypeOK
<1> QED
  BY <1>2, <1>3, <1>4 DEF IInv

\* The frames that are answered, refused or fatal at once.
LEMMA ImmediateStep ==
  ASSUME IInv, NEW c \in Conns, Ping(c) \/ Shutdown(c) \/ Unknown(c) \/ Garbage(c)
  PROVE  IInv'
<1>1. age \in 0..IdleTimeout /\ taken[c] + 1 \in Nat /\ TypeOK /\ ActiveCounts
  BY DEF IInv, TypeOK, CountOK, HandlerOK
<1>2. InLoop(c)
  BY DEF Ping, Shutdown, Unknown, Garbage, Read, InLoop
<1>3. Settled(c) /\ out' \in [Conns -> Seq(Nat)]
  <2>1. CASE Ping(c) \/ Shutdown(c)
    BY <1>1, <1>2, <2>1, SendResultSettles DEF Ping, Shutdown
  <2>2. CASE Unknown(c)
    BY <1>1, <1>2, <2>2, SendErrorSettles DEF Unknown
  <2>3. CASE Garbage(c)
    BY <1>1, <1>2, <2>3, LeaveSettles DEF Garbage, TypeOK, HandlerOK
  <2> QED
    BY <2>1, <2>2, <2>3
<1>4. StopOK' /\ UNCHANGED <<clientVars, streams, queue>>
  BY DEF Ping, Shutdown, Unknown, Garbage, IInv, TypeOK, StopOK, idleVars, clockVars, stopVars
<1>5. \E m \in {"ping", "shutdown", "unknown", "garbage"} : Read(c, m)
  BY DEF Ping, Shutdown, Unknown, Garbage
<1> QED
  BY <1>3, <1>4, <1>5, ReadSettled

\* Listen and cancel frames change the tracked streams only.
LEMMA StreamFrameStep ==
  ASSUME IInv, NEW c \in Conns, Listen(c) \/ Cancel(c)
  PROVE  IInv'
<1>1. /\ pc[c] = "reading" /\ taken' = [taken EXCEPT ![c] = @ + 1]
      /\ UNCHANGED <<clientVars, link, out, queue, pc, countVars, idleVars, stopVars>>
  BY DEF Listen, Cancel, Read
<1>2. streams' \in [Conns -> SUBSET Nat] /\ taken' \in [Conns -> Nat]
  <2>1. taken[c] + 1 \in Nat /\ streams \in [Conns -> SUBSET Nat] /\ taken \in [Conns -> Nat]
    BY DEF IInv, TypeOK, HandlerOK
  <2>2. taken' \in [Conns -> Nat]
    BY <1>1, <2>1
  <2>3. CASE Listen(c)
    <3>1. streams' = [streams EXCEPT ![c] = @ \cup {taken[c] + 1}]
      BY <2>3 DEF Listen
    <3> QED
      BY <2>1, <2>2, <3>1
  <2>4. CASE Cancel(c)
    <3>1. streams' = [streams EXCEPT ![c] = @ \ {log[c][taken[c] + 1].arg}]
      BY <2>4 DEF Cancel
    <3>2. streams[c] \ {log[c][taken[c] + 1].arg} \in SUBSET Nat
      BY <2>1
    <3> QED
      BY <2>1, <2>2, <3>1, <3>2
  <2> QED
    BY <2>3, <2>4
<1>3. TypeOK'
  BY <1>1, <1>2 DEF IInv, TypeOK, ClientOK, HandlerOK, CountOK, StopOK, clientVars, countVars,
                    idleVars, clockVars, stopVars
<1>4. ActiveCounts'
  <2>1. Counted' = Counted /\ active' = active
    BY <1>1 DEF Counted, InLoop, countVars
  <2> QED
    BY <2>1, CountSame DEF IInv
<1>5. LockInv'
  <2>1. \A d \in Conns : Busy(d) => taken'[d] = taken[d]
    BY <1>1 DEF Busy, IInv, TypeOK, HandlerOK
  <2>2. \A d \in Conns : Len(log'[d]) >= Len(log[d])
    BY <1>1 DEF IInv, TypeOK, ClientOK, clientVars
  <2> QED
    BY <1>1, <1>3, <2>1, <2>2, LockSame DEF IInv, TypeOK, clientVars, Busy
<1> QED
  BY <1>3, <1>4, <1>5 DEF IInv

LEMMA StreamEndsStep == ASSUME IInv, NEW c \in Conns, StreamEnds(c) PROVE IInv'
<1>1. PICK i \in streams[c] : /\ streams' = [streams EXCEPT ![c] = @ \ {i}]
                              /\ Answer(c, i) \/ UNCHANGED out
  BY DEF StreamEnds
<1>2. UNCHANGED <<clientVars, link, taken, queue, pc, countVars, idleVars, stopVars>>
  BY DEF StreamEnds
<1>3. streams' \in [Conns -> SUBSET Nat] /\ i \in Nat
  BY <1>1 DEF IInv, TypeOK, HandlerOK
<1>4. out' \in [Conns -> Seq(Nat)]
  BY <1>1, <1>3, AnswerType DEF IInv, TypeOK
<1>5. TypeOK'
  BY <1>2, <1>3, <1>4 DEF IInv, TypeOK, ClientOK, HandlerOK, CountOK, StopOK, clientVars, countVars,
                          idleVars, clockVars, stopVars
<1> QED
  BY <1>2, <1>5, Unmoved DEF IInv, clientVars, countVars

LEMMA ReadEofStep == ASSUME IInv, NEW c \in Conns, ReadEof(c) PROVE IInv'
<1>1. /\ pc[c] = "reading" /\ Leave(c, age)
      /\ UNCHANGED <<clientVars, loopVars, idleVars, stopVars>>
  BY DEF ReadEof
<1>2. Settled(c)
  BY <1>1, LeaveSettles DEF InLoop, IInv, TypeOK, CountOK
<1>3. PICK y \in {"reading", "unwinding", "closed"} : pc' = [pc EXCEPT ![c] = y]
  BY <1>2 DEF Settled
<1>4. TypeOK'
  BY <1>1, <1>2, <1>3 DEF Settled, Links, IInv, TypeOK, ClientOK, HandlerOK, StopOK, clientVars,
                          loopVars, idleVars, clockVars, stopVars
<1>5. LockInv'
  <2>1. \A d \in Conns : (Busy(d)' => pc'[d] = pc[d]) /\ (Busy(d) => pc'[d] = pc[d])
    BY <1>1, <1>3 DEF Busy, IInv, TypeOK, HandlerOK
  <2>2. \A d \in Conns : Len(log'[d]) >= Len(log[d])
    BY <1>1 DEF IInv, TypeOK, ClientOK, clientVars
  <2> QED
    BY <1>1, <1>4, <2>1, <2>2, LockSame DEF IInv, TypeOK, clientVars, loopVars
<1> QED
  BY <1>2, <1>4, <1>5 DEF IInv, Settled

LEMMA UnwindFailsStep == ASSUME IInv, NEW c \in Conns, UnwindFails(c) PROVE IInv'
<1>1. /\ pc[c] = "unwinding" /\ pc' = [pc EXCEPT ![c] = "leaked"]
      /\ streams' = [streams EXCEPT ![c] = {}] /\ CloseLinks({c})
      /\ UNCHANGED <<clientVars, taken, out, queue, countVars, idleVars, stopVars>>
  BY DEF UnwindFails
<1>2. link' \in [Conns -> Links]
  BY <1>1, CloseLinksType DEF IInv, TypeOK
<1>3. TypeOK'
  BY <1>1, <1>2 DEF Links, IInv, TypeOK, ClientOK, HandlerOK, CountOK, StopOK, clientVars, countVars,
                    idleVars, clockVars, stopVars
<1>4. ActiveCounts'
  <2>1. Counted' = Counted /\ active' = active
    BY <1>1 DEF Counted, InLoop, IInv, TypeOK, HandlerOK, countVars
  <2> QED
    BY <2>1, CountSame DEF IInv
<1>5. LockInv'
  <2>1. \A d \in Conns : (Busy(d)' => pc'[d] = pc[d]) /\ (Busy(d) => pc'[d] = pc[d])
    BY <1>1 DEF Busy, IInv, TypeOK, HandlerOK
  <2>2. \A d \in Conns : Len(log'[d]) >= Len(log[d])
    BY <1>1 DEF IInv, TypeOK, ClientOK, clientVars
  <2> QED
    BY <1>1, <1>3, <2>1, <2>2, LockSame DEF IInv, TypeOK, clientVars
<1> QED
  BY <1>3, <1>4, <1>5 DEF IInv

LEMMA ConnectionLostStep == ASSUME IInv, NEW c \in Conns, ConnectionLost(c) PROVE IInv'
<1>1. /\ link' = [link EXCEPT ![c] = "down"]
      /\ UNCHANGED <<clientVars, loopVars, pc, countVars, idleVars, stopVars>>
  BY DEF ConnectionLost
<1>2. TypeOK'
  BY <1>1 DEF IInv, TypeOK, ClientOK, HandlerOK, CountOK, StopOK, clientVars, loopVars, countVars,
              idleVars, clockVars, stopVars
<1> QED
  BY <1>1, <1>2, Unmoved DEF IInv, clientVars, loopVars, countVars

LEMMA DispatchStep == ASSUME IInv, NEW c \in Conns, Dispatch(c) PROVE IInv'
<1> DEFINE k == log[c][taken[c] + 1].arg
<1>1. /\ pc[c] = "reading" /\ taken' = [taken EXCEPT ![c] = @ + 1]
      /\ UNCHANGED <<clientVars, link, out, streams, countVars, idleVars, stopVars>>
      /\ \E y \in {"serving", "locking"} : pc' = [pc EXCEPT ![c] = y]
      /\ queue' = queue \/ queue' = [queue EXCEPT ![k] = Append(@, c)]
  BY DEF Dispatch, Read
<1>2. queue' \in [Keys -> Seq(Conns)]
  <2>1. queue \in [Keys -> Seq(Conns)]
    BY DEF IInv, TypeOK, HandlerOK
  <2>2. \A q \in Keys : Append(queue[q], c) \in Seq(Conns)
    BY <2>1
  <2> HIDE DEF k
  <2> QED
    BY <1>1, <2>1, <2>2
<1>3. TypeOK'
  BY <1>1, <1>2 DEF IInv, TypeOK, ClientOK, HandlerOK, CountOK, StopOK, clientVars, countVars,
                    idleVars, clockVars, stopVars
<1>4. ActiveCounts'
  <2>1. Counted' = Counted /\ active' = active
    BY <1>1 DEF Counted, InLoop, IInv, TypeOK, HandlerOK, countVars
  <2> QED
    BY <2>1, CountSame DEF IInv
<1>5. LockInv'
  BY <1>3, LockJoined DEF IInv, TypeOK
<1> QED
  BY <1>3, <1>4, <1>5 DEF IInv

LEMMA LockGrantedStep == ASSUME IInv, NEW c \in Conns, LockGranted(c) PROVE IInv'
<1>1. /\ pc[c] = "locking" /\ pc' = [pc EXCEPT ![c] = "serving"]
      /\ UNCHANGED <<clientVars, link, loopVars, countVars, idleVars, stopVars>>
  BY DEF LockGranted
<1>2. TypeOK'
  BY <1>1 DEF IInv, TypeOK, ClientOK, HandlerOK, CountOK, StopOK, clientVars, loopVars, countVars,
              idleVars, clockVars, stopVars
<1>3. ActiveCounts'
  <2>1. Counted' = Counted /\ active' = active
    BY <1>1 DEF Counted, InLoop, IInv, TypeOK, HandlerOK, countVars
  <2> QED
    BY <2>1, CountSame DEF IInv
<1> QED
  BY <1>2, <1>3, LockPassed DEF IInv, TypeOK

LEMMA HandlerReturnsStep == ASSUME IInv, NEW c \in Conns, HandlerReturns(c) PROVE IInv'
<1>1. /\ pc[c] = "serving"
      /\ UNCHANGED <<clientVars, taken, streams, idleVars, stopVars>>
      /\ queue' = IF KeyOf(c) = NoKey THEN queue ELSE [queue EXCEPT ![KeyOf(c)] = Tail(@)]
  BY DEF HandlerReturns, Release
<1>2. Settled(c) /\ out' \in [Conns -> Seq(Nat)]
  <2>1. InLoop(c) /\ TypeOK /\ ActiveCounts /\ taken[c] \in Nat
    BY <1>1 DEF InLoop, IInv, TypeOK, HandlerOK
  <2>2. age \in 0..IdleTimeout /\ 0 \in 0..IdleTimeout /\ out \in [Conns -> Seq(Nat)]
    BY ConstAssumption DEF IInv, TypeOK, CountOK, HandlerOK
  <2>3. \/ SendResult(c, taken[c], 0)
        \/ SendError(c, taken[c], 0)
        \/ Leave(c, age) /\ UNCHANGED out
    BY DEF HandlerReturns
  <2> QED
    BY <2>1, <2>2, <2>3, SendResultSettles, SendErrorSettles, LeaveSettles
<1>3. PICK y \in {"reading", "unwinding", "closed"} : pc' = [pc EXCEPT ![c] = y]
  BY <1>2 DEF Settled
<1>4. LockInv' /\ queue' \in [Keys -> Seq(Conns)]
  <2>1. log' = log /\ taken' = taken /\ y \notin {"locking", "serving"}
    BY <1>1 DEF clientVars
  <2> QED
    BY <1>1, <1>3, <2>1, LockReleased DEF IInv, TypeOK
<1>5. TypeOK'
  BY <1>1, <1>2, <1>3, <1>4
     DEF Settled, Links, IInv, TypeOK, ClientOK, HandlerOK, StopOK, clientVars, idleVars, clockVars,
         stopVars
<1> QED
  BY <1>2, <1>4, <1>5 DEF IInv, Settled

-----------------------------------------------------------------------------
(* The clock, the idle monitor and the stop move no handler. *)

LEMMA IdleStep == ASSUME IInv, Tick \/ IdleCheck PROVE IInv'
<1>1. UNCHANGED <<clientVars, link, loopVars, pc, active, writers, stopVars>>
  BY DEF Tick, IdleCheck, countVars
<1>2. age' \in 0..IdleTimeout /\ quiet' \in 0..IdleTimeout
  BY ConstAssumption DEF Tick, IdleCheck, Later, countVars, IInv, TypeOK, CountOK, StopOK
<1>3. sleep' \in 0..Period
  BY ConstAssumption DEF Tick, IdleCheck, Period, IInv, TypeOK, StopOK
<1>4. shutdown' \in BOOLEAN /\ monitor' \in {"sleeping", "fired", "done"}
  BY DEF Tick, IdleCheck, AfterPoll, IInv, TypeOK, StopOK
<1>5. TypeOK'
  BY <1>1, <1>2, <1>3, <1>4
     DEF IInv, TypeOK, ClientOK, HandlerOK, CountOK, StopOK, clientVars, loopVars, stopVars
<1> QED
  BY <1>1, <1>5, Unmoved DEF IInv, clientVars, loopVars

LEMMA StopStep ==
  ASSUME IInv, NEW t \in Stoppers, Signal \/ MainWakes \/ Stop(t)
  PROVE  IInv'
<1>1. UNCHANGED <<clientVars, loopVars, pc, active, age, clockVars>>
  BY DEF Signal, MainWakes, Stop, StopBegins, StopCloses, StopWaited, StopEnds, countVars, idleVars
<1>2. link' \in [Conns -> Links]
  <2>1. (\E cs : CloseLinks(cs)) \/ link' = link
    BY DEF Signal, MainWakes, Stop, StopBegins, StopCloses, StopWaited, StopEnds
  <2> QED
    BY <2>1, CloseLinksType DEF IInv, TypeOK, HandlerOK, Links
<1>3. writers' \subseteq Conns
  BY DEF Signal, MainWakes, Stop, StopBegins, StopCloses, StopWaited, StopEnds, countVars,
         IInv, TypeOK, CountOK
<1>4. /\ monitor' \in {"sleeping", "fired", "done"}
      /\ shutdown' \in BOOLEAN /\ signalled' \in BOOLEAN
      /\ server' \in {"listening", "closing", "none"}
      /\ backend' \in {"up", "stopping", "stopped"}
  BY DEF Signal, MainWakes, Stop, StopBegins, StopCloses, StopWaited, StopEnds, idleVars,
         IInv, TypeOK, StopOK
<1>5. stage' \in [Stoppers -> {"wait", "join", "cancelIdle", "waitClosed", "stopClient", "done"}]
  BY DEF Signal, MainWakes, Stop, StopBegins, StopCloses, StopWaited, StopEnds, FirstStage,
         Stoppers, IInv, TypeOK, StopOK
<1>6. TypeOK'
  BY <1>1, <1>2, <1>3, <1>4, <1>5
     DEF Links, IInv, TypeOK, ClientOK, HandlerOK, CountOK, StopOK, clientVars, loopVars, clockVars
<1> QED
  BY <1>1, <1>6, Unmoved DEF IInv, clientVars, loopVars

-----------------------------------------------------------------------------
(* The theorems. *)

LEMMA InitIInv == Init => IInv
<1> SUFFICES ASSUME Init PROVE IInv
  OBVIOUS
<1>1. TypeOK
  <2>1. ClientOK
    BY DEF Init, ClientOK
  <2>2. HandlerOK
    BY DEF Init, HandlerOK
  <2>3. Period \in Nat
    BY ConstAssumption DEF Period
  <2>4. CountOK
    BY ConstAssumption DEF Init, CountOK
  <2>5. stage \in [Stoppers -> {"wait", "join", "cancelIdle", "waitClosed", "stopClient", "done"}]
    BY DEF Init
  <2>6. sleep \in 0..Period /\ quiet \in 0..IdleTimeout
    BY <2>3, ConstAssumption DEF Init
  <2>7. StopOK
    BY <2>5, <2>6 DEF Init, StopOK
  <2> QED
    BY <2>1, <2>2, <2>4, <2>7 DEF TypeOK
<1>2. ActiveCounts
  <2>1. {c \in Conns : InLoop(c) \/ pc[c] = "leaked"} = {}
    BY DEF Init, InLoop
  <2> QED
    BY <2>1, FS_EmptySet DEF Init, ActiveCounts
<1>3. LockInv
  BY DEF Init, LockInv, Busy
<1> QED
  BY <1>1, <1>2, <1>3 DEF IInv

LEMMA NextIInv == IInv /\ [Next]_vars => IInv'
<1> SUFFICES ASSUME IInv, [Next]_vars PROVE IInv'
  OBVIOUS
<1>1. ASSUME NEW c \in Conns, Client(c) PROVE IInv'
  BY <1>1, ConnectStep, SendStep, HangUpStep DEF Client
<1>2. ASSUME NEW c \in Conns, Handle(c) PROVE IInv'
  BY <1>2, RegisterStep, ImmediateStep, StreamFrameStep, ReadEofStep, DispatchStep,
     LockGrantedStep, HandlerReturnsStep, UnwindFailsStep, ConnectionLostStep DEF Handle
<1>3. ASSUME NEW c \in Conns, StreamEnds(c) PROVE IInv'
  BY <1>3, StreamEndsStep
<1>4. CASE Tick \/ IdleCheck
  BY <1>4, IdleStep
<1>5. ASSUME Signal \/ MainWakes \/ \E t \in Stoppers : Stop(t) PROVE IInv'
  BY <1>5, StopStep DEF Stoppers
<1>6. CASE UNCHANGED vars
  <2>1. TypeOK'
    BY <1>6 DEF vars, IInv, TypeOK, ClientOK, HandlerOK, CountOK, StopOK, clientVars, loopVars,
                countVars, idleVars, clockVars, stopVars
  <2> QED
    BY <1>6, <2>1, Unmoved DEF IInv, vars, clientVars, loopVars, countVars
<1> QED
  BY <1>1, <1>2, <1>3, <1>4, <1>5, <1>6 DEF Next

\* The inductive invariant: types, the exact count of connections and the lock queues.
THEOREM Invariance == Spec => []IInv
BY InitIInv, NextIInv, PTL DEF Spec

\* Type correctness; among it, _active_connections is never negative.
THEOREM TypeCorrect == Spec => []TypeOK
<1>1. IInv => TypeOK
  BY DEF IInv
<1> QED
  BY <1>1, Invariance, PTL

\* _active_connections counts exactly the registered handlers, leaked ones included.
THEOREM ConnectionsCounted == Spec => []ActiveCounts
<1>1. IInv => ActiveCounts
  BY DEF IInv
<1> QED
  BY <1>1, Invariance, PTL

\* No two handlers work under one lock key.
THEOREM MutualExclusion == Spec => []OneHandlerPerKey
<1>1. IInv => OneHandlerPerKey
  <2> SUFFICES ASSUME LockInv, NEW c \in Conns, NEW d \in Conns,
                      pc[c] = "serving", pc[d] = "serving", KeyOf(c) = KeyOf(d), KeyOf(c) # NoKey
               PROVE  c = d
    BY DEF IInv, OneHandlerPerKey
  <2> QED
    BY DEF LockInv
<1> QED
  BY <1>1, Invariance, PTL

-----------------------------------------------------------------------------
(* The table of locks implements KeyedMutex: first come, first served. *)

\* The handlers at work under a key: what KeyedMutex calls inside.
Inside == {c \in Conns : pc[c] = "serving" /\ KeyOf(c) # NoKey}

\* A step that neither starts nor ends any handler's work is a stutter of the mutex.
LEMMA InsideSame ==
  ASSUME queue' = queue,
         \A c \in Conns : pc'[c] = "serving" <=> pc[c] = "serving",
         \A c \in Conns : pc[c] = "serving" =>
             taken'[c] = taken[c] /\ log'[c][taken[c]] = log[c][taken[c]]
  PROVE  UNCHANGED <<queue, Inside>>
BY DEF Inside, KeyOf

LEMMA InsideArrives == ASSUME IInv, NEW c \in Conns, Dispatch(c) PROVE [Locks!Next]_<<queue, Inside>>
<1> DEFINE k == log[c][taken[c] + 1].arg
<1>1. /\ pc[c] = "reading" /\ taken' = [taken EXCEPT ![c] = @ + 1] /\ log' = log
      /\ \E m : log[c][taken[c] + 1].method = m /\ m = "call"
      /\ taken[c] < Len(log[c])
  BY DEF Dispatch, Read, clientVars
<1>2. KeyOf(c)' = k /\ \A d \in Conns \ {c} : KeyOf(d)' = KeyOf(d)
  BY <1>1 DEF KeyOf, IInv, TypeOK, HandlerOK
<1>3. k \in Keys \cup {NoKey}
  <2>1. log[c][taken[c] + 1] \in Frame
    BY <1>1 DEF IInv, TypeOK, ClientOK, HandlerOK
  <2> QED
    BY <1>1, <2>1 DEF Frame
<1>4. c \notin Inside
  BY <1>1 DEF Inside
<1> HIDE DEF k
<1>5. CASE k = NoKey
  <2>1. pc' = [pc EXCEPT ![c] = "serving"] /\ queue' = queue
    BY <1>5 DEF Dispatch, k
  <2>2. Inside' = Inside
    BY <1>2, <1>4, <1>5, <2>1 DEF Inside, IInv, TypeOK, HandlerOK
  <2> QED
    BY <2>1, <2>2
<1>6. CASE k \in Keys
  <2>1. /\ k # NoKey
        /\ pc' = [pc EXCEPT ![c] = IF queue[k] = <<>> THEN "serving" ELSE "locking"]
        /\ queue' = [queue EXCEPT ![k] = Append(@, c)]
    BY <1>6, ConstAssumption DEF Dispatch, k, LockFree
  <2>2. Inside' = IF queue[k] = <<>> THEN Inside \cup {c} ELSE Inside
    BY <1>2, <1>4, <2>1 DEF Inside, IInv, TypeOK, HandlerOK
  <2>3. PICK q \in Keys : q = k
    BY <1>6
  <2>4. Locks!Arrive(c, q)
    BY <1>4, <2>1, <2>2, <2>3 DEF Locks!Arrive, Inside
  <2>5. Locks!Next
    BY <2>4 DEF Locks!Next
  <2> QED
    BY <2>5
<1> QED
  BY <1>3, <1>5, <1>6

LEMMA InsideEnters ==
  ASSUME IInv, NEW c \in Conns, LockGranted(c)
  PROVE  [Locks!Next]_<<queue, Inside>>
<1>1. /\ pc[c] = "locking" /\ pc' = [pc EXCEPT ![c] = "serving"]
      /\ Head(queue[KeyOf(c)]) = c /\ UNCHANGED <<queue, taken, log>>
  BY DEF LockGranted, NextHolder, clientVars, loopVars
<1>2. /\ KeyOf(c) \in Keys /\ KeyOf(c) # NoKey
      /\ \E i \in 1..Len(queue[KeyOf(c)]) : queue[KeyOf(c)][i] = c
  BY <1>1, BusyKey DEF Busy, IInv, TypeOK, LockInv
<1>3. queue[KeyOf(c)] # <<>>
  BY <1>2
<1>4. c \notin Inside /\ Inside' = Inside \cup {c}
  BY <1>1, <1>2 DEF Inside, KeyOf, IInv, TypeOK, HandlerOK
<1>5. PICK q \in Keys : q = KeyOf(c)
  BY <1>2
<1>6. Locks!Enter(c, q)
  BY <1>1, <1>3, <1>4, <1>5 DEF Locks!Enter, Inside
<1>7. Locks!Next
  BY <1>6 DEF Locks!Next
<1> QED
  BY <1>7

LEMMA InsideExits ==
  ASSUME IInv, NEW c \in Conns, HandlerReturns(c)
  PROVE  [Locks!Next]_<<queue, Inside>>
<1>1. /\ pc[c] = "serving" /\ UNCHANGED <<taken, log>>
      /\ queue' = IF KeyOf(c) = NoKey THEN queue ELSE [queue EXCEPT ![KeyOf(c)] = Tail(@)]
      /\ \E a : Leave(c, a) \/ Resume(c, a)
  BY DEF HandlerReturns, Release, SendResult, SendError, clientVars
<1>2. PICK x \in {"reading", "unwinding", "closed"} : pc' = [pc EXCEPT ![c] = x]
  BY <1>1 DEF Leave, Resume
<1>3. \A d \in Conns : KeyOf(d)' = KeyOf(d)
  BY <1>1 DEF KeyOf
<1>4. Inside' = Inside \ {c}
  BY <1>2, <1>3 DEF Inside, IInv, TypeOK, HandlerOK
<1>5. CASE KeyOf(c) = NoKey
  BY <1>1, <1>4, <1>5 DEF Inside
<1>6. CASE KeyOf(c) # NoKey
  <2>1. KeyOf(c) \in Keys
    BY <1>1, <1>6, BusyKey DEF Busy, IInv, TypeOK
  <2>2. queue[KeyOf(c)] # <<>> /\ Head(queue[KeyOf(c)]) = c
    BY <1>1, <1>6, <2>1 DEF IInv, LockInv, TypeOK, HandlerOK
  <2>3. c \in Inside
    BY <1>1, <1>6 DEF Inside
  <2>4. PICK q \in Keys : q = KeyOf(c)
    BY <2>1
  <2>5. Locks!Exit(c, q)
    BY <1>1, <1>4, <1>6, <2>2, <2>3, <2>4 DEF Locks!Exit, Inside
  <2>6. Locks!Next
    BY <2>5 DEF Locks!Next
  <2> QED
    BY <2>6
<1> QED
  BY <1>5, <1>6

\* Every other step of a connection leaves the locks alone.
LEMMA InsideStays ==
  ASSUME IInv, NEW c \in Conns,
         \/ Client(c) \/ Register(c) \/ Ping(c) \/ Shutdown(c) \/ Unknown(c) \/ Garbage(c)
         \/ Listen(c) \/ Cancel(c) \/ ReadEof(c) \/ UnwindFails(c) \/ ConnectionLost(c) \/ StreamEnds(c)
  PROVE  UNCHANGED <<queue, Inside>>
<1>1. CASE Send(c)
  <2>1. PICK f \in Frame : log' = [log EXCEPT ![c] = Append(@, f)]
    BY <1>1 DEF Send, NextFrames
  <2>2. \A d \in Conns : \A i \in 1..Len(log[d]) : log'[d][i] = log[d][i]
    BY <2>1 DEF IInv, TypeOK, ClientOK
  <2>3. \A d \in Conns : pc[d] = "serving" => taken[d] \in 1..Len(log[d])
    BY DEF IInv, LockInv, Busy
  <2>4. UNCHANGED <<queue, pc, taken>>
    BY <1>1 DEF Send, loopVars
  <2> QED
    BY <2>2, <2>3, <2>4, InsideSame
<1>2. CASE ~Send(c)
  <2>1. log' = log /\ queue' = queue
    BY <1>2 DEF Client, Connect, HangUp, Register, Ping, Shutdown, Unknown, Garbage, Listen, Cancel,
         ReadEof, UnwindFails, ConnectionLost, StreamEnds, clientVars, loopVars
  <2>2. \/ UNCHANGED <<pc, taken>>
        \/ /\ pc[c] # "serving" /\ \E x : x # "serving" /\ pc' = [pc EXCEPT ![c] = x]
           /\ taken' \in {taken, [taken EXCEPT ![c] = @ + 1]}
        \/ pc[c] # "serving" /\ pc' = pc /\ taken' = [taken EXCEPT ![c] = @ + 1]
    BY <1>2 DEF Client, Connect, HangUp, Register, Ping, Shutdown, Unknown, Garbage, Listen, Cancel,
         ReadEof, UnwindFails, ConnectionLost, StreamEnds, Read, SendResult, SendError, Leave, Resume,
         loopVars
  <2>3. \A d \in Conns : /\ pc'[d] = "serving" <=> pc[d] = "serving"
                         /\ pc[d] = "serving" => taken'[d] = taken[d]
    BY <2>2 DEF IInv, TypeOK, HandlerOK
  <2> QED
    BY <2>1, <2>3, InsideSame
<1> QED
  BY <1>1, <1>2

\* Every step of the daemon is a step of the per-key mutex or a stutter of it.
LEMMA LockStep == IInv /\ [Next]_vars => [Locks!Next]_<<queue, Inside>>
<1> SUFFICES ASSUME IInv, [Next]_vars PROVE [Locks!Next]_<<queue, Inside>>
  OBVIOUS
<1>1. ASSUME NEW c \in Conns, Client(c) \/ Handle(c) \/ StreamEnds(c)
      PROVE  [Locks!Next]_<<queue, Inside>>
  BY <1>1, InsideStays, InsideArrives, InsideEnters, InsideExits DEF Handle
<1>2. CASE Tick \/ IdleCheck \/ Signal \/ MainWakes \/ (\E t \in Stoppers : Stop(t)) \/ UNCHANGED vars
  <2>1. UNCHANGED <<queue, pc, taken, log>>
    BY <1>2 DEF Tick, IdleCheck, Signal, MainWakes, Stop, StopBegins, StopCloses, StopWaited, StopEnds,
         vars, clientVars, loopVars
  <2> QED
    BY <2>1 DEF Inside, KeyOf
<1> QED
  BY <1>1, <1>2 DEF Next

\* The daemon's table of locks implements the per-key first-come first-served mutex.
THEOREM LocksImplemented == Spec => LocksRefine
<1>1. Init => Locks!Init
  BY DEF Init, Locks!Init
<1>2. IInv /\ [Next]_vars => [Locks!Next]_<<queue, {c \in Conns : pc[c] = "serving" /\ KeyOf(c) # NoKey}>>
  BY LockStep DEF Inside
<1> QED
  BY <1>1, <1>2, Invariance, PTL DEF Spec, LocksRefine, Locks!Spec

-----------------------------------------------------------------------------
(* The final frames of a connection. *)

\* What a connection has answered are requests it has read, each of them once and none that a
\* stream or a handler still works on.
Answers(c) ==
    /\ \A i \in 1..Len(out[c]) : out[c][i] \in 1..taken[c] /\ out[c][i] \notin streams[c]
    /\ \A i, j \in 1..Len(out[c]) : out[c][i] = out[c][j] => i = j
    /\ streams[c] \subseteq 1..taken[c]
    /\ Busy(c) => /\ taken[c] \notin streams[c]
                  /\ \A i \in 1..Len(out[c]) : out[c][i] # taken[c]

AnswersInv == \A c \in Conns : Answers(c)

\* A step that answers nothing on c and starts no work there.
LEMMA AnswersQuiet ==
  ASSUME NEW c \in Conns, Answers(c),
         taken'[c] = taken[c], out'[c] = out[c], streams'[c] \subseteq streams[c],
         Busy(c)' => Busy(c)
  PROVE  Answers(c)'
BY DEF Answers

\* The other connections are not touched by a handler's step.
LEMMA AnswersApart ==
  ASSUME TypeOK, AnswersInv, NEW c \in Conns, Handle(c) \/ StreamEnds(c), Answers(c)'
  PROVE  AnswersInv'
<1> SUFFICES ASSUME NEW d \in Conns, d # c PROVE Answers(d)'
  BY DEF AnswersInv
<1>1. taken'[d] = taken[d] /\ streams'[d] = streams[d]
  BY DEF Handle, StreamEnds, Register, Ping, Shutdown, Unknown, Garbage, Listen, Cancel, ReadEof,
         Dispatch, LockGranted, HandlerReturns, UnwindFails, ConnectionLost, Read, loopVars,
         TypeOK, HandlerOK
<1>2. out'[d] = out[d]
  BY DEF Handle, StreamEnds, Register, Ping, Shutdown, Unknown, Garbage, Listen, Cancel, ReadEof,
         Dispatch, LockGranted, HandlerReturns, UnwindFails, ConnectionLost, loopVars,
         SendResult, SendError, Answer, TypeOK, HandlerOK
<1>3. pc'[d] = pc[d]
  BY DEF Handle, StreamEnds, Register, Ping, Shutdown, Unknown, Garbage, Listen, Cancel, ReadEof,
         Dispatch, LockGranted, HandlerReturns, UnwindFails, ConnectionLost,
         SendResult, SendError, Resume, Leave, TypeOK, HandlerOK
<1> QED
  BY <1>1, <1>2, <1>3, AnswersQuiet DEF AnswersInv, Busy

\* A frame that is answered appends an id that is not among the answers yet.
LEMMA AnswersAppend ==
  ASSUME HandlerOK, NEW c \in Conns, NEW n \in Nat, Answer(c, n) \/ UNCHANGED out
  PROVE  /\ Len(out[c]) \in Nat /\ \A i \in 1..Len(out[c]) : out'[c][i] = out[c][i]
         /\ \/ Len(out'[c]) = Len(out[c])
            \/ Len(out'[c]) = Len(out[c]) + 1 /\ out'[c][Len(out[c]) + 1] = n
<1>1. out[c] \in Seq(Nat)
  BY DEF HandlerOK
<1>2. out'[c] = out[c] \/ out'[c] = Append(out[c], n)
  BY DEF Answer, HandlerOK
<1> QED
  BY <1>1, <1>2

\* The request in hand is answered, or the handler leaves without an answer.
LEMMA AnswersGiven ==
  ASSUME TypeOK, NEW c \in Conns, Answers(c), NEW n \in Nat, Answer(c, n) \/ UNCHANGED out,
         n \in 1..taken'[c], n \notin streams[c], \A i \in 1..Len(out[c]) : out[c][i] # n,
         taken'[c] \in Nat, taken'[c] >= taken[c], streams'[c] \subseteq streams[c], ~Busy(c)'
  PROVE  Answers(c)'
<1>1. /\ Len(out[c]) \in Nat /\ \A i \in 1..Len(out[c]) : out'[c][i] = out[c][i]
      /\ \/ Len(out'[c]) = Len(out[c])
         \/ Len(out'[c]) = Len(out[c]) + 1 /\ out'[c][Len(out[c]) + 1] = n
  BY AnswersAppend DEF TypeOK
<1>2. taken[c] \in Nat
  BY DEF TypeOK, HandlerOK
<1>3. \A i \in 1..Len(out'[c]) : i \in 1..Len(out[c]) \/ (i = Len(out[c]) + 1 /\ out'[c][i] = n)
  BY <1>1
<1>4. \A m \in 1..taken[c] : m \in 1..taken'[c]
  BY <1>2
<1>5. \A i \in 1..Len(out'[c]) : out'[c][i] \in 1..taken'[c] /\ out'[c][i] \notin streams'[c]
  BY <1>1, <1>3, <1>4 DEF Answers
<1>6. \A i, j \in 1..Len(out'[c]) : out'[c][i] = out'[c][j] => i = j
  BY <1>1, <1>3 DEF Answers
<1>7. streams'[c] \subseteq 1..taken'[c]
  BY <1>4 DEF Answers
<1> QED
  BY <1>5, <1>6, <1>7 DEF Answers

\* What is read next has not been answered, nor does a stream of its number run.
LEMMA NextIsNew ==
  ASSUME TypeOK, NEW c \in Conns, Answers(c)
  PROVE  /\ taken[c] \in Nat /\ taken[c] + 1 \notin streams[c]
         /\ \A i \in 1..Len(out[c]) : out[c][i] # taken[c] + 1
<1>1. taken[c] \in Nat
  BY DEF TypeOK, HandlerOK
<1>2. taken[c] + 1 \notin 1..taken[c]
  BY <1>1
<1> QED
  BY <1>1, <1>2 DEF Answers

LEMMA AnswersHandle ==
  ASSUME IInv, NEW c \in Conns, Answers(c), Handle(c) \/ StreamEnds(c)
  PROVE  Answers(c)'
<1>1. /\ TypeOK /\ HandlerOK /\ taken[c] \in Nat /\ taken[c] + 1 \notin streams[c]
      /\ \A i \in 1..Len(out[c]) : out[c][i] # taken[c] + 1
  BY NextIsNew DEF IInv, TypeOK
<1>2. CASE Register(c) \/ ReadEof(c) \/ LockGranted(c) \/ UnwindFails(c) \/ ConnectionLost(c)
  <2>1. taken'[c] = taken[c] /\ out'[c] = out[c] /\ streams'[c] \subseteq streams[c]
    BY <1>1, <1>2 DEF Register, ReadEof, LockGranted, UnwindFails, ConnectionLost, loopVars, HandlerOK
  <2>2. Busy(c)' => Busy(c)
    BY <1>1, <1>2 DEF Register, ReadEof, Leave, LockGranted, UnwindFails, ConnectionLost, Busy, HandlerOK
  <2> QED
    BY <2>1, <2>2, AnswersQuiet
<1>3. CASE Ping(c) \/ Shutdown(c) \/ Unknown(c) \/ Garbage(c)
  <2>1. taken'[c] = taken[c] + 1 /\ streams'[c] = streams[c]
    BY <1>1, <1>3 DEF Ping, Shutdown, Unknown, Garbage, Read, HandlerOK
  <2>2. Answer(c, taken[c] + 1) \/ UNCHANGED out
    BY <1>3 DEF Ping, Shutdown, Unknown, Garbage, SendResult, SendError
  <2>3. ~Busy(c)'
    BY <1>1, <1>3 DEF Ping, Shutdown, Unknown, Garbage, SendResult, SendError, Resume, Leave, Busy,
                      HandlerOK
  <2> QED
    BY <1>1, <2>1, <2>2, <2>3, AnswersGiven
<1>4. CASE Listen(c) \/ Cancel(c)
  <2>1. /\ taken'[c] = taken[c] + 1 /\ out' = out
        /\ \A i \in streams'[c] : i \in streams[c] \/ i = taken[c] + 1
        /\ ~Busy(c)'
    BY <1>1, <1>4 DEF Listen, Cancel, Read, Busy, HandlerOK
  <2>2. \A i \in 1..taken[c] : i \in 1..taken'[c]
    BY <1>1, <2>1
  <2>3. taken[c] + 1 \in 1..taken'[c]
    BY <1>1, <2>1
  <2> QED
    BY <1>1, <2>1, <2>2, <2>3 DEF Answers
<1>5. CASE Dispatch(c)
  <2>1. taken'[c] = taken[c] + 1 /\ out' = out /\ streams' = streams
    BY <1>1, <1>5 DEF Dispatch, Read, HandlerOK
  <2>2. \A i \in 1..taken[c] : i \in 1..taken'[c]
    BY <1>1, <2>1
  <2> QED
    BY <1>1, <2>1, <2>2 DEF Answers
<1>6. CASE HandlerReturns(c)
  <2>1. taken' = taken /\ streams' = streams /\ Busy(c)
    BY <1>6 DEF HandlerReturns, Busy
  <2>2. Answer(c, taken[c]) \/ UNCHANGED out
    BY <1>6 DEF HandlerReturns, SendResult, SendError
  <2>3. ~Busy(c)'
    BY <1>1, <1>6 DEF HandlerReturns, SendResult, SendError, Resume, Leave, Busy, HandlerOK
  <2>4. taken[c] \in 1..taken[c]
    BY <1>1, <2>1 DEF IInv, LockInv
  <2>5. taken[c] \notin streams[c] /\ \A i \in 1..Len(out[c]) : out[c][i] # taken[c]
    BY <2>1 DEF Answers
  <2> QED
    BY <1>1, <2>1, <2>2, <2>3, <2>4, <2>5, AnswersGiven
<1>7. CASE StreamEnds(c)
  <2>1. PICK n \in streams[c] : /\ streams' = [streams EXCEPT ![c] = @ \ {n}]
                                /\ Answer(c, n) \/ UNCHANGED out
    BY <1>7 DEF StreamEnds
  <2>2. streams'[c] = streams[c] \ {n} /\ taken' = taken /\ pc' = pc
    BY <1>1, <1>7, <2>1 DEF StreamEnds, HandlerOK
  <2>3. n \in 1..taken[c] /\ n \in Nat /\ \A i \in 1..Len(out[c]) : out[c][i] # n
    BY <1>1, <2>1 DEF Answers
  <2>4. /\ Len(out[c]) \in Nat /\ \A i \in 1..Len(out[c]) : out'[c][i] = out[c][i]
        /\ \/ Len(out'[c]) = Len(out[c])
           \/ Len(out'[c]) = Len(out[c]) + 1 /\ out'[c][Len(out[c]) + 1] = n
    BY <1>1, <2>1, <2>3, AnswersAppend
  <2>5. \A i \in 1..Len(out'[c]) : i \in 1..Len(out[c]) \/ (i = Len(out[c]) + 1 /\ out'[c][i] = n)
    BY <2>4
  <2>6. Busy(c) => n # taken[c]
    BY <2>1 DEF Answers
  <2>7. \A i \in 1..Len(out'[c]) : out'[c][i] \in 1..taken'[c] /\ out'[c][i] \notin streams'[c]
    BY <2>2, <2>3, <2>4, <2>5 DEF Answers
  <2>8. \A i, j \in 1..Len(out'[c]) : out'[c][i] = out'[c][j] => i = j
    BY <2>3, <2>4, <2>5 DEF Answers
  <2>9. Busy(c)' => /\ taken'[c] \notin streams'[c]
                    /\ \A i \in 1..Len(out'[c]) : out'[c][i] # taken'[c]
    BY <2>2, <2>4, <2>5, <2>6 DEF Answers, Busy
  <2> QED
    BY <2>2, <2>7, <2>8, <2>9 DEF Answers
<1> QED
  BY <1>2, <1>3, <1>4, <1>5, <1>6, <1>7 DEF Handle

LEMMA AnswersNext == IInv /\ AnswersInv /\ [Next]_vars => AnswersInv'
<1> SUFFICES ASSUME IInv, AnswersInv, [Next]_vars PROVE AnswersInv'
  OBVIOUS
<1>1. ASSUME NEW c \in Conns, Handle(c) \/ StreamEnds(c) PROVE AnswersInv'
  BY <1>1, AnswersHandle, AnswersApart DEF AnswersInv, IInv
<1>2. ASSUME NEW c \in Conns, Client(c) PROVE AnswersInv'
  <2>1. UNCHANGED <<taken, out, streams>> /\ \A d \in Conns : Busy(d)' => Busy(d)
    BY <1>2 DEF Client, Connect, Send, HangUp, loopVars, Busy, IInv, TypeOK, HandlerOK
  <2> QED
    BY <2>1, AnswersQuiet DEF AnswersInv
<1>3. CASE Tick \/ IdleCheck \/ Signal \/ MainWakes \/ (\E t \in Stoppers : Stop(t)) \/ UNCHANGED vars
  <2>1. UNCHANGED <<taken, out, streams, pc>>
    BY <1>3 DEF Tick, IdleCheck, Signal, MainWakes, Stop, StopBegins, StopCloses, StopWaited, StopEnds,
         vars, loopVars
  <2> QED
    BY <2>1, AnswersQuiet DEF AnswersInv, Busy
<1> QED
  BY <1>1, <1>2, <1>3 DEF Next

\* No request gets two final frames, however the answers of the loop, of the handlers under
\* their locks and of the listen tasks interleave on the connection.
THEOREM NeverAnsweredTwice == Spec => []AnsweredOnce
<1>1. Init => AnswersInv
  BY DEF Init, AnswersInv, Answers, Busy
<1>2. AnswersInv => AnsweredOnce
  BY DEF AnswersInv, Answers, AnsweredOnce
<1> QED
  BY <1>1, <1>2, Invariance, AnswersNext, PTL DEF Spec

-----------------------------------------------------------------------------
(***************************************************************************)
(* How the daemon stops: nothing is torn down under a live transport,      *)
(* everything is torn down at the end, and the idle monitor stops a quiet  *)
(* daemon only.                                                            *)
(***************************************************************************)

\* What the teardown rests on.  Only an open listening socket makes transports, a handler
\* that has not started has an open one that no stop() has in reach, and each stage of
\* main's stop() has the work of the stages before it behind it.
StopInv ==
    /\ server = "none" => \A c \in Conns : link[c] \in {"none", "down"}
    /\ \A c \in Conns : pc[c] = "accepted" => link[c] = "open"
    /\ \A c \in Conns : pc[c] \in {"free", "accepted"} => c \notin writers
    /\ server = "none" => writers = {}
    /\ backend # "up" => server = "none"
    /\ \A t \in Stoppers : stage[t] = "stopClient" => server = "none"
    /\ stage["main"] \in {"cancelIdle", "waitClosed", "stopClient", "done"} => monitor # "sleeping"
    /\ stage["main"] = "done" => backend = "stopped"

\* Closing some transports leaves those alone that are down or were never there.
LEMMA CloseLinksKeeps ==
  ASSUME HandlerOK, NEW cs, CloseLinks(cs)
  PROVE  \A c \in Conns : /\ link[c] \in {"none", "down"} => link'[c] = link[c]
                          /\ c \notin cs => link'[c] = link[c]
BY DEF CloseLinks, HandlerOK

\* A handler that leaves, or goes back to reading, keeps the teardown invariant.
LEMMA SettleKeepsStop ==
  ASSUME TypeOK, StopInv, NEW c \in Conns, pc[c] \notin {"free", "accepted"},
         NEW a, Leave(c, a) \/ Resume(c, a),
         UNCHANGED <<server, backend, stage, monitor>>
  PROVE  StopInv'
<1>1. \A d \in Conns : d # c => pc'[d] = pc[d]
  BY DEF Leave, Resume, TypeOK, HandlerOK
<1>2. pc'[c] \notin {"free", "accepted"}
  BY DEF Leave, Resume, TypeOK, HandlerOK
<1>3. /\ \A d \in Conns : link[d] \in {"none", "down"} => link'[d] = link[d]
      /\ \A d \in Conns : d # c => link'[d] = link[d]
  BY CloseLinksKeeps DEF Leave, Resume, TypeOK
<1>4. writers' \subseteq writers
  BY DEF Leave, Resume, Uncount
<1> QED
  BY <1>1, <1>2, <1>3, <1>4 DEF StopInv

LEMMA StopInvHandle ==
  ASSUME TypeOK, StopInv, NEW c \in Conns, Client(c) \/ Handle(c) \/ StreamEnds(c)
  PROVE  StopInv'
<1>1. CASE Connect(c)
  <2>1. /\ server = "listening" /\ pc[c] = "free" /\ UNCHANGED <<countVars, idleVars, stopVars>>
        /\ pc' = [pc EXCEPT ![c] = "accepted"] /\ link' = [link EXCEPT ![c] = "open"]
    BY <1>1 DEF Connect
  <2> QED
    BY <2>1 DEF StopInv, TypeOK, HandlerOK, countVars, idleVars, stopVars
<1>2. CASE Send(c) \/ HangUp(c) \/ Listen(c) \/ Cancel(c) \/ StreamEnds(c)
  BY <1>2 DEF Send, HangUp, Listen, Cancel, StreamEnds, StopInv, countVars, idleVars, stopVars
<1>3. CASE Register(c)
  <2>1. /\ pc[c] = "accepted" /\ pc' = [pc EXCEPT ![c] = "reading"]
        /\ writers' = writers \cup {c} /\ UNCHANGED <<link, monitor, stopVars>>
    BY <1>3 DEF Register, Enlist
  <2>2. server # "none"
    BY <2>1 DEF StopInv
  <2>3. \A d \in Conns : pc'[d] \in {"free", "accepted"} => d # c /\ pc'[d] = pc[d]
    BY <2>1 DEF TypeOK, HandlerOK
  <2> QED
    BY <2>1, <2>2, <2>3 DEF StopInv, TypeOK, HandlerOK, stopVars
<1>4. CASE Ping(c) \/ Shutdown(c) \/ Unknown(c) \/ Garbage(c) \/ ReadEof(c) \/ HandlerReturns(c)
  <2>1. pc[c] \notin {"free", "accepted"} /\ UNCHANGED <<server, backend, stage, monitor>>
    BY <1>4 DEF Ping, Shutdown, Unknown, Garbage, ReadEof, HandlerReturns, Read, idleVars, stopVars
  <2>2. \E a : Leave(c, a) \/ Resume(c, a)
    BY <1>4 DEF Ping, Shutdown, Unknown, Garbage, ReadEof, HandlerReturns, SendResult, SendError
  <2> QED
    BY <2>1, <2>2, SettleKeepsStop
<1>5. CASE Dispatch(c) \/ LockGranted(c)
  <2>1. /\ UNCHANGED <<link, countVars, idleVars, stopVars>>
        /\ \E y \in {"serving", "locking"} : pc' = [pc EXCEPT ![c] = y]
    BY <1>5 DEF Dispatch, LockGranted
  <2> QED
    BY <2>1 DEF StopInv, TypeOK, HandlerOK, countVars, idleVars, stopVars
<1>6. CASE UnwindFails(c)
  <2>1. /\ pc[c] = "unwinding" /\ pc' = [pc EXCEPT ![c] = "leaked"] /\ CloseLinks({c})
        /\ UNCHANGED <<countVars, idleVars, stopVars>>
    BY <1>6 DEF UnwindFails
  <2>2. \A d \in Conns : /\ link[d] \in {"none", "down"} => link'[d] = link[d]
                         /\ d # c => link'[d] = link[d] /\ pc'[d] = pc[d]
    BY <2>1, CloseLinksKeeps DEF TypeOK, HandlerOK
  <2>3. pc'[c] = "leaked"
    BY <2>1 DEF TypeOK, HandlerOK
  <2> QED
    BY <2>1, <2>2, <2>3 DEF StopInv, countVars, idleVars, stopVars
<1>7. CASE ConnectionLost(c)
  <2>1. /\ link[c] = "closing" /\ link' = [link EXCEPT ![c] = "down"]
        /\ UNCHANGED <<pc, countVars, idleVars, stopVars>>
    BY <1>7 DEF ConnectionLost
  <2> QED
    BY <2>1 DEF StopInv, TypeOK, HandlerOK, countVars, idleVars, stopVars
<1> QED
  BY <1>1, <1>2, <1>3, <1>4, <1>5, <1>6, <1>7 DEF Client, Handle

LEMMA StopInvStop ==
  ASSUME TypeOK, StopInv, NEW t \in Stoppers, Signal \/ MainWakes \/ Stop(t)
  PROVE  StopInv'
<1>1. CASE Signal
  BY <1>1 DEF Signal, StopInv, countVars, idleVars
<1>2. CASE MainWakes
  <2>1. /\ UNCHANGED <<link, pc, countVars, idleVars, server, backend>>
        /\ stage'["main"] = "join"
        /\ stage'["serve"] \in {"done", stage["serve"]}
    BY <1>2 DEF MainWakes
  <2> QED
    BY <2>1 DEF StopInv, Stoppers, countVars, idleVars
<1>3. CASE StopBegins(t)
  <2>1. /\ UNCHANGED <<link, pc, countVars, server, backend>>
        /\ monitor' = IF monitor = "sleeping" THEN "done" ELSE monitor
        /\ stage' = [stage EXCEPT ![t] = "cancelIdle"]
    BY <1>3 DEF StopBegins, FirstStage
  <2>2. writers' = writers
    BY <2>1 DEF countVars
  <2>3. \A u \in Stoppers : stage'[u] \in {"stopClient", "done"} => stage[u] = stage'[u]
    BY <2>1 DEF TypeOK, StopOK
  <2>4. monitor' # "sleeping"
    BY <2>1 DEF TypeOK, StopOK
  <2> QED
    BY <2>1, <2>2, <2>3, <2>4 DEF StopInv, Stoppers
<1>4. CASE StopCloses(t)
  <2>1. /\ stage[t] = "cancelIdle" /\ CloseLinks(writers)
        /\ UNCHANGED <<pc, countVars, idleVars, backend>>
        /\ server' = IF server = "none" THEN "none" ELSE "closing"
        /\ stage' = [stage EXCEPT ![t] = "waitClosed"]
    BY <1>4 DEF StopCloses, StopTargets
  <2>2. /\ \A c \in Conns : link[c] \in {"none", "down"} => link'[c] = link[c]
        /\ \A c \in Conns : pc[c] = "accepted" => link'[c] = "open"
    BY <2>1, CloseLinksKeeps DEF StopInv, TypeOK
  <2> QED
    BY <2>1, <2>2, CloseLinksKeeps DEF StopInv, TypeOK, StopOK, Stoppers, countVars, idleVars
<1>5. CASE StopWaited(t)
  <2>1. /\ stage[t] = "waitClosed" /\ server' = "none" /\ writers' = {}
        /\ backend' = IF backend = "up" THEN "stopping" ELSE backend
        /\ stage' = [stage EXCEPT ![t] = "stopClient"]
        /\ UNCHANGED <<pc, link, monitor>>
    BY <1>5 DEF StopWaited, idleVars
  <2>2. \A c \in Conns : link[c] \in {"none", "down"}
    BY <1>5 DEF StopWaited, WaitedClosed, StopInv, TypeOK, HandlerOK
  <2> QED
    BY <2>1, <2>2 DEF StopInv, TypeOK, StopOK, Stoppers
<1>6. CASE StopEnds(t)
  <2>1. /\ stage[t] = "stopClient" /\ backend' = "stopped"
        /\ stage' = [stage EXCEPT ![t] = "done"]
        /\ UNCHANGED <<link, pc, countVars, idleVars, server>>
    BY <1>6 DEF StopEnds
  <2> QED
    BY <2>1 DEF StopInv, TypeOK, StopOK, Stoppers, countVars, idleVars
<1> QED
  BY <1>1, <1>2, <1>3, <1>4, <1>5, <1>6 DEF Stop

LEMMA StopInvariance == Spec => []StopInv
<1>1. Init => StopInv
  BY DEF Init, StopInv, Stoppers
<1>2. TypeOK /\ StopInv /\ [Next]_vars => StopInv'
  <2> SUFFICES ASSUME TypeOK, StopInv, [Next]_vars PROVE StopInv'
    OBVIOUS
  <2>1. ASSUME NEW c \in Conns, Client(c) \/ Handle(c) \/ StreamEnds(c) PROVE StopInv'
    BY <2>1, StopInvHandle
  <2>2. CASE Tick \/ IdleCheck
    BY <2>2 DEF Tick, IdleCheck, StopInv, countVars, stopVars
  <2>3. ASSUME Signal \/ MainWakes \/ \E t \in Stoppers : Stop(t) PROVE StopInv'
    BY <2>3, StopInvStop DEF Stoppers
  <2>4. CASE UNCHANGED vars
    BY <2>4 DEF vars, StopInv, countVars, idleVars, stopVars
  <2> QED
    BY <2>1, <2>2, <2>3, <2>4 DEF Next
<1> QED
  BY <1>1, <1>2, TypeCorrect, PTL DEF Spec

\* The shared HomeKitClient is not taken down before the server and every transport.
THEOREM BackendLast == Spec => []BackendStopsLast
<1>1. StopInv => BackendStopsLast
  BY DEF StopInv, BackendStopsLast
<1> QED
  BY <1>1, StopInvariance, PTL

\* When main's _serve returns, all is torn down, wherever a signal interrupted the first stop.
THEOREM CleanExit == Spec => []ExitIsClean
<1>1. StopInv => ExitIsClean
  BY DEF StopInv, ExitIsClean, Alive
<1> QED
  BY <1>1, StopInvariance, PTL
-----------------------------------------------------------------------------
(* The idle monitor. *)

\* With the count at zero the daemon has been quiet at least since its last activity.
QuietInv == active = 0 => age <= quiet

\* The age is only ever set to zero, or left alone with the count and the clock.
LEMMA QuietKept ==
  ASSUME TypeOK, QuietInv, UNCHANGED clockVars,
         age' = 0 \/ UNCHANGED <<active, age>>
  PROVE  QuietInv'
<1>1. quiet \in Nat
  BY ConstAssumption DEF TypeOK, StopOK
<1> QED
  BY <1>1 DEF QuietInv, clockVars

LEMMA QuietHandle ==
  ASSUME TypeOK, QuietInv, NEW c \in Conns, Client(c) \/ Handle(c) \/ StreamEnds(c)
  PROVE  QuietInv'
<1>1. CASE Register(c)
  <2>1. active \in Nat /\ active' = active + 1
    BY <1>1 DEF Register, Enlist, TypeOK, CountOK
  <2> QED
    BY <2>1 DEF QuietInv
<1>2. CASE Ping(c) \/ Shutdown(c) \/ Unknown(c) \/ Garbage(c) \/ ReadEof(c) \/ HandlerReturns(c)
  <2>1. UNCHANGED clockVars
    BY <1>2 DEF Ping, Shutdown, Unknown, Garbage, ReadEof, HandlerReturns, idleVars
  <2>2. \E a \in {0, age} : Leave(c, a) \/ Resume(c, a)
    BY <1>2 DEF Ping, Shutdown, Unknown, Garbage, ReadEof, HandlerReturns, SendResult, SendError
  <2>3. age' = 0 \/ UNCHANGED <<active, age>>
    BY <2>2 DEF Leave, Resume, Uncount
  <2> QED
    BY <2>1, <2>3, QuietKept
<1>3. CASE \/ Client(c) \/ Listen(c) \/ Cancel(c) \/ Dispatch(c) \/ LockGranted(c)
           \/ UnwindFails(c) \/ ConnectionLost(c) \/ StreamEnds(c)
  <2>1. UNCHANGED <<countVars, clockVars>>
    BY <1>3 DEF Client, Connect, Send, HangUp, Listen, Cancel, Dispatch, LockGranted, UnwindFails,
         ConnectionLost, StreamEnds, idleVars
  <2> QED
    BY <2>1, QuietKept DEF countVars
<1> QED
  BY <1>1, <1>2, <1>3 DEF Handle

\* With nobody counted nobody is in the loop.
LEMMA ZeroIsIdle == IInv /\ active = 0 => \A c \in Conns : ~InLoop(c)
<1> SUFFICES ASSUME IInv, active = 0 PROVE Counted = {}
  BY DEF Counted
<1>1. Cardinality(Counted) = 0
  BY CountOfCounted DEF IInv
<1> QED
  BY <1>1, CountedFinite, FS_EmptySet

LEMMA QuietNext == IInv /\ QuietInv /\ [Next]_vars => QuietInv'
<1> SUFFICES ASSUME IInv, QuietInv, [Next]_vars PROVE QuietInv'
  OBVIOUS
<1> USE DEF IInv
<1>1. ASSUME NEW c \in Conns, Client(c) \/ Handle(c) \/ StreamEnds(c) PROVE QuietInv'
  BY <1>1, QuietHandle
<1>2. CASE Tick
  <2> SUFFICES ASSUME active = 0 PROVE age' <= quiet'
    BY <1>2 DEF Tick, QuietInv
  <2>1. age' = Later(age) /\ quiet' = Later(quiet) /\ age <= quiet
    BY <1>2, ZeroIsIdle DEF Tick, QuietInv
  <2> QED
    BY <2>1, ConstAssumption DEF Later, TypeOK, CountOK, StopOK
<1>3. CASE IdleCheck
  BY <1>3 DEF IdleCheck, QuietInv, countVars
<1>4. ASSUME Signal \/ MainWakes \/ \E t \in Stoppers : Stop(t) PROVE QuietInv'
  <2>1. UNCHANGED <<clockVars, active, age>>
    BY <1>4 DEF Signal, MainWakes, Stop, StopBegins, StopCloses, StopWaited, StopEnds, countVars, idleVars
  <2> QED
    BY <2>1, QuietKept
<1>5. CASE UNCHANGED vars
  BY <1>5 DEF vars, QuietInv, countVars, idleVars, clockVars
<1> QED
  BY <1>1, <1>2, <1>3, <1>4, <1>5 DEF Next

\* The idle monitor never asks for the stop while a handler is in its loop, nor before the
\* whole timeout has passed without one.
THEOREM IdleQuiet == Spec => IdleStopIsQuiet
<1>1. Init => QuietInv
  BY DEF Init, QuietInv
<1>2. IInv /\ QuietInv /\ [Next]_vars =>
        [(monitor' = "fired" /\ monitor # "fired") =>
            quiet >= IdleTimeout /\ \A c \in Conns : ~InLoop(c)]_vars
  <2> SUFFICES ASSUME IInv, QuietInv, [Next]_vars, monitor' = "fired", monitor # "fired"
               PROVE  quiet >= IdleTimeout /\ \A c \in Conns : ~InLoop(c)
    OBVIOUS
  <2>1. IdleCheck
    <3>1. ASSUME NEW c \in Conns, Client(c) \/ Handle(c) \/ StreamEnds(c) PROVE FALSE
      <4>1. monitor' = monitor
        BY <3>1 DEF Client, Connect, Send, HangUp, Handle, Register, Ping, Shutdown, Unknown, Garbage,
             Listen, Cancel, ReadEof, Dispatch, LockGranted, HandlerReturns, UnwindFails,
             ConnectionLost, StreamEnds, idleVars
      <4> QED
        BY <4>1
    <3>2. ASSUME Tick \/ Signal \/ MainWakes \/ (\E t \in Stoppers : Stop(t)) \/ UNCHANGED vars
          PROVE FALSE
      <4>1. monitor' \in {monitor, "done"}
        BY <3>2 DEF Tick, Signal, MainWakes, Stop, StopBegins, StopCloses, StopWaited, StopEnds,
             idleVars, vars
      <4> QED
        BY <4>1
    <3> QED
      BY <3>1, <3>2 DEF Next
  <2>2. active <= 0 /\ age >= IdleTimeout
    BY <2>1 DEF IdleCheck, AfterPoll, IdleNow
  <2>3. active = 0
    BY <2>2 DEF IInv, TypeOK, CountOK
  <2>4. quiet >= IdleTimeout
    BY <2>2, <2>3, ConstAssumption DEF IInv, QuietInv, TypeOK, CountOK, StopOK
  <2> QED
    BY <2>3, <2>4, ZeroIsIdle
<1> QED
  BY <1>1, <1>2, Invariance, QuietNext, PTL DEF Spec, IdleStopIsQuiet
=============================================================================
