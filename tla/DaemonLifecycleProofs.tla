----------------------- MODULE DaemonLifecycleProofs -----------------------
(***************************************************************************)
(* Theorems about the files of the daemon processes, for every set of      *)
(* commands, every number of daemons and every number of processes killed. *)
(***************************************************************************)
EXTENDS DaemonLifecycle, TLAPS

\* A daemon process that has written its pid file and not yet left run().
Started == Running \ {"spawned"}

\* Daemons are numbered in the order of their spawning.
NumberedInOrder == \A d \in Daemons : proc[d] = "unborn" <=> d > spawned

\* Daemons that are alive together have met.
MetTogether == \A d, e \in Daemons : d # e /\ Alive(d) /\ Alive(e) => d \in met

\* A file that is there is of a daemon that has still to remove it, or cannot any more.
SockOwned == sock # 0 => proc[sock] \in {"up", "killed"}
PidOwned == pid # 0 => proc[pid] \in Started \cup {"killed"}

\* Nobody has touched the files of a daemon that was always alone.
SoloFiles == \A d \in Daemons \ met :
    /\ proc[d] \in Started => pid = d
    /\ proc[d] = "up" => sock = d

IInv ==
    /\ TypeOK /\ NumberedInOrder /\ MetTogether
    /\ SockOwned /\ PidOwned /\ SoloFiles

LEMMA InitInv == Init => IInv
BY LifecycleAssumption
   DEF Init, IInv, TypeOK, NumberedInOrder, MetTogether, SockOwned, PidOwned, SoloFiles,
       Daemons, Alive, Running, Started, Ended

-----------------------------------------------------------------------------
(* Type correctness. *)

LEMMA TypeNext == TypeOK /\ [Next]_vars => TypeOK'
<1> SUFFICES ASSUME TypeOK, [Next]_vars PROVE TypeOK'
  OBVIOUS
<1> USE LifecycleAssumption DEF TypeOK, Daemons, Running, Ended
<1>1. ASSUME NEW c \in Clis, Cli(c) PROVE TypeOK'
  <2> USE DEF Goes, Hold, procVars, Accepts, AfterStop
  <2>1. CASE Run(c)
    BY <2>1 DEF Run
  <2>2. CASE Found(c)
    BY <2>2 DEF Found
  <2>3. CASE Missed(c)
    BY <2>3 DEF Missed
  <2>4. CASE Spawn(c)
    <3>1. spawned + 1 \in Daemons /\ spawned' = spawned + 1 /\ spawned' \in 0..MaxDaemons
      BY <2>4 DEF Spawn
    <3>2. met' \subseteq Daemons
      BY <2>4, <3>1 DEF Spawn
    <3>3. proc' \in [Daemons -> Running \cup {"unborn", "exited", "killed"}]
      BY <2>4, <3>1 DEF Spawn
    <3> QED
      BY <2>4, <3>1, <3>2, <3>3 DEF Spawn
  <2>5. CASE GiveUp(c)
    BY <2>5 DEF GiveUp, Deadline
  <2>6. CASE Connect(c)
    BY <2>6 DEF Connect
  <2>7. CASE Used(c)
    BY <2>7 DEF Used
  <2>8. CASE FindDaemon(c)
    BY <2>8 DEF FindDaemon
  <2>9. CASE Acknowledged(c)
    BY <2>9 DEF Acknowledged
  <2>10. CASE AskFails(c)
    BY <2>10 DEF AskFails, Released
  <2>11. CASE Drained(c)
    BY <2>11 DEF Drained
  <2> QED
    BY <1>1, <2>1, <2>2, <2>3, <2>4, <2>5, <2>6, <2>7, <2>8, <2>9, <2>10, <2>11 DEF Cli
<1>2. ASSUME NEW d \in Daemons, Serve(d) PROVE TypeOK'
  BY <1>2
     DEF Serve, Enters, WritePid, StartUnlinks, Bind, BindSocket, CloseServer, StopUnlinks,
         ServeReturns, StopsAgain, Exits, RemovePid, cliVars
<1>3. ASSUME NEW d \in Daemons, StartFails(d) \/ StopAsked(d) \/ Crash(d) PROVE TypeOK'
  <2>1. CASE StartFails(d)
    BY <2>1 DEF StartFails, Enters, RemovePid, cliVars
  <2>2. CASE StopAsked(d)
    BY <2>2 DEF StopAsked, cliVars
  <2>3. CASE Crash(d)
    BY <2>3 DEF Crash, Alive, cliVars
  <2> QED
    BY <1>3, <2>1, <2>2, <2>3
<1>4. CASE UNCHANGED vars
  BY <1>4 DEF vars, cliVars, procVars
<1> QED
  BY <1>1, <1>2, <1>3, <1>4 DEF Next

-----------------------------------------------------------------------------
(* The files. *)

FileInv == NumberedInOrder /\ MetTogether /\ SockOwned /\ PidOwned /\ SoloFiles

\* Only a spawn among the steps of a command concerns the daemons and their files.
LEMMA FilesSame ==
  ASSUME FileInv, UNCHANGED <<proc, spawned, met, sock, pid>>
  PROVE  FileInv'
BY DEF FileInv, NumberedInOrder, MetTogether, SockOwned, PidOwned, SoloFiles, Alive

LEMMA SpawnFiles ==
  ASSUME IInv, NEW c \in Clis, Spawn(c)
  PROVE  FileInv'
<1> DEFINE n == spawned + 1
<1> USE LifecycleAssumption DEF IInv, Daemons
<1>1. n \in Daemons /\ proc[n] = "unborn" /\ proc' = [proc EXCEPT ![n] = "spawned"]
  BY DEF Spawn, TypeOK, NumberedInOrder
<1>2. met \subseteq met' /\ UNCHANGED <<sock, pid>> /\ spawned' = n
  BY DEF Spawn
<1>3. \A d \in Daemons : Alive(d)' <=> Alive(d) \/ d = n
  BY <1>1 DEF Alive, Running, TypeOK
<1>4. \A d \in Daemons : Alive(d) => d # n /\ d \in met' /\ n \in met'
  BY <1>1 DEF Spawn, Alive, Running
<1>5. NumberedInOrder'
  BY <1>1, <1>2 DEF NumberedInOrder, TypeOK
<1>6. MetTogether'
  BY <1>2, <1>3, <1>4 DEF MetTogether
<1>7. SockOwned' /\ PidOwned'
  BY <1>1, <1>2 DEF SockOwned, PidOwned, TypeOK, Started, Running
<1>8. SoloFiles'
  BY <1>1, <1>2 DEF SoloFiles, TypeOK, Started, Running
<1> QED
  BY <1>5, <1>6, <1>7, <1>8 DEF FileInv

\* A step of a daemon concerns nobody else's place, and a daemon that is not alone has met.
LEMMA ServeFiles ==
  ASSUME IInv, NEW d \in Daemons,
         Serve(d) \/ StartFails(d) \/ StopAsked(d) \/ Crash(d)
  PROVE  FileInv'
<1> USE DEF IInv
<1>1. /\ UNCHANGED <<spawned, met>>
      /\ \E to \in Started \cup {"exited", "killed"} :
            proc' = [proc EXCEPT ![d] = to] \/ UNCHANGED proc
  BY DEF Serve, StartFails, StopAsked, Crash, Enters, WritePid, StartUnlinks, Bind,
         CloseServer, StopUnlinks, ServeReturns, StopsAgain, Exits, Started, Running
<1>2. Alive(d)
  BY DEF Serve, StartFails, StopAsked, Crash, Enters, WritePid, StartUnlinks, Bind,
         CloseServer, StopUnlinks, ServeReturns, StopsAgain, Exits, Alive, Running
<1>3. NumberedInOrder'
  BY <1>1, <1>2 DEF NumberedInOrder, TypeOK, Started, Running, Alive
<1>4. MetTogether'
  <2>1. \A e \in Daemons : Alive(e)' => Alive(e)
    BY <1>1, <1>2 DEF TypeOK, Alive
  <2> QED
    BY <1>1, <2>1 DEF MetTogether
<1>5. SockOwned'
  BY DEF Serve, StartFails, StopAsked, Crash, Enters, WritePid, StartUnlinks, Bind,
         BindSocket, CloseServer, StopUnlinks, ServeReturns, StopsAgain, Exits, TypeOK,
         SockOwned
<1>6. PidOwned'
  <2> USE DEF Enters, TypeOK, PidOwned, Started, Running
  <2>1. CASE WritePid(d)
    BY <2>1 DEF WritePid
  <2>2. CASE StartFails(d) \/ Exits(d)
    BY <2>2 DEF StartFails, Exits, RemovePid
  <2>3. CASE Crash(d)
    BY <2>3 DEF Crash
  <2>4. CASE StopAsked(d) \/ StartUnlinks(d) \/ Bind(d) \/ CloseServer(d)
    BY <2>4 DEF StopAsked, StartUnlinks, Bind, CloseServer
  <2>5. CASE StopUnlinks(d) \/ ServeReturns(d) \/ StopsAgain(d)
    BY <2>5 DEF StopUnlinks, ServeReturns, StopsAgain
  <2> QED
    BY <2>1, <2>2, <2>3, <2>4, <2>5 DEF Serve
<1>7. SoloFiles'
  <2> SUFFICES ASSUME NEW e \in Daemons \ met
               PROVE  (proc'[e] \in Started => pid' = e) /\ (proc'[e] = "up" => sock' = e)
    BY <1>1 DEF SoloFiles
  <2>1. CASE e = d
    BY <2>1
       DEF Serve, StartFails, StopAsked, Crash, Enters, WritePid, StartUnlinks, Bind,
           BindSocket, RemovePid, CloseServer, StopUnlinks, ServeReturns, StopsAgain, Exits,
           TypeOK, SoloFiles, Started, Running
  <2>2. CASE e # d
    <3>1. proc'[e] = proc[e] /\ ~Alive(e)
      BY <1>1, <1>2, <2>2 DEF MetTogether, TypeOK
    <3> QED
      BY <3>1 DEF Alive, Started, Running
  <2> QED
    BY <2>1, <2>2
<1> QED
  BY <1>3, <1>4, <1>5, <1>6, <1>7 DEF FileInv

LEMMA NextInv == IInv /\ [Next]_vars => IInv'
<1> SUFFICES ASSUME IInv, [Next]_vars PROVE IInv'
  OBVIOUS
<1>1. TypeOK'
  BY TypeNext DEF IInv
<1>2. FileInv'
  <2>1. ASSUME NEW c \in Clis, Cli(c) PROVE FileInv'
    <3>1. CASE Spawn(c)
      BY <3>1, SpawnFiles
    <3>2. CASE ~Spawn(c)
      BY <2>1, <3>2, FilesSame
         DEF Cli, Run, Found, Missed, GiveUp, Connect, Used, FindDaemon, Acknowledged,
             AskFails, Drained, procVars, IInv, FileInv
    <3> QED
      BY <3>1, <3>2
  <2>2. CASE UNCHANGED vars
    BY <2>2, FilesSame DEF vars, procVars, IInv, FileInv
  <2> QED
    BY <2>1, <2>2, ServeFiles DEF Next
<1> QED
  BY <1>1, <1>2 DEF IInv, FileInv

\* The strengthened invariant holds in every behaviour.
THEOREM Invariance == Spec => []IInv
BY InitInv, NextInv, PTL DEF Spec

\* The variables keep their types, and exactly the commands that use a daemon or ask it
\* to stop hold a connection to one.
THEOREM TypeCorrect == Spec => []TypeOK
<1>1. IInv => TypeOK
  BY DEF IInv
<1> QED
  BY <1>1, Invariance, PTL

\* lifecycle.py and server.py: when every daemon has left by itself, whatever they did to
\* each other's files and wherever their starts failed, neither file is left behind.
THEOREM FilesCleared == Spec => []NothingLeftBehind
<1>1. IInv => NothingLeftBehind
  BY DEF IInv, NothingLeftBehind, SockOwned, PidOwned, TypeOK, Started, Running
<1> QED
  BY <1>1, Invariance, PTL

\* A daemon that was never alive together with another is reachable and named by the pid
\* file while it serves, whatever files killed daemons have left.
THEOREM SoloServes == Spec => []SoloReachable
<1>1. IInv => SoloReachable
  BY DEF IInv, SoloReachable, SoloFiles, Started, Running
<1> QED
  BY <1>1, Invariance, PTL
=============================================================================
