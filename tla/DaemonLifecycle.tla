--------------------------- MODULE DaemonLifecycle ---------------------------
(***************************************************************************)
(* Command-line processes that find, spawn, use and stop daemons through   *)
(* one socket path and one pid file (src/homekit/daemon/lifecycle.py,      *)
(* main.py, and start() and stop() of server.py).                          *)
(*                                                                         *)
(* Nothing but the file system joins the processes: an action is what one  *)
(* of them does between two looks at the files or waits.  A daemon process *)
(* is a number, drawn in the order of spawning.                            *)
(***************************************************************************)
EXTENDS Naturals

CONSTANTS
    Clis,        \* the command-line processes, one command each
    Commands,    \* what they run: "use", "start", "stop" and "restart"
    MaxDaemons,  \* bound: daemon processes that may be spawned
    MaxCrashes   \* bound: processes killed outright

ASSUME LifecycleAssumption ==
    /\ Commands \subseteq {"use", "start", "stop", "restart"}
    /\ MaxDaemons \in Nat /\ MaxCrashes \in Nat

VARIABLES
    cli,      \* where a command is
    command,  \* what each process runs
    peer,     \* the daemon a command is connected to, 0 for none
    proc,     \* where a daemon process is
    asked,    \* the daemons whose shutdown event is set
    spawned,  \* how many daemons have been spawned
    crashes,  \* how many processes were killed
    sock,     \* the socket file: 0 if absent, else the daemon that bound it
    pid,      \* the pid file: 0 if absent, else the daemon it names
    met       \* history: the daemons that were ever alive together with another

cliVars  == <<cli, command, peer>>
procVars == <<proc, asked, spawned, crashes, met>>
vars == <<cliVars, procVars, sock, pid>>

Daemons == 1..MaxDaemons
Running == {"spawned", "starting", "binding", "up", "closing", "stopping", "again", "leaving"}
Ended == {"done", "failed", "local"}

Alive(d) == proc[d] \in Running

\* _socket_accepts: the file is there and its daemon listens.
Accepts == sock # 0 /\ proc[sock] = "up"

TypeOK ==
    /\ cli \in [Clis -> {"idle", "looking", "spawning", "polling", "ready", "using",
                         "finding", "asking", "draining"} \cup Ended]
    /\ command \in [Clis -> Commands] /\ peer \in [Clis -> Daemons \cup {0}]
    /\ proc \in [Daemons -> Running \cup {"unborn", "exited", "killed"}]
    /\ asked \subseteq Daemons /\ met \subseteq Daemons
    /\ spawned \in 0..MaxDaemons /\ crashes \in 0..MaxCrashes
    /\ sock \in Daemons \cup {0} /\ pid \in Daemons \cup {0}
    /\ \A c \in Clis : peer[c] # 0 <=> cli[c] \in {"using", "asking"}

Init ==
    /\ cli = [c \in Clis |-> "idle"] /\ peer = [c \in Clis |-> 0]
    /\ command \in [Clis -> Commands]
    /\ proc = [d \in Daemons |-> "unborn"] /\ asked = {} /\ met = {}
    /\ spawned = 0 /\ crashes = 0
    /\ sock = 0 /\ pid = 0

-----------------------------------------------------------------------------
(* The commands. *)

Goes(c, where) == cli' = [cli EXCEPT ![c] = where]

Hold(c, d) == peer' = [peer EXCEPT ![c] = d]

Run(c) ==
    /\ cli[c] = "idle"
    /\ Goes(c, IF command[c] \in {"use", "start"} THEN "looking" ELSE "finding")
    /\ UNCHANGED <<command, peer, procVars, sock, pid>>

\* ensure_running finds a daemon that accepts.
Found(c) ==
    /\ cli[c] \in {"looking", "polling"} /\ Accepts
    /\ Goes(c, IF command[c] = "use" THEN "ready" ELSE "done")
    /\ UNCHANGED <<command, peer, procVars, sock, pid>>

\* ensure_running has found none.
Missed(c) ==
    /\ cli[c] = "looking" /\ ~Accepts
    /\ Goes(c, "spawning")
    /\ UNCHANGED <<command, peer, procVars, sock, pid>>

\* It spawns a daemon, whatever has become of the socket since, and polls for one.
Spawn(c) ==
    /\ cli[c] = "spawning" /\ spawned < MaxDaemons
    /\ spawned' = spawned + 1
    /\ proc' = [proc EXCEPT ![spawned + 1] = "spawned"]
    /\ met' = LET others == {d \in Daemons : Alive(d)} IN
              IF others = {} THEN met ELSE met \cup others \cup {spawned + 1}
    /\ Goes(c, "polling")
    /\ UNCHANGED <<command, peer, asked, crashes, sock, pid>>

\* Mutant: the poll has no deadline.
NoDeadline(c) == FALSE

\* wait_for_socket gives up at its deadline, however far the daemon has got.
Deadline(c) == cli[c] = "polling"

\* A command that uses the daemon falls back to a client of its own.
GiveUp(c) ==
    /\ Deadline(c)
    /\ Goes(c, IF command[c] = "use" THEN "local" ELSE "failed")
    /\ UNCHANGED <<command, peer, procVars, sock, pid>>

\* The command connects, if the daemon it was told of is still there.
Connect(c) ==
    /\ cli[c] = "ready"
    /\ \/ Accepts /\ Goes(c, "using") /\ Hold(c, sock)
       \/ ~Accepts /\ Goes(c, "failed") /\ UNCHANGED peer
    /\ UNCHANGED <<command, procVars, sock, pid>>

\* Its request is answered, or fails with the connection, and it closes.
Used(c) ==
    /\ cli[c] = "using"
    /\ \/ proc[peer[c]] = "up" /\ Goes(c, "done")
       \/ proc[peer[c]] # "up" /\ Goes(c, "failed")
    /\ Hold(c, 0)
    /\ UNCHANGED <<command, procVars, sock, pid>>

\* Where a command goes when its stop_daemon returns: restart starts a fresh daemon.
AfterStop(c) == IF command[c] = "restart" THEN "looking" ELSE "done"

\* stop_daemon finds a daemon and connects, or returns false.
FindDaemon(c) ==
    /\ cli[c] = "finding"
    /\ \/ Accepts /\ Goes(c, "asking") /\ Hold(c, sock)
       \/ ~Accepts /\ Goes(c, AfterStop(c)) /\ UNCHANGED peer
    /\ UNCHANGED <<command, procVars, sock, pid>>

\* The daemon acknowledges the shutdown RPC and sets its event.
Acknowledged(c) ==
    /\ cli[c] = "asking" /\ proc[peer[c]] = "up"
    /\ asked' = asked \cup {peer[c]}
    /\ Goes(c, "draining") /\ Hold(c, 0)
    /\ UNCHANGED <<command, proc, spawned, crashes, met, sock, pid>>

\* Mutant: the connection of a call that timed out is not closed.
Dropped(c) == UNCHANGED peer

\* rpc.close() in the finally block of stop_daemon.
Released(c) == Hold(c, 0)

\* The call fails with its connection or times out: stop_daemon returns false.
AskFails(c) ==
    /\ cli[c] = "asking"
    /\ Released(c) /\ Goes(c, AfterStop(c))
    /\ UNCHANGED <<command, procVars, sock, pid>>

\* The poll of stop_daemon ends when nothing accepts at the path any more, or at its deadline.
Drained(c) ==
    /\ cli[c] = "draining"
    /\ Goes(c, AfterStop(c))
    /\ UNCHANGED <<command, peer, procVars, sock, pid>>

-----------------------------------------------------------------------------
(* A daemon process. *)

Enters(d, from, to) == proc[d] = from /\ proc' = [proc EXCEPT ![d] = to]

WritePid(d) ==
    /\ Enters(d, "spawned", "starting")
    /\ pid' = d
    /\ UNCHANGED <<cliVars, asked, spawned, crashes, met, sock>>

\* start() removes whatever socket file it finds, and starts its HomeKitClient.
StartUnlinks(d) ==
    /\ Enters(d, "starting", "binding")
    /\ sock' = 0
    /\ UNCHANGED <<cliVars, asked, spawned, crashes, met, pid>>

\* Mutant: the stale socket file is removed after the bind.
BindThenUnlink(d) == sock' = 0

\* start_unix_server removes a socket file that has appeared meanwhile, and binds.
BindSocket(d) == sock' = d

Bind(d) ==
    /\ Enters(d, "binding", "up")
    /\ BindSocket(d)
    /\ UNCHANGED <<cliVars, asked, spawned, crashes, met, pid>>

\* Mutant: the pid file is removed only after a daemon that ran.
KeepPid == UNCHANGED pid

\* _remove_pid in the finally block of run(): whichever daemon the file names.
RemovePid == pid' = 0

\* The HomeKitClient does not start: the exception ends run().
StartFails(d) ==
    /\ Enters(d, "binding", "exited")
    /\ RemovePid
    /\ UNCHANGED <<cliVars, asked, spawned, crashes, met, sock>>

\* A signal, or the idle monitor of a daemon without connections, asks for the stop.
StopAsked(d) ==
    /\ proc[d] = "up" /\ d \notin asked
    /\ asked' = asked \cup {d}
    /\ UNCHANGED <<cliVars, proc, spawned, crashes, met, sock, pid>>

\* stop() closes the server, which removes the socket file if it is still its own.
CloseServer(d) ==
    /\ d \in asked /\ Enters(d, "up", "closing")
    /\ sock' = IF sock = d THEN 0 ELSE sock
    /\ UNCHANGED <<cliVars, asked, spawned, crashes, met, pid>>

\* wait_closed returns; stop() unlinks the path, whosever socket is there by now, and
\* stops the client.
StopUnlinks(d) ==
    /\ Enters(d, "closing", "stopping")
    /\ sock' = 0
    /\ UNCHANGED <<cliVars, asked, spawned, crashes, met, pid>>

\* The client has stopped, the serve task ends, and _serve calls stop() again.
ServeReturns(d) ==
    /\ Enters(d, "stopping", "again")
    /\ UNCHANGED <<cliVars, asked, spawned, crashes, met, sock, pid>>

\* The second stop() unlinks the path once more.
StopsAgain(d) ==
    /\ Enters(d, "again", "leaving")
    /\ sock' = 0
    /\ UNCHANGED <<cliVars, asked, spawned, crashes, met, pid>>

Exits(d) ==
    /\ Enters(d, "leaving", "exited")
    /\ RemovePid
    /\ UNCHANGED <<cliVars, asked, spawned, crashes, met, sock>>

\* A daemon is killed; its files stay.
Crash(d) ==
    /\ Alive(d) /\ crashes < MaxCrashes
    /\ crashes' = crashes + 1
    /\ proc' = [proc EXCEPT ![d] = "killed"]
    /\ UNCHANGED <<cliVars, asked, spawned, met, sock, pid>>

-----------------------------------------------------------------------------
Cli(c) ==
    \/ Run(c) \/ Found(c) \/ Missed(c) \/ Spawn(c) \/ GiveUp(c) \/ Connect(c) \/ Used(c)
    \/ FindDaemon(c) \/ Acknowledged(c) \/ AskFails(c) \/ Drained(c)

Serve(d) ==
    \/ WritePid(d) \/ StartUnlinks(d) \/ Bind(d) \/ CloseServer(d) \/ StopUnlinks(d)
    \/ ServeReturns(d) \/ StopsAgain(d) \/ Exits(d)

Next ==
    \/ \E c \in Clis : Cli(c)
    \/ \E d \in Daemons : Serve(d) \/ StartFails(d) \/ StopAsked(d) \/ Crash(d)

Spec == Init /\ [][Next]_vars

\* The processes run and their deadlines pass; nothing obliges anyone to stop a daemon.
FairSpec == Spec /\ (\A c \in Clis : WF_vars(Cli(c))) /\ \A d \in Daemons : WF_vars(Serve(d))

-----------------------------------------------------------------------------
\* When every daemon has left by itself, whatever they did to each other's files and
\* wherever their starts failed, no socket and no pid file is left behind.
NothingLeftBehind ==
    (\A d \in Daemons : proc[d] \in {"unborn", "exited"}) => sock = 0 /\ pid = 0

\* A daemon that never met another is reachable and named by the pid file while it serves,
\* whatever files killed daemons have left.
SoloReachable == \A d \in Daemons \ met : proc[d] = "up" => sock = d /\ pid = d

\* Every command returns, also when the daemon it waits for fails, is killed or loses its socket.
CommandsReturn == \A c \in Clis : cli[c] # "idle" ~> cli[c] \in Ended

\* docs/daemon.md: the background daemon holds the HomeKitClient and exposes it over the
\* socket: a daemon that serves can be reached.
ServingIsReachable == \A d \in Daemons : proc[d] = "up" => sock = d
=============================================================================
