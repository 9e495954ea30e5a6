------------------------------ MODULE Lifecycle ------------------------------
(***************************************************************************)
(* Starting and stopping tincd: what a daemon creates on its way up (its   *)
(* listening sockets, the PID file with the cookie, the UNIX socket for    *)
(* control connections, tinc-up), what it removes on its way down, from    *)
(* whichever step it turned back, and what "tinc start", "tinc stop" and   *)
(* "tinc restart" make of the files and of the processes they find.        *)
(***************************************************************************)
EXTENDS Integers

CONSTANTS
    Daemons,    \* processes, numbered in the order they are started; enough for all that is started
    MaxCrashes, \* bound: daemons that are killed
    MaxDirect,  \* bound: daemons started without "tinc start"
    MaxSignals, \* bound: TERM signals from outside
    MaxFailures,\* bound: steps of a start that fail by themselves
    MaxCommands \* bound: commands given

ASSUME LifeAssumption ==
    /\ Daemons \subseteq Nat \ {0}
    /\ {MaxCrashes, MaxDirect, MaxSignals, MaxFailures, MaxCommands} \subseteq Nat

VARIABLES
    at,        \* at[d]: where daemon d is
    files,     \* pid: who wrote the PID file, sock: who bound the UNIX socket; 0 if it is not there
    port,      \* who listens for connections, 0 if no one does
    up,        \* daemons whose tinc-up ran and whose tinc-down did not
    overlap,   \* daemons that were alive while another one was, or whose files a tinc command removed
    client,    \* the tinc command: what it does, where it is, the PID it read, the daemon it talks to
    left       \* what is left of the bounds

lifeVars == <<at, files, port, up, overlap, client, left>>

Alive(d) == d # 0 /\ at[d] \notin {"new", "gone"}
\* The UNIX socket of d accepts connections until d closes it.
Listens(d) == d # 0 /\ at[d] \in {"enable", "privs", "loop", "end", "down", "exit_control"}
Idle == [op |-> "none", at |-> "idle", pid |-> 0, with |-> 0]

LifeInit ==
    /\ at = [d \in Daemons |-> "new"] /\ files = [pid |-> 0, sock |-> 0] /\ port = 0
    /\ up = {} /\ overlap = {} /\ client = Idle
    /\ left = [crashes |-> MaxCrashes, direct |-> MaxDirect, signals |-> MaxSignals, failures |-> MaxFailures, commands |-> MaxCommands]

Spend(what) == left[what] > 0 /\ left' = [left EXCEPT ![what] = @ - 1]
Go(d, where) == at' = [at EXCEPT ![d] = where]
Fails(d, where) == Spend("failures") /\ Go(d, where)

-----------------------------------------------------------------------------
\* main, up to main2
Launch(d) ==
    /\ at[d] = "new" /\ \A e \in Daemons : e < d => at[e] # "new"
    /\ Go(d, "config")
    /\ overlap' = overlap \union (IF \E e \in Daemons : Alive(e) THEN {d} \union {e \in Daemons : Alive(e)} ELSE {})

read_server_config(d) ==
    /\ at[d] = "config"
    /\ (Go(d, "setup") /\ UNCHANGED left) \/ Fails(d, "gone")
    /\ UNCHANGED <<files, port, up, overlap, client>>

\* setup_myself: a device, and sockets, which only one process can have
setup_myself(d) ==
    /\ at[d] = "setup"
    /\ \/ port = 0 /\ port' = d /\ Go(d, "pidfile") /\ UNCHANGED left
       \/ port # 0 /\ Go(d, "end") /\ UNCHANGED <<port, left>>
       \/ Fails(d, "end") /\ UNCHANGED port
    /\ UNCHANGED <<files, up, overlap, client>>

write_pidfile(d) ==
    /\ at[d] = "pidfile"
    /\ \/ files' = [files EXCEPT !.pid = d] /\ Go(d, "control") /\ UNCHANGED left
       \/ Fails(d, "end") /\ UNCHANGED files
    /\ UNCHANGED <<port, up, overlap, client>>

\* init_control, after the PID file: a socket someone listens on is left alone, any other is replaced.
init_control(d) ==
    /\ at[d] = "control"
    /\ \/ Listens(files.sock) /\ Go(d, "end") /\ UNCHANGED <<files, left>>
       \/ ~Listens(files.sock) /\ files' = [files EXCEPT !.sock = d] /\ Go(d, "enable") /\ UNCHANGED left
       \/ ~Listens(files.sock) /\ Fails(d, "end") /\ files' = [files EXCEPT !.sock = 0]
    /\ UNCHANGED <<port, up, overlap, client>>

device_enable(d) ==
    /\ at[d] = "enable" /\ up' = up \union {d} /\ Go(d, "privs")
    /\ UNCHANGED <<files, port, overlap, client, left>>

\* The priority and the privileges, then a byte through the umbilical cord: ready
drop_privs(d) ==
    /\ at[d] = "privs"
    /\ (Go(d, "loop") /\ UNCHANGED left) \/ Fails(d, "end")
    /\ UNCHANGED <<files, port, up, overlap, client>>

\* close_network_connections, to which every failure since setup_network leads: sockets first, control
\* connections stay open
close_network_connections(d) ==
    /\ at[d] = "end"
    /\ port' = (IF port = d THEN 0 ELSE port) /\ Go(d, "down")
    /\ UNCHANGED <<files, up, overlap, client, left>>

device_disable(d) ==
    /\ at[d] = "down" /\ up' = up \ {d} /\ Go(d, "exit_control")
    /\ UNCHANGED <<files, port, overlap, client, left>>

\* exit_control: unlink(unixsocketname), close, unlink(pidfilename)
exit_control(d) ==
    /\ at[d] = "exit_control" /\ files' = [files EXCEPT !.sock = 0] /\ Go(d, "exit_pidfile")
    /\ UNCHANGED <<port, up, overlap, client, left>>
exit_pidfile(d) ==
    /\ at[d] = "exit_pidfile" /\ files' = [files EXCEPT !.pid = 0] /\ Go(d, "exit")
    /\ UNCHANGED <<port, up, overlap, client, left>>

Exit(d) ==
    /\ at[d] = "exit" /\ Go(d, "gone")
    /\ UNCHANGED <<files, port, up, overlap, client, left>>

Crash(d) ==
    /\ Alive(d) /\ Spend("crashes") /\ Go(d, "gone")
    /\ port' = (IF port = d THEN 0 ELSE port) /\ up' = up \ {d}
    /\ UNCHANGED <<files, overlap, client>>

\* SIGTERM: until the main loop has installed its handlers, the process is simply ended.
Term(d) ==
    IF at[d] = "loop" THEN Go(d, "end") /\ UNCHANGED <<port, up>>
    ELSE IF at[d] \in {"config", "setup", "pidfile", "control", "enable", "privs"}
        THEN Go(d, "gone") /\ port' = (IF port = d THEN 0 ELSE port) /\ up' = up \ {d}
    ELSE UNCHANGED <<at, port, up>>

Signal(d) == Alive(d) /\ Spend("signals") /\ Term(d) /\ UNCHANGED <<files, overlap, client>>
Direct(d) == Spend("direct") /\ Launch(d) /\ UNCHANGED <<files, port, up, client>>

-----------------------------------------------------------------------------
Command(op) ==
    /\ client.at = "idle" /\ Spend("commands")
    /\ client' = [Idle EXCEPT !.op = op, !.at = "read"]
    /\ UNCHANGED <<at, files, port, up, overlap>>

\* connect_tincd: the PID file; whether that process is there, clearing up if it is not; the UNIX
\* socket; then the greeting, which a daemon gives that has the cookie of the file.
read_pidfile ==
    /\ client.at = "read"
    /\ client' = [client EXCEPT !.pid = files.pid, !.at = IF files.pid = 0 THEN "failed" ELSE "check"]
    /\ UNCHANGED <<at, files, port, up, overlap, left>>
CheckPid ==
    /\ client.at = "check"
    /\ client' = [client EXCEPT !.at = IF Alive(client.pid) THEN "connect" ELSE "unlink_pid"]
    /\ UNCHANGED <<at, files, port, up, overlap, left>>
\* By then the files may be those of a daemon that has just been started.
Unlink(what) ==
    /\ files' = [files EXCEPT ![what] = 0]
    /\ overlap' = overlap \union {d \in Daemons : d = files[what] /\ Alive(d)}
    /\ UNCHANGED <<at, port, up, left>>
UnlinkPid == client.at = "unlink_pid" /\ client' = [client EXCEPT !.at = "unlink_sock"] /\ Unlink("pid")
UnlinkSock == client.at = "unlink_sock" /\ client' = [client EXCEPT !.at = "failed"] /\ Unlink("sock")
ConnectSocket ==
    /\ client.at = "connect"
    /\ client' = IF Listens(files.sock) THEN [client EXCEPT !.with = files.sock, !.at = "greet"] ELSE [client EXCEPT !.at = "failed"]
    /\ UNCHANGED <<at, files, port, up, overlap, left>>
Greeting_Deaf ==
    /\ client.at = "greet" /\ at[client.with] = "loop"
    /\ client' = [client EXCEPT !.at = IF client.pid = client.with THEN "connected" ELSE "failed"]
    /\ UNCHANGED <<at, files, port, up, overlap, left>>

Greeting ==
    /\ client.at = "greet"
    /\ \/ at[client.with] = "loop" /\ client' = [client EXCEPT !.at = IF client.pid = client.with THEN "connected" ELSE "failed"]
       \/ at[client.with] = "gone" /\ client' = [client EXCEPT !.at = "failed"]
    /\ UNCHANGED <<at, files, port, up, overlap, left>>

\* cmd_start: nothing to do if one answered; else a child is started and its umbilical cord watched
cmd_start ==
    /\ client.op \in {"start", "restart2"}
    /\ \/ client.at = "connected" /\ client' = Idle /\ UNCHANGED <<at, overlap>>
       \/ /\ client.at = "failed"
          /\ \E d \in Daemons : Launch(d) /\ client' = [client EXCEPT !.at = "umbilical", !.with = d]
       \/ /\ client.at = "umbilical" /\ at[client.with] \notin {"config", "setup", "pidfile", "control", "enable", "privs"}
          /\ client' = Idle /\ UNCHANGED <<at, overlap>>
    /\ UNCHANGED <<files, port, up, left>>

\* stop_tincd: REQ_STOP, then wait for the connection to be closed
Closed_Early(d) == at[d] \in {"down", "exit_control", "exit_pidfile", "exit", "gone"}

Closed(d) == at[d] = "gone"

cmd_stop ==
    /\ client.op \in {"stop", "restart"}
    /\ \/ /\ client.at = "connected" /\ client' = [client EXCEPT !.at = "closing"]
          /\ at' = [at EXCEPT ![client.with] = IF @ = "loop" THEN "end" ELSE @] /\ UNCHANGED <<port, up>>
       \/ /\ client.at = "closing" /\ Closed(client.with)
          /\ client' = [client EXCEPT !.at = "stopped"] /\ UNCHANGED <<at, port, up>>
       \/ /\ client.at = "failed"
          /\ client' = IF client.op = "restart" THEN [Idle EXCEPT !.op = "restart2", !.at = "read"] ELSE Idle
          /\ IF client.pid # 0 THEN Term(client.pid) ELSE UNCHANGED <<at, port, up>>
       \/ /\ client.at = "stopped"
          /\ client' = IF client.op = "restart" THEN [Idle EXCEPT !.op = "restart2", !.at = "read"] ELSE Idle
          /\ UNCHANGED <<at, port, up>>
    /\ UNCHANGED <<files, overlap, left>>

DaemonStep(d) ==
    \/ read_server_config(d) \/ setup_myself(d) \/ write_pidfile(d) \/ init_control(d) \/ device_enable(d)
    \/ drop_privs(d) \/ close_network_connections(d) \/ device_disable(d) \/ exit_control(d) \/ exit_pidfile(d) \/ Exit(d)
ClientStep == read_pidfile \/ CheckPid \/ UnlinkPid \/ UnlinkSock \/ ConnectSocket \/ Greeting \/ cmd_start \/ cmd_stop

LifeNext ==
    \/ \E d \in Daemons : DaemonStep(d) \/ Crash(d) \/ Signal(d) \/ Direct(d)
    \/ ClientStep
    \/ \E op \in {"start", "stop", "restart"} : Command(op)

LifeSpec == LifeInit /\ [][LifeNext]_lifeVars

\* Processes are scheduled.
LifeFairness == (\A d \in Daemons : WF_lifeVars(DaemonStep(d))) /\ WF_lifeVars(ClientStep)
------------------------------------------------------------------------------
LifeTypeOK ==
    /\ at \in [Daemons -> {"new", "config", "setup", "pidfile", "control", "enable", "privs", "loop", "end", "down",
                           "exit_control", "exit_pidfile", "exit", "gone"}]
    /\ files \in [pid : Daemons \union {0}, sock : Daemons \union {0}] /\ port \in Daemons \union {0}
    /\ port # 0 => Alive(port) /\ at[port] \notin {"config", "setup"}
    /\ client.at \in {"idle", "read", "check", "unlink_pid", "unlink_sock", "connect", "greet", "connected", "failed", "umbilical", "closing", "stopped"}
    /\ client.at \in {"greet", "connected", "umbilical", "closing", "stopped"} => client.with \in Daemons

\* When "tinc stop" says that it stopped a daemon, the process is gone, its tinc-down has run and, unless
\* another one came between, so are its PID file and its socket: a start that follows meets nothing.
StopMeansGone ==
    client.at = "stopped" =>
        /\ ~Alive(client.with) /\ port # client.with /\ client.with \notin up
        /\ left.crashes = MaxCrashes => client.with \notin {files.pid, files.sock}

\* A daemon in its main loop that never ran beside another one can be reached by tinc: the PID file and
\* the socket are its own, whatever crashed, was killed or failed to start before.  One exception: a tinc
\* command that read the number of a dead process removes the files by name, also when a daemon started
\* since then has written its own.
AloneMeansReachable == \A d \in Daemons : at[d] = "loop" /\ d \notin overlap => files = [pid |-> d, sock |-> d]

\* Every tinc command comes to an end: no one waits for a daemon that will not answer.
ClientReturns == client.at # "idle" ~> client.at = "idle"

\* What tinc says and finds of a daemon is true: one it stopped is gone with all it had, and one that
\* was always alone is where the files say.
LifeSound ==
    /\ LifeTypeOK
    /\ StopMeansGone /\ AloneMeansReachable
==============================================================================
