--------------------------- MODULE BrowserBridge ----------------------------
(***************************************************************************)
(* The host-side browser bridge of one workspace profile:                  *)
(* _ensure_workspace_host_browser_bridge in ft/src/ft/cli.py, run by every *)
(* `ft workspace up` and `enter`, and serve in ft/src/ft/browser_bridge.py, *)
(* the broker it leaves running.  They meet in three files: the socket,    *)
(* browser-open.pid and browser-open.command.  No lock is taken.           *)
(*                                                                         *)
(* Brokers are process ids.  One is started at most once.  A broker that    *)
(* dies stays a zombie as long as the command that started it goes on and  *)
(* does not wait for it: `enter` keeps a shell open after the bridge is     *)
(* up.  Only after that may the system give the id to a stranger.          *)
(***************************************************************************)
EXTENDS Integers, FiniteSets

CONSTANTS
    Ups,        \* the `ft workspace up` commands
    Brokers,    \* bound: the process ids a broker can get
    Openers,    \* the opener commands the environment can resolve to
    None,       \* no broker, no socket, no opener
    Garbled,    \* a file that was opened for writing and not written
    MaxFaults   \* bound: commands interrupted, brokers failing or killed, ids reused

ASSUME BridgeAssumption ==
    /\ None \notin Brokers \cup Openers
    /\ Garbled \notin Brokers \cup Openers \cup {None}
    /\ MaxFaults \in Nat

VARIABLES
    pid_file,      \* the broker browser-open.pid names
    command_file,  \* the opener browser-open.command names
    socket,        \* the broker that bound the socket file, None when it is absent
    broker,        \* broker[b]: where it is, and its opener
    up,            \* up[u]: where the command is, its opener, the id it read and its child
    faults,        \* how many faults there have been
    mishaps        \* which kinds the files may still show: "overlap", "interrupt", "reuse"

vars == <<pid_file, command_file, socket, broker, up, faults, mishaps>>

UpPlaces == {"idle", "inspect", "kill", "unlink", "spawn", "write_pid", "write_command",
             "wait", "socket", "none"}
BrokerPlaces == {"unborn", "start", "bind", "chmod", "accept", "opening", "cleanup",
                 "zombie", "dead", "stranger"}

\* Not begun or over, or gone on to its container with or without a bridge.
Session  == {"socket", "none"}
Returned == {"idle"} \cup Session
Idle     == [at |-> "idle", opener |-> None, existing |-> None, child |-> None]

Running(b) == broker[b].at \in {"start", "bind", "chmod", "accept", "opening", "cleanup"}

\* os.kill(pid, 0) succeeds for a zombie too.
_workspace_pid_is_alive(b) ==
    b \in Brokers /\ (Running(b) \/ broker[b].at \in {"zombie", "stranger"})

\* What becomes of a broker that dies: a zombie, while its parent lives.
Remains(b) == IF \E u \in Ups : up[u].child = b THEN "zombie" ELSE "dead"

BrokerGoes(b, place) == broker' = [broker EXCEPT ![b].at = place]
UpGoes(u, place) == up' = [up EXCEPT ![u].at = place]

\* u waits for its child, or ends and leaves it to init.
Buries(u) ==
    broker' = [b \in Brokers |-> IF b = up[u].child /\ broker[b].at = "zombie"
                                 THEN [broker[b] EXCEPT !.at = "dead"] ELSE broker[b]]

-----------------------------------------------------------------------------
Init ==
    /\ pid_file = None
    /\ command_file = None
    /\ socket = None
    /\ broker = [b \in Brokers |-> [at |-> "unborn", opener |-> None]]
    /\ up = [u \in Ups |-> Idle]
    /\ faults = 0
    /\ mishaps = {}

\* Bound: every command at work can still start a broker.
IdsLeft ==
    Cardinality({b \in Brokers : broker[b].at = "unborn"}) >
        Cardinality({u \in Ups : up[u].at \notin Returned})

\* The files are in order: no broker runs but the recorded one, while its process
\* id is held the recorded opener is its own and no other broker's socket is
\* there, and the id is no stranger's.
Settled ==
    /\ \A b \in Brokers : Running(b) => pid_file = b
    /\ \A b \in Brokers : pid_file = b /\ (Running(b) \/ broker[b].at = "zombie") =>
          command_file = broker[b].opener /\ socket \in {None, b}
    /\ \A b \in Brokers : pid_file = b => broker[b].at # "stranger"

\* The command starts; without an opener there is no bridge.
Start(u) ==
    /\ up[u].at = "idle"
    /\ \E opener \in Openers \cup {None} :
          /\ opener # None => IdsLeft
          /\ up' = [up EXCEPT ![u] =
                      [at |-> IF opener = None THEN "none" ELSE "inspect",
                       opener |-> opener, existing |-> None, child |-> None]]
    /\ mishaps' = IF \E v \in Ups : up[v].at \notin Returned THEN mishaps \cup {"overlap"}
                  ELSE IF Settled THEN {} ELSE mishaps
    /\ UNCHANGED <<pid_file, command_file, socket, broker, faults>>

\* Faulty: the opener of the running broker is not compared.
InspectIgnoringCommand(u) ==
    /\ up[u].at = "inspect"
    /\ LET alive == _workspace_pid_is_alive(pid_file)
           reuse == alive /\ socket # None
       IN  up' = [up EXCEPT ![u].at = IF reuse THEN "socket" ELSE IF alive THEN "kill" ELSE "unlink",
                            ![u].existing = pid_file]
    /\ UNCHANGED <<pid_file, command_file, socket, broker, faults, mishaps>>

\* A broker that is alive, has a socket and runs the same opener is reused.
Inspect(u) ==
    /\ up[u].at = "inspect"
    /\ LET alive == _workspace_pid_is_alive(pid_file)
           reuse == alive /\ socket # None /\ command_file = up[u].opener
       IN  up' = [up EXCEPT ![u].at = IF reuse THEN "socket" ELSE IF alive THEN "kill" ELSE "unlink",
                            ![u].existing = pid_file]
    /\ UNCHANGED <<pid_file, command_file, socket, broker, faults, mishaps>>

\* Faulty: the old broker is left running.
KillNobody(u) ==
    /\ up[u].at = "kill"
    /\ UpGoes(u, "unlink")
    /\ UNCHANGED <<pid_file, command_file, socket, broker, faults, mishaps>>

\* Faulty: the old broker is left to clean up in its own time.
KillGently(u) ==
    /\ up[u].at = "kill"
    /\ UpGoes(u, "unlink")
    /\ IF up[u].existing \in Brokers /\ Running(up[u].existing)
       THEN BrokerGoes(up[u].existing, "cleanup")
       ELSE UNCHANGED broker
    /\ UNCHANGED <<pid_file, command_file, socket, faults, mishaps>>

\* SIGTERM ends a broker on the spot: its cleanup does not run.
Kill(u) ==
    /\ up[u].at = "kill"
    /\ UpGoes(u, "unlink")
    /\ IF _workspace_pid_is_alive(up[u].existing)
       THEN BrokerGoes(up[u].existing, Remains(up[u].existing))
       ELSE UNCHANGED broker
    /\ UNCHANGED <<pid_file, command_file, socket, faults, mishaps>>

Unlink(u) ==
    /\ up[u].at = "unlink"
    /\ socket' = None
    /\ UpGoes(u, "spawn")
    /\ UNCHANGED <<pid_file, command_file, broker, faults, mishaps>>

Spawn(u) ==
    /\ up[u].at = "spawn"
    /\ \E b \in Brokers :
          /\ broker[b].at = "unborn"
          /\ broker' = [broker EXCEPT ![b] = [at |-> "start", opener |-> up[u].opener]]
          /\ up' = [up EXCEPT ![u].at = "write_pid", ![u].child = b]
    /\ UNCHANGED <<pid_file, command_file, socket, faults, mishaps>>

WritePid(u) ==
    /\ up[u].at = "write_pid"
    /\ pid_file' = up[u].child
    /\ UpGoes(u, "write_command")
    /\ UNCHANGED <<command_file, socket, broker, faults, mishaps>>

\* Faulty: the opener is written to the wrong file.
WriteCommandToPidFile(u) ==
    /\ up[u].at = "write_command"
    /\ pid_file' = up[u].opener
    /\ UpGoes(u, "wait")
    /\ UNCHANGED <<command_file, socket, broker, faults, mishaps>>

WriteCommand(u) ==
    /\ up[u].at = "write_command"
    /\ command_file' = up[u].opener
    /\ UpGoes(u, "wait")
    /\ UNCHANGED <<pid_file, socket, broker, faults, mishaps>>

\* Up to two seconds are given to the socket to appear.  Nobody looks at which
\* broker's it is.
Wait(u) ==
    /\ up[u].at = "wait"
    /\ \/ socket # None /\ UpGoes(u, "socket")
       \/ UpGoes(u, "none")
    /\ UNCHANGED <<pid_file, command_file, socket, broker, faults, mishaps>>

\* Ctrl-C, or a crash.  A file that was being written is left empty.
Interrupt(u) ==
    /\ up[u].at \notin Returned
    /\ faults < MaxFaults
    /\ faults' = faults + 1
    /\ up' = [up EXCEPT ![u] = Idle]
    /\ Buries(u)
    /\ mishaps' = mishaps \cup {"interrupt"}
    /\ \/ UNCHANGED <<pid_file, command_file>>
       \/ up[u].at = "write_pid" /\ pid_file' = Garbled /\ UNCHANGED command_file
       \/ up[u].at = "write_command" /\ command_file' = Garbled /\ UNCHANGED pid_file
    /\ UNCHANGED socket

\* The command goes on to docker run and docker exec.  subprocess waits for
\* children it has lost sight of when it starts the next one.
Reap(u) ==
    /\ up[u].at \in Session
    /\ up[u].child \in Brokers /\ broker[up[u].child].at = "zombie"
    /\ up' = [up EXCEPT ![u].child = None]
    /\ Buries(u)
    /\ UNCHANGED <<pid_file, command_file, socket, faults, mishaps>>

\* The shell is left and the command ends.
Exit(u) ==
    /\ up[u].at \in Session
    /\ up' = [up EXCEPT ![u] = Idle]
    /\ Buries(u)
    /\ UNCHANGED <<pid_file, command_file, socket, faults, mishaps>>

-----------------------------------------------------------------------------
\* The broker clears its path, whatever is there.
ClearPath(b) ==
    /\ broker[b].at = "start"
    /\ socket' = None
    /\ BrokerGoes(b, "bind")
    /\ UNCHANGED <<pid_file, command_file, up, faults, mishaps>>

\* Binding a path that exists raises.
Bind(b) ==
    /\ broker[b].at = "bind"
    /\ IF socket = None
       THEN socket' = b /\ BrokerGoes(b, "chmod")
       ELSE UNCHANGED socket /\ BrokerGoes(b, "cleanup")
    /\ UNCHANGED <<pid_file, command_file, up, faults, mishaps>>

\* So does a chmod of a path that is gone.
Listen(b) ==
    /\ broker[b].at = "chmod"
    /\ BrokerGoes(b, IF socket = None THEN "cleanup" ELSE "accept")
    /\ UNCHANGED <<pid_file, command_file, socket, up, faults, mishaps>>

\* A client finds the broker through the socket file.
Accept(b) ==
    /\ broker[b].at = "accept"
    /\ socket = b
    /\ BrokerGoes(b, "opening")
    /\ UNCHANGED <<pid_file, command_file, socket, up, faults, mishaps>>

Answer(b) ==
    /\ broker[b].at = "opening"
    /\ BrokerGoes(b, "accept")
    /\ UNCHANGED <<pid_file, command_file, socket, up, faults, mishaps>>

\* A client that is gone, a payload that does not decode, an opener that is
\* not installed: the exception ends the server.
Raise(b) ==
    /\ broker[b].at = "opening"
    /\ faults < MaxFaults
    /\ faults' = faults + 1
    /\ BrokerGoes(b, "cleanup")
    /\ UNCHANGED <<pid_file, command_file, socket, up, mishaps>>

\* The finally block: whatever is at the path is unlinked.
Cleanup(b) ==
    /\ broker[b].at = "cleanup"
    /\ socket' = None
    /\ BrokerGoes(b, Remains(b))
    /\ UNCHANGED <<pid_file, command_file, up, faults, mishaps>>

\* The process is killed, or the host restarts: the files stay.
Killed(b) ==
    /\ Running(b)
    /\ faults < MaxFaults
    /\ faults' = faults + 1
    /\ BrokerGoes(b, Remains(b))
    /\ UNCHANGED <<pid_file, command_file, socket, up, mishaps>>

Reuse(b) ==
    /\ broker[b].at = "dead"
    /\ faults < MaxFaults
    /\ faults' = faults + 1
    /\ BrokerGoes(b, "stranger")
    /\ mishaps' = mishaps \cup {"reuse"}
    /\ UNCHANGED <<pid_file, command_file, socket, up>>

Up(u) ==
    \/ Start(u) \/ Inspect(u) \/ Kill(u) \/ Unlink(u) \/ Spawn(u) \/ WritePid(u)
    \/ WriteCommand(u) \/ Wait(u) \/ Interrupt(u) \/ Reap(u) \/ Exit(u)

Broker(b) ==
    \/ ClearPath(b) \/ Bind(b) \/ Listen(b) \/ Accept(b) \/ Answer(b) \/ Raise(b)
    \/ Cleanup(b) \/ Killed(b) \/ Reuse(b)

Next == (\E u \in Ups : Up(u)) \/ (\E b \in Brokers : Broker(b))

Spec == Init /\ [][Next]_vars

-----------------------------------------------------------------------------
TypeOK ==
    /\ pid_file \in Brokers \cup {None, Garbled}
    /\ command_file \in Openers \cup {None, Garbled}
    /\ socket \in Brokers \cup {None}
    /\ broker \in [Brokers -> [at : BrokerPlaces, opener : Openers \cup {None}]]
    /\ up \in [Ups -> [at : UpPlaces, opener : Openers \cup {None},
                       existing : Brokers \cup {None, Garbled}, child : Brokers \cup {None}]]
    /\ faults \in 0..MaxFaults
    /\ mishaps \in SUBSET {"overlap", "interrupt", "reuse"}

\* Broker b is a zombie of another command, which is still in its container.
Unburied(b, u) ==
    /\ broker[b].at = "zombie"
    /\ \E v \in Ups \ {u} : up[v].at \in Session /\ up[v].child = b

\* Broker b is what command u returns the socket of: it bound the socket and
\* runs u's opener, and if u found it there it runs, but for a zombie.
Behind(b, u) ==
    /\ socket = b /\ b \in Brokers
    /\ broker[b].opener = up[u].opener
    /\ up[u].at = "inspect" => Running(b) \/ Unburied(b, u)

ReturnsSocket(u) == up[u].at # "socket" /\ up'[u].at = "socket"

\* What its docstring promises of _ensure_workspace_host_browser_bridge:
\* "Ensure the host-side browser bridge broker is running and return its socket."
ReturnsRunningBroker ==
    [][\A u \in Ups : ReturnsSocket(u) =>
          \E b \in Brokers : Behind(b, u) /\ (up[u].at = "inspect" => Running(b))]_vars

\* What does hold: whatever went before, a command that starts with the files
\* in order, alone and on a host that reuses no process id, returns the socket
\* of the broker it recorded, for the opener it resolved, whenever brokers fail
\* or are killed and whenever the opener changes from one command to the next;
\* and a broker it reuses is running, unless it died under the shell of the
\* very command that started it.
ReturnsRecordedBroker ==
    [][mishaps' = {} => \A u \in Ups : ReturnsSocket(u) => Behind(pid_file, u)]_vars

\* Replacing a broker leaves no second one behind: as long as that holds, every
\* broker that runs is the one the next command would find and stop, or the
\* one a command is about to record.
NoBrokerIsLost ==
    mishaps = {} => \A b \in Brokers :
        Running(b) => b = pid_file \/ \E u \in Ups : up[u].at = "write_pid" /\ up[u].child = b

\* The cleanup of a broker that failed removes its own socket and no other's.
CleanupIsOwn ==
    [][mishaps = {} => \A b \in Brokers :
          broker[b].at = "cleanup" /\ broker'[b].at # "cleanup" /\ socket' # socket =>
              socket = b]_vars
=============================================================================
