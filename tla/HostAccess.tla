----------------------------- MODULE HostAccess -----------------------------
(***************************************************************************)
(* How `ft host` reaches one SSH target (ft/src/ft/cli.py): the managed    *)
(* key pair, the managed known_hosts file, the target's authorized_keys,   *)
(* and the ssh configuration of the operator.  The commands ssh-key,       *)
(* ssh-key-enroll, ssh-config, ssh, doctor and secrets validate are made   *)
(* of these steps; HostTarget adds the Ansible passes of bootstrap and     *)
(* validate, and the saved options, and composes them all.                 *)
(*                                                                         *)
(* A file is the sequence of its lines: <<>> is a file cut to nothing,     *)
(* None no file.  Path.write_text is two steps, Cut and Write.             *)
(***************************************************************************)
EXTENDS Integers, Sequences

CONSTANTS
    Cmds,        \* the ft commands at work
    Kinds,       \* kinds of target, as hosts.toml says
    Profiles,    \* tmux profiles, the pick-one bootstrap option
    Plugged,     \* those of them that come with plugins
    None,
    MaxStarts,   \* bound: commands started
    MaxFaults,   \* bound: commands interrupted or failed by a call
    MaxEvents    \* bound: changes by the operator or the provider

ASSUME HostAssumption ==
    /\ Kinds \subseteq {"docker", "cloud", "workstation"}
    /\ Plugged \subseteq Profiles
    /\ MaxStarts \in Nat /\ MaxFaults \in Nat /\ MaxEvents \in Nat
    /\ None \notin Profiles \cup {"none"} /\ "none" \notin Profiles /\ "own" \notin Profiles

VARIABLES
    kind,        \* the target's kind in hosts.toml
    controller,  \* the files of ft and of the operator, see TypeOK of HostTarget
    host,        \* the target machine of that address now
    command,     \* command[c]: where c is, and what it carries
    starts, faults, events,
    calm         \* calm[c]: c works alone, and nothing failed or changed under it

vars == <<kind, controller, host, command, starts, faults, events, calm>>
history == <<kind, starts, faults, events, calm>>

Reaching == {"ssh", "doctor", "enroll"}
Ops == Reaching \cup {"secrets", "key", "config", "validate", "bootstrap", "pick"}
Ended == {"idle", "true", "false"}
Playing == {"base", "look", "link", "record", "plugins", "end"}
Places == Ended \cup Playing \cup
    {"keys", "keygen", "keypub", "runtime", "scan", "pub", "connect",
     "install", "ensure", "cut", "write", "resolve", "play", "pick"}

\* `phase`: of a validate or a bootstrap; `flag`: --probe, --ensure-ssh-keys or
\* --ensure-include; `given`: options by flag or environment; `mode`: of a
\* bootstrap; `sel`: options resolved; `file`, `text`: what is being written; `changed`: this pass
\* changed something; `own`: the operator's ssh configuration was whole before.
Fresh(op, phase, flag, given) ==
    [at |-> "idle", op |-> op, phase |-> phase, flag |-> flag, given |-> given,
     mode |-> "host", sel |-> "none", file |-> None, text |-> <<>>, changed |-> FALSE, own |-> FALSE]

Working(c) == command[c].at \notin Ended
\* A command that is over keeps its result and nothing else.
At(carried, place) ==
    IF place \in Ended
    THEN [Fresh("key", "doctor", FALSE, None) EXCEPT !.at = place]
    ELSE [carried EXCEPT !.at = place]
Goes(c, place) == command' = [command EXCEPT ![c] = At(@, place)]
Writes(c, file, text) ==
    command' = [command EXCEPT ![c].at = "cut", ![c].file = file, ![c].text = text]
Has(line, text) == \E i \in DOMAIN text : text[i] = line

Managed == kind \in {"docker", "cloud"}
Refresh(after) == IF Managed THEN "scan" ELSE after

-----------------------------------------------------------------------------
(* The managed key pair.                                                   *)

Ensures(c) ==
    \/ command[c].op \in {"key", "enroll"}
    \/ command[c].op = "bootstrap" /\ command[c].flag

\* Where each command goes once the private key is there.
AfterKeys(c) ==
    CASE command[c].op = "key" -> "true"
      [] command[c].op = "enroll" -> Refresh("pub")
      [] command[c].op \in {"ssh", "secrets"} -> Refresh("connect")
      [] command[c].op = "bootstrap" -> "play"
      [] command[c].op \in {"doctor", "validate"} /\ command[c].phase = "doctor" ->
            IF command[c].flag THEN "runtime" ELSE "true"
      [] OTHER -> "resolve"

Keys(c) ==
    /\ command[c].at = "keys"
    /\ Goes(c, IF controller.key # "none" THEN AfterKeys(c)
               ELSE IF Ensures(c) THEN "keygen" ELSE "false")
    /\ UNCHANGED <<controller, host, history>>

\* ssh-keygen asks before it writes over a key, and nobody sees the question.
Keygen(c) ==
    /\ command[c].at = "keygen"
    /\ IF controller.key = "none"
       THEN controller' = [controller EXCEPT !.key = "private"] /\ Goes(c, "keypub")
       ELSE UNCHANGED controller /\ Goes(c, "false")
    /\ UNCHANGED <<host, history>>

Keypub(c) ==
    /\ command[c].at = "keypub"
    /\ controller' = [controller EXCEPT !.key = "pair"]
    /\ Goes(c, AfterKeys(c))
    /\ UNCHANGED <<host, history>>

\* Enrolment sends the public half.
Pub(c) ==
    /\ command[c].at = "pub"
    /\ Goes(c, IF controller.key = "pair" THEN "connect" ELSE "false")
    /\ UNCHANGED <<controller, host, history>>

-----------------------------------------------------------------------------
(* Trust and connection.                                                   *)

\* A docker target's container is started and awaited; see ContainerTarget.
Runtime(c) ==
    /\ command[c].at = "runtime"
    /\ Goes(c, IF command[c].op \in {"ssh", "secrets"} THEN "keys" ELSE Refresh("connect"))
    /\ UNCHANGED <<controller, host, history>>

AfterRefresh(c) == IF command[c].op = "enroll" THEN "pub" ELSE "connect"

\* Faulty: only a target without a file is scanned.
ScanOnce(c) ==
    /\ command[c].at = "scan"
    /\ IF controller.known = None
       THEN Writes(c, "known", <<host.id>>) ELSE Goes(c, AfterRefresh(c))
    /\ UNCHANGED <<controller, host, history>>

\* ssh-keyscan: the host key of whatever answers now.
Scan(c) ==
    /\ command[c].at = "scan"
    /\ Writes(c, "known", <<host.id>>)
    /\ UNCHANGED <<controller, host, history>>

Trusts(strict) == IF strict THEN controller.known = <<host.id>> ELSE host.trusted
Accepts == host.authorized \/ host.other

Answered(c, op, reached) ==
    /\ command[c].at = "connect" /\ command[c].op = op
    /\ Goes(c, IF reached THEN "true" ELSE "false")

\* Enrolment, probes and checks name the managed file whatever the target's
\* kind; a session leaves other kinds to the operator's own known_hosts.
Enrol(c) ==
    LET reached == Trusts(TRUE) /\ Accepts
    IN  /\ Answered(c, "enroll", reached)
        /\ host' = [host EXCEPT !.authorized = @ \/ reached]
        /\ UNCHANGED <<controller, history>>

Session(c) ==
    /\ Answered(c, "ssh", Trusts(Managed) /\ Accepts)
    /\ UNCHANGED <<controller, host, history>>

\* There may be no zsh yet, and no secrets.
Shell(c) ==
    /\ \E ready \in BOOLEAN : Answered(c, "secrets", ready /\ Trusts(TRUE) /\ Accepts)
    /\ UNCHANGED <<controller, host, history>>

Probe(c) ==
    /\ \/ Answered(c, "doctor", Trusts(TRUE) /\ Accepts)
       \/ ~(Trusts(TRUE) /\ Accepts) /\ Answered(c, "validate", FALSE)
       \/ /\ command[c].at = "connect" /\ command[c].op = "validate"
          /\ Trusts(TRUE) /\ Accepts
          /\ command' = [command EXCEPT ![c].at = "keys", ![c].phase = "check"]
    /\ UNCHANGED <<controller, host, history>>

-----------------------------------------------------------------------------
(* Files.                                                                  *)

\* The include is the block of one target.
Rendered == <<"target">>

Install(c) ==
    /\ command[c].at = "install"
    /\ Writes(c, "include", Rendered)
    /\ UNCHANGED <<controller, host, history>>

Lines(text) == IF text = None THEN <<>> ELSE text

\* Faulty: the Include is put in front of what is there, whatever it is.
EnsureAgain(c) ==
    /\ command[c].at = "ensure"
    /\ Writes(c, "config", <<"include">> \o Lines(controller.config))
    /\ UNCHANGED <<controller, host, history>>

Ensure(c) ==
    /\ command[c].at = "ensure"
    /\ IF Has("include", Lines(controller.config)) THEN Goes(c, "true")
       ELSE Writes(c, "config", <<"include">> \o Lines(controller.config))
    /\ UNCHANGED <<controller, host, history>>

Cut(c) ==
    /\ command[c].at = "cut"
    /\ controller' = [controller EXCEPT ![command[c].file] = <<>>]
    /\ Goes(c, "write")
    /\ UNCHANGED <<host, history>>

AfterWrite(c) ==
    CASE command[c].file = "known" -> AfterRefresh(c)
      [] command[c].file = "include" -> IF command[c].flag THEN "ensure" ELSE "true"
      [] OTHER -> "true"

Write(c) ==
    /\ command[c].at = "write"
    /\ controller' = [controller EXCEPT ![command[c].file] = command[c].text]
    /\ command' = [command EXCEPT
          ![c] = At([@ EXCEPT !.file = None, !.text = <<>>], AfterWrite(c))]
    /\ UNCHANGED <<host, history>>

AccessStep(c) ==
    \/ Keys(c) \/ Keygen(c) \/ Keypub(c) \/ Pub(c)
    \/ Runtime(c) \/ Scan(c) \/ Enrol(c) \/ Session(c) \/ Shell(c) \/ Probe(c)
    \/ Install(c) \/ Ensure(c) \/ Cut(c) \/ Write(c)
=============================================================================
