---------------------------- MODULE HostTargetProofs ----------------------------
(***************************************************************************)
(* Proofs about HostTarget and the commands of HostAccess, for any set of  *)
(* commands and of profiles and any bounds.                                *)
(*                                                                         *)
(* The inductive invariant says of each command where its operation may    *)
(* lead it and what it may be writing (Routed), that a calm command is     *)
(* alone (Alone), and what a calm command has learnt (Learnt): that there  *)
(* was no key, whose host key the managed file holds, that the operator's  *)
(* tmux configuration is not in the way, which selection the pass is for.  *)
(* Two parts hold of every command, whoever else is at work: a pass that   *)
(* changed nothing so far found the base converged (Seen), and a selection *)
(* that is honoured is what the host records (Honest).                     *)
(***************************************************************************)
EXTENDS HostTarget, SequenceTheorems, TLAPS

\* What the files may hold.
Knowns == {<<i>> : i \in 0..MaxEvents}
Configs == {<<>>, <<"own">>, <<"include">>, <<"include", "own">>}
Included == {<<"include">>, <<"include", "own">>}
Picked == {<<p>> : p \in Choices}
Texts == Knowns \cup Included \cup Picked \cup {<<>>, Rendered}

\* The text that is written is one of its file's.
Whole(file, text) ==
    \/ file = "known" /\ text \in Knowns
    \/ file = "config" /\ text \in Included
    \/ file = "include" /\ text = Rendered
    \/ file = "options" /\ text \in Picked

\* What the commands, the controller and the machine may hold.
Commands == [at : Places, op : Ops, phase : {"doctor", "check", "apply", "converge"},
             flag : BOOLEAN, given : Choices \cup {None}, sel : Choices,
             mode : {"host", "workspace"},
             file : {None, "known", "config", "include", "options"}, text : Texts,
             changed : BOOLEAN, own : BOOLEAN]
Controllers == [key : {"none", "private", "pair"}, known : Knowns \cup {None, <<>>},
                config : Configs \cup {None}, include : {None, <<>>, Rendered},
                options : Picked \cup {None, <<>>}]
Machines == [id : 0..MaxEvents, authorized : BOOLEAN, trusted : BOOLEAN, other : BOOLEAN,
             base : {"bare", "half", "done"}, conf : Choices \cup {"own"},
             home : BOOLEAN, applied : Profiles \cup {None}, chosen : BOOLEAN,
             honoured : Profiles \cup {None}, linked : Profiles \cup {None}]

CommandType == command \in [Cmds -> Commands]
HostType == kind \in Kinds /\ controller \in Controllers /\ host \in Machines
HistoryType ==
    /\ starts \in 0..MaxStarts /\ faults \in 0..MaxFaults /\ events \in 0..MaxEvents
    /\ host.id <= events
    /\ calm \in [Cmds -> BOOLEAN]

\* The operations that connect, and those that play.
Reaches == Reaching \cup {"secrets", "validate"}
Passes == {"bootstrap", "validate"}

\* The places of a command are those of its operation.
Routed(r) ==
    /\ r.op = "validate" => r.flag
    /\ r.op \notin Passes => r.phase = "doctor"
    /\ r.at = "keys" => r.op \notin {"config", "pick"}
    /\ r.at \in {"keygen", "keypub"} => r.op \in {"key", "enroll", "bootstrap"}
    /\ r.at \in {"runtime", "scan", "connect"} => r.op \in Reaches
    /\ r.at = "pub" => r.op = "enroll"
    /\ r.at \in {"resolve", "play"} \cup Playing =>
          r.op \in Passes /\ (r.op = "validate" => r.phase # "doctor")
    /\ r.at \in {"look", "link", "record"} => r.sel # "none"
    /\ r.at \in {"install", "ensure"} => r.op = "config"
    /\ r.at = "pick" => r.op = "pick"
    /\ r.at \in {"cut", "write"} =>
          /\ Whole(r.file, r.text)
          /\ r.file = "known" => r.op \in Reaches
          /\ r.file \in {"config", "include"} => r.op = "config"
          /\ r.file = "options" => r.op = "pick"

\* A calm command that works is alone.
Alone(c) == (calm[c] /\ Working(c)) => \A d \in Cmds : Working(d) => d = c

\* A command that writes the file.
Writing(c, file) == command[c].at \in {"cut", "write"} /\ command[c].file = file

\* A key is made where there is none.
Keyless(c) == command[c].at = "keygen" => controller.key = "none"

\* The host key that is pinned, or being pinned, is the machine's that answers.
Pinned(c) ==
    Managed => /\ Writing(c, "known") => command[c].text = <<host.id>>
               /\ command[c].at \in {"pub", "connect"} => controller.known = <<host.id>>

\* The link is made where nothing is in the way, for another selection.
Unblocked(c) == command[c].at = "link" => ~Blocked /\ host.applied # command[c].sel

\* What a pass resolves now.
Selection(c) == IF command[c].given # None THEN command[c].given ELSE Saved

\* A pass of a validate is for the selection that is saved now,
Selected(c) ==
    (command[c].op = "validate" /\ command[c].at \in {"play"} \cup Playing) =>
        command[c].sel = Selection(c)

\* and a pass that is over applied it, or had reason not to.
Applied(c) ==
    (command[c].at \in {"plugins", "end"} /\ command[c].phase # "check") =>
        command[c].sel = "none" \/ Blocked \/ host.applied = command[c].sel

\* What the operator wrote to the ssh configuration is there or being written.
OwnSafe(c) ==
    (command[c].op = "config" /\ command[c].own) =>
        /\ command[c].at \in {"install", "ensure"} \/ Writing(c, "include") =>
              Has("own", Lines(controller.config))
        /\ Writing(c, "config") => Has("own", command[c].text)

\* What a calm command has learnt is still so.
Learnt(c) ==
    calm[c] => /\ Keyless(c) /\ Pinned(c) /\ Unblocked(c)
               /\ Selected(c) /\ Applied(c) /\ OwnSafe(c)

\* A pass that has changed nothing found the base converged.
Seen(c) ==
    (command[c].at \in {"look", "link", "record", "plugins", "end"} /\ ~command[c].changed) =>
        host.base = "done"

\* What the invariant says of one command.
CommandInv(c) == Routed(command[c]) /\ Alone(c) /\ Learnt(c) /\ Seen(c)

\* The selection of the last pass that ended, if it is honoured, was applied.
Honest == host.honoured # None => host.honoured = host.applied

\* The inductive invariant.
IInv ==
    /\ CommandType /\ HostType /\ HistoryType /\ Honest
    /\ \A c \in Cmds : CommandInv(c)

-----------------------------------------------------------------------------
\* The invariant holds when no command is at work.
LEMMA InitInv == Init => IInv
<1> SUFFICES ASSUME Init PROVE IInv OBVIOUS
<1>1. CommandType /\ \A c \in Cmds : Routed(command[c])
  <2>1. Fresh("key", "doctor", FALSE, None) \in Commands
    BY DEF Fresh, Commands, Texts, Choices, Ops, Places, Ended
  <2>2. Routed(Fresh("key", "doctor", FALSE, None))
    BY DEF Routed, Fresh, Passes, Reaches, Reaching, Playing
  <2> QED BY <2>1, <2>2 DEF Init, CommandType
<1>2. HostType
  <2>1. <<0>> \in Knowns BY HostAssumption DEF Knowns
  <2>2. <<"own">> \in Configs BY DEF Configs
  <2>3. \A p \in Profiles : <<p>> \in Picked BY DEF Picked, Choices
  <2>4. kind \in Kinds BY DEF Init
  <2>5. PICK enrolled \in BOOLEAN, options \in {None} \cup {<<p>> : p \in Profiles} :
           /\ controller = [key |-> IF enrolled THEN "pair" ELSE "none",
                            known |-> IF enrolled /\ Managed THEN <<0>> ELSE None,
                            config |-> IF enrolled THEN <<"own">> ELSE None,
                            include |-> None, options |-> options]
           /\ host = Machine(0, enrolled, ~Managed, ~enrolled)
    BY DEF Init
  <2>6. controller \in Controllers
    BY <2>1, <2>2, <2>3, <2>5 DEF Controllers
  <2>7. host \in Machines
    BY <2>5, HostAssumption DEF Machine, Machines, Choices, Managed
  <2> QED BY <2>4, <2>6, <2>7 DEF HostType
<1>3. HistoryType /\ Honest
  BY HostAssumption DEF Init, HistoryType, Honest, Machine
<1>4. \A c \in Cmds : command[c].at = "idle"
  BY DEF Init, Fresh
<1> QED
  BY <1>1, <1>2, <1>3, <1>4
  DEF IInv, CommandInv, Alone, Learnt, Keyless, Pinned, Unblocked, Selected, Applied, OwnSafe,
      Seen, Writing, Working, Ended, Playing

-----------------------------------------------------------------------------
\* The Include goes in front of what there is.
LEMMA IncludeFirst ==
  \A text \in {<<>>, <<"own">>} : /\ <<"include">> \o text \in Included
                                  /\ Has("own", text) => Has("own", <<"include">> \o text)
<1> DEFINE s == <<"include">> \o <<"own">>
           t == <<"include", "own">>
<1>1. s \in Seq({"include", "own"}) /\ t \in Seq({"include", "own"}) OBVIOUS
<1>2. Len(s) = 2 /\ Len(t) = 2 OBVIOUS
<1>3. s[1] = t[1] /\ s[2] = t[2] OBVIOUS
<1>4. \A i \in 1..2 : s[i] = t[i] BY <1>3
<1>5. Has("own", t) BY DEF Has
<1>6. ~Has("own", <<>>) BY DEF Has
<1>7. <<"include">> \o <<>> = <<"include">> OBVIOUS
<1> HIDE DEF s, t
<1>8. s = t BY <1>1, <1>2, <1>4, SeqEqual
<1>9. s \in Included /\ Has("own", s) BY <1>5, <1>8 DEF Included, t
<1> QED BY <1>6, <1>7, <1>9, Zenon DEF s, Included

-----------------------------------------------------------------------------
\* How a step of a command moves it.
RoutedCommands == {r \in Commands : Routed(r)}
Moved(c) == \E r \in RoutedCommands : command' = [command EXCEPT ![c] = r]

\* A command that is over is routed.
LEMMA OverIsRouted ==
  ASSUME NEW r, NEW place \in Ended
  PROVE  At(r, place) \in RoutedCommands
<1>1. At(r, place) = [Fresh("key", "doctor", FALSE, None) EXCEPT !.at = place]
  BY DEF At
<1>2. [Fresh("key", "doctor", FALSE, None) EXCEPT !.at = place] \in Commands
  BY DEF Fresh, Commands, Texts, Choices, Ops, Places, Ended
<1>3. Routed([Fresh("key", "doctor", FALSE, None) EXCEPT !.at = place])
  BY DEF Routed, Fresh, Passes, Reaches, Reaching, Playing, Ended
<1> QED BY <1>1, <1>2, <1>3 DEF RoutedCommands

\* A command that goes on is routed, if its new place is on its route,
LEMMA GoesMoves ==
  ASSUME CommandType, NEW c \in Cmds, NEW place \in Places, Goes(c, place),
         place \notin Ended => Routed([command[c] EXCEPT !.at = place])
  PROVE  Moved(c)
<1>1. CASE place \in Ended
  BY <1>1, OverIsRouted DEF Moved, Goes
<1>2. CASE place \notin Ended
  <2>1. [command[c] EXCEPT !.at = place] \in Commands BY DEF CommandType, Commands
  <2>2. [command[c] EXCEPT !.at = place] \in RoutedCommands
    BY <1>2, <2>1 DEF RoutedCommands
  <2> QED BY <1>2, <2>2 DEF Moved, Goes, At
<1> QED BY <1>1, <1>2

\* and so is one that begins to write a file,
LEMMA WritesMoves ==
  ASSUME CommandType, NEW c \in Cmds, NEW file \in {"known", "config", "include", "options"},
         NEW text \in Texts, Writes(c, file, text),
         Routed([command[c] EXCEPT !.at = "cut", !.file = file, !.text = text])
  PROVE  Moved(c)
<1>1. [command[c] EXCEPT !.at = "cut", !.file = file, !.text = text] \in Commands
  <2>1. command[c] \in Commands /\ "cut" \in Places BY DEF CommandType, Places
  <2> QED BY <2>1 DEF Commands
<1>2. [command[c] EXCEPT !.at = "cut", !.file = file, !.text = text] \in RoutedCommands
  BY <1>1 DEF RoutedCommands
<1> QED BY <1>2 DEF Moved, Writes, CommandType

\* What a command is that begins to write.
LEMMA WritesWhat ==
  ASSUME CommandType, NEW c \in Cmds, NEW file, NEW text, Writes(c, file, text)
  PROVE  /\ command'[c].at = "cut" /\ command'[c].file = file /\ command'[c].text = text
         /\ command'[c].op = command[c].op /\ command'[c].own = command[c].own
  BY DEF Writes, CommandType, Commands

\* A command that takes up another phase is of the type.
LEMMA PhaseType ==
  ASSUME NEW r \in Commands, NEW phase \in {"check", "apply", "converge"}
  PROVE  [r EXCEPT !.at = "keys", !.phase = phase] \in Commands
  BY DEF Commands, Places

\* Likewise one that changed something, or nothing so far.
LEMMA ChangedType ==
  ASSUME NEW r \in Commands, NEW place \in Places, NEW changed \in BOOLEAN
  PROVE  [r EXCEPT !.at = place, !.changed = changed] \in Commands
  BY DEF Commands

\* Likewise one that goes on to another place, and it keeps what it carries.
LEMMA PlaceType ==
  ASSUME NEW r \in Commands, NEW place \in Places
  PROVE  LET s == [r EXCEPT !.at = place]
         IN  s \in Commands /\ s.at = place /\ s.op = r.op /\ s.flag = r.flag /\ s.phase = r.phase
  BY DEF Commands

\* Likewise one that has written a file.
LEMMA WrittenType ==
  ASSUME NEW r \in Commands, NEW place \in Places
  PROVE  LET done == [r EXCEPT !.file = None, !.text = <<>>]
         IN  /\ done \in Commands /\ [done EXCEPT !.at = place] \in Commands
             /\ done.op = r.op /\ done.flag = r.flag /\ done.phase = r.phase
<1> DEFINE done == [r EXCEPT !.file = None, !.text = <<>>]
<1>1. <<>> \in Texts BY DEF Texts
<1>2. done \in Commands BY <1>1 DEF Commands
<1>3. done.op = r.op /\ done.flag = r.flag /\ done.phase = r.phase BY DEF Commands
<1> HIDE DEF done
<1>4. [done EXCEPT !.at = place] \in Commands BY <1>2 DEF Commands
<1> QED BY <1>2, <1>3, <1>4 DEF done

\* A command's memory of the operator's configuration is of any kind, and so is
\* its mode.
LEMMA OwnType ==
  ASSUME NEW r \in Commands, NEW own \in BOOLEAN, NEW mode \in {"host", "workspace"}
  PROVE  [r EXCEPT !.own = own] \in Commands /\ [r EXCEPT !.mode = mode] \in Commands
  BY DEF Commands

\* and one that starts anew.
LEMMA StartsMoves ==
  ASSUME CommandType, NEW c \in Cmds, NEW place \in Places, NEW fresh \in Commands,
         Starts(c, fresh, place), Routed([fresh EXCEPT !.at = place])
  PROVE  Moved(c)
<1>1. [fresh EXCEPT !.at = place] \in Commands BY DEF Commands
<1>2. [fresh EXCEPT !.at = place] \in RoutedCommands BY <1>1 DEF RoutedCommands
<1> QED BY <1>2 DEF Moved, Starts, CommandType

\* A new command is routed from where it starts.
LEMMA StartMoves ==
  ASSUME IInv, NEW c \in Cmds, Start(c)
  PROVE  Moved(c)
<1>1. CommandType BY DEF IInv
<1>2. \A op \in Ops, phase \in {"doctor", "check", "apply"}, flag \in BOOLEAN,
         given \in Choices \cup {None} : Fresh(op, phase, flag, given) \in Commands
  BY DEF Fresh, Commands, Texts, Choices, Places, Ended
<1> USE <1>1, <1>2, StartsMoves
    DEF Ops, Reaching, Places, Ended, Choices, Routed, Fresh, Passes, Reaches, Playing
<1>3. CASE StartKey(c) BY <1>3 DEF StartKey
<1>4. CASE StartConfig(c)
  <2>1. PICK include \in BOOLEAN, place \in {"install", "ensure"}, own \in BOOLEAN :
           Starts(c, [Fresh("config", "doctor", include, None) EXCEPT !.own = own], place)
    BY <1>4 DEF StartConfig, Has
  <2>2. [Fresh("config", "doctor", include, None) EXCEPT !.own = own] \in Commands
    BY <1>2, OwnType
  <2> QED BY <2>1, <2>2
<1>5. CASE StartSsh(c) BY <1>5 DEF StartSsh
<1>6. CASE StartSecrets(c) BY <1>6 DEF StartSecrets
<1>7. CASE StartDoctor(c) BY <1>7 DEF StartDoctor
<1>8. CASE StartValidate(c)
  <2>1. PICK given \in Choices \cup {None} :
           Starts(c, Fresh("validate", "doctor", TRUE, given), "keys")
    BY <1>8 DEF StartValidate
  <2> QED BY <2>1
<1>9. CASE StartBootstrap(c)
  <2>1. PICK phase \in {"check", "apply"}, ensure \in BOOLEAN, given \in Choices \cup {None},
             mode \in {"host", "workspace"} :
           Starts(c, [Fresh("bootstrap", phase, ensure, given) EXCEPT !.mode = mode], "resolve")
    BY <1>9 DEF StartBootstrap
  <2>2. [Fresh("bootstrap", phase, ensure, given) EXCEPT !.mode = mode] \in Commands
    BY <1>2, OwnType
  <2> QED BY <2>1, <2>2
<1>10. CASE StartPick(c) BY <1>10 DEF StartPick
<1> QED BY <1>3, <1>4, <1>5, <1>6, <1>7, <1>8, <1>9, <1>10 DEF Start

\* With the key there, a command goes on to a place of its operation.
LEMMA KeysLead ==
  ASSUME CommandType, NEW c \in Cmds, Routed(command[c]), command[c].at \in {"keys", "keypub"}
  PROVE  /\ AfterKeys(c) \in Places
         /\ AfterKeys(c) \notin Ended => Routed([command[c] EXCEPT !.at = AfterKeys(c)])
<1> DEFINE r == [command[c] EXCEPT !.at = AfterKeys(c)]
<1>1. /\ command[c] \in Commands /\ command[c].op \in Ops \ {"config", "pick"}
      /\ command[c].op \notin Passes => command[c].phase = "doctor"
      /\ command[c].op = "validate" => command[c].flag
  BY DEF CommandType, Commands, Routed
<1>2. AfterKeys(c) \in {"true", "scan", "pub", "connect", "play", "runtime", "resolve"}
  BY DEF AfterKeys, Refresh
<1>3. AfterKeys(c) \in Places BY <1>2 DEF Places, Ended
<1>4. /\ r.at = AfterKeys(c) /\ r.op = command[c].op /\ r.flag = command[c].flag
      /\ r.phase = command[c].phase
  BY <1>1, <1>3, PlaceType
<1>5. /\ AfterKeys(c) \in {"scan", "connect"} => command[c].op \in {"enroll", "ssh", "secrets"}
      /\ AfterKeys(c) = "pub" => command[c].op = "enroll"
      /\ AfterKeys(c) = "play" => command[c].op = "bootstrap"
      /\ AfterKeys(c) = "runtime" => command[c].op \in {"doctor", "validate"}
  BY DEF AfterKeys, Refresh
<1>6. AfterKeys(c) = "resolve" => command[c].op = "validate" /\ command[c].phase # "doctor"
  BY <1>1 DEF AfterKeys, Refresh, Ops, Reaching, Passes
<1>7. ASSUME AfterKeys(c) \notin Ended PROVE Routed(r)
  <2> HIDE DEF r
  <2> QED BY <1>1, <1>2, <1>4, <1>5, <1>6 DEF Routed, Passes, Reaches, Reaching, Playing
<1> QED BY <1>3, <1>7

\* A pass that goes on with the role is routed.
LEMMA RoleMoves ==
  ASSUME CommandType, NEW c \in Cmds, Routed(command[c]),
         command[c].at \in {"link", "record", "plugins"},
         NEW place \in {"record", "plugins", "end"}, NEW changed \in BOOLEAN,
         place = "record" => command[c].at = "link",
         command' = [command EXCEPT ![c].at = place, ![c].changed = changed]
  PROVE  Moved(c)
<1> DEFINE r == [command[c] EXCEPT !.at = place, !.changed = changed]
<1>1. command[c] \in Commands BY DEF CommandType
<1>2. place \in Places BY DEF Places, Playing
<1>3. /\ r.at = place /\ r.op = command[c].op /\ r.flag = command[c].flag
      /\ r.phase = command[c].phase /\ r.sel = command[c].sel
  BY <1>1 DEF Commands
<1>4. r \in Commands BY <1>1, <1>2, ChangedType
<1>5. command' = [command EXCEPT ![c] = r] OBVIOUS
<1> HIDE DEF r
<1>6. Routed(r)
  BY <1>3 DEF Routed, Playing, Passes, Reaches, Reaching
<1> QED BY <1>4, <1>5, <1>6 DEF Moved, RoutedCommands

\* Every step of a command at work leads it to a place of its operation.
LEMMA StepMoves ==
  ASSUME IInv, NEW c \in Cmds, Step(c)
  PROVE  Moved(c)
<1>1. CommandType /\ HostType /\ Routed(command[c]) BY DEF IInv, CommandInv
<1>2. command[c] \in Commands BY <1>1 DEF CommandType
<1>3. /\ command[c].op \in Ops /\ command[c].flag \in BOOLEAN
      /\ command[c].phase \in {"doctor", "check", "apply", "converge"}
      /\ command[c].sel \in Choices
  BY <1>2 DEF Commands
<1> USE <1>1, <1>2, <1>3, GoesMoves
    DEF Ops, Reaching, Places, Ended, Routed, Passes, Reaches, Playing, Whole
<1>4. CASE Start(c) BY <1>4, StartMoves
<1>5. CASE Keys(c)
  <2>1. /\ AfterKeys(c) \in Places
        /\ AfterKeys(c) \notin Ended => Routed([command[c] EXCEPT !.at = AfterKeys(c)])
    BY <1>5, KeysLead DEF Keys
  <2>2. Ensures(c) => Routed([command[c] EXCEPT !.at = "keygen"])
    BY <1>5 DEF Keys, Ensures, Commands
  <2> QED BY <1>5, <2>1, <2>2 DEF Keys
<1>6. CASE Keygen(c)
  <2>1. Routed([command[c] EXCEPT !.at = "keypub"]) BY <1>6 DEF Keygen, Commands
  <2> QED BY <1>6, <2>1 DEF Keygen
<1>7. CASE Keypub(c)
  <2>1. /\ AfterKeys(c) \in Places
        /\ AfterKeys(c) \notin Ended => Routed([command[c] EXCEPT !.at = AfterKeys(c)])
    BY <1>7, KeysLead DEF Keypub
  <2> QED BY <1>7, <2>1 DEF Keypub
<1>8. CASE Pub(c)
  <2>1. Routed([command[c] EXCEPT !.at = "connect"]) BY <1>8 DEF Pub, Commands
  <2> QED BY <1>8, <2>1 DEF Pub
<1>9. CASE Runtime(c)
  <2>1. \A place \in {"keys", "scan", "connect"} : Routed([command[c] EXCEPT !.at = place])
    BY <1>9 DEF Runtime, Commands
  <2> QED BY <1>9, <2>1 DEF Runtime, Refresh
<1>10. CASE Scan(c)
  <2>1. <<host.id>> \in Knowns /\ <<host.id>> \in Texts
    BY DEF Knowns, Texts, HostType, Machines
  <2>2. Routed([command[c] EXCEPT !.at = "cut", !.file = "known", !.text = <<host.id>>])
    BY <1>10, <2>1 DEF Scan, Commands
  <2> QED BY <1>10, <2>1, <2>2, WritesMoves DEF Scan
<1>11. CASE Enrol(c) BY <1>11 DEF Enrol, Answered
<1>12. CASE Session(c) BY <1>12 DEF Session, Answered
<1>13. CASE Shell(c) BY <1>13 DEF Shell, Answered
<1>14. CASE Probe(c)
  <2>1. CASE Goes(c, "true") \/ Goes(c, "false") BY <2>1
  <2>2. CASE ~(Goes(c, "true") \/ Goes(c, "false"))
    <3>1. /\ command' = [command EXCEPT ![c].at = "keys", ![c].phase = "check"]
          /\ command[c].op = "validate"
      BY <1>14, <2>2 DEF Probe, Answered
    <3>2. Routed([command[c] EXCEPT !.at = "keys", !.phase = "check"])
      BY <3>1 DEF Commands
    <3>3. [command[c] EXCEPT !.at = "keys", !.phase = "check"] \in RoutedCommands
      BY <3>2, PhaseType DEF RoutedCommands
    <3> QED BY <3>1, <3>3 DEF Moved, CommandType
  <2> QED BY <2>1, <2>2
<1>15. CASE Install(c)
  <2>1. Rendered \in Texts BY DEF Texts
  <2>2. Routed([command[c] EXCEPT !.at = "cut", !.file = "include", !.text = Rendered])
    BY <1>15 DEF Install, Commands
  <2> QED BY <1>15, <2>1, <2>2, WritesMoves DEF Install
<1>16. CASE Ensure(c)
  <2>1. CASE Goes(c, "true") BY <2>1
  <2>2. CASE ~Goes(c, "true")
    <3>1. /\ ~Has("include", Lines(controller.config))
          /\ Writes(c, "config", <<"include">> \o Lines(controller.config))
      BY <1>16, <2>2 DEF Ensure
    <3>2. <<"include">> \o Lines(controller.config) \in Included
      <4>1. Lines(controller.config) \in Configs
        BY DEF Lines, HostType, Controllers, Configs
      <4>2. Lines(controller.config) \in {<<>>, <<"own">>} BY <3>1, <4>1 DEF Configs, Has
      <4> QED BY <4>2, IncludeFirst
    <3>3. <<"include">> \o Lines(controller.config) \in Texts BY <3>2 DEF Texts
    <3>4. Routed([command[c] EXCEPT !.at = "cut", !.file = "config",
                                    !.text = <<"include">> \o Lines(controller.config)])
      BY <1>16, <3>2 DEF Ensure, Commands
    <3> QED BY <3>1, <3>3, <3>4, WritesMoves
  <2> QED BY <2>1, <2>2
<1>17. CASE Cut(c)
  <2>1. Routed([command[c] EXCEPT !.at = "write"]) BY <1>17 DEF Cut, Commands
  <2> QED BY <1>17, <2>1 DEF Cut
<1>18. CASE Write(c)
  <2> DEFINE r == [command[c] EXCEPT !.file = None, !.text = <<>>]
  <2>1. command' = [command EXCEPT ![c] = At(r, AfterWrite(c))] BY <1>18 DEF Write
  <2>2. CASE AfterWrite(c) \in Ended BY <2>1, <2>2, OverIsRouted DEF Moved
  <2>3. CASE AfterWrite(c) \notin Ended
    <3>1. At(r, AfterWrite(c)) = [r EXCEPT !.at = AfterWrite(c)] BY <2>3 DEF At
    <3>2. AfterWrite(c) \in {"pub", "connect", "ensure"}
      BY <2>3 DEF AfterWrite, AfterRefresh
    <3>3. /\ r \in Commands /\ [r EXCEPT !.at = AfterWrite(c)] \in Commands
          /\ r.op = command[c].op /\ r.flag = command[c].flag /\ r.phase = command[c].phase
      BY <3>2, WrittenType
    <3>4. /\ AfterWrite(c) = "connect" => r.op \in Reaches
          /\ AfterWrite(c) = "pub" => r.op = "enroll"
          /\ AfterWrite(c) = "ensure" => r.op = "config"
      BY <1>18, <3>3 DEF Write, AfterWrite, AfterRefresh
    <3> DEFINE s == [r EXCEPT !.at = AfterWrite(c)]
    <3> HIDE DEF r
    <3>5. s.at = AfterWrite(c) /\ s.op = r.op /\ s.flag = r.flag /\ s.phase = r.phase
      BY <3>2, <3>3, PlaceType
    <3>6. command' = [command EXCEPT ![c] = s] /\ s \in Commands BY <2>1, <3>1, <3>3
    <3> HIDE DEF s
    <3>7. Routed(s) BY <3>2, <3>3, <3>4, <3>5
    <3> QED BY <3>6, <3>7 DEF Moved, RoutedCommands
  <2> QED BY <2>2, <2>3
<1>19. CASE Pick(c)
  <2>1. CASE Goes(c, "false") BY <2>1
  <2>2. CASE ~Goes(c, "false")
    <3>1. PICK p \in Choices : Writes(c, "options", <<p>>) BY <1>19, <2>2 DEF Pick
    <3>2. <<p>> \in Picked /\ <<p>> \in Texts BY DEF Picked, Texts
    <3>3. Routed([command[c] EXCEPT !.at = "cut", !.file = "options", !.text = <<p>>])
      BY <1>19, <3>2 DEF Pick, Commands
    <3> QED BY <3>1, <3>2, <3>3, WritesMoves
  <2> QED BY <2>1, <2>2
<1>20. CASE Resolve(c)
  <2>1. Saved \in Choices
    BY DEF Saved, Choices, HostType, Controllers, Picked
  <2>2. PICK sel \in Choices, given \in Choices \cup {None}, place \in {"keys", "play"} :
           command' = [command EXCEPT ![c].sel = sel, ![c].given = given, ![c].at = place]
    BY <1>20, <2>1 DEF Resolve, Commands
  <2>3. [command[c] EXCEPT !.sel = sel, !.given = given, !.at = place] \in RoutedCommands
    BY <1>20, ZenonT(40) DEF Resolve, RoutedCommands, Commands
  <2> QED BY <2>2, <2>3 DEF Moved, CommandType
<1>21. CASE Play(c)
  <2>1. CASE Goes(c, "false") BY <2>1
  <2>2. CASE ~Goes(c, "false")
    <3>1. command' = [command EXCEPT ![c].at = "base", ![c].changed = FALSE]
      BY <1>21, <2>2 DEF Play
    <3>2. Routed([command[c] EXCEPT !.at = "base", !.changed = FALSE])
      BY <1>21 DEF Play, Commands
    <3>3. [command[c] EXCEPT !.at = "base", !.changed = FALSE] \in RoutedCommands
      BY <3>2, ChangedType DEF RoutedCommands
    <3> QED BY <3>1, <3>3 DEF Moved, CommandType
  <2> QED BY <2>1, <2>2
<1>22. CASE Base(c)
  <2>1. PICK changed \in BOOLEAN, place \in {"look", "end"} :
           /\ command' = [command EXCEPT ![c].changed = changed, ![c].at = place]
           /\ place = "look" => command[c].sel # "none"
    BY <1>22 DEF Base, RunsRole
  <2>2. Routed([command[c] EXCEPT !.at = place, !.changed = changed])
    BY <1>22, <2>1 DEF Base, Commands
  <2>3. [command[c] EXCEPT !.at = place, !.changed = changed] \in RoutedCommands
    BY <2>2, ChangedType DEF RoutedCommands
  <2> DEFINE r == [command[c] EXCEPT !.at = place, !.changed = changed]
  <2>4. command' = [command EXCEPT ![c] = r] BY <2>1
  <2> HIDE DEF r
  <2> QED BY <2>3, <2>4 DEF Moved, r
<1>23. CASE Look(c)
  <2>1. \A place \in {"link", "record", "plugins", "end"} :
           Routed([command[c] EXCEPT !.at = place])
    BY <1>23 DEF Look, Commands
  <2>2. \E place \in {"link", "record", "plugins", "end", "false"} : Goes(c, place)
    BY <1>23 DEF Look, AfterRole
  <2> QED BY <2>1, <2>2
<1>25. CASE Link(c) BY <1>25, RoleMoves DEF Link, Does
<1>26. CASE Record(c) BY <1>26, RoleMoves DEF Record, Does, AfterRole
<1>b. CASE Plugins(c)
  <2>1. command[c].changed \in BOOLEAN BY DEF Commands
  <2>2. CASE Goes(c, "false") BY <2>2
  <2>3. CASE ~Goes(c, "false")
    <3>1. PICK changed \in BOOLEAN :
             command' = [command EXCEPT ![c].at = "end", ![c].changed = changed]
      BY <1>b, <2>1, <2>3 DEF Plugins
    <3> QED BY <1>b, <3>1, RoleMoves DEF Plugins
  <2> QED BY <2>2, <2>3
<1>27. CASE End(c)
  <2>1. CASE Goes(c, "true") \/ Goes(c, "false") BY <2>1
  <2>2. CASE ~(Goes(c, "true") \/ Goes(c, "false"))
    <3>1. PICK phase \in {"apply", "converge"} :
             command' = [command EXCEPT ![c].at = "keys", ![c].phase = phase]
      BY <1>27, <2>2 DEF End
    <3>2. command[c].op = "validate"
      <4>1. command[c].op \in Passes BY <1>27 DEF End
      <4>2. command[c].op # "bootstrap" BY <1>27, <2>2 DEF End
      <4> QED BY <4>1, <4>2
    <3>3. [command[c] EXCEPT !.at = "keys", !.phase = phase] \in RoutedCommands
      <4>1. Routed([command[c] EXCEPT !.at = "keys", !.phase = phase]) BY <3>2 DEF Commands
      <4> QED BY <4>1, PhaseType DEF RoutedCommands
    <3> QED BY <3>1, <3>3 DEF Moved, CommandType
  <2> QED BY <2>1, <2>2
<1>28. CASE Fails(c) BY <1>28 DEF Fails
<1> QED BY <1>4, <1>5, <1>6, <1>7, <1>8, <1>9, <1>10, <1>11, <1>12, <1>13, <1>14, <1>15, <1>16,
           <1>17, <1>18, <1>19, <1>20, <1>21, <1>22, <1>23, <1>25, <1>26, <1>b, <1>27, <1>28
        DEF Step, AccessStep

\* A step of a command moves no other command.
LEMMA OthersStay ==
  ASSUME IInv, NEW c \in Cmds, Step(c)
  PROVE  /\ CommandType' /\ Routed(command'[c])
         /\ \A d \in Cmds : d # c => command'[d] = command[d]
<1>1. PICK r \in RoutedCommands : command' = [command EXCEPT ![c] = r]
  BY StepMoves DEF Moved
<1> QED BY <1>1 DEF IInv, CommandType, RoutedCommands

\* But for the first and a failing one, a step is of a command at work and
\* leaves the history alone.
LEMMA Plain ==
  ASSUME NEW c \in Cmds, Step(c)
  PROVE  \/ Start(c) /\ ~Working(c) /\ starts < MaxStarts /\ starts' = starts + 1
            /\ UNCHANGED <<kind, controller, host, faults, events>>
            /\ calm' = [d \in Cmds |->
                  IF d = c THEN \A e \in Cmds : ~Working(e) ELSE calm[d] /\ ~Working(d)]
         \/ Fails(c)
         \/ ~Start(c) /\ Working(c) /\ UNCHANGED history
<1> USE DEF history, Working, Ended
<1>1. CASE Start(c)
  BY <1>1, Zenon DEF Start, Starts, StartKey, StartConfig, StartSsh, StartSecrets, StartDoctor,
     StartValidate, StartBootstrap, StartPick
<1>2. CASE Fails(c) BY <1>2
<1>3. CASE ~Start(c) /\ AccessStep(c)
  BY <1>3 DEF AccessStep, Keys, Keygen, Keypub, Pub, Runtime, Scan, Enrol, Session, Shell, Probe,
     Answered, Install, Ensure, Cut, Write
<1>4. CASE ~Start(c) /\ (Pick(c) \/ Resolve(c) \/ Play(c) \/ Base(c) \/ Look(c) \/ Link(c)
                         \/ Record(c) \/ Plugins(c) \/ End(c))
  BY <1>4 DEF Pick, Resolve, Play, Base, Look, Link, Record, Plugins, Does, End
<1> QED BY <1>1, <1>2, <1>3, <1>4 DEF Step

\* The history keeps its type and the machine its place in it.
LEMMA HistoryStep ==
  ASSUME IInv, NEW c \in Cmds, Step(c), host'.id = host.id
  PROVE  HistoryType'
<1>1. HistoryType BY DEF IInv
<1>2. calm' \in [Cmds -> BOOLEAN]
  <2>1. calm \in [Cmds -> BOOLEAN] BY <1>1 DEF HistoryType
  <2> QED BY <2>1, Plain, Zenon DEF Fails, history
<1>3. starts' \in 0..MaxStarts /\ faults' \in 0..MaxFaults /\ events' = events
  <2>1. CASE starts < MaxStarts /\ starts' = starts + 1 /\ UNCHANGED <<faults, events>>
    BY <1>1, <2>1, HostAssumption DEF HistoryType
  <2>2. CASE Fails(c) BY <1>1, <2>2, HostAssumption DEF HistoryType, Fails
  <2>3. CASE UNCHANGED history BY <1>1, <2>3 DEF HistoryType, history
  <2> QED BY <2>1, <2>2, <2>3, Plain
<1> QED BY <1>1, <1>2, <1>3 DEF HistoryType

\* What a step does to the files and to the machine.
LEMMA FileStep ==
  ASSUME IInv, NEW c \in Cmds, Step(c)
  PROVE  /\ kind' = kind
         /\ \/ UNCHANGED controller
            \/ Keygen(c) /\ controller' = [controller EXCEPT !.key = "private"]
            \/ Keypub(c) /\ controller' = [controller EXCEPT !.key = "pair"]
            \/ Cut(c) \/ Write(c)
         /\ \/ UNCHANGED host
            \/ Enrol(c) /\ host' = [host EXCEPT !.authorized = TRUE]
            \/ Base(c) /\ \E b \in Converges(c) : host' = [host EXCEPT !.base = b]
            \/ Link(c) \/ Record(c) \/ End(c)
<1> USE DEF history
<1>1. HostType BY DEF IInv
<1>2. CASE Start(c) BY <1>2, Plain DEF Fails
<1>3. CASE Keys(c) \/ Pub(c) \/ Runtime(c) \/ Scan(c) \/ Session(c) \/ Shell(c) \/ Probe(c)
           \/ Install(c) \/ Ensure(c)
  BY <1>3 DEF Keys, Pub, Runtime, Scan, Session, Shell, Probe, Install, Ensure
<1>4. CASE Keygen(c) \/ Keypub(c) BY <1>4 DEF Keygen, Keypub
<1>5. CASE Enrol(c) BY <1>1, <1>5 DEF Enrol, HostType, Machines
<1>6. CASE Cut(c) \/ Write(c) BY <1>6 DEF Cut, Write
<1>7. CASE Pick(c) \/ Resolve(c) \/ Play(c) \/ Look(c) \/ Plugins(c)
  BY <1>7 DEF Pick, Resolve, Play, Look, Plugins
<1>8. CASE Base(c) BY <1>8 DEF Base
<1>9. CASE Link(c) \/ Record(c) \/ End(c) BY <1>9 DEF Link, Record, End, Does
<1>10. CASE Fails(c) BY <1>10 DEF Fails
<1> QED BY <1>2, <1>3, <1>4, <1>5, <1>6, <1>7, <1>8, <1>9, <1>10 DEF Step, AccessStep

\* A command that goes to a place is there, with what it carried.
LEMMA GoesTo ==
  ASSUME CommandType, NEW c \in Cmds, NEW place, Goes(c, place)
  PROVE  /\ command'[c].at = place
         /\ place \notin Ended => command'[c] = [command[c] EXCEPT !.at = place]
<1>1. command[c] \in Commands /\ command'[c] = At(command[c], place) BY DEF CommandType, Goes
<1>2. CASE place \in Ended BY <1>1, <1>2 DEF At, Fresh
<1>3. CASE place \notin Ended BY <1>1, <1>3 DEF At, Commands
<1> QED BY <1>2, <1>3

\* A command that begins to write does not end.
LEMMA CutIsNoEnd ==
  ASSUME CommandType, NEW c \in Cmds, command'[c].at = "cut"
  PROVE  ~Goes(c, "true") /\ ~Goes(c, "false")
<1>1. ASSUME NEW place \in {"true", "false"}, Goes(c, place) PROVE FALSE
  <2>1. command'[c].at = place BY <1>1, GoesTo
  <2> QED BY <1>1, <2>1
<1> QED BY <1>1

\* A command that goes on does not fail.
LEMMA OnIsNoFailure ==
  ASSUME CommandType, NEW c \in Cmds, command'[c].at # "false"
  PROVE  ~Goes(c, "false")
<1>1. ASSUME Goes(c, "false") PROVE FALSE
  <2>1. command'[c].at = "false" BY <1>1, GoesTo
  <2> QED BY <2>1
<1> QED BY <1>1

\* The actions that lead to each place.
LEMMA PlacesFrom ==
  ASSUME IInv, NEW c \in Cmds, Step(c)
  PROVE  /\ command'[c].at \in {"look", "link", "record", "plugins", "end"} =>
               Base(c) \/ Look(c) \/ Link(c) \/ Record(c) \/ Plugins(c)
         /\ command'[c].at = "base" => Play(c)
         /\ (command'[c].at = "play" /\ command'[c].op = "validate") => Resolve(c)
         /\ command'[c].at = "keygen" => Keys(c)
         /\ command'[c].at \in {"pub", "connect"} =>
               ~Managed \/ Pub(c) \/ (Write(c) /\ command[c].file = "known")
         /\ command'[c].at = "cut" => Scan(c) \/ Install(c) \/ Ensure(c) \/ Pick(c)
         /\ command'[c].at = "write" => Cut(c)
         /\ command'[c].at = "install" => StartConfig(c)
         /\ command'[c].at = "ensure" =>
               StartConfig(c) \/ (Write(c) /\ command[c].file = "include")
<1>1. CommandType /\ Routed(command[c]) BY DEF IInv, CommandInv
<1>2. command[c] \in Commands BY <1>1 DEF CommandType
<1>a. command[c].op \in Ops BY <1>2 DEF Commands
<1> USE <1>1, <1>2, <1>a
    DEF CommandType, Goes, At, Fresh, Ended, Ops, Routed, Passes, Reaches, Reaching, Playing
<1>3. CASE Start(c)
  <2> USE DEF Starts
  <2>1. CASE StartKey(c) BY <2>1 DEF StartKey
  <2>2. CASE StartConfig(c)
    <3>1. command'[c].at \in {"install", "ensure"} BY <2>2 DEF StartConfig
    <3> QED BY <2>2, <3>1
  <2>3. CASE StartSsh(c) BY <2>3 DEF StartSsh
  <2>4. CASE StartSecrets(c) BY <2>4 DEF StartSecrets
  <2>5. CASE StartDoctor(c) BY <2>5 DEF StartDoctor
  <2>6. CASE StartValidate(c) BY <2>6 DEF StartValidate
  <2>7. CASE StartBootstrap(c) BY <2>7 DEF StartBootstrap
  <2>8. CASE StartPick(c) BY <2>8 DEF StartPick
  <2> QED BY <1>3, <2>1, <2>2, <2>3, <2>4, <2>5, <2>6, <2>7, <2>8 DEF Start
<1>4. CASE Keys(c) BY <1>4 DEF Keys, AfterKeys, Refresh
<1>5. CASE Keygen(c)
  <2>1. CASE Goes(c, "keypub") BY <2>1
  <2>2. CASE Goes(c, "false") BY <2>2
  <2> QED BY <1>5, <2>1, <2>2 DEF Keygen
<1>6. CASE Keypub(c) BY <1>6 DEF Keypub, AfterKeys, Refresh
<1>7. CASE Pub(c) BY <1>7 DEF Pub
<1>8. CASE Runtime(c) BY <1>8 DEF Runtime, Refresh
<1>9. CASE Scan(c) BY <1>9 DEF Scan, Writes
<1>10. CASE Enrol(c) \/ Session(c) \/ Shell(c)
  <2>1. Goes(c, "true") \/ Goes(c, "false")
    BY <1>10 DEF Enrol, Session, Shell, Answered
  <2> QED BY <2>1
<1>11. CASE Probe(c)
  <2>1. CASE Goes(c, "true") \/ Goes(c, "false") BY <2>1
  <2>2. CASE ~(Goes(c, "true") \/ Goes(c, "false"))
    <3>1. command' = [command EXCEPT ![c].at = "keys", ![c].phase = "check"]
      BY <1>11, <2>2 DEF Probe, Answered
    <3> QED BY <1>11, <3>1
  <2> QED BY <2>1, <2>2
<1>12. CASE Install(c) BY <1>12 DEF Install, Writes
<1>13. CASE Ensure(c)
  <2>1. CASE Goes(c, "true") BY <2>1
  <2>2. CASE ~(Goes(c, "true"))
    <3>1. Writes(c, "config", <<"include">> \o Lines(controller.config))
      BY <1>13, <2>2 DEF Ensure
    <3> QED BY <1>13, <3>1 DEF Writes
  <2> QED BY <2>1, <2>2
<1>14. CASE Cut(c) BY <1>14 DEF Cut
<1>15. CASE Write(c) BY <1>15 DEF Write, AfterWrite, AfterRefresh
<1>16. CASE Pick(c)
  <2>1. CASE Goes(c, "false") BY <2>1
  <2>2. CASE ~(Goes(c, "false"))
    <3>1. \E p \in Choices : Writes(c, "options", <<p>>)
      BY <1>16, <2>2 DEF Pick
    <3> QED BY <1>16, <3>1 DEF Writes
  <2> QED BY <2>1, <2>2
<1>17. CASE Resolve(c) BY <1>17 DEF Resolve
<1>18. CASE Play(c)
  <2>1. CASE Goes(c, "false") BY <2>1
  <2>2. CASE ~(Goes(c, "false"))
    <3>1. command' = [command EXCEPT ![c].at = "base", ![c].changed = FALSE]
      BY <1>18, <2>2 DEF Play
    <3> QED BY <1>18, <3>1
  <2> QED BY <2>1, <2>2
<1>19. CASE Base(c) BY <1>19 DEF Base
<1>20. CASE Look(c)
  <2>1. \A place \in {"link", "record", "plugins", "end", "false"} :
           Goes(c, place) => command'[c].at = place
    OBVIOUS
  <2>2. command'[c].at \in {"link", "record", "plugins", "end", "false"}
    BY <1>20, <2>1 DEF Look, AfterRole
  <2> QED BY <1>20, <2>2
<1>21. CASE Link(c) \/ Record(c) \/ Plugins(c)
  <2>1. CASE Link(c)
    <3>1. command'[c].at = "record" BY <2>1 DEF Link, Does
    <3> QED BY <2>1, <3>1
  <2>2. CASE Record(c)
    <3>1. command'[c].at \in {"plugins", "end"} BY <2>2 DEF Record, Does, AfterRole
    <3> QED BY <2>2, <3>1
  <2>3. CASE Plugins(c)
    <3>1. CASE Goes(c, "false") BY <3>1
    <3>2. CASE ~Goes(c, "false")
      <4>1. PICK changed : command' = [command EXCEPT ![c].at = "end", ![c].changed = changed]
        BY <2>3, <3>2 DEF Plugins
      <4>2. command'[c].at = "end" BY <4>1 DEF Commands
      <4> QED BY <2>3, <4>2
    <3> QED BY <3>1, <3>2
  <2> QED BY <1>21, <2>1, <2>2, <2>3
<1>22. CASE End(c)
  <2>1. CASE Goes(c, "true") \/ Goes(c, "false") BY <2>1
  <2>2. CASE ~(Goes(c, "true") \/ Goes(c, "false"))
    <3>1. \E phase \in {"apply", "converge"} :
             command' = [command EXCEPT ![c].at = "keys", ![c].phase = phase]
      BY <1>22, <2>2 DEF End
    <3> QED BY <1>22, <3>1
  <2> QED BY <2>1, <2>2
<1>23. CASE Fails(c) BY <1>23 DEF Fails
<1> QED BY <1>3, <1>4, <1>5, <1>6, <1>7, <1>8, <1>9, <1>10, <1>11, <1>12, <1>13, <1>14, <1>15,
           <1>16, <1>17, <1>18, <1>19, <1>20, <1>21, <1>22, <1>23 DEF Step, AccessStep

\* Files and machine keep their types.
LEMMA HostStep ==
  ASSUME IInv, NEW c \in Cmds, Step(c)
  PROVE  HostType' /\ host'.id = host.id
<1>1. HostType /\ CommandType /\ Routed(command[c]) BY DEF IInv, CommandInv
<1>2. controller' \in Controllers
  <2>1. CASE UNCHANGED controller BY <1>1, <2>1 DEF HostType
  <2>2. CASE Keygen(c) /\ controller' = [controller EXCEPT !.key = "private"]
    BY <1>1, <2>2 DEF HostType, Controllers
  <2>3. CASE Keypub(c) /\ controller' = [controller EXCEPT !.key = "pair"]
    BY <1>1, <2>3 DEF HostType, Controllers
  <2>4. ASSUME Cut(c) \/ Write(c) PROVE controller' \in Controllers
    <3> DEFINE text == IF Cut(c) THEN <<>> ELSE command[c].text
    <3>1. controller' = [controller EXCEPT ![command[c].file] = text]
      BY <2>4 DEF Cut, Write
    <3>2. Whole(command[c].file, command[c].text)
      BY <1>1, <2>4 DEF Routed, Cut, Write
    <3>3. <<>> \in Configs BY DEF Configs
    <3>4. Included \subseteq Configs BY DEF Included, Configs
    <3> HIDE DEF text
    <3>5. CASE command[c].file = "known"
      <4>1. text \in Knowns \cup {<<>>} BY <3>2, <3>5 DEF Whole, text
      <4> QED BY <1>1, <3>1, <3>5, <4>1 DEF HostType, Controllers
    <3>6. CASE command[c].file = "config"
      <4>1. text \in Configs BY <3>2, <3>3, <3>4, <3>6 DEF Whole, text
      <4> QED BY <1>1, <3>1, <3>6, <4>1 DEF HostType, Controllers
    <3>7. CASE command[c].file = "include"
      <4>1. text \in {<<>>, Rendered} BY <3>2, <3>7 DEF Whole, text
      <4> QED BY <1>1, <3>1, <3>7, <4>1 DEF HostType, Controllers
    <3>8. CASE command[c].file = "options"
      <4>1. text \in Picked \cup {<<>>} BY <3>2, <3>8 DEF Whole, text
      <4> QED BY <1>1, <3>1, <3>8, <4>1 DEF HostType, Controllers
    <3> QED BY <3>2, <3>5, <3>6, <3>7, <3>8 DEF Whole
  <2> QED BY <2>1, <2>2, <2>3, <2>4, FileStep
<1>3. host' \in Machines /\ host'.id = host.id
  <2>1. host \in Machines BY <1>1 DEF HostType
  <2>2. command[c].sel \in Choices BY <1>1 DEF CommandType, Commands
  <2>3. CASE UNCHANGED host BY <2>1, <2>3
  <2>4. CASE host' = [host EXCEPT !.authorized = TRUE] BY <2>1, <2>4 DEF Machines
  <2>5. CASE \E b \in Converges(c) : host' = [host EXCEPT !.base = b]
    BY <2>1, <2>5 DEF Machines, Converges
  <2>6. CASE Link(c)
    <3>1. command[c].sel \in Profiles
      BY <1>1, <2>2, <2>6 DEF Link, Routed, Choices
    <3> QED BY <2>1, <2>2, <2>6, <3>1 DEF Link, Does, Machines
  <2>7. CASE Record(c)
    <3>1. command[c].sel \in Profiles
      BY <1>1, <2>2, <2>7 DEF Record, Routed, Choices
    <3> QED BY <2>1, <2>7, <3>1 DEF Record, Does, Machines
  <2>8. CASE End(c)
    <3>1. Honoured(c) \in Profiles \cup {None} BY <2>1 DEF Honoured, Machines
    <3> QED BY <2>1, <2>8, <3>1 DEF End, Machines
  <2> QED BY <2>3, <2>4, <2>5, <2>6, <2>7, <2>8, FileStep
<1> QED BY <1>1, <1>2, <1>3, FileStep DEF HostType

\* What every pass kept to stays what the host records,
LEMMA HonestStep ==
  ASSUME IInv, NEW c \in Cmds, Step(c)
  PROVE  Honest'
<1>1. Honest /\ host \in Machines BY DEF IInv, HostType
<1>2. CASE UNCHANGED host BY <1>1, <1>2 DEF Honest
<1>3. CASE host' = [host EXCEPT !.authorized = TRUE] BY <1>1, <1>3 DEF Honest, Machines
<1>4. CASE \E b \in Converges(c) : host' = [host EXCEPT !.base = b]
  BY <1>1, <1>4 DEF Honest, Machines
<1>5. CASE Link(c) \/ Record(c) BY <1>1, <1>5 DEF Honest, Machines, Link, Record, Does
<1>6. CASE End(c) BY <1>1, <1>6 DEF Honest, Machines, End, Honoured
<1> QED BY <1>2, <1>3, <1>4, <1>5, <1>6, FileStep

\* and a base that has converged stays so.
LEMMA BaseStays ==
  ASSUME IInv, NEW c \in Cmds, Step(c), host.base = "done"
  PROVE  host'.base = "done"
<1>1. host \in Machines BY DEF IInv, HostType
<1>2. CASE \E b \in Converges(c) : host' = [host EXCEPT !.base = b]
  BY <1>1, <1>2 DEF Converges, Machines
<1>3. CASE Link(c) \/ Record(c) \/ End(c) BY <1>1, <1>3 DEF Machines, Link, Record, Does, End
<1>4. CASE host' = [host EXCEPT !.authorized = TRUE] BY <1>1, <1>4 DEF Machines
<1> QED BY <1>2, <1>3, <1>4, FileStep

\* A pass that goes on without a change found the base converged.
LEMMA SeenStep ==
  ASSUME IInv, NEW c \in Cmds, Step(c)
  PROVE  Seen(c)'
<1>1. CommandType /\ Seen(c) /\ Routed(command[c]) BY DEF IInv, CommandInv
<1>2. SUFFICES ASSUME command'[c].at \in {"look", "link", "record", "plugins", "end"},
                      ~command'[c].changed
      PROVE  host'.base = "done"
  BY DEF Seen
<1>3. CASE Base(c)
  <2>1. host.base = "done" BY <1>1, <1>2, <1>3 DEF Base, CommandType, Commands
  <2> QED BY <2>1, BaseStays
<1>4. CASE Look(c)
  <2>1. command[c].at = "look" /\ ~command[c].changed
    <3>1. PICK place : Goes(c, place) BY <1>4 DEF Look
    <3>2. place \notin Ended BY <1>1, <1>2, <3>1, GoesTo DEF Ended
    <3>3. command'[c] = [command[c] EXCEPT !.at = place] BY <1>1, <3>1, <3>2, GoesTo
    <3> QED BY <1>1, <1>2, <1>4, <3>3 DEF Look, CommandType, Commands
  <2> QED BY <1>1, <2>1, BaseStays DEF Seen
<1>5. CASE Link(c) \/ Record(c)
  BY <1>1, <1>2, <1>5 DEF Link, Record, Does, CommandType, Commands
<1>6. CASE Plugins(c)
  <2>1. ~Goes(c, "false") BY <1>1, <1>2, OnIsNoFailure
  <2>2. PICK cloned \in BOOLEAN :
           command' = [command EXCEPT ![c].at = "end", ![c].changed = @ \/ cloned]
    BY <1>6, <2>1 DEF Plugins
  <2>3. command'[c].changed = (command[c].changed \/ cloned)
    BY <1>1, <2>2, Zenon DEF CommandType, Commands
  <2> QED BY <1>1, <1>2, <1>6, <2>3, BaseStays DEF Plugins, Seen
<1>7. CASE ~(Base(c) \/ Look(c) \/ Link(c) \/ Record(c) \/ Plugins(c))
  BY <1>1, <1>2, <1>7, PlacesFrom
<1> QED BY <1>3, <1>4, <1>5, <1>6, <1>7

\* Commands that are calm and at work are alone.
LEMMA AloneStep ==
  ASSUME IInv, NEW c \in Cmds, Step(c), NEW d \in Cmds
  PROVE  Alone(d)'
<1>1. SUFFICES ASSUME calm'[d], (Working(d))', NEW e \in Cmds, (Working(e))' PROVE e = d
  BY DEF Alone
<1>2. HistoryType /\ Alone(c) /\ Alone(d) BY DEF IInv, CommandInv
<1>3. calm \in [Cmds -> BOOLEAN] BY <1>2 DEF HistoryType
<1>4. \A x \in Cmds : x # c => (Working(x))' = Working(x) BY OthersStay DEF Working
<1>5. CASE Start(c) /\ ~Working(c) /\ calm' = [x \in Cmds |->
              IF x = c THEN \A y \in Cmds : ~Working(y) ELSE calm[x] /\ ~Working(x)]
  BY <1>1, <1>4, <1>5, Zenon
<1>6. CASE Working(c) /\ (calm'[d] => calm[d])
  <2>1. \A x \in Cmds : (Working(x))' => Working(x) BY <1>4, <1>6
  <2> QED BY <1>1, <1>2, <1>6, <2>1 DEF Alone
<1>7. Fails(c) => (Working(c) /\ (calm'[d] => calm[d])) BY <1>3 DEF Fails
<1> QED BY <1>5, <1>6, <1>7, Plain DEF history

\* A command that is calm after its own step made no false one.
LEMMA CalmStep ==
  ASSUME IInv, NEW c \in Cmds, Step(c), ~Start(c), calm'[c]
  PROVE  calm[c] /\ ~Fails(c) /\ Working(c) /\ UNCHANGED history
<1>1. calm \in [Cmds -> BOOLEAN] BY DEF IInv, HistoryType
<1>2. ~Fails(c) BY <1>1 DEF Fails
<1> QED BY <1>2, Plain DEF history

\* A command at a place of its work does not start.
LEMMA AtWork ==
  ASSUME NEW c \in Cmds, Working(c)
  PROVE  ~Start(c)
  BY DEF Start, Starts, StartKey, StartConfig, StartSsh, StartSecrets, StartDoctor,
         StartValidate, StartBootstrap, StartPick

\* A command that is not at work has nothing to keep.
LEMMA NothingLearnt ==
  ASSUME NEW c \in Cmds, ~(Working(c))'
  PROVE  Learnt(c)'
  BY DEF Working, Learnt, Keyless, Pinned, Unblocked, Selected, Applied, OwnSafe, Writing, Ended,
         Playing

\* Another command's step finds no calm one at work.
LEMMA OtherLearnt ==
  ASSUME IInv, NEW c \in Cmds, Step(c), NEW d \in Cmds, d # c
  PROVE  Learnt(d)'
<1>1. SUFFICES ASSUME calm'[d] PROVE ~(Working(d))'
  BY NothingLearnt DEF Learnt
<1>2. (Working(d))' = Working(d) BY OthersStay DEF Working
<1>3. calm \in [Cmds -> BOOLEAN] /\ Alone(d) BY DEF IInv, HistoryType, CommandInv
<1>4. CASE calm' = [x \in Cmds |->
              IF x = c THEN \A y \in Cmds : ~Working(y) ELSE calm[x] /\ ~Working(x)]
  BY <1>1, <1>2, <1>4, Zenon
<1>5. CASE Working(c) /\ calm'[d] = calm[d]
  BY <1>1, <1>2, <1>3, <1>5 DEF Alone
<1>6. Fails(c) => Working(c) /\ calm'[d] = calm[d] BY <1>3 DEF Fails
<1> QED BY <1>4, <1>5, <1>6, Plain DEF history

\* A command learns that there is no key, and makes one at once.
LEMMA KeylessStep ==
  ASSUME IInv, NEW c \in Cmds, Step(c)
  PROVE  Keyless(c)'
<1>1. SUFFICES ASSUME command'[c].at = "keygen" PROVE controller'.key = "none"
  BY DEF Keyless
<1>2. Keys(c) BY <1>1, PlacesFrom
<1>3. controller.key = "none"
  <2>1. ASSUME controller.key # "none" PROVE FALSE
    <3>1. Goes(c, AfterKeys(c)) BY <1>2, <2>1 DEF Keys
    <3>2. AfterKeys(c) = "keygen" BY <1>1, <3>1, GoesTo DEF IInv
    <3>3. command[c].op \in Ops BY DEF IInv, CommandType, Commands
    <3> QED BY <3>2, <3>3 DEF AfterKeys, Refresh, Ops, Reaching
  <2> QED BY <2>1
<1> QED BY <1>2, <1>3 DEF Keys

\* The host key that is scanned is pinned whole before it is used.
LEMMA PinnedStep ==
  ASSUME IInv, NEW c \in Cmds, Step(c), calm'[c]
  PROVE  Pinned(c)'
<1>1. CommandType /\ HostType /\ Routed(command[c]) /\ (calm[c] => Pinned(c))
  BY DEF IInv, CommandInv, Learnt
<1>2. host'.id = host.id /\ kind' = kind BY HostStep, FileStep
<1>3. SUFFICES ASSUME Managed
      PROVE  /\ (Writing(c, "known"))' => command'[c].text = <<host.id>>
             /\ command'[c].at \in {"pub", "connect"} => controller'.known = <<host.id>>
  BY <1>2 DEF Pinned, Managed
<1>4. CASE command'[c].at = "cut"
  <2>1. Scan(c) \/ Install(c) \/ Ensure(c) \/ Pick(c) BY <1>4, PlacesFrom
  <2>2. command'[c].file = "known" => command'[c].text = <<host.id>>
    <3>1. CASE Scan(c) BY <1>1, <3>1, WritesWhat DEF Scan
    <3>2. CASE Install(c) BY <1>1, <3>2, WritesWhat DEF Install
    <3>3. CASE Ensure(c)
      <4>1. ~Goes(c, "true") BY <1>1, <1>4, CutIsNoEnd
      <4>2. Writes(c, "config", <<"include">> \o Lines(controller.config))
        BY <3>3, <4>1 DEF Ensure
      <4> QED BY <1>1, <4>2, WritesWhat
    <3>4. CASE Pick(c)
      <4>1. ~Goes(c, "false") BY <1>1, <1>4, CutIsNoEnd
      <4>2. \E p \in Choices : Writes(c, "options", <<p>>) BY <3>4, <4>1 DEF Pick
      <4> QED BY <1>1, <4>2, WritesWhat
    <3> QED BY <2>1, <3>1, <3>2, <3>3, <3>4
  <2> QED BY <1>4, <2>2 DEF Writing
<1>5. CASE command'[c].at = "write"
  <2>1. Cut(c) BY <1>5, PlacesFrom
  <2>2. command'[c] = [command[c] EXCEPT !.at = "write"]
    BY <1>1, <2>1, GoesTo DEF Cut, Ended
  <2>3. calm[c] BY <2>1, CalmStep, AtWork DEF Cut, Working, Ended
  <2> QED BY <1>1, <1>3, <1>5, <2>1, <2>2, <2>3 DEF Pinned, Writing, Cut, CommandType, Commands
<1>6. CASE command'[c].at \in {"pub", "connect"}
  <2>1. CASE Pub(c)
    <3>1. calm[c] /\ command[c].at = "pub" BY <2>1, CalmStep, AtWork DEF Pub, Working, Ended
    <3> QED BY <1>1, <1>3, <1>6, <2>1, <3>1 DEF Pinned, Pub, Writing
  <2>2. CASE Write(c) /\ command[c].file = "known"
    <3>1. calm[c] /\ command[c].at = "write" BY <2>2, CalmStep, AtWork DEF Write, Working, Ended
    <3>2. command[c].text = <<host.id>> BY <1>1, <1>3, <2>2, <3>1 DEF Pinned, Writing
    <3>3. controller' = [controller EXCEPT !.known = command[c].text] BY <2>2 DEF Write
    <3> QED BY <1>1, <1>6, <3>2, <3>3 DEF Writing, HostType, Controllers
  <2> QED BY <1>3, <1>6, <2>1, <2>2, PlacesFrom
<1> QED BY <1>4, <1>5, <1>6 DEF Writing
\* The role goes on to link when nothing is in the way.
LEMMA UnblockedStep ==
  ASSUME IInv, NEW c \in Cmds, Step(c)
  PROVE  Unblocked(c)'
<1>1. SUFFICES ASSUME command'[c].at = "link"
      PROVE  ~Blocked' /\ host'.applied # command'[c].sel
  BY DEF Unblocked
<1>2. CommandType BY DEF IInv
<1>3. CASE Look(c)
  <2>1. ASSUME NEW place, Goes(c, place) PROVE place = "link" BY <1>1, <1>2, <2>1, GoesTo
  <2>2. ~Blocked /\ Relinks(c) /\ Goes(c, "link") BY <1>3, <2>1 DEF Look, AfterRole
  <2>3. command'[c] = [command[c] EXCEPT !.at = "link"] BY <1>2, <2>2, GoesTo DEF Ended
  <2> QED BY <1>2, <1>3, <2>2, <2>3 DEF Look, Relinks, Blocked, CommandType, Commands
<1>4. CASE Base(c)
  BY <1>1, <1>2, <1>4 DEF Base, CommandType, Commands
<1>5. CASE Link(c) BY <1>1, <1>2, <1>5 DEF Link, Does, CommandType, Commands
<1>6. CASE Record(c) BY <1>1, <1>2, <1>6 DEF Record, Does, AfterRole, CommandType, Commands
<1>7. CASE Plugins(c)
  <2>1. ~Goes(c, "false") BY <1>1, <1>2, OnIsNoFailure
  <2> QED BY <1>1, <1>2, <1>7, <2>1 DEF Plugins, CommandType, Commands
<1> QED BY <1>1, <1>3, <1>4, <1>5, <1>6, <1>7, PlacesFrom

\* The options that are saved change only as a file that is written.
LEMMA SavedStays ==
  ASSUME IInv, NEW c \in Cmds, Step(c), ~Cut(c), ~Write(c)
  PROVE  Saved' = Saved
<1>1. controller \in Controllers BY DEF IInv, HostType
<1>2. controller'.options = controller.options
  BY <1>1, FileStep DEF Controllers
<1> QED BY <1>2 DEF Saved

\* A pass keeps the selection that it was resolved with.
LEMMA SelectedStep ==
  ASSUME IInv, NEW c \in Cmds, Step(c), calm'[c]
  PROVE  Selected(c)'
<1>1. CommandType /\ Routed(command[c]) /\ (calm[c] => Selected(c))
  BY DEF IInv, CommandInv, Learnt
<1>2. SUFFICES ASSUME command'[c].op = "validate", command'[c].at \in {"play"} \cup Playing
      PROVE  command'[c].sel = IF command'[c].given # None THEN command'[c].given ELSE Saved'
  BY DEF Selected, Selection
<1>3. command[c] \in Commands BY <1>1 DEF CommandType
<1>4. CASE Resolve(c)
  <2>1. Saved' = Saved BY <1>4, SavedStays DEF Resolve, Cut, Write
  <2>2. /\ command'[c].sel = IF command[c].given # None THEN command[c].given ELSE Saved
        /\ command'[c].given = command[c].given
    BY <1>1, <1>2, <1>3, <1>4 DEF Resolve, CommandType, Commands
  <2> QED BY <2>1, <2>2
<1>5. ASSUME command[c].at \in {"play"} \cup Playing, command'[c].op = command[c].op,
             command'[c].sel = command[c].sel, command'[c].given = command[c].given
      PROVE  command'[c].sel = IF command'[c].given # None THEN command'[c].given ELSE Saved'
  <2>1. ~Cut(c) /\ ~Write(c) BY <1>5 DEF Cut, Write, Playing
  <2>2. Working(c) BY <1>5 DEF Working, Ended, Playing
  <2>3. calm[c] BY <2>2, CalmStep, AtWork
  <2> QED BY <1>1, <1>2, <1>5, <2>1, <2>3, SavedStays DEF Selected, Selection
<1>6. CASE Play(c)
  <2>1. ~Goes(c, "false") BY <1>1, <1>2, OnIsNoFailure DEF Playing
  <2>2. command' = [command EXCEPT ![c].at = "base", ![c].changed = FALSE]
    BY <1>6, <2>1 DEF Play
  <2> QED BY <1>1, <1>3, <1>5, <1>6, <2>2 DEF Play, CommandType, Commands
<1>7. CASE Base(c)
  BY <1>1, <1>3, <1>5, <1>7 DEF Base, Playing, CommandType, Commands
<1>8. CASE Look(c)
  <2>1. PICK place : Goes(c, place) BY <1>8 DEF Look
  <2>2. place \notin Ended BY <1>1, <1>2, <2>1, GoesTo DEF Playing, Ended
  <2>3. command'[c] = [command[c] EXCEPT !.at = place] BY <1>1, <2>1, <2>2, GoesTo
  <2> QED BY <1>3, <1>5, <1>8, <2>3 DEF Look, Playing, Commands
<1>9. CASE Link(c)
  BY <1>1, <1>3, <1>5, <1>9 DEF Link, Does, Playing, CommandType, Commands
<1>10. CASE Record(c)
  BY <1>1, <1>3, <1>5, <1>10 DEF Record, Does, Playing, CommandType, Commands
<1>11. CASE Plugins(c)
  <2>1. ~Goes(c, "false") BY <1>1, <1>2, OnIsNoFailure DEF Playing
  <2> QED BY <1>1, <1>3, <1>5, <1>11, <2>1 DEF Plugins, Playing, CommandType, Commands
<1> QED BY <1>2, <1>4, <1>6, <1>7, <1>8, <1>9, <1>10, <1>11, PlacesFrom DEF Playing

\* A pass ends with its selection applied, or with a reason not to.
LEMMA AppliedStep ==
  ASSUME IInv, NEW c \in Cmds, Step(c), calm'[c]
  PROVE  Applied(c)'
<1>1. CommandType /\ HostType BY DEF IInv
<1>2. SUFFICES ASSUME command'[c].at \in {"plugins", "end"}, command'[c].phase # "check"
      PROVE  command'[c].sel = "none" \/ Blocked' \/ host'.applied = command'[c].sel
  BY DEF Applied
<1>3. command[c] \in Commands BY <1>1 DEF CommandType
<1>4. CASE Base(c)
  <2>1. command[c].sel = "none"
    BY <1>1, <1>2, <1>3, <1>4 DEF Base, RunsRole, CommandType, Commands
  <2> QED BY <1>1, <1>3, <1>4, <2>1 DEF Base, CommandType, Commands
<1>5. CASE Look(c)
  <2>1. ASSUME NEW place, Goes(c, place) PROVE place \in {"plugins", "end"}
    BY <1>1, <1>2, <2>1, GoesTo
  <2>2. PICK place \in {"plugins", "end"} :
           Goes(c, place) /\ (Blocked \/ Dry(c) \/ host.applied = command[c].sel)
    BY <1>5, <2>1 DEF Look, AfterRole
  <2>3. command'[c] = [command[c] EXCEPT !.at = place] BY <1>1, <2>2, GoesTo DEF Ended
  <2> QED BY <1>2, <1>3, <1>5, <2>2, <2>3 DEF Look, Dry, Blocked, Commands
<1>6. CASE Record(c)
  BY <1>1, <1>3, <1>6 DEF Record, Does, CommandType, Commands, HostType, Machines
<1>7. CASE Link(c) BY <1>1, <1>2, <1>3, <1>7 DEF Link, Does, CommandType, Commands
<1>8. CASE Plugins(c)
  <2>1. ~Goes(c, "false") BY <1>1, <1>2, OnIsNoFailure
  <2>2. calm[c] BY <1>8, CalmStep, AtWork DEF Plugins, Working, Ended
  <2>3. Applied(c) /\ UNCHANGED host BY <1>8, <2>2 DEF IInv, CommandInv, Learnt, Plugins
  <2>4. command'[c].sel = command[c].sel /\ command'[c].phase = command[c].phase
    BY <1>1, <1>3, <1>8, <2>1 DEF Plugins, CommandType, Commands
  <2> QED BY <1>2, <1>8, <2>3, <2>4 DEF Applied, Plugins, Blocked
<1> QED BY <1>2, <1>4, <1>5, <1>6, <1>7, <1>8, PlacesFrom

\* The operator's ssh configuration is read and written back whole.
LEMMA OwnSafeStep ==
  ASSUME IInv, NEW c \in Cmds, Step(c), calm'[c]
  PROVE  OwnSafe(c)'
<1>1. CommandType /\ HostType /\ Routed(command[c]) /\ (calm[c] => OwnSafe(c))
  BY DEF IInv, CommandInv, Learnt
<1>2. command[c] \in Commands /\ controller \in Controllers BY <1>1 DEF CommandType, HostType
<1>3. SUFFICES ASSUME command'[c].op = "config", command'[c].own
      PROVE  /\ command'[c].at \in {"install", "ensure"} \/ (Writing(c, "include"))' =>
                   Has("own", Lines(controller'.config))
             /\ (Writing(c, "config"))' => Has("own", command'[c].text)
  BY DEF OwnSafe
<1>4. CASE StartConfig(c)
  <2>1. command'[c].at \in {"install", "ensure"}
    BY <1>1, <1>4 DEF StartConfig, Starts, Fresh, CommandType
  <2>2. command'[c].own = Has("own", Lines(controller.config)) /\ UNCHANGED controller
    BY <1>1, <1>4 DEF StartConfig, Starts, Fresh, CommandType
  <2> QED BY <1>3, <2>1, <2>2 DEF Writing
<1>5. CASE command'[c].at = "cut"
  <2>1. Scan(c) \/ Install(c) \/ Ensure(c) \/ Pick(c) BY <1>5, PlacesFrom
  <2>2. CASE Scan(c)
    <3>1. command'[c].file = "known" BY <1>1, <2>2, WritesWhat DEF Scan
    <3> QED BY <1>5, <3>1 DEF Writing
  <2>3. CASE Install(c)
    <3>1. calm[c] /\ UNCHANGED controller
      BY <2>3, CalmStep, AtWork DEF Install, Working, Ended
    <3>2. command'[c].file = "include" /\ command'[c].op = command[c].op
          /\ command'[c].own = command[c].own /\ command[c].at = "install"
      BY <1>1, <2>3, WritesWhat DEF Install
    <3> QED BY <1>1, <1>3, <1>5, <3>1, <3>2 DEF Writing, OwnSafe
  <2>4. CASE Ensure(c)
    <3>1. calm[c] BY <2>4, CalmStep, AtWork DEF Ensure, Working, Ended
    <3>2. ~Goes(c, "true") BY <1>1, <1>5, CutIsNoEnd
    <3>3. /\ Writes(c, "config", <<"include">> \o Lines(controller.config))
          /\ ~Has("include", Lines(controller.config)) /\ command[c].at = "ensure"
      BY <2>4, <3>2 DEF Ensure
    <3>4. /\ command'[c].file = "config" /\ command'[c].op = command[c].op
          /\ command'[c].own = command[c].own
          /\ command'[c].text = <<"include">> \o Lines(controller.config)
      <4> DEFINE text == <<"include">> \o Lines(controller.config)
      <4>1. Writes(c, "config", text) BY <3>3
      <4> HIDE DEF text
      <4>2. /\ command'[c].file = "config" /\ command'[c].op = command[c].op
            /\ command'[c].own = command[c].own /\ command'[c].text = text
        BY <1>1, <4>1, WritesWhat
      <4> QED BY <4>2 DEF text
    <3>5. Has("own", Lines(controller.config)) BY <1>1, <1>3, <3>1, <3>3, <3>4 DEF OwnSafe
    <3>6. Lines(controller.config) \in {<<>>, <<"own">>}
      <4>1. Lines(controller.config) \in Configs
        BY <1>2 DEF Lines, Controllers, Configs
      <4> QED BY <3>3, <4>1 DEF Configs, Has
    <3>7. Has("own", command'[c].text) BY <3>4, <3>5, <3>6, IncludeFirst
    <3> QED BY <1>5, <3>4, <3>7 DEF Writing
  <2>5. CASE Pick(c)
    <3>1. ~Goes(c, "false") BY <1>1, <1>5, CutIsNoEnd
    <3>2. \E p \in Choices : Writes(c, "options", <<p>>) BY <2>5, <3>1 DEF Pick
    <3>3. command'[c].file = "options" BY <1>1, <3>2, WritesWhat
    <3> QED BY <1>5, <3>3 DEF Writing
  <2> QED BY <2>1, <2>2, <2>3, <2>4, <2>5
<1>6. CASE command'[c].at = "write"
  <2>1. Cut(c) BY <1>6, PlacesFrom
  <2>2. command'[c] = [command[c] EXCEPT !.at = "write"]
    BY <1>1, <2>1, GoesTo DEF Cut, Ended
  <2>3. calm[c] BY <2>1, CalmStep, AtWork DEF Cut, Working, Ended
  <2>4. CASE command[c].file = "include"
    <3>1. controller'.config = controller.config
      BY <1>2, <2>1, <2>4 DEF Cut, Controllers
    <3> QED BY <1>1, <1>2, <1>3, <1>6, <2>1, <2>2, <2>3, <2>4, <3>1
            DEF OwnSafe, Writing, Cut, Commands
  <2>5. CASE command[c].file # "include"
    BY <1>1, <1>2, <1>3, <1>6, <2>1, <2>2, <2>3, <2>5 DEF OwnSafe, Writing, Cut, Commands
  <2> QED BY <2>4, <2>5
<1>7. CASE command'[c].at = "ensure" /\ ~StartConfig(c)
  <2>1. Write(c) /\ command[c].file = "include" BY <1>7, PlacesFrom
  <2>2. calm[c] /\ command[c].at = "write" BY <2>1, CalmStep, AtWork DEF Write, Working, Ended
  <2>3. controller'.config = controller.config BY <1>2, <2>1 DEF Write, Controllers
  <2>4. command'[c].op = command[c].op /\ command'[c].own = command[c].own
    <3>1. command'[c] = At([command[c] EXCEPT !.file = None, !.text = <<>>], AfterWrite(c))
      BY <1>1, <2>1 DEF Write, CommandType
    <3>2. AfterWrite(c) \in {"ensure", "true"} BY <2>1 DEF AfterWrite
    <3>3. AfterWrite(c) = "ensure" BY <1>7, <3>1, <3>2 DEF At, Ended, Fresh
    <3> QED BY <1>2, <3>1, <3>3 DEF At, Ended, Commands
  <2> QED BY <1>1, <1>3, <1>7, <2>1, <2>2, <2>3, <2>4 DEF OwnSafe, Writing
<1>8. command'[c].at = "install" => StartConfig(c) BY PlacesFrom
<1> QED BY <1>4, <1>5, <1>6, <1>7, <1>8 DEF Writing

\* Each step of a command keeps what is known of every command.
LEMMA CommandInvStep ==
  ASSUME IInv, NEW c \in Cmds, Step(c), NEW d \in Cmds
  PROVE  CommandInv(d)'
<1>1. Alone(d)' BY AloneStep
<1>2. CASE d = c
  BY <1>1, <1>2, OthersStay, KeylessStep, PinnedStep, UnblockedStep, SelectedStep, AppliedStep,
     OwnSafeStep, SeenStep
  DEF CommandInv, Learnt
<1>3. CASE d # c
  <2>1. command'[d] = command[d] BY <1>3, OthersStay
  <2>2. Routed(command'[d]) BY <2>1 DEF IInv, CommandInv
  <2>3. Seen(d)' BY <2>1, BaseStays DEF IInv, CommandInv, Seen
  <2> QED BY <1>1, <1>3, <2>2, <2>3, OtherLearnt DEF CommandInv
<1> QED BY <1>2, <1>3

-----------------------------------------------------------------------------
\* What the operator and the provider do to the target and to the commands.
LEMMA EventStep ==
  ASSUME IInv, Recreate \/ Choose \/ Own
  PROVE  /\ host' \in Machines /\ host'.id <= events' /\ Honest' /\ UNCHANGED controller
         /\ CommandType'
         /\ \A c \in Cmds : command'[c] = command[c] \/ command'[c] = At(command[c], "false")
         /\ \A c \in Cmds : command[c].at \in Playing /\ host'.base # host.base =>
                               command'[c] = At(command[c], "false")
<1>1. /\ host \in Machines /\ events \in 0..MaxEvents /\ host.id <= events
      /\ events < MaxEvents /\ events' = events + 1 /\ UNCHANGED controller
  BY DEF IInv, HostType, HistoryType, Recreate, Choose, Own, Disturbs
<1>2. CommandType /\ controller \in Controllers BY DEF IInv, HostType
<1>3. CASE Recreate
  <2>1. PICK authorized \in BOOLEAN : host' = Machine(host.id + 1, authorized, FALSE, host.other)
    BY <1>3 DEF Recreate
  <2>2. host' \in Machines /\ host'.id <= events' /\ Honest'
    BY <1>1, <2>1, HostAssumption DEF Machine, Machines, Choices, Honest
  <2>3. \A c \in Cmds : /\ command'[c] = command[c] \/ command'[c] = At(command[c], "false")
                        /\ command[c].at \in Playing => command'[c] = At(command[c], "false")
    BY <1>3 DEF Recreate
  <2>4. CommandType'
    <3>1. \A c \in Cmds : At(command[c], "false") \in Commands
      BY OverIsRouted DEF RoutedCommands, Ended
    <3> QED BY <1>2, <1>3, <3>1 DEF Recreate, CommandType
  <2> QED BY <1>1, <2>2, <2>3, <2>4
<1>4. CASE Choose
  <2>1. PICK p \in Choices : host' = [host EXCEPT !.conf = p, !.chosen = TRUE]
    BY <1>4 DEF Choose
  <2>2. host' \in Machines /\ host'.id = host.id /\ host'.base = host.base /\ Honest'
    BY <1>1, <2>1 DEF IInv, Machines, Honest
  <2>3. UNCHANGED command BY <1>4 DEF Choose
  <2> QED BY <1>1, <1>2, <2>2, <2>3 DEF CommandType, Machines
<1>5. CASE Own
  <2>1. \/ host' = [host EXCEPT !.conf = "own", !.chosen = FALSE]
        \/ host' = [host EXCEPT !.home = ~host.home]
        \/ host' = [host EXCEPT !.conf = "none"]
    BY <1>5 DEF Own
  <2>2. host' \in Machines /\ host'.id = host.id /\ host'.base = host.base /\ Honest'
    BY <1>1, <2>1, ZenonT(40) DEF IInv, Machines, Choices, Honest
  <2> QED BY <1>1, <1>2, <1>5, <2>2 DEF Own, CommandType, Machines
<1> QED BY <1>3, <1>4, <1>5

\* After it no command at work is calm.
LEMMA EventInv ==
  ASSUME IInv, Recreate \/ Choose \/ Own
  PROVE  IInv'
<1>1. /\ kind' = kind /\ starts' = starts /\ faults' = faults
      /\ events' = events + 1 /\ events < MaxEvents
      /\ calm' = [c \in Cmds |-> calm[c] /\ ~Working(c)]
  BY DEF Recreate, Choose, Own, Disturbs
<1>2. HostType' BY <1>1, EventStep DEF IInv, HostType
<1>3. HistoryType'
  <2>1. calm' \in [Cmds -> BOOLEAN] BY <1>1, Zenon DEF IInv, HistoryType
  <2>2. starts' \in 0..MaxStarts /\ faults' \in 0..MaxFaults /\ events' \in 0..MaxEvents
    BY <1>1, HostAssumption DEF IInv, HistoryType
  <2> QED BY <2>1, <2>2, EventStep DEF HistoryType
<1>4. ASSUME NEW c \in Cmds PROVE CommandInv(c)'
  <2>1. CommandInv(c) BY DEF IInv
  <2>2. calm'[c] => ~Working(c) BY <1>1, Zenon
  <2>3. ~Working(c) => ~(Working(c))'
    BY EventStep DEF Working, At, Ended, Fresh
  <2>4. Alone(c)' /\ Learnt(c)' BY <2>2, <2>3, NothingLearnt DEF Alone, Learnt
  <2>5. CASE command'[c] = command[c]
    <3>1. Seen(c)'
      BY <2>1, <2>5, EventStep DEF CommandInv, Seen, Playing, At, Fresh, Ended
    <3> QED BY <2>1, <2>4, <2>5, <3>1 DEF CommandInv
  <2>6. CASE command'[c] = At(command[c], "false")
    <3>1. Routed(command'[c]) BY <2>6, OverIsRouted DEF RoutedCommands, Ended
    <3>2. Seen(c)' BY <2>6 DEF Seen, At, Fresh, Ended
    <3> QED BY <2>4, <3>1, <3>2 DEF CommandInv
  <2> QED BY <2>5, <2>6, EventStep
<1> QED BY <1>2, <1>3, <1>4, EventStep DEF IInv

\* Every step keeps the invariant.
LEMMA NextInv == IInv /\ [Next]_vars => IInv'
<1> SUFFICES ASSUME IInv, [Next]_vars PROVE IInv' OBVIOUS
<1>1. ASSUME NEW c \in Cmds, Step(c) PROVE IInv'
  BY <1>1, OthersStay, HostStep, HistoryStep, HonestStep, CommandInvStep DEF IInv
<1>2. CASE UNCHANGED vars
  BY <1>2
  DEF vars, IInv, CommandType, HostType, HistoryType, Honest, CommandInv, Alone, Learnt, Keyless,
      Pinned, Managed, Unblocked, Blocked, Selected, Selection, Saved, Applied, OwnSafe, Seen,
      Writing, Working
<1> QED BY <1>1, <1>2, EventInv DEF Next
-----------------------------------------------------------------------------
\* The inductive invariant holds in every reachable state.
THEOREM Invariance == Spec => []IInv
  BY InitInv, NextInv, PTL DEF Spec

\* The types, for any sets of commands and profiles and any bounds.
THEOREM TypeCorrect == Spec => []TypeOK
<1>1. IInv => TypeOK
  <2> SUFFICES ASSUME IInv PROVE TypeOK OBVIOUS
  <2>1. controller \in Controllers /\ host \in Machines /\ kind \in Kinds /\ HistoryType
    BY DEF IInv, HostType
  <2>2. controller.config = None \/ \A i \in DOMAIN controller.config :
                                       controller.config[i] \in {"include", "own"}
    BY <2>1 DEF Controllers, Configs
  <2>3. /\ controller.key \in {"none", "private", "pair"}
        /\ controller.known \in {None, <<>>} \cup {<<i>> : i \in 0..MaxEvents}
        /\ controller.include \in {None, <<>>, <<"target">>}
        /\ controller.options \in {None, <<>>} \cup {<<p>> : p \in Profiles \cup {"none"}}
    BY <2>1, Zenon DEF Controllers, Knowns, Picked, Choices, Rendered
  <2>4. host \in [id : 0..MaxEvents, authorized : BOOLEAN, trusted : BOOLEAN, other : BOOLEAN,
                 base : {"bare", "half", "done"}, conf : Profiles \cup {"none", "own"},
                 home : BOOLEAN, applied : Profiles \cup {None}, chosen : BOOLEAN,
                 honoured : Profiles \cup {None}, linked : Profiles \cup {None}]
    BY <2>1 DEF Machines, Choices
  <2>5. ASSUME NEW c \in Cmds
        PROVE  /\ command[c].at \in Places /\ command[c].op \in Ops
               /\ command[c].phase \in {"doctor", "check", "apply", "converge"}
               /\ command[c].given \in Profiles \cup {"none", None}
               /\ command[c].sel \in Profiles \cup {"none"}
               /\ command[c].mode \in {"host", "workspace"}
               /\ {command[c].flag, command[c].changed, command[c].own} \subseteq BOOLEAN
               /\ command[c].file \in {None, "known", "config", "include", "options"}
    BY DEF IInv, CommandType, Commands, Choices
  <2> QED BY <2>1, <2>2, <2>3, <2>4, <2>5 DEF TypeOK, HistoryType
<1> QED BY <1>1, Invariance, PTL

\* A step of a command that replaces or shadows the tmux link makes it.
LEMMA OnlyLinks ==
  ASSUME IInv, [Next]_vars, events' = events, host'.conf # host.conf \/ (host.chosen /\ ~host'.chosen)
  PROVE  \E c \in Cmds : Link(c) /\ CommandInv(c)
<1>1. HistoryType /\ host \in Machines BY DEF IInv, HostType
<1>2. PICK c \in Cmds : Step(c)
  <2>1. events \in Nat BY <1>1, HostAssumption DEF HistoryType
  <2>2. ~Disturbs BY <2>1 DEF Disturbs
  <2>3. ~UNCHANGED vars BY DEF vars
  <2> QED BY <2>2, <2>3 DEF Next, Recreate, Choose, Own
<1>3. CASE host' = [host EXCEPT !.authorized = TRUE] BY <1>1, <1>3 DEF Machines
<1>4. CASE \E b \in Converges(c) : host' = [host EXCEPT !.base = b] BY <1>1, <1>4 DEF Machines
<1>5. CASE Record(c) BY <1>1, <1>5 DEF Record, Does, Machines
<1>6. CASE End(c) BY <1>1, <1>6 DEF End, Machines
<1> QED BY <1>2, <1>3, <1>4, <1>5, <1>6, FileStep DEF IInv

\* The tmux configuration of the operator is kept (roles/dev_fortress_tmux).
THEOREM OwnTmux == Spec => OwnTmuxKept
<1>1. IInv /\ [Next]_vars =>
        [(host.conf = "own" \/ host.home) /\ host'.conf # host.conf
            => events' # events \/ \E c \in Cmds : command[c].at = "link" /\ ~calm[c]]_vars
  <2> SUFFICES ASSUME IInv, [Next]_vars, host.conf = "own" \/ host.home,
                      host'.conf # host.conf, events' = events
               PROVE  \E c \in Cmds : command[c].at = "link" /\ ~calm[c]
    OBVIOUS
  <2>1. PICK c \in Cmds : Link(c) /\ CommandInv(c) BY OnlyLinks
  <2> QED BY <2>1 DEF CommandInv, Learnt, Unblocked, Blocked, Link
<1> QED BY <1>1, Invariance, PTL DEF Spec, OwnTmuxKept

\* A choice made with csm outlasts the passes for the selection of the last one
\* that ended.
THEOREM ChoiceIsKept == Spec => ChoiceKept
<1>1. IInv /\ [Next]_vars => [TakesOther(host.honoured)]_vars
  <2> SUFFICES ASSUME IInv, [Next]_vars, host.chosen, ~host'.chosen, events' = events
               PROVE  \E c \in Cmds : /\ command[c].at = "link"
                                      /\ ~calm[c] \/ command[c].sel # host.honoured
    BY DEF TakesOther
  <2>1. PICK c \in Cmds : Link(c) /\ CommandInv(c) BY OnlyLinks
  <2>2. command[c].sel # None
    BY HostAssumption DEF IInv, CommandType, Commands, Choices
  <2> QED BY <2>1, <2>2 DEF IInv, Honest, CommandInv, Learnt, Unblocked, Link
<1> QED BY <1>1, Invariance, PTL DEF Spec, ChoiceKept

\* How a validate and an ssh-config end well.
LEMMA SucceedsFrom ==
  ASSUME IInv, NEW c \in Cmds, Step(c), ~Start(c), command'[c].at = "true"
  PROVE  /\ command[c].op = "validate" =>
               End(c) /\ Converged(c) /\ command[c].phase # "check"
         /\ (command[c].op = "config" /\ command[c].flag) =>
               \/ Ensure(c) /\ Has("include", Lines(controller.config)) /\ UNCHANGED controller
               \/ Write(c) /\ command[c].file = "config"
<1>1. CommandType /\ Routed(command[c]) BY DEF IInv, CommandInv
<1>2. command[c] \in Commands BY <1>1 DEF CommandType
<1>3. ASSUME NEW place, Goes(c, place) PROVE place = "true" BY <1>1, <1>3, GoesTo
<1>4. command[c].op \in Ops /\ command[c].phase \in {"doctor", "check", "apply", "converge"}
  BY <1>2 DEF Commands
<1> USE <1>1, <1>3 DEF Routed, Passes, Reaches, Reaching, Playing
<1>5. CASE Keys(c) \/ Keypub(c)
  <2>1. Goes(c, AfterKeys(c)) BY <1>5 DEF Keys, Keypub
  <2>2. AfterKeys(c) = "true" BY <2>1
  <2>3. command[c].at \in {"keys", "keypub"} BY <1>5 DEF Keys, Keypub
  <2> QED BY <1>4, <2>2, <2>3 DEF AfterKeys, Refresh, Ops
<1>6. CASE Keygen(c) \/ Pub(c) \/ Runtime(c) BY <1>6 DEF Keygen, Pub, Runtime, Refresh
<1>7. CASE Enrol(c) \/ Session(c) \/ Shell(c)
  BY <1>7 DEF Enrol, Session, Shell, Answered
<1>8. CASE Probe(c)
  <2>1. ~Goes(c, "false") BY <1>3
  <2>2. command' # [command EXCEPT ![c].at = "keys", ![c].phase = "check"]
    BY <1>2 DEF CommandType, Commands
  <2> QED BY <1>8, <2>1, <2>2 DEF Probe, Answered
<1>9. ASSUME NEW file, NEW text, Writes(c, file, text) PROVE FALSE
  BY <1>2, <1>9 DEF Writes, CommandType, Commands
<1>a. CASE Ensure(c) BY <1>9, <1>a DEF Ensure
<1>10. CASE Scan(c) \/ Install(c) BY <1>9, <1>10 DEF Scan, Install
<1>11. CASE Cut(c) BY <1>11 DEF Cut
<1>12. CASE Write(c)
  <2>1. command[c].at = "write" /\ Whole(command[c].file, command[c].text) BY <1>12 DEF Write
  <2>2. AfterWrite(c) = "true"
    BY <1>12 DEF Write, AfterWrite, AfterRefresh, At, CommandType, Ended
  <2> QED BY <1>12, <2>1, <2>2 DEF Whole, AfterWrite, AfterRefresh
<1>13. CASE Pick(c) BY <1>13 DEF Pick
<1>14. CASE Resolve(c)
  <2>1. command'[c].at \in {"keys", "play"}
    BY <1>2, <1>14 DEF Resolve, CommandType, Commands
  <2> QED BY <2>1
<1>c. CASE Play(c)
  <2>1. command' = [command EXCEPT ![c].at = "base", ![c].changed = FALSE]
    BY <1>3, <1>c DEF Play
  <2> QED BY <1>2, <2>1 DEF CommandType, Commands
<1>d. CASE Base(c)
  <2>1. command'[c].at \in {"look", "end"}
    BY <1>2, <1>d DEF Base, CommandType, Commands
  <2> QED BY <2>1
<1>15. CASE Look(c) BY <1>15 DEF Look, AfterRole
<1>16. CASE Link(c) \/ Record(c) \/ Plugins(c)
  <2>1. CASE Link(c) BY <1>2, <2>1 DEF Link, Does, CommandType, Commands
  <2>2. CASE Record(c) BY <1>2, <2>2 DEF Record, Does, AfterRole, CommandType, Commands
  <2>3. CASE Plugins(c) BY <1>2, <2>3 DEF Plugins, CommandType, Commands
  <2> QED BY <1>16, <2>1, <2>2, <2>3
<1>17. CASE End(c)
  <2>1. command[c].op \in Passes /\ command[c].op # "config" BY <1>17 DEF End
  <2>2. ASSUME command[c].op = "validate" PROVE Converged(c) /\ command[c].phase # "check"
    <3>1. command[c].phase \notin {"check", "apply"}
      <4>1. \A phase : command' # [command EXCEPT ![c].at = "keys", ![c].phase = phase]
        BY <1>2 DEF CommandType, Commands
      <4> QED BY <1>17, <2>2, <4>1 DEF End
    <3>2. Goes(c, IF Converged(c) THEN "true" ELSE "false") BY <1>17, <2>2, <3>1 DEF End
    <3> QED BY <3>1, <3>2
  <2> QED BY <1>17, <2>1, <2>2
<1>18. CASE Fails(c) BY <1>18 DEF Fails
<1> QED BY <1>5, <1>6, <1>7, <1>8, <1>a, <1>10, <1>11, <1>12, <1>13, <1>14, <1>c, <1>d, <1>15,
           <1>16, <1>17, <1>18 DEF Step, AccessStep

\* How a command that only reaches a target, or the probe of a validate, fails.
LEMMA FailsFrom ==
  ASSUME IInv, NEW c \in Cmds, Step(c), ~Start(c), ~Fails(c), command'[c].at = "false",
         command[c].op \in Reaching \/ (command[c].op = "validate" /\ command[c].phase = "doctor")
  PROVE  Keys(c) \/ Keygen(c) \/ Pub(c) \/ Enrol(c) \/ Session(c) \/ Probe(c)
<1>1. CommandType /\ Routed(command[c]) BY DEF IInv, CommandInv
<1>2. command[c] \in Commands BY <1>1 DEF CommandType
<1>3. ASSUME NEW place, Goes(c, place) PROVE place = "false" BY <1>1, <1>3, GoesTo
<1> USE <1>1, <1>2, <1>3 DEF Routed, Passes, Reaches, Reaching, Playing
<1>4. CASE Keypub(c)
  <2>1. command[c].op \in Ops /\ command[c].phase \in {"doctor", "check", "apply", "converge"}
    BY DEF Commands
  <2>2. Goes(c, AfterKeys(c)) BY <1>4 DEF Keypub
  <2>3. AfterKeys(c) = "false" BY <2>2
  <2> QED BY <2>1, <2>3 DEF AfterKeys, Refresh, Ops
<1>5. CASE Runtime(c) BY <1>5 DEF Runtime, Refresh
<1>6. CASE Shell(c) BY <1>6 DEF Shell, Answered
<1>7. CASE Scan(c) BY <1>7 DEF Scan, Writes, CommandType
<1>8. CASE Install(c) \/ Ensure(c) \/ Pick(c) BY <1>8 DEF Install, Ensure, Pick
<1>9. CASE Cut(c) BY <1>9 DEF Cut
<1>10. CASE Write(c)
  <2>1. AfterWrite(c) # "false" BY DEF AfterWrite, AfterRefresh
  <2> QED BY <1>10, <2>1 DEF Write, At, CommandType, Ended, Fresh
<1>11. CASE \/ Resolve(c) \/ Play(c) \/ Base(c) \/ Look(c) \/ Link(c) \/ Record(c)
            \/ Plugins(c) \/ End(c)
  BY <1>11 DEF Resolve, Play, Base, Look, Link, Record, Plugins, End
<1> QED BY <1>4, <1>5, <1>6, <1>7, <1>8, <1>9, <1>10, <1>11 DEF Step, AccessStep

\* Which steps end a command.
LEMMA EndsFrom ==
  ASSUME IInv, [Next]_vars, NEW c \in Cmds, NEW place \in {"true", "false"}, Ends(c, place)
  PROVE  \/ place = "false" /\ Recreate
         \/ Step(c) /\ ~Start(c)
<1>1. command'[c] # command[c] BY DEF Ends, Working, Ended
<1>2. CommandType BY DEF IInv
<1>3. Working(c) BY DEF Ends
<1>4. CASE Recreate
  <2>1. command'[c] = At(command[c], "false") BY <1>1, <1>2, <1>4 DEF Recreate, CommandType
  <2> QED BY <1>4, <2>1 DEF Ends, At, Ended, Fresh
<1>5. ASSUME NEW d \in Cmds, Step(d) PROVE Step(c) /\ ~Start(c)
  BY <1>1, <1>3, <1>5, OthersStay, AtWork
<1> QED BY <1>1, <1>4, <1>5 DEF Next, vars, Choose, Own

\* A validate that succeeds leaves nothing to change, and the saved profile
\* applied (_validate_host_target).
THEOREM Converging == Spec => ConvergedIsProved
<1>1. ASSUME IInv, [Next]_vars, NEW c \in Cmds, Ends(c, "true"), command[c].op = "validate"
      PROVE  /\ host.base = "done"
             /\ calm'[c] =>
                   LET sel == IF command[c].given # None THEN command[c].given ELSE Saved
                   IN  sel = "none" \/ Blocked \/ host.applied = sel
  <2>1. Step(c) /\ ~Start(c) BY <1>1, EndsFrom
  <2>2. CommandType /\ CommandInv(c) /\ command'[c].at = "true"
    BY <1>1 DEF IInv, Ends
  <2>3. End(c) /\ Converged(c) /\ command[c].phase # "check"
    BY <1>1, <2>1, <2>2, SucceedsFrom
  <2>4. command[c].at = "end" /\ ~command[c].changed BY <2>3 DEF End, Converged
  <2>5. host.base = "done" BY <2>2, <2>4 DEF CommandInv, Seen
  <2>6. ASSUME calm'[c]
        PROVE  Selection(c) = "none" \/ Blocked \/ host.applied = Selection(c)
    <3>1. calm[c] BY <1>1, <2>1, <2>6, CalmStep
    <3>2. Selected(c) /\ Applied(c) BY <2>2, <3>1 DEF CommandInv, Learnt
    <3> QED BY <1>1, <2>3, <2>4, <3>2 DEF Selected, Applied, Playing
  <2> QED BY <2>5, <2>6 DEF Selection
<1>2. IInv /\ [Next]_vars =>
        [\A c \in Cmds :
            (Ends(c, "true") /\ command[c].op = "validate")
               => /\ host.base = "done"
                  /\ calm'[c] =>
                        LET sel == IF command[c].given # None THEN command[c].given ELSE Saved
                        IN  sel = "none" \/ Blocked \/ host.applied = sel]_vars
  BY <1>1
<1> QED BY <1>2, Invariance, PTL DEF Spec, ConvergedIsProved

\* The ssh configuration of the operator keeps what it had (_ensure_ssh_config_include).
THEOREM OwnConfig == Spec => OwnConfigKept
<1>1. ASSUME IInv, [Next]_vars, NEW c \in Cmds,
             Ends(c, "true"), calm'[c], command[c].op = "config", command[c].flag
      PROVE  /\ command[c].own => Has("own", controller'.config)
             /\ \E i \in DOMAIN controller'.config :
                   \A j \in DOMAIN controller'.config :
                       controller'.config[j] = "include" <=> j = i
  <2>1. Step(c) /\ ~Start(c) BY <1>1, EndsFrom
  <2>2. /\ CommandType /\ Routed(command[c]) /\ controller \in Controllers
        /\ calm[c] /\ OwnSafe(c) /\ command'[c].at = "true"
    BY <1>1, <2>1, CalmStep DEF IInv, CommandInv, HostType, Learnt, Ends
  <2>3. \A config \in Included : \E i \in DOMAIN config : \A j \in DOMAIN config :
                                     config[j] = "include" <=> j = i
    <3>1. ASSUME NEW config \in Included PROVE config[1] = "include" /\ 1 \in DOMAIN config
      BY DEF Included
    <3>2. ASSUME NEW config \in Included, NEW j \in DOMAIN config, config[j] = "include"
          PROVE  j = 1
      BY <3>2 DEF Included
    <3> QED BY <3>1, <3>2
  <2>4. CASE Ensure(c) /\ Has("include", Lines(controller.config)) /\ UNCHANGED controller
    <3>1. command[c].at = "ensure" BY <2>4 DEF Ensure
    <3>2. Lines(controller.config) \in Included
      <4>1. Lines(controller.config) \in Configs BY <2>2 DEF Lines, Controllers, Configs
      <4> QED BY <2>4, <4>1 DEF Configs, Included, Has
    <3>3. controller.config = Lines(controller.config)
      BY <3>2, <2>4 DEF Lines, Has
    <3> QED BY <1>1, <2>2, <2>3, <2>4, <3>1, <3>2, <3>3 DEF OwnSafe
  <2>5. CASE Write(c) /\ command[c].file = "config"
    <3>1. controller'.config = command[c].text /\ command[c].at = "write"
      BY <2>2, <2>5 DEF Write, Controllers
    <3>2. command[c].text \in Included BY <2>2, <2>5, <3>1 DEF Routed, Whole
    <3> QED BY <1>1, <2>2, <2>3, <2>5, <3>1, <3>2 DEF OwnSafe, Writing
  <2> QED BY <1>1, <2>1, <2>2, <2>4, <2>5, SucceedsFrom
<1>2. IInv /\ [Next]_vars =>
        [\A c \in Cmds :
            (Ends(c, "true") /\ calm'[c] /\ command[c].op = "config" /\ command[c].flag)
               => /\ command[c].own => Has("own", controller'.config)
                  /\ \E i \in DOMAIN controller'.config :
                        \A j \in DOMAIN controller'.config :
                            controller'.config[j] = "include" <=> j = i]_vars
  BY <1>1
<1> QED BY <1>2, Invariance, PTL DEF Spec, OwnConfigKept

\* Of a target whose trust ft keeps, a verdict of not reachable is never due to
\* what the known_hosts file held before (_refresh_managed_known_host).
THEOREM ReachableProof == Spec => ReachableIsProved
<1>1. ASSUME IInv, [Next]_vars, NEW c \in Cmds, Ends(c, "false"), calm'[c],
             command[c].op \in Reaching \/ (command[c].op = "validate" /\ command[c].phase = "doctor")
      PROVE  ~(Reachable /\ Keyed(c))
  <2>4. SUFFICES ASSUME Managed PROVE ~(Accepts /\ Keyed(c)) BY DEF Reachable
  <2>1. ~Recreate
    <3>1. CASE Recreate
      <4>1. calm' = [d \in Cmds |-> calm[d] /\ ~Working(d)] BY <3>1 DEF Recreate, Disturbs
      <4>2. ~calm'[c] BY <1>1, <4>1, Zenon DEF Ends
      <4> QED BY <1>1, <4>2
    <3> QED BY <3>1
  <2>2. Step(c) /\ ~Start(c) BY <1>1, <2>1, EndsFrom
  <2>3. /\ CommandType /\ Routed(command[c]) /\ calm[c] /\ ~Fails(c)
        /\ Keyless(c) /\ Pinned(c) /\ command'[c].at = "false"
    BY <1>1, <2>2, CalmStep DEF IInv, CommandInv, Learnt, Ends
  <2>a. ASSUME NEW place, Goes(c, place) PROVE place = "false" BY <2>3, <2>a, GoesTo
  <2>5. Keys(c) \/ Keygen(c) \/ Pub(c) \/ Enrol(c) \/ Session(c) \/ Probe(c)
    BY <1>1, <2>2, <2>3, FailsFrom
  <2>6. CASE Keys(c)
    <3>1. command[c].op \in Ops /\ command[c].phase \in {"doctor", "check", "apply", "converge"}
      BY <2>3 DEF CommandType, Commands
    <3>2. AfterKeys(c) # "false" BY <3>1 DEF AfterKeys, Refresh, Ops, Reaching
    <3>3. ~Goes(c, AfterKeys(c)) /\ ~Goes(c, "keygen") BY <2>a, <3>2
    <3>4. controller.key = "none" BY <2>6, <3>3 DEF Keys
    <3> QED BY <3>4 DEF Keyed
  <2>7. CASE Keygen(c)
    <3>1. controller.key = "none" BY <2>3, <2>7 DEF Keyless, Keygen
    <3>2. Goes(c, "keypub") BY <2>7, <3>1 DEF Keygen
    <3> QED BY <2>a, <3>2
  <2>8. CASE Pub(c)
    <3>1. command[c].op = "enroll" BY <2>3, <2>8 DEF Routed, Pub
    <3>2. ~Goes(c, "connect") BY <2>a
    <3>3. controller.key # "pair" BY <2>8, <3>2 DEF Pub
    <3> QED BY <3>1, <3>3 DEF Keyed
  <2>9. CASE Enrol(c) \/ Session(c) \/ Probe(c)
    <3>1. command[c].at = "connect" BY <2>9 DEF Enrol, Session, Probe, Answered
    <3>2. controller.known = <<host.id>> BY <2>3, <2>4, <3>1 DEF Pinned
    <3>3. Trusts(TRUE) /\ Trusts(Managed) BY <2>4, <3>2 DEF Trusts
    <3>4. ~Goes(c, "true") BY <2>a
    <3>5. ~Accepts
      <4>1. CASE Enrol(c) BY <3>3, <3>4, <4>1 DEF Enrol, Answered
      <4>2. CASE Session(c) BY <3>3, <3>4, <4>2 DEF Session, Answered
      <4>3. CASE Probe(c)
        <5>1. command' # [command EXCEPT ![c].at = "keys", ![c].phase = "check"]
          BY <2>3 DEF CommandType, Commands
        <5> QED BY <3>3, <3>4, <4>3, <5>1 DEF Probe, Answered
      <4> QED BY <2>9, <4>1, <4>2, <4>3
    <3> QED BY <3>5
  <2> QED BY <2>5, <2>6, <2>7, <2>8, <2>9
<1>2. IInv /\ [Next]_vars =>
        [\A c \in Cmds :
            /\ Ends(c, "false") /\ calm'[c]
            /\ command[c].op \in Reaching \/ (command[c].op = "validate" /\ command[c].phase = "doctor")
            => ~(Reachable /\ Keyed(c))]_vars
  BY <1>1
<1> QED BY <1>2, Invariance, PTL DEF Spec, ReachableIsProved
=============================================================================
