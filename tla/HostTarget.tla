----------------------------- MODULE HostTarget -----------------------------
(***************************************************************************)
(* One SSH target under `ft host bootstrap` and `ft host validate`, and    *)
(* the saved option selection of `ft options pick` (ft/src/ft/cli.py,      *)
(* ft/src/ft/options.py), together with the commands of HostAccess.        *)
(*                                                                         *)
(* A pass of ansible/playbooks/host.yml is two parts: `base`, all roles    *)
(* but one, of which only "converged or not" matters; and the role         *)
(* dev_fortress_tmux, step by step, because it shares the tmux link with   *)
(* `csm tmux-profile` and with the operator.                               *)
(***************************************************************************)
EXTENDS HostAccess

-----------------------------------------------------------------------------
(* A target that ft knows and can reach, or one of which it has nothing.   *)

Machine(id, authorized, trusted, other) ==
    [id |-> id, authorized |-> authorized, trusted |-> trusted, other |-> other,
     base |-> "bare", conf |-> "none", home |-> FALSE, applied |-> None,
     chosen |-> FALSE, honoured |-> None, linked |-> None]

Init ==
    /\ kind \in Kinds
    /\ \E enrolled \in BOOLEAN, options \in {None} \cup {<<p>> : p \in Profiles} :
          /\ controller = [key |-> IF enrolled THEN "pair" ELSE "none",
                           known |-> IF enrolled /\ Managed THEN <<0>> ELSE None,
                           config |-> IF enrolled THEN <<"own">> ELSE None,
                           include |-> None, options |-> options]
          /\ host = Machine(0, enrolled, ~Managed, ~enrolled)
    /\ command = [c \in Cmds |-> Fresh("key", "doctor", FALSE, None)]
    /\ starts = 0 /\ faults = 0 /\ events = 0
    /\ calm = [c \in Cmds |-> TRUE]

\* One member at most of a pick-one option.
Choices == Profiles \cup {"none"}

Starts(c, fresh, place) ==
    /\ ~Working(c) /\ starts < MaxStarts
    /\ command' = [command EXCEPT ![c] = [fresh EXCEPT !.at = place]]
    /\ calm' = [d \in Cmds |->
          IF d = c THEN \A e \in Cmds : ~Working(e) ELSE calm[d] /\ ~Working(d)]
    /\ starts' = starts + 1
    /\ UNCHANGED <<kind, controller, host, faults, events>>

StartKey(c) ==
    \E op \in {"key", "enroll"} : Starts(c, Fresh(op, "doctor", TRUE, None), "keys")

\* With neither --install nor --ensure-include the block is printed only.
StartConfig(c) ==
    \E include \in BOOLEAN, place \in {"install", "ensure"} :
        /\ place = "ensure" => include
        /\ Starts(c, [Fresh("config", "doctor", include, None) EXCEPT
                         !.own = Has("own", Lines(controller.config))], place)

StartSsh(c) == Starts(c, Fresh("ssh", "doctor", TRUE, None), "runtime")

StartSecrets(c) == Starts(c, Fresh("secrets", "doctor", TRUE, None), "runtime")

StartDoctor(c) ==
    \E probe \in BOOLEAN : Starts(c, Fresh("doctor", "doctor", probe, None), "keys")

\* Options are given by the environment, or to bootstrap by --options.
StartValidate(c) ==
    \E given \in Choices \cup {None} :
        Starts(c, Fresh("validate", "doctor", TRUE, given), "keys")

\* `--mode workspace` drops the options, given or saved.
StartBootstrap(c) ==
    \E phase \in {"check", "apply"}, ensure \in BOOLEAN, given \in Choices \cup {None},
       mode \in {"host", "workspace"} :
        /\ mode = "workspace" => given = "none"
        /\ Starts(c, [Fresh("bootstrap", phase, ensure, given) EXCEPT !.mode = mode], "resolve")

StartPick(c) == Starts(c, Fresh("pick", "doctor", TRUE, None), "pick")

Start(c) ==
    \/ StartKey(c) \/ StartConfig(c) \/ StartSsh(c) \/ StartSecrets(c)
    \/ StartDoctor(c) \/ StartValidate(c) \/ StartBootstrap(c) \/ StartPick(c)

-----------------------------------------------------------------------------
(* Options.                                                                *)

\* A cancelled picker ends the command.
Pick(c) ==
    /\ command[c].at = "pick"
    /\ \/ Goes(c, "false")
       \/ \E p \in Choices : Writes(c, "options", <<p>>)
    /\ UNCHANGED <<controller, host, history>>

\* A file that was cut names no options, and that is no error.
Saved ==
    IF controller.options \in {None, <<>>} THEN "none" ELSE Head(controller.options)

\* Every pass of a validate resolves anew; a bootstrap once, before its keys,
\* and what it was given has then served.
Resolve(c) ==
    /\ command[c].at = "resolve"
    /\ command' = [command EXCEPT
          ![c].sel = IF command[c].given # None THEN command[c].given ELSE Saved,
          ![c].given = IF command[c].op = "bootstrap" THEN None ELSE @,
          ![c].at = IF command[c].op = "bootstrap" THEN "keys" ELSE "play"]
    /\ UNCHANGED <<controller, host, history>>

-----------------------------------------------------------------------------
(* One Ansible pass.                                                       *)

Dry(c) == command[c].phase = "check"

\* The inventory names the managed file for managed kinds only.
InventoryTrusts == Trusts(Managed)

\* Nothing is scanned before a pass.
Play(c) ==
    /\ command[c].at = "play"
    /\ IF InventoryTrusts /\ Accepts
       THEN command' = [command EXCEPT ![c].at = "base", ![c].changed = FALSE]
       ELSE Goes(c, "false")
    /\ UNCHANGED <<controller, host, history>>

\* A pass may leave something for the next to change.  One in workspace mode
\* skips the workstation layer; the floor below it is not told apart.
Converges(c) ==
    IF host.base = "done" \/ command[c].mode = "workspace" THEN {host.base} ELSE {"half", "done"}

\* Faulty: the role runs without a selection too.
BaseThenLook(c) ==
    /\ command[c].at = "base"
    /\ IF Dry(c) THEN UNCHANGED host
       ELSE \E b \in Converges(c) : host' = [host EXCEPT !.base = b]
    /\ command' = [command EXCEPT ![c].changed = host.base # "done", ![c].at = "look"]
    /\ UNCHANGED <<controller, history>>

RunsRole(c) == command[c].sel # "none"

Base(c) ==
    /\ command[c].at = "base"
    /\ IF Dry(c) THEN UNCHANGED host
       ELSE \E b \in Converges(c) : host' = [host EXCEPT !.base = b]
    /\ command' = [command EXCEPT ![c].changed = host.base # "done",
          ![c].at = IF RunsRole(c) THEN "look" ELSE "end"]
    /\ UNCHANGED <<controller, history>>

\* The operator has a ~/.tmux.conf, or a tmux.conf that is no link of the role.
\* Faulty: only the first is looked for.
BlockedAtHome == host.home
Blocked == host.home \/ host.conf = "own"

\* Faulty: what was applied last is not asked.
RelinksOther(c) == host.conf # command[c].sel
Relinks(c) == host.applied # command[c].sel /\ host.conf # command[c].sel

\* The last step of the role is for the profile that is active by then.
AfterRole(c, active) == IF active \in Plugged /\ ~Dry(c) THEN "plugins" ELSE "end"

\* The role looks once and decides; tmux may be too old for a new profile.
Look(c) ==
    /\ command[c].at = "look"
    /\ \/ Goes(c, IF Blocked \/ Dry(c) THEN AfterRole(c, host.conf)
                  ELSE IF Relinks(c) THEN "link"
                  ELSE IF host.applied # command[c].sel THEN "record"
                  ELSE AfterRole(c, host.conf))
       \/ Relinks(c) /\ ~Blocked /\ ~Dry(c) /\ Goes(c, "false")
    /\ UNCHANGED <<controller, host, history>>

Does(c, place, change) ==
    /\ host' = change
    /\ command' = [command EXCEPT ![c].at = place, ![c].changed = TRUE]
    /\ UNCHANGED <<controller, history>>

\* force: true, whatever is there by now.
Link(c) ==
    /\ command[c].at = "link"
    /\ Does(c, "record", [host EXCEPT !.conf = command[c].sel, !.chosen = FALSE,
                                      !.linked = command[c].sel])

Record(c) ==
    /\ command[c].at = "record"
    /\ Does(c, AfterRole(c, command[c].sel),
            [host EXCEPT !.applied = command[c].sel, !.honoured = None])

\* Plugins that are missing are cloned, if that can be done.
Plugins(c) ==
    /\ command[c].at = "plugins"
    /\ \/ Goes(c, "false")
       \/ \E cloned \in BOOLEAN :
             command' = [command EXCEPT ![c].at = "end", ![c].changed = @ \/ cloned]
    /\ UNCHANGED <<controller, host, history>>

\* History: `linked` is the selection that the role linked last, `honoured` that
\* of the last pass that ended, no other having been recorded since.
Honoured(c) ==
    IF ~Dry(c) /\ command[c].sel = host.applied THEN command[c].sel ELSE host.honoured

\* Faulty: a last pass that ends well is enough.
ConvergedByExit(c) == TRUE
Converged(c) == ~command[c].changed

\* The pass is over: the next one of a validate, or the verdict.
End(c) ==
    /\ command[c].at = "end"
    /\ host' = [host EXCEPT !.honoured = Honoured(c)]
    /\ CASE command[c].op = "bootstrap" -> Goes(c, "true")
         [] command[c].op = "validate" /\ command[c].phase = "check" ->
               command' = [command EXCEPT ![c].at = "keys", ![c].phase = "apply"]
         [] command[c].op = "validate" /\ command[c].phase = "apply" ->
               command' = [command EXCEPT ![c].at = "keys", ![c].phase = "converge"]
         [] OTHER -> Goes(c, IF Converged(c) THEN "true" ELSE "false")
    /\ UNCHANGED <<controller, history>>

-----------------------------------------------------------------------------
(* What goes wrong, and what others do.                                    *)

\* A call of any step fails, or Ctrl-C: each error path of the code ends the
\* command, a last pass whose recap cannot be read among them.
Fails(c) ==
    /\ Working(c) /\ faults < MaxFaults
    /\ faults' = faults + 1
    /\ calm' = [calm EXCEPT ![c] = FALSE]
    /\ Goes(c, "false")
    /\ UNCHANGED <<kind, controller, host, starts, events>>

Disturbs ==
    /\ events < MaxEvents
    /\ events' = events + 1
    /\ calm' = [c \in Cmds |-> calm[c] /\ ~Working(c)]
    /\ UNCHANGED <<kind, controller, starts, faults>>

\* Another machine answers at the address: a container or a disposable host
\* made again, with the public key if there is one to give it.
Recreate ==
    /\ Disturbs
    /\ \E authorized \in {FALSE, controller.key = "pair"} :
          host' = Machine(host.id + 1, authorized, FALSE, host.other)
    /\ command' = [c \in Cmds |-> IF command[c].at \in Playing
                                  THEN At(command[c], "false") ELSE command[c]]

\* `csm tmux-profile` switches the link, or takes it away.
Choose ==
    /\ Disturbs
    /\ host.conf # "own" /\ host.base # "bare"
    /\ \E p \in Choices :
          host' = [host EXCEPT !.conf = p, !.chosen = TRUE]
    /\ UNCHANGED command

\* The operator writes a tmux configuration, or moves it aside.
Own ==
    /\ Disturbs
    /\ \/ host' = [host EXCEPT !.conf = "own", !.chosen = FALSE]
       \/ host' = [host EXCEPT !.home = ~@]
       \/ host.conf = "own" /\ host' = [host EXCEPT !.conf = "none"]
    /\ UNCHANGED command

Step(c) ==
    \/ Start(c)
    \/ AccessStep(c)
    \/ Pick(c) \/ Resolve(c)
    \/ Play(c) \/ Base(c) \/ Look(c) \/ Link(c) \/ Record(c) \/ Plugins(c) \/ End(c)
    \/ Fails(c)

Next == (\E c \in Cmds : Step(c)) \/ Recreate \/ Choose \/ Own

Spec == Init /\ [][Next]_vars

-----------------------------------------------------------------------------
TypeOK ==
    /\ kind \in Kinds
    /\ controller.key \in {"none", "private", "pair"}
    /\ controller.known \in {None, <<>>} \cup {<<i>> : i \in 0..MaxEvents}
    /\ controller.config = None \/ \A i \in DOMAIN controller.config :
                                      controller.config[i] \in {"include", "own"}
    /\ controller.include \in {None, <<>>, <<"target">>}
    /\ controller.options \in {None, <<>>} \cup {<<p>> : p \in Profiles \cup {"none"}}
    /\ host \in [id : 0..MaxEvents, authorized : BOOLEAN, trusted : BOOLEAN, other : BOOLEAN,
                 base : {"bare", "half", "done"}, conf : Profiles \cup {"none", "own"},
                 home : BOOLEAN, applied : Profiles \cup {None}, chosen : BOOLEAN,
                 honoured : Profiles \cup {None}, linked : Profiles \cup {None}]
    /\ \A c \in Cmds :
          /\ command[c].at \in Places /\ command[c].op \in Ops
          /\ command[c].phase \in {"doctor", "check", "apply", "converge"}
          /\ command[c].given \in Profiles \cup {"none", None}
          /\ command[c].sel \in Profiles \cup {"none"}
          /\ command[c].mode \in {"host", "workspace"}
          /\ {command[c].flag, command[c].changed, command[c].own} \subseteq BOOLEAN
          /\ command[c].file \in {None, "known", "config", "include", "options"}
    /\ starts \in 0..MaxStarts /\ faults \in 0..MaxFaults /\ events \in 0..MaxEvents
    /\ calm \in [Cmds -> BOOLEAN]

Ends(c, place) == Working(c) /\ command'[c].at = place

\* The key material that a command needs but does not make.
Keyed(c) == controller.key = "pair" \/ (command[c].op # "enroll" /\ controller.key # "none")
Reachable == Managed /\ Accepts

\* A doctor --probe, an enrolment, a session, or the probe of a validate, alone,
\* says that a target of a kind whose trust ft keeps is not reachable only when
\* it is not: the target refuses every key, or half the key pair is missing.
\* What the known_hosts file held before, of another machine or cut, is no
\* reason (_refresh_managed_known_host and the ssh commands after it).
ReachableIsProved ==
    [][\A c \in Cmds :
          /\ Ends(c, "false") /\ calm'[c]
          /\ command[c].op \in Reaching \/ (command[c].op = "validate" /\ command[c].phase = "doctor")
          => ~(Reachable /\ Keyed(c))]_vars

\* A validate that succeeds leaves a host on which nothing was left to change,
\* whoever else was at work; alone, the profile of the options saved now is the
\* one the host records, or the operator's own configuration is in the way
\* (_validate_host_target).
ConvergedIsProved ==
    [][\A c \in Cmds :
          (Ends(c, "true") /\ command[c].op = "validate")
             => /\ host.base = "done"
                /\ calm'[c] =>
                      LET sel == IF command[c].given # None THEN command[c].given ELSE Saved
                      IN  sel = "none" \/ Blocked \/ host.applied = sel]_vars

\* The tmux configuration of the operator, in either place, is replaced or
\* shadowed by no pass of the role, but for one that it appeared under
\* (roles/dev_fortress_tmux: "never replaced").
OwnTmuxKept ==
    [][(host.conf = "own" \/ host.home) /\ host'.conf # host.conf
          => events' # events \/ \E c \in Cmds : command[c].at = "link" /\ ~calm[c]]_vars

\* A step of a pass that takes a csm choice back, but for one that works alone
\* with the selection `kept`.
TakesOther(kept) ==
    (host.chosen /\ ~host'.chosen /\ events' = events)
       => \E c \in Cmds : command[c].at = "link" /\ (~calm[c] \/ command[c].sel # kept)

\* A profile chosen with csm, none included, outlasts every pass, alone, for the
\* selection of the last pass that ended, a play for another selection that was
\* cut before it recorded that one not counting
\* (roles/dev_fortress_tmux: the state file).
ChoiceKept == [][TakesOther(host.honoured)]_vars

\* What the role promises is more: "a re-run keeps a csm choice", so a pass for
\* the selection that was linked last does.  It does not when the play that made
\* that link was cut before it was recorded.
RerunKeepsChoice == [][TakesOther(host.linked)]_vars

\* An ssh-config --ensure-include, alone, leaves the operator's configuration
\* with all it had and one Include, whatever an earlier one that was cut left
\* (_ensure_ssh_config_include).
OwnConfigKept ==
    [][\A c \in Cmds :
          (Ends(c, "true") /\ calm'[c] /\ command[c].op = "config" /\ command[c].flag)
             => /\ command[c].own => Has("own", controller'.config)
                /\ \E i \in DOMAIN controller'.config :
                      \A j \in DOMAIN controller'.config :
                          controller'.config[j] = "include" <=> j = i]_vars
=============================================================================
