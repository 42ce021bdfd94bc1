--------------------------- MODULE FleetInventory ---------------------------
(***************************************************************************)
(* hosts.toml, the operator's list of host targets, and the commands that  *)
(* rewrite it from Terraform: `ft infra aws-disposable-ubuntu` and `ft     *)
(* infra aws-test-fleet` plan, apply and destroy, and `ft host             *)
(* import-terraform` (ft/src/ft/cli.py).  A command runs Terraform for     *)
(* minutes, reads its output, loads hosts.toml, merges or prunes, and      *)
(* writes the file back: no lock is taken, and the file is emptied before  *)
(* it is filled.                                                           *)
(*                                                                         *)
(* A host's address stands for its whole entry; 0 is no host, or no entry. *)
(* Terraform itself is external: one run of it is one step.                *)
(***************************************************************************)
EXTENDS Integers

CONSTANTS
    Cmds,         \* the ft commands at work
    DevHosts,     \* the disposable Ubuntu host
    FleetHosts,   \* the hosts of the fleet set "full"
    LtsHosts,     \* those of the fleet set "lts"
    UserHosts,    \* hosts the operator lists in hosts.toml by hand
    FleetNamed,   \* those of them whose name starts with the fleet's name
    None,         \* nothing read, no output
    Moving        \* bound: hosts that can come back at a second address

ASSUME InventoryAssumption ==
    /\ LtsHosts \subseteq FleetHosts /\ FleetNamed \subseteq UserHosts
    /\ DevHosts \cap FleetHosts = {} /\ (DevHosts \cup FleetHosts) \cap UserHosts = {}
    /\ \A hosts \in {DevHosts, FleetHosts, DevHosts \cup FleetHosts \cup UserHosts} :
          None \notin [hosts -> 0 .. 2]

VARIABLES
    fleet_set,   \* fleet.auto.tfvars.json: "none", "torn" or the set it names
    hosts_toml,  \* "absent", "torn" (emptied, not yet filled) or "written"
    targets,     \* the entries the last complete hosts.toml held
    cloud,       \* the hosts Terraform has created
    output,      \* what `terraform output` gives for each stack
    command,     \* command[c]: where it is, its options, what it read, what it will write
    own,         \* the operator's own entries, as last edited
    asked        \* the set of the last apply, and each --set given since

vars == <<fleet_set, hosts_toml, targets, cloud, output, command, own, asked>>
files == <<hosts_toml, targets>>
terraform == <<cloud, output>>
operator == <<own, asked>>

Hosts == DevHosts \cup FleetHosts \cup UserHosts
Stacks == {"dev", "fleet"}
Inventories == [Hosts -> 0 .. 2]
Empty == [h \in Hosts |-> 0]

Sets == {"lts", "full"}
SetHosts(s) == IF s = "full" THEN FleetHosts ELSE LtsHosts
\* A misspelled --set is saved like any other.
SetOptions == {"none", "unknown"} \cup Sets

Ops == {"plan", "apply", "destroy", "import"}
StackHosts(stack) == IF stack = "dev" THEN DevHosts ELSE FleetHosts

Returned == {"idle", "ok"}
Places == Returned \cup
          {"empty_set", "fill_set", "terraform", "output", "load", "empty", "fill",
           "output_again", "prune_load", "prune_empty", "prune_fill", "prune_unlink"}

Idle == [at |-> "idle", op |-> "plan", stack |-> "dev", set |-> "none",
         read |-> None, content |-> None]

Goes(c, place) == command' = [command EXCEPT ![c].at = place]

\* The command exits 0, or it fails or is interrupted.
Ends(c) == command' = [command EXCEPT
               ![c] = [Idle EXCEPT !.at = "ok", !.op = command[c].op, !.stack = command[c].stack]]
Fails(c) == command' = [command EXCEPT ![c] = Idle]

-----------------------------------------------------------------------------
Init ==
    /\ fleet_set = "none"
    /\ hosts_toml = "absent"
    /\ targets = Empty
    /\ cloud = Empty
    /\ output = [stack \in Stacks |-> None]
    /\ command = [c \in Cmds |-> Idle]
    /\ own = {}
    /\ asked = {"lts"}

\* Faulty: the choice is per run, so a command without --set forgets it.
StartForgettingSet(c, op, stack, set) ==
    /\ command[c].at \in Returned
    /\ set # "none" => stack = "fleet" /\ op \in {"plan", "apply"}
    /\ command' = [command EXCEPT ![c] =
                     [at |-> IF set # "none" THEN "empty_set"
                             ELSE IF op = "import" THEN "output" ELSE "terraform",
                      op |-> op, stack |-> stack, set |-> set, read |-> None, content |-> None]]
    /\ asked' = asked \cup ({set} \cap Sets)
    /\ fleet_set' = IF stack = "fleet" THEN "none" ELSE fleet_set
    /\ UNCHANGED <<files, terraform, own>>

\* A command starts; --set is an option of the fleet's plan and apply.
Start(c, op, stack, set) ==
    /\ command[c].at \in Returned
    /\ set # "none" => stack = "fleet" /\ op \in {"plan", "apply"}
    /\ command' = [command EXCEPT ![c] =
                     [at |-> IF set # "none" THEN "empty_set"
                             ELSE IF op = "import" THEN "output" ELSE "terraform",
                      op |-> op, stack |-> stack, set |-> set, read |-> None, content |-> None]]
    /\ asked' = asked \cup ({set} \cap Sets)
    /\ UNCHANGED <<fleet_set, files, terraform, own>>

\* _save_test_fleet_set empties the file,
EmptySet(c) ==
    /\ command[c].at = "empty_set"
    /\ fleet_set' = "torn"
    /\ Goes(c, "fill_set")
    /\ UNCHANGED <<files, terraform, operator>>

\* and fills it, whatever the name: Terraform validates it later.
FillSet(c) ==
    /\ command[c].at = "fill_set"
    /\ fleet_set' = command[c].set
    /\ command' = [command EXCEPT ![c].at = "terraform", ![c].set = "none"]
    /\ UNCHANGED <<files, terraform, operator>>

\* The hosts Terraform is asked for; it accepts no torn file and no unknown set.
Accepted(stack) == stack = "fleet" => fleet_set \notin {"torn", "unknown"}
Wanted(stack) == IF stack = "dev" THEN DevHosts ELSE SetHosts(fleet_set)

\* What a complete apply or destroy of the stack makes of the hosts: an address
\* may be kept, or be new because the host was replaced.
Outcomes(op, stack) ==
    {made \in Inventories : \A h \in Hosts :
        IF h \notin StackHosts(stack) THEN made[h] = cloud[h]
        ELSE IF op = "apply" /\ h \in Wanted(stack) THEN made[h] \in 1 .. (IF h \in Moving THEN 2 ELSE 1)
        ELSE made[h] = 0}

TerraformDone(c) ==
    /\ command[c].at = "terraform"
    /\ Accepted(command[c].stack)
    /\ LET op == command[c].op
           stack == command[c].stack
       IN  \/ op = "plan" /\ Ends(c) /\ UNCHANGED <<terraform, asked>>
           \/ /\ op = "apply"
              /\ \E made \in Outcomes(op, stack) :
                    /\ cloud' = made
                    /\ output' = [output EXCEPT ![stack] = [h \in StackHosts(stack) |-> made[h]]]
              /\ Goes(c, "output") \/ (stack = "dev" /\ Ends(c))  \* --no-auto-import
              /\ asked' = IF stack = "fleet"
                          THEN {IF fleet_set = "none" THEN "lts" ELSE fleet_set}
                          ELSE asked
           \/ /\ op = "destroy"
              /\ \E made \in Outcomes(op, stack) : cloud' = made
              /\ output' = [output EXCEPT ![stack] = None]
              /\ IF stack = "dev" THEN Ends(c)
                 ELSE command' = [command EXCEPT ![c].at = "prune_load",
                                                 ![c].read = [h \in FleetHosts |-> 0]]
              /\ asked' = asked
    /\ UNCHANGED <<fleet_set, files, own>>

\* init, validate, plan, apply or destroy failed, perhaps after some hosts
\* were made or removed; the outputs may be those from before.
TerraformFails(c) ==
    /\ command[c].at = "terraform"
    /\ Fails(c)
    /\ LET op == command[c].op
           stack == command[c].stack
       IN  \/ UNCHANGED terraform
           \/ /\ op # "plan" /\ Accepted(stack)
              /\ \E made \in Outcomes(op, stack), reached \in SUBSET StackHosts(stack) :
                    cloud' = [h \in Hosts |-> IF h \in reached THEN made[h] ELSE cloud[h]]
              /\ output' = output
    /\ UNCHANGED <<fleet_set, files, operator>>

\* _terraform_host_target_manifest: no output or no host in it is an error, as
\* is `terraform output` failing.
Listed(stack) == output[stack] # None /\ \E h \in StackHosts(stack) : output[stack][h] # 0

ReadOutput(c) ==
    /\ command[c].at \in {"output", "output_again"}
    /\ \/ Fails(c)
       \/ /\ Listed(command[c].stack)
          /\ command' = [command EXCEPT
                ![c].read = output[command[c].stack],
                ![c].at = IF @ = "output" THEN "load" ELSE "prune_load"]
    /\ UNCHANGED <<fleet_set, files, terraform, operator>>

\* _load_optional_host_target_manifest: an absent file is no target at all, a
\* torn one is an error.
_upsert_host_targets(c) ==
    [h \in Hosts |-> IF h \in StackHosts(command[c].stack) /\ command[c].read[h] # 0
                     THEN command[c].read[h] ELSE targets[h]]

\* Faulty: an empty file counts as no target.
LoadTorn(c) ==
    /\ command[c].at = "load"
    /\ LET found == [h \in Hosts |-> IF hosts_toml = "torn" /\ h \notin StackHosts(command[c].stack)
                                     THEN 0 ELSE _upsert_host_targets(c)[h]]
       IN  command' = [command EXCEPT ![c].at = "empty", ![c].content = found]
    /\ UNCHANGED <<fleet_set, files, terraform, operator>>

Load(c) ==
    /\ command[c].at = "load"
    /\ IF hosts_toml = "torn" THEN Fails(c)
       ELSE command' = [command EXCEPT ![c].at = "empty", ![c].content = _upsert_host_targets(c)]
    /\ UNCHANGED <<fleet_set, files, terraform, operator>>

\* Faulty: the name alone decides, or nothing but what was read does.
PrunedByName(c) ==
    FleetNamed \cup {h \in FleetHosts : targets[h] # 0 /\ command[c].read[h] = 0}
PrunedUnlessRead(c) ==
    {h \in Hosts : targets[h] # 0 /\ (h \in FleetHosts => command[c].read[h] = 0)}

\* The fleet's entries, told by name and by the shared key, that were not read.
Pruned(c) == {h \in FleetHosts : targets[h] # 0 /\ command[c].read[h] = 0}

\* Faulty: a manifest with no target is written like any other.
PruneLoadNeverUnlinking(c) ==
    /\ command[c].at = "prune_load"
    /\ LET remaining == [h \in Hosts |-> IF h \in Pruned(c) THEN 0 ELSE targets[h]]
       IN  IF hosts_toml = "torn" THEN Fails(c)
           ELSE IF Pruned(c) = {} THEN Ends(c)
           ELSE command' = [command EXCEPT ![c].at = "prune_empty", ![c].content = remaining]
    /\ UNCHANGED <<fleet_set, files, terraform, operator>>

PruneLoad(c) ==
    /\ command[c].at = "prune_load"
    /\ LET remaining == [h \in Hosts |-> IF h \in Pruned(c) THEN 0 ELSE targets[h]]
       IN  IF hosts_toml = "torn" THEN Fails(c)
           ELSE IF Pruned(c) = {} THEN Ends(c)
           ELSE command' = [command EXCEPT
                    ![c].at = IF remaining = Empty THEN "prune_unlink" ELSE "prune_empty",
                    ![c].content = remaining]
    /\ UNCHANGED <<fleet_set, files, terraform, operator>>

\* write_text empties the file,
EmptyFile(c) ==
    /\ command[c].at \in {"empty", "prune_empty"}
    /\ hosts_toml' = "torn"
    /\ command' = [command EXCEPT ![c].at = IF @ = "empty" THEN "fill" ELSE "prune_fill"]
    /\ UNCHANGED <<fleet_set, targets, terraform, operator>>

\* Faulty: the fleet's import is not followed by the prune.
FillOnly(c) ==
    /\ command[c].at \in {"fill", "prune_fill"}
    /\ hosts_toml' = "written"
    /\ targets' = command[c].content
    /\ Ends(c)
    /\ UNCHANGED <<fleet_set, terraform, operator>>

\* and fills it; a fleet apply then prunes.
Fill(c) ==
    /\ command[c].at \in {"fill", "prune_fill"}
    /\ hosts_toml' = "written"
    /\ targets' = command[c].content
    /\ IF command[c].at = "fill" /\ command[c].op = "apply" /\ command[c].stack = "fleet"
       THEN command' = [command EXCEPT ![c].at = "output_again", ![c].content = None, ![c].read = None]
       ELSE Ends(c)
    /\ UNCHANGED <<fleet_set, terraform, operator>>

\* No target would remain: the file goes. It may be gone already.
Unlink(c) ==
    /\ command[c].at = "prune_unlink"
    /\ IF hosts_toml = "absent" THEN Fails(c) /\ UNCHANGED files
       ELSE hosts_toml' = "absent" /\ targets' = Empty /\ Ends(c)
    /\ UNCHANGED <<fleet_set, terraform, operator>>

\* Ctrl-C or a crash, whatever the command was doing. Inside Terraform it is one
\* of Terraform's failures.
Interrupt(c) ==
    /\ command[c].at \notin Returned \cup {"terraform"}
    /\ Fails(c)
    /\ UNCHANGED <<fleet_set, files, terraform, operator>>

\* The operator edits hosts.toml while no command runs: adds or drops an entry
\* of their own, or drops another. A torn file is put together again from theirs.
Edit(h) ==
    /\ \A c \in Cmds : command[c].at \in Returned
    /\ command' = [c \in Cmds |-> Idle]
    /\ h \in UserHosts \/ targets[h] # 0
    /\ own' = IF h \notin UserHosts THEN own ELSE IF h \in own THEN own \ {h} ELSE own \cup {h}
    /\ targets' = [g \in Hosts |->
           IF g \in UserHosts THEN IF g \in own' THEN 1 ELSE 0
           ELSE IF g = h \/ hosts_toml = "torn" THEN 0 ELSE targets[g]]
    /\ hosts_toml' = IF targets' = Empty THEN "absent" ELSE "written"
    /\ UNCHANGED <<fleet_set, terraform, asked>>

Step(c) ==
    \/ \E op \in Ops, stack \in Stacks, set \in SetOptions : Start(c, op, stack, set)
    \/ EmptySet(c) \/ FillSet(c)
    \/ TerraformDone(c) \/ TerraformFails(c)
    \/ ReadOutput(c) \/ Load(c) \/ PruneLoad(c)
    \/ EmptyFile(c) \/ Fill(c) \/ Unlink(c)
    \/ Interrupt(c)

Next == (\E c \in Cmds : Step(c)) \/ (\E h \in Hosts : Edit(h))

Spec == Init /\ [][Next]_vars

-----------------------------------------------------------------------------
ManifestsOf(hosts) == [hosts -> 0 .. 2]

TypeOK ==
    /\ fleet_set \in SetOptions \cup {"torn"}
    /\ hosts_toml \in {"absent", "torn", "written"}
    /\ targets \in Inventories /\ cloud \in Inventories
    /\ \A stack \in Stacks : output[stack] \in {None} \cup ManifestsOf(StackHosts(stack))
    /\ command \in [Cmds -> [at : Places, op : Ops, stack : Stacks, set : SetOptions,
                             read : {None} \cup UNION {ManifestsOf(StackHosts(stack)) : stack \in Stacks},
                             content : {None} \cup Inventories]]
    /\ own \subseteq UserHosts
    /\ asked \subseteq Sets
    \* a file that is absent holds nothing, and one that was written something
    /\ (hosts_toml = "absent") => (targets = Empty)
    /\ (hosts_toml = "written") => (targets # Empty)

\* The operator's own entries are in every complete hosts.toml, whatever the
\* commands were, also one whose name starts with the fleet's name
\* (_upsert_host_targets, _prune_test_fleet_targets). One command at a time.
UserTargetsKept == \A h \in UserHosts : (targets[h] # 0) <=> (h \in own)

\* A command that ends well has made hosts.toml right, however earlier commands
\* ended: after a fleet apply or destroy the fleet's entries are exactly the
\* hosts that Terraform holds, at their addresses; a destroy removes the file
\* when it had no other entry (infra_aws_test_fleet_apply and _destroy).
FleetInSync ==
    \A c \in Cmds :
        (command[c].at = "ok" /\ command[c].stack = "fleet" /\ command[c].op \in {"apply", "destroy"})
            => (hosts_toml # "torn" /\ \A h \in FleetHosts : targets[h] = cloud[h])

\* A prune touches no entry but the fleet's (_prune_test_fleet_targets). One
\* command at a time.
PruneTouchesFleetOnly ==
    [][\A c \in Cmds : (command[c].at \in {"prune_fill", "prune_unlink"} /\ command'[c] # command[c])
           => \A h \in Hosts \ FleetHosts : targets'[h] = targets[h]]_vars

\* An apply drops a host of the fleet only for a set that was asked for: the one
\* of the last apply, or a --set given since (_save_test_fleet_set).
NoSilentDrop ==
    [][\A h \in FleetHosts :
           (\E c \in Cmds : command[c].at = "terraform" /\ command[c].op = "apply")
           /\ cloud[h] # 0 /\ cloud'[h] = 0
           => \E set \in asked : h \notin SetHosts(set)]_vars

\* What Terraform lists of each host, whether the file was left empty, and
\* whether a command is at work.
AbstractListed ==
    [h \in Hosts |-> IF h \in DevHosts /\ output["dev"] # None THEN output["dev"][h]
                     ELSE IF h \in FleetHosts /\ output["fleet"] # None THEN output["fleet"][h]
                     ELSE 0]
AbstractLost ==
    hosts_toml = "torn" /\ \A c \in Cmds : command[c].at \notin {"fill", "prune_fill"}
AbstractWorking == \E c \in Cmds : command[c].at \notin Returned

Inventory == INSTANCE HostInventory WITH
    listed <- AbstractListed, lost <- AbstractLost, working <- AbstractWorking

\* hosts.toml changes only by whole merges of what Terraform lists at that very
\* moment, by prunes of what it lists no more, or by the operator; and never once
\* an interrupted command has emptied it, until the operator has mended it
\* (_import_terraform_host_targets, _prune_test_fleet_targets). One command at a
\* time.
ImplementsInventory == Inventory!Spec
=============================================================================
