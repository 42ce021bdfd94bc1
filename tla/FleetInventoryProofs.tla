------------------------- MODULE FleetInventoryProofs -------------------------
(***************************************************************************)
(* Proofs about FleetInventory, for any sets of hosts: the types for any   *)
(* number of commands, and the properties of one command at a time.        *)
(*                                                                         *)
(* Between its load of hosts.toml and its write of it a command carries    *)
(* what it read of Terraform and what it will write.  The invariant says   *)
(* what these are at each place: of any command that they are whole and    *)
(* not empty (Carries); of one that runs alone that they agree with the    *)
(* entries it leaves alone (Merges), with the hosts that Terraform holds   *)
(* (Matches) and with what it lists now (Fresh), and that the set that is  *)
(* saved was asked for (Asked).                                            *)
(***************************************************************************)
EXTENDS FleetInventory, TLAPS

\* The assumption of the theorems on one command at a time.
OneCommand == \A c, d \in Cmds : c = d

\* What the commands may hold.
Manifests == UNION {ManifestsOf(StackHosts(stack)) : stack \in Stacks}
Commands == [at : Places, op : Ops, stack : Stacks, set : SetOptions,
             read : {None} \cup Manifests, content : {None} \cup Inventories]

\* Where a command imports, prunes, or has the file to write.
Importing == {"output", "load", "empty", "fill"}
Pruning == {"output_again", "prune_load", "prune_empty", "prune_fill", "prune_unlink"}
Writing == {"empty", "fill", "prune_empty", "prune_fill"}

\* What a command carries is whole, and never an empty inventory.
Carries(r) ==
    /\ r.at \in Importing => r.op \in {"apply", "import"}
    /\ r.at \in Pruning => r.stack = "fleet" /\ r.op \in {"apply", "destroy"}
    /\ r.at \in {"load", "prune_load"} => r.read \in ManifestsOf(StackHosts(r.stack))
    /\ r.at = "load" => \E h \in StackHosts(r.stack) : r.read[h] # 0
    /\ r.at \in Writing => r.content \in Inventories \ {Empty}
    /\ r.at \in {"empty_set", "fill_set"} => r.set # "none"

Whole == {r \in Commands : Carries(r)}

\* What is typed besides the commands.
FileType ==
    /\ fleet_set \in SetOptions \cup {"torn"}
    /\ hosts_toml \in {"absent", "torn", "written"}
    /\ targets \in Inventories
    /\ own \subseteq UserHosts /\ asked \subseteq Sets
    /\ hosts_toml = "absent" => targets = Empty
    /\ hosts_toml = "written" => targets # Empty
CloudType ==
    /\ cloud \in Inventories
    /\ output = [stack \in Stacks |-> output[stack]]
    /\ \A stack \in Stacks : output[stack] \in {None} \cup ManifestsOf(StackHosts(stack))

\* The types, with what a command carries.
TypeInv == command \in [Cmds -> Whole] /\ FileType /\ CloudType

\* What an import keeps are the operator's entries, what a prune keeps are all
\* but the fleet's.
Merges(c) ==
    /\ command[c].at \in {"empty", "fill"} =>
          \A h \in UserHosts : command[c].content[h] = targets[h]
    /\ command[c].at \in {"prune_empty", "prune_fill"} =>
          \A h \in Hosts \ FleetHosts : command[c].content[h] = targets[h]
    /\ command[c].at = "prune_unlink" =>
          /\ hosts_toml # "torn"
          /\ \A h \in Hosts \ FleetHosts : targets[h] = 0

\* What an apply or destroy of the fleet carries are the hosts of Terraform.
Matches(c) ==
    (command[c].stack = "fleet" /\ command[c].op \in {"apply", "destroy"}) =>
        \A h \in FleetHosts :
            /\ command[c].at \in Importing \cup {"output_again"} =>
                  output["fleet"] # None /\ output["fleet"][h] = cloud[h]
            /\ command[c].at \in {"load", "prune_load"} => command[c].read[h] = cloud[h]
            /\ (command[c].at \in {"empty", "fill"} /\ cloud[h] # 0) =>
                  command[c].content[h] = cloud[h]
            /\ (command[c].at \in {"output_again", "prune_load"} /\ cloud[h] # 0) =>
                  targets[h] = cloud[h]
            /\ command[c].at \in {"prune_empty", "prune_fill"} =>
                  command[c].content[h] = cloud[h]
            /\ command[c].at = "prune_unlink" => cloud[h] = 0

\* The list as an import of the stack, or a prune, would make it now.
Imported(stack) ==
    [h \in Hosts |-> IF h \in StackHosts(stack) /\ AbstractListed[h] # 0
                     THEN AbstractListed[h] ELSE targets[h]]
Unlisted ==
    [h \in Hosts |-> IF h \in FleetHosts /\ AbstractListed[h] = 0 THEN 0 ELSE targets[h]]

\* What a command read, and what it will write, are neither stale, nor made from
\* a file that was left empty.
Fresh(c) ==
    /\ command[c].at = "load" => command[c].read = output[command[c].stack]
    /\ command[c].at \in {"empty", "fill"} =>
          Listed(command[c].stack) /\ command[c].content = Imported(command[c].stack)
    /\ command[c].at = "prune_load" => \A h \in FleetHosts : command[c].read[h] = AbstractListed[h]
    /\ command[c].at \in {"prune_empty", "prune_fill", "prune_unlink"} =>
          command[c].content = Unlisted
    /\ command[c].at \in {"empty", "prune_empty"} => hosts_toml # "torn"
    /\ command[c].at \in {"fill", "prune_fill"} => hosts_toml = "torn"
    /\ command[c].at = "prune_unlink" => command[c].content = Empty

\* The set that is saved, or the default, was asked for.
Asked ==
    /\ fleet_set \in Sets => fleet_set \in asked
    /\ fleet_set = "none" => "lts" \in asked
    /\ \A c \in Cmds : (command[c].at \in {"empty_set", "fill_set"} /\ command[c].set \in Sets) =>
                          command[c].set \in asked

\* What holds with one command at a time.
SoloInv ==
    /\ UserTargetsKept /\ FleetInSync /\ Asked
    /\ \A c \in Cmds : Merges(c) /\ Matches(c) /\ Fresh(c)

\* The inductive invariant.
IInv == TypeInv /\ (OneCommand => SoloInv)

-----------------------------------------------------------------------------
\* The types of the module are among those of the invariant.
LEMMA TypeOfInv == TypeInv => TypeOK
<1>1. command \in [Cmds -> Whole] => command \in [Cmds -> Commands] BY DEF Whole
<1> QED BY <1>1 DEF TypeInv, TypeOK, FileType, CloudType, Commands, Manifests

\* The invariant holds when no command is at work.
LEMMA InitInv == Init => IInv
<1> SUFFICES ASSUME Init PROVE IInv OBVIOUS
<1>1. Empty \in Inventories BY DEF Empty, Inventories
<1>2. Idle \in Whole
  BY DEF Idle, Whole, Commands, Carries, Places, Returned, Ops, Stacks, SetOptions, Importing,
         Pruning, Writing
<1>3. command \in [Cmds -> Whole] BY <1>2 DEF Init
<1>4. FileType BY <1>1 DEF Init, FileType, SetOptions, Sets
<1>5. CloudType BY <1>1 DEF Init, CloudType
<1>6. UserTargetsKept BY DEF Init, UserTargetsKept, Empty, Hosts
<1>7. FleetInSync BY DEF Init, FleetInSync, Idle
<1>8. Asked BY DEF Init, Asked, Idle, Sets
<1>9. \A c \in Cmds : Merges(c) /\ Matches(c) /\ Fresh(c)
  BY DEF Init, Idle, Merges, Matches, Fresh, Importing
<1> QED BY <1>3, <1>4, <1>5, <1>6, <1>7, <1>8, <1>9 DEF IInv, TypeInv, SoloInv

-----------------------------------------------------------------------------
\* The types.

\* A step of command c leaves it whole, and the others alone.
Moved(c) == \E r \in Whole : command' = [command EXCEPT ![c] = r]

\* A command that is over carries nothing.
LEMMA OverIsWhole ==
  /\ Idle \in Whole
  /\ \A op \in Ops, stack \in Stacks :
        [Idle EXCEPT !.at = "ok", !.op = op, !.stack = stack] \in Whole
  BY DEF Idle, Whole, Commands, Carries, Places, Returned, Ops, Stacks, SetOptions, Importing,
         Pruning, Writing

\* So a command that ends is moved to such a record,
LEMMA OverMoves ==
  ASSUME TypeInv, NEW c \in Cmds, Ends(c) \/ Fails(c)
  PROVE  Moved(c)
<1>1. command[c].op \in Ops /\ command[c].stack \in Stacks BY DEF TypeInv, Whole, Commands
<1> QED BY <1>1, OverIsWhole DEF Moved, Ends, Fails

\* and so is one that goes on with what it carries.
LEMMA GoesMoves ==
  ASSUME TypeInv, NEW c \in Cmds, NEW place \in Places, Goes(c, place),
         Carries([command[c] EXCEPT !.at = place])
  PROVE  Moved(c)
<1>1. command[c] \in Commands BY DEF TypeInv, Whole
<1>2. [command[c] EXCEPT !.at = place] \in Whole BY <1>1 DEF Whole, Commands
<1> QED BY <1>2 DEF Moved, Goes, TypeInv

\* What an import writes is an inventory, and not empty.
LEMMA Upserted ==
  ASSUME TypeInv, NEW c \in Cmds, command[c].at = "load"
  PROVE  _upsert_host_targets(c) \in Inventories \ {Empty}
<1>1. /\ targets \in Inventories /\ command[c].stack \in Stacks
      /\ command[c].read \in ManifestsOf(StackHosts(command[c].stack))
      /\ \E h \in StackHosts(command[c].stack) : command[c].read[h] # 0
  BY TypeOfInv DEF TypeInv, TypeOK, Whole, Commands, Carries
<1>2. StackHosts(command[c].stack) \subseteq Hosts BY DEF StackHosts, Hosts
<1>3. _upsert_host_targets(c) \in Inventories
  BY <1>1, <1>2 DEF _upsert_host_targets, Inventories, ManifestsOf
<1>4. PICK h \in StackHosts(command[c].stack) : command[c].read[h] # 0 BY <1>1
<1>5. h \in Hosts BY <1>2
<1>6. _upsert_host_targets(c)[h] # 0 BY <1>4, <1>5 DEF _upsert_host_targets
<1>7. Empty[h] = 0 BY <1>5 DEF Empty
<1> QED BY <1>3, <1>6, <1>7

\* What a prune leaves.
Remaining(c) == [h \in Hosts |-> IF h \in Pruned(c) THEN 0 ELSE targets[h]]

\* It is an inventory.
LEMMA RemainingType ==
  ASSUME TypeInv, NEW c \in Cmds
  PROVE  Remaining(c) \in Inventories
  BY DEF TypeInv, FileType, Remaining, Inventories

\* Every step of a command leaves it whole.
LEMMA StepMoves ==
  ASSUME TypeInv, NEW c \in Cmds, Step(c)
  PROVE  Moved(c)
<1>1. /\ command \in [Cmds -> Whole] /\ command[c] \in Commands /\ Carries(command[c])
      /\ TypeOK
  BY TypeOfInv DEF TypeInv, Whole
<1>2. /\ command[c].op \in Ops /\ command[c].stack \in Stacks
      /\ command[c].content \in {None} \cup Inventories
      /\ command[c].read \in {None} \cup Manifests
  BY <1>1 DEF Commands
<1> USE <1>1, OverMoves, GoesMoves DEF Carries, Importing, Pruning, Writing
<1>3. ASSUME NEW op \in Ops, NEW stack \in Stacks, NEW set \in SetOptions, Start(c, op, stack, set)
      PROVE  Moved(c)
  <2>1. PICK place \in {"empty_set", "output", "terraform"} :
           /\ command' = [command EXCEPT ![c] =
                 [at |-> place, op |-> op, stack |-> stack, set |-> set,
                  read |-> None, content |-> None]]
           /\ place = "output" => op = "import"
           /\ place = "empty_set" => set # "none"
    BY <1>3 DEF Start
  <2>2. [at |-> place, op |-> op, stack |-> stack, set |-> set,
         read |-> None, content |-> None] \in Whole
    BY <2>1 DEF Whole, Commands, Places
  <2> QED BY <2>1, <2>2 DEF Moved
<1>4. CASE EmptySet(c) BY <1>4 DEF EmptySet, Places
<1>5. CASE FillSet(c)
  <2>1. [command[c] EXCEPT !.at = "terraform", !.set = "none"] \in Whole
    BY DEF Whole, Commands, Places, SetOptions
  <2> QED BY <1>5, <2>1 DEF FillSet, Moved
<1>6. CASE TerraformDone(c)
  <2>1. CASE Ends(c) BY <2>1
  <2>2. CASE Goes(c, "output") /\ command[c].op = "apply"
    BY <2>2 DEF Places
  <2>3. CASE /\ command[c].op = "destroy" /\ command[c].stack # "dev"
             /\ command' = [command EXCEPT ![c].at = "prune_load",
                                           ![c].read = [h \in FleetHosts |-> 0]]
    <3>1. command[c].stack = "fleet" BY <1>2, <2>3 DEF Stacks
    <3>2. /\ [h \in FleetHosts |-> 0] \in ManifestsOf(StackHosts("fleet"))
          /\ [h \in FleetHosts |-> 0] \in Manifests
      BY DEF ManifestsOf, StackHosts, Manifests, Stacks
    <3>3. [command[c] EXCEPT !.at = "prune_load", !.read = [h \in FleetHosts |-> 0]] \in Whole
      BY <2>3, <3>1, <3>2 DEF Whole, Commands, Places
    <3> QED BY <2>3, <3>3 DEF Moved
  <2> QED BY <1>6, <2>1, <2>2, <2>3 DEF TerraformDone
<1>7. CASE TerraformFails(c) BY <1>7 DEF TerraformFails
<1>8. CASE ReadOutput(c)
  <2>1. CASE Fails(c) BY <2>1
  <2>2. CASE ~Fails(c)
    <3> DEFINE place == IF command[c].at = "output" THEN "load" ELSE "prune_load"
    <3>1. /\ Listed(command[c].stack) /\ command[c].at \in {"output", "output_again"}
          /\ command' = [command EXCEPT ![c].read = output[command[c].stack], ![c].at = place]
      BY <1>8, <2>2 DEF ReadOutput
    <3>2. /\ output[command[c].stack] \in ManifestsOf(StackHosts(command[c].stack))
          /\ output[command[c].stack] \in Manifests
          /\ \E h \in StackHosts(command[c].stack) : output[command[c].stack][h] # 0
      BY <1>2, <3>1 DEF Listed, TypeOK, Manifests
    <3>3. [command[c] EXCEPT !.read = output[command[c].stack], !.at = place] \in Whole
      BY <3>1, <3>2 DEF Whole, Commands, Places
    <3> DEFINE r == [command[c] EXCEPT !.read = output[command[c].stack], !.at = place]
    <3>4. command' = [command EXCEPT ![c] = r] /\ r \in Whole BY <3>1, <3>3
    <3> HIDE DEF r
    <3> QED BY <3>4 DEF Moved
  <2> QED BY <2>1, <2>2
<1>9. CASE Load(c)
  <2>1. CASE Fails(c) BY <2>1
  <2>2. CASE ~Fails(c)
    <3>1. _upsert_host_targets(c) \in Inventories \ {Empty} BY <1>9, Upserted DEF Load
    <3>2. [command[c] EXCEPT !.at = "empty", !.content = _upsert_host_targets(c)] \in Whole
      BY <1>9, <3>1 DEF Load, Whole, Commands, Places
    <3> QED BY <1>9, <2>2, <3>2 DEF Load, Moved
  <2> QED BY <2>1, <2>2
<1>10. CASE PruneLoad(c)
  <2>1. CASE Fails(c) \/ Ends(c) BY <2>1
  <2>2. CASE ~(Fails(c) \/ Ends(c))
    <3> DEFINE place == IF Remaining(c) = Empty THEN "prune_unlink" ELSE "prune_empty"
    <3>1. command' = [command EXCEPT ![c].at = place, ![c].content = Remaining(c)]
      BY <1>10, <2>2 DEF PruneLoad, Remaining
    <3>2. [command[c] EXCEPT !.at = place, !.content = Remaining(c)] \in Whole
      <4>1. /\ command[c].at = "prune_load" /\ place \in Places
            /\ place = "prune_empty" => Remaining(c) # Empty
        BY <1>10 DEF PruneLoad, Places
      <4>2. Remaining(c) \in Inventories BY RemainingType
      <4> HIDE DEF place
      <4>3. place \in {"prune_unlink", "prune_empty"} BY DEF place
      <4>4. [command[c] EXCEPT !.at = place, !.content = Remaining(c)] \in Commands
        BY <4>1, <4>2 DEF Commands
      <4>5. Carries([command[c] EXCEPT !.at = place, !.content = Remaining(c)])
        BY <4>1, <4>2, <4>3 DEF Commands
      <4> QED BY <4>4, <4>5 DEF Whole
    <3> DEFINE r == [command[c] EXCEPT !.at = place, !.content = Remaining(c)]
    <3>3. command' = [command EXCEPT ![c] = r] /\ r \in Whole BY <3>1, <3>2
    <3> HIDE DEF r
    <3> QED BY <3>3 DEF Moved
  <2> QED BY <2>1, <2>2
<1>11. CASE EmptyFile(c)
  <2> DEFINE place == IF command[c].at = "empty" THEN "fill" ELSE "prune_fill"
  <2>1. command' = [command EXCEPT ![c].at = place] BY <1>11 DEF EmptyFile
  <2>2. [command[c] EXCEPT !.at = place] \in Whole
    BY <1>11 DEF EmptyFile, Whole, Commands, Places
  <2> QED BY <2>1, <2>2 DEF Moved
<1>12. CASE Fill(c)
  <2>1. CASE Ends(c) BY <2>1
  <2>2. CASE ~Ends(c)
    <3>1. /\ command[c].op = "apply" /\ command[c].stack = "fleet"
          /\ command' = [command EXCEPT ![c].at = "output_again", ![c].content = None,
                                        ![c].read = None]
      BY <1>12, <2>2 DEF Fill
    <3>2. [command[c] EXCEPT !.at = "output_again", !.content = None, !.read = None] \in Whole
      BY <3>1 DEF Whole, Commands, Places
    <3>3. command' = [command EXCEPT ![c] = [command[c] EXCEPT !.at = "output_again",
                                            !.content = None, !.read = None]]
      BY <3>1
    <3> QED BY <3>2, <3>3 DEF Moved
  <2> QED BY <2>1, <2>2
<1>13. CASE Unlink(c) BY <1>13 DEF Unlink
<1>14. CASE Interrupt(c) BY <1>14 DEF Interrupt
<1> QED BY <1>3, <1>4, <1>5, <1>6, <1>7, <1>8, <1>9, <1>10, <1>11, <1>12, <1>13, <1>14 DEF Step

\* What Terraform makes of the hosts are inventories.
LEMMA OutcomesType ==
  ASSUME NEW op, NEW stack, NEW made \in Outcomes(op, stack)
  PROVE  made \in Inventories
  BY DEF Outcomes

\* Every step of a command keeps the types of the files,
LEMMA FileStep ==
  ASSUME TypeInv, NEW c \in Cmds, Step(c)
  PROVE  FileType'
<1>1. FileType /\ command[c] \in Commands /\ Carries(command[c])
  BY DEF TypeInv, Whole
<1> USE <1>1 DEF FileType, files, terraform, operator
<1>2. ASSUME NEW op \in Ops, NEW stack \in Stacks, NEW set \in SetOptions, Start(c, op, stack, set)
      PROVE  FileType'
  BY <1>2 DEF Start
<1>3. CASE EmptySet(c) BY <1>3 DEF EmptySet
<1>4. CASE FillSet(c) BY <1>4 DEF FillSet, Commands
<1>5. CASE TerraformDone(c)
  <2>1. asked' \subseteq Sets
    BY <1>5 DEF TerraformDone, Accepted, SetOptions, Sets
  <2> QED BY <1>5, <2>1 DEF TerraformDone
<1>6. CASE TerraformFails(c) BY <1>6 DEF TerraformFails
<1>7. CASE ReadOutput(c) BY <1>7 DEF ReadOutput
<1>8. CASE Load(c) BY <1>8 DEF Load
<1>9. CASE PruneLoad(c) BY <1>9 DEF PruneLoad
<1>10. CASE EmptyFile(c) BY <1>10 DEF EmptyFile
<1>11. CASE Fill(c) BY <1>11 DEF Fill, Carries, Writing
<1>12. CASE Unlink(c)
  <2>1. Empty \in Inventories BY DEF Empty, Inventories
  <2> QED BY <1>12, <2>1 DEF Unlink
<1>13. CASE Interrupt(c) BY <1>13 DEF Interrupt
<1> QED BY <1>2, <1>3, <1>4, <1>5, <1>6, <1>7, <1>8, <1>9, <1>10, <1>11, <1>12, <1>13 DEF Step

\* and of what Terraform holds.
LEMMA CloudStep ==
  ASSUME TypeInv, NEW c \in Cmds, Step(c)
  PROVE  CloudType'
<1>1. CloudType /\ command[c].stack \in Stacks BY DEF TypeInv, Whole, Commands
<1>2. CASE UNCHANGED terraform BY <1>1, <1>2 DEF CloudType, terraform
<1>3. CASE TerraformDone(c) /\ ~UNCHANGED terraform
  <2>1. PICK made \in Inventories :
           /\ cloud' = made
           /\ \/ output' = [output EXCEPT ![command[c].stack] =
                               [h \in StackHosts(command[c].stack) |-> made[h]]]
              \/ output' = [output EXCEPT ![command[c].stack] = None]
    BY <1>3, OutcomesType DEF TerraformDone
  <2>2. [h \in StackHosts(command[c].stack) |-> made[h]] \in
           ManifestsOf(StackHosts(command[c].stack))
    <3>1. StackHosts(command[c].stack) \subseteq Hosts BY DEF StackHosts, Hosts
    <3> QED BY <3>1 DEF Inventories, ManifestsOf
  <2> QED BY <1>1, <2>1, <2>2, Zenon DEF CloudType
<1>4. CASE TerraformFails(c) /\ ~UNCHANGED terraform
  <2>1. PICK made \in Inventories, reached \in SUBSET StackHosts(command[c].stack) :
           /\ cloud' = [h \in Hosts |-> IF h \in reached THEN made[h] ELSE cloud[h]]
           /\ output' = output
    BY <1>4, OutcomesType DEF TerraformFails
  <2>2. cloud' \in Inventories BY <1>1, <2>1 DEF CloudType, Inventories
  <2> QED BY <1>1, <2>1, <2>2 DEF CloudType
<1>5. TerraformDone(c) \/ TerraformFails(c) \/ UNCHANGED terraform
  BY DEF Step, Start, EmptySet, FillSet, ReadOutput, Load, PruneLoad, EmptyFile, Fill, Unlink,
         Interrupt
<1> QED BY <1>2, <1>3, <1>4, <1>5

\* The operator edits a whole file.
LEMMA EditType ==
  ASSUME TypeInv, NEW h \in Hosts, Edit(h)
  PROVE  TypeInv'
<1>1. FileType /\ CloudType /\ command \in [Cmds -> Whole] BY DEF TypeInv
<1>2. targets' \in Inventories
  BY <1>1 DEF FileType, Edit, Inventories
<1>3. FileType'
  BY <1>1, <1>2 DEF FileType, Edit, files, terraform
<1>4. CloudType' BY <1>1 DEF CloudType, Edit, terraform
<1>5. command' \in [Cmds -> Whole] BY OverIsWhole DEF Edit
<1> QED BY <1>3, <1>4, <1>5 DEF TypeInv

\* Every step keeps the types.
LEMMA TypeStep ==
  ASSUME TypeInv, [Next]_vars
  PROVE  TypeInv'
<1>1. ASSUME NEW c \in Cmds, Step(c) PROVE TypeInv'
  <2>1. command' \in [Cmds -> Whole] BY <1>1, StepMoves DEF Moved, TypeInv
  <2> QED BY <1>1, <2>1, FileStep, CloudStep DEF TypeInv
<1>2. CASE UNCHANGED vars
  <2>1. FileType /\ CloudType /\ command \in [Cmds -> Whole] BY DEF TypeInv
  <2>2. FileType' /\ CloudType' /\ command' \in [Cmds -> Whole]
    BY <1>2, <2>1 DEF vars, files, terraform, operator, FileType, CloudType
  <2> QED BY <2>2 DEF TypeInv
<1> QED BY <1>1, <1>2, EditType DEF Next
-----------------------------------------------------------------------------
\* One command at a time.

\* A command at each place came there by these steps.
LEMMA PlacesFrom ==
  ASSUME TypeInv, NEW c \in Cmds, Step(c)
  PROVE  /\ command'[c].at = "empty_set" =>
               \E op \in Ops, stack \in Stacks, set \in SetOptions : Start(c, op, stack, set)
         /\ command'[c].at = "fill_set" => EmptySet(c)
         /\ command'[c].at = "output" => TerraformDone(c) \/ command'[c].op = "import"
         /\ command'[c].at = "load" => ReadOutput(c)
         /\ command'[c].at = "empty" => Load(c)
         /\ command'[c].at \in {"fill", "prune_fill"} => EmptyFile(c)
         /\ command'[c].at = "output_again" => Fill(c)
         /\ command'[c].at = "prune_load" => ReadOutput(c) \/ TerraformDone(c)
         /\ command'[c].at \in {"prune_empty", "prune_unlink"} => PruneLoad(c)
         /\ command'[c].at = "ok" => TerraformDone(c) \/ PruneLoad(c) \/ Fill(c) \/ Unlink(c)
<1>1. /\ command \in [Cmds -> Whole] /\ command[c] \in Commands
  BY DEF TypeInv, Whole
<1>2. ASSUME Fails(c) PROVE command'[c].at = "idle" BY <1>1, <1>2 DEF Fails, Idle
<1>a. ASSUME Ends(c) PROVE command'[c].at = "ok" BY <1>1, <1>a DEF Ends, Idle
<1>3. ASSUME NEW place, Goes(c, place) PROVE command'[c].at = place
  BY <1>1, <1>3 DEF Goes, Commands
<1>4. ASSUME NEW op \in Ops, NEW stack \in Stacks, NEW set \in SetOptions, Start(c, op, stack, set)
      PROVE  /\ command'[c].at \in {"empty_set", "output", "terraform"}
             /\ command'[c].at = "output" => command'[c].op = "import"
  BY <1>1, <1>4 DEF Start
<1>5. CASE EmptySet(c) BY <1>3, <1>5 DEF EmptySet
<1>6. CASE FillSet(c) BY <1>1, <1>6 DEF FillSet, Commands
<1>7. CASE TerraformDone(c)
  <2>1. CASE Ends(c)
    <3>1. command'[c].at = "ok" BY <1>1, <2>1 DEF Ends, Idle
    <3> QED BY <1>7, <3>1
  <2>2. CASE Goes(c, "output") BY <1>3, <1>7, <2>2
  <2>3. CASE command' = [command EXCEPT ![c].at = "prune_load", ![c].read = [h \in FleetHosts |-> 0]]
    <3>1. command'[c].at = "prune_load" BY <1>1, <2>3 DEF Commands
    <3> QED BY <1>7, <3>1
  <2> QED BY <1>7, <2>1, <2>2, <2>3 DEF TerraformDone
<1>8. CASE TerraformFails(c) BY <1>2, <1>8 DEF TerraformFails
<1>9. CASE ReadOutput(c)
  <2>1. command'[c].at \in {"idle", "load", "prune_load"}
    BY <1>1, <1>2, <1>9 DEF ReadOutput, Commands
  <2> QED BY <1>9, <2>1
<1>10. CASE Load(c)
  <2>1. command'[c].at \in {"idle", "empty"} BY <1>1, <1>2, <1>10 DEF Load, Commands
  <2> QED BY <1>10, <2>1
<1>11. CASE PruneLoad(c)
  <2>1. command'[c].at \in {"idle", "ok", "prune_empty", "prune_unlink"}
    <3>1. CASE Fails(c) \/ Ends(c) BY <1>2, <1>a, <3>1
    <3>2. CASE ~(Fails(c) \/ Ends(c)) BY <1>1, <1>11, <3>2 DEF PruneLoad, Commands
    <3> QED BY <3>1, <3>2
  <2> QED BY <1>11, <2>1
<1>12. CASE EmptyFile(c)
  <2>1. command'[c].at \in {"fill", "prune_fill"} BY <1>1, <1>12 DEF EmptyFile, Commands
  <2> QED BY <1>12, <2>1
<1>13. CASE Fill(c)
  <2>1. command'[c].at \in {"ok", "output_again"}
    BY <1>1, <1>a, <1>13 DEF Fill, Commands
  <2> QED BY <1>13, <2>1
<1>14. CASE Unlink(c)
  <2>1. command'[c].at \in {"idle", "ok"} BY <1>1, <1>2, <1>14 DEF Unlink, Ends, Idle, Commands
  <2> QED BY <1>14, <2>1
<1>15. CASE Interrupt(c) BY <1>2, <1>15 DEF Interrupt
<1> QED BY <1>4, <1>5, <1>6, <1>7, <1>8, <1>9, <1>10, <1>11, <1>12, <1>13, <1>14, <1>15 DEF Step

\* The steps that are not of Terraform, of the set or of the file leave them alone.
LEMMA Frame ==
  ASSUME NEW c \in Cmds, Step(c)
  PROVE  /\ TerraformDone(c) \/ TerraformFails(c) \/ UNCHANGED terraform
         /\ EmptyFile(c) \/ Fill(c) \/ Unlink(c) \/ UNCHANGED files
         /\ UNCHANGED own
  BY DEF Step, Start, EmptySet, FillSet, TerraformDone, TerraformFails, ReadOutput, Load,
         PruneLoad, EmptyFile, Fill, Unlink, Interrupt, files, terraform, operator

\* What the command writes keeps the entries that are not its own.
LEMMA MergesStep ==
  ASSUME IInv, OneCommand, NEW c \in Cmds, Step(c)
  PROVE  Merges(c)'
<1>1. /\ TypeInv /\ Merges(c) /\ FileType /\ command \in [Cmds -> Whole]
      /\ command[c] \in Commands /\ Carries(command[c])
  BY DEF IInv, SoloInv, TypeInv, Whole
<1>2. CASE Load(c)
  <2>1. CASE Fails(c) BY <1>1, <2>1 DEF Fails, Idle, Merges
  <2>2. CASE ~Fails(c)
    <3>1. /\ command'[c].at = "empty" /\ command'[c].content = _upsert_host_targets(c)
          /\ targets' = targets
      BY <1>1, <1>2, <2>2 DEF Load, Commands, files
    <3>2. \A h \in UserHosts : h \in Hosts /\ h \notin StackHosts(command[c].stack)
      BY InventoryAssumption DEF StackHosts, Hosts
    <3>3. \A h \in UserHosts : _upsert_host_targets(c)[h] = targets[h]
      BY <3>2 DEF _upsert_host_targets
    <3> QED BY <3>1, <3>3 DEF Merges
  <2> QED BY <2>1, <2>2
<1>3. CASE PruneLoad(c)
  <2>1. CASE Fails(c) BY <1>1, <2>1 DEF Fails, Idle, Merges
  <2>a. CASE Ends(c) BY <1>1, <2>a DEF Ends, Idle, Merges
  <2>2. CASE ~(Fails(c) \/ Ends(c))
    <3>1. /\ command'[c].content = Remaining(c) /\ targets' = targets /\ hosts_toml' = hosts_toml
          /\ hosts_toml # "torn"
          /\ command'[c].at = IF Remaining(c) = Empty THEN "prune_unlink" ELSE "prune_empty"
      BY <1>1, <1>3, <2>2 DEF PruneLoad, Remaining, Commands, files
    <3>2. \A h \in Hosts \ FleetHosts : Remaining(c)[h] = targets[h]
      BY DEF Remaining, Pruned
    <3>3. Remaining(c) = Empty => \A h \in Hosts \ FleetHosts : targets[h] = 0
      <4>1. \A h \in Hosts : Empty[h] = 0 BY DEF Empty
      <4> QED BY <3>2, <4>1
    <3> QED BY <3>1, <3>2, <3>3 DEF Merges
  <2> QED BY <2>1, <2>a, <2>2
<1>4. CASE EmptyFile(c)
  <2>1. /\ command'[c].content = command[c].content /\ targets' = targets
        /\ command'[c].at = IF command[c].at = "empty" THEN "fill" ELSE "prune_fill"
        /\ command[c].at \in {"empty", "prune_empty"}
    BY <1>1, <1>4 DEF EmptyFile, Commands
  <2> QED BY <1>1, <2>1 DEF Merges
<1>5. CASE ~(Load(c) \/ PruneLoad(c) \/ EmptyFile(c))
  BY <1>1, <1>5, PlacesFrom DEF Merges
<1> QED BY <1>2, <1>3, <1>4, <1>5

\* The fleet that the command writes is the one that Terraform holds.
LEMMA MatchesStep ==
  ASSUME IInv, OneCommand, NEW c \in Cmds, Step(c)
  PROVE  Matches(c)'
<1>1. /\ TypeInv /\ Matches(c) /\ FileType /\ CloudType /\ command \in [Cmds -> Whole]
      /\ command[c] \in Commands /\ Carries(command[c])
  BY DEF IInv, SoloInv, TypeInv, Whole
<1>2. SUFFICES ASSUME command'[c].stack = "fleet", command'[c].op \in {"apply", "destroy"},
                      NEW h \in FleetHosts
      PROVE  /\ command'[c].at \in Importing \cup {"output_again"} =>
                   output'["fleet"] # None /\ output'["fleet"][h] = cloud'[h]
             /\ command'[c].at \in {"load", "prune_load"} => command'[c].read[h] = cloud'[h]
             /\ (command'[c].at \in {"empty", "fill"} /\ cloud'[h] # 0) =>
                   command'[c].content[h] = cloud'[h]
             /\ (command'[c].at \in {"output_again", "prune_load"} /\ cloud'[h] # 0) =>
                   targets'[h] = cloud'[h]
             /\ command'[c].at \in {"prune_empty", "prune_fill"} =>
                   command'[c].content[h] = cloud'[h]
             /\ command'[c].at = "prune_unlink" => cloud'[h] = 0
  BY DEF Matches
<1>3. h \in Hosts BY DEF Hosts
<1> USE DEF Importing
<1>4. CASE TerraformDone(c)
  <2>1. CASE Ends(c) BY <1>1, <2>1 DEF Ends, Idle
  <2>2. CASE ~Ends(c) /\ command[c].op = "apply"
    <3>1. Goes(c, "output") BY <1>4, <2>2 DEF TerraformDone
    <3>2. command'[c] = [command[c] EXCEPT !.at = "output"] BY <1>1, <3>1 DEF Goes
    <3>3. command[c].stack = "fleet" /\ command'[c].at = "output"
      BY <1>1, <1>2, <3>2 DEF Commands
    <3>4. PICK made \in Outcomes("apply", "fleet") :
             /\ cloud' = made
             /\ output' = [output EXCEPT !["fleet"] = [g \in StackHosts("fleet") |-> made[g]]]
      BY <1>4, <2>2, <3>3 DEF TerraformDone
    <3>5. output'["fleet"] = [g \in FleetHosts |-> made[g]]
      BY <1>1, <3>4, Zenon DEF CloudType, StackHosts, Stacks
    <3>6. [g \in FleetHosts |-> made[g]] # None
      <4>1. \A g \in FleetHosts : made[g] \in 0 .. 2
        BY OutcomesType DEF Inventories, Hosts
      <4>2. [g \in FleetHosts |-> made[g]] \in [FleetHosts -> 0 .. 2] BY <4>1
      <4> QED BY <4>2, InventoryAssumption
    <3> QED BY <3>3, <3>4, <3>5, <3>6
  <2>3. CASE ~Ends(c) /\ command[c].op = "destroy"
    <3>1. command' = [command EXCEPT ![c].at = "prune_load", ![c].read = [g \in FleetHosts |-> 0]]
      BY <1>4, <2>3 DEF TerraformDone
    <3>2. /\ command'[c].at = "prune_load" /\ command'[c].read = [g \in FleetHosts |-> 0]
          /\ command[c].stack = "fleet"
      BY <1>1, <1>2, <3>1 DEF Commands
    <3>3. cloud' \in Outcomes("destroy", "fleet") BY <1>4, <2>3, <3>2 DEF TerraformDone
    <3>4. cloud'[h] = 0 BY <1>3, <3>3 DEF Outcomes, StackHosts
    <3> QED BY <3>2, <3>4
  <2> QED BY <1>4, <2>1, <2>2, <2>3 DEF TerraformDone
<1>5. CASE TerraformFails(c) BY <1>1, <1>5 DEF TerraformFails, Fails, Idle
<1>6. CASE ReadOutput(c)
  <2>1. CASE Fails(c) BY <1>1, <2>1 DEF Fails, Idle
  <2>2. CASE ~Fails(c)
    <3>1. /\ command'[c].read = output[command[c].stack]
          /\ command'[c].at = IF command[c].at = "output" THEN "load" ELSE "prune_load"
          /\ command'[c].stack = command[c].stack /\ command'[c].op = command[c].op
          /\ command[c].at \in {"output", "output_again"}
          /\ UNCHANGED <<cloud, output, targets>>
      BY <1>1, <1>6, <2>2 DEF ReadOutput, Commands, files, terraform
    <3> QED BY <1>1, <1>2, <3>1 DEF Matches
  <2> QED BY <2>1, <2>2
<1>7. CASE Load(c)
  <2>1. CASE Fails(c) BY <1>1, <2>1 DEF Fails, Idle
  <2>2. CASE ~Fails(c)
    <3>1. /\ command'[c].content = _upsert_host_targets(c) /\ command'[c].at = "empty"
          /\ command'[c].stack = command[c].stack /\ command'[c].op = command[c].op
          /\ command[c].at = "load" /\ UNCHANGED <<cloud, output, targets>>
      BY <1>1, <1>7, <2>2 DEF Load, Commands, files, terraform
    <3>2. command[c].read[h] = cloud[h] BY <1>1, <1>2, <3>1 DEF Matches
    <3>3. cloud[h] # 0 => _upsert_host_targets(c)[h] = cloud[h]
      BY <1>2, <1>3, <3>1, <3>2 DEF _upsert_host_targets, StackHosts
    <3> QED BY <1>1, <1>2, <3>1, <3>3 DEF Matches
  <2> QED BY <2>1, <2>2
<1>8. CASE EmptyFile(c)
  <2>1. /\ command'[c].content = command[c].content
        /\ command'[c].stack = command[c].stack /\ command'[c].op = command[c].op
        /\ command'[c].at = IF command[c].at = "empty" THEN "fill" ELSE "prune_fill"
        /\ command[c].at \in {"empty", "prune_empty"} /\ UNCHANGED <<cloud, output, targets>>
    BY <1>1, <1>8 DEF EmptyFile, Commands, terraform
  <2> QED BY <1>1, <1>2, <2>1 DEF Matches
<1>9. CASE Fill(c)
  <2>1. CASE Ends(c) BY <1>1, <2>1 DEF Ends, Idle
  <2>2. CASE ~Ends(c)
    <3>1. /\ command[c].at = "fill" /\ command[c].op = "apply" /\ command[c].stack = "fleet"
          /\ command'[c].at = "output_again"
          /\ targets' = command[c].content /\ UNCHANGED <<cloud, output>>
      BY <1>1, <1>9, <2>2 DEF Fill, Commands, terraform
    <3> QED BY <1>1, <3>1 DEF Matches
  <2> QED BY <2>1, <2>2
<1>10. CASE PruneLoad(c)
  <2>1. CASE Fails(c) BY <1>1, <2>1 DEF Fails, Idle
  <2>a. CASE Ends(c) BY <1>1, <2>a DEF Ends, Idle
  <2>2. CASE ~(Fails(c) \/ Ends(c))
    <3>1. /\ command'[c].content = Remaining(c) /\ UNCHANGED <<targets, cloud>>
          /\ command[c].at = "prune_load"
          /\ command[c].stack = "fleet" /\ command[c].op \in {"apply", "destroy"}
          /\ command'[c].at = IF Remaining(c) = Empty THEN "prune_unlink" ELSE "prune_empty"
      BY <1>1, <1>2, <1>10, <2>2 DEF PruneLoad, Remaining, Commands, files, terraform
    <3>2. command[c].read[h] = cloud[h] /\ (cloud[h] # 0 => targets[h] = cloud[h])
      BY <1>1, <3>1 DEF Matches
    <3>3. Remaining(c)[h] = cloud[h] BY <1>3, <3>2 DEF Remaining, Pruned
    <3>4. Empty[h] = 0 BY <1>3 DEF Empty
    <3> QED BY <3>1, <3>3, <3>4
  <2> QED BY <2>1, <2>a, <2>2
<1>11. CASE ~(TerraformDone(c) \/ ReadOutput(c) \/ Load(c) \/ EmptyFile(c) \/ Fill(c) \/ PruneLoad(c))
  BY <1>1, <1>2, <1>11, PlacesFrom
<1> QED BY <1>4, <1>5, <1>6, <1>7, <1>8, <1>9, <1>10, <1>11

\* What Terraform lists of a stack's hosts.
LEMMA ListedValue ==
  ASSUME NEW stack \in Stacks, NEW h \in StackHosts(stack)
  PROVE  /\ h \in Hosts
         /\ AbstractListed[h] = IF output[stack] = None THEN 0 ELSE output[stack][h]
<1>1. h \in Hosts BY DEF Hosts, StackHosts, Stacks
<1>2. DevHosts \cap FleetHosts = {} BY InventoryAssumption
<1>3. CASE stack = "dev"
  <2>1. h \in DevHosts /\ h \notin FleetHosts BY <1>2, <1>3 DEF StackHosts
  <2> QED BY <1>1, <1>3, <2>1 DEF AbstractListed
<1>4. CASE stack = "fleet"
  <2>1. h \in FleetHosts /\ h \notin DevHosts BY <1>2, <1>4 DEF StackHosts
  <2> QED BY <1>1, <1>4, <2>1 DEF AbstractListed
<1> QED BY <1>3, <1>4 DEF Stacks

\* A command that runs alone goes by what Terraform lists now.
LEMMA FreshStep ==
  ASSUME IInv, OneCommand, NEW c \in Cmds, Step(c)
  PROVE  Fresh(c)'
<1>1. /\ TypeInv /\ Fresh(c) /\ FileType /\ CloudType /\ command \in [Cmds -> Whole]
      /\ command[c] \in Commands /\ Carries(command[c])
  BY DEF IInv, SoloInv, TypeInv, Whole
<1>2. command[c].stack \in Stacks /\ command[c].op \in Ops BY <1>1 DEF Commands
<1>3. ASSUME Fails(c) \/ Ends(c) PROVE Fresh(c)'
  <2>1. Fails(c) => command'[c].at = "idle" BY <1>1 DEF Fails, Idle
  <2>2. Ends(c) => command'[c].at = "ok" BY <1>1 DEF Ends, Idle
  <2> QED BY <1>3, <2>1, <2>2 DEF Fresh
<1>4. CASE ReadOutput(c)
  <2>1. CASE Fails(c) BY <1>3, <2>1
  <2>2. CASE ~Fails(c)
    <3>1. /\ command'[c].read = output[command[c].stack] /\ output' = output
          /\ command'[c].at = IF command[c].at = "output" THEN "load" ELSE "prune_load"
          /\ command'[c].stack = command[c].stack
          /\ command[c].at \in {"output", "output_again"} /\ Listed(command[c].stack)
      BY <1>1, <1>4, <2>2 DEF ReadOutput, Commands, terraform
    <3>2. AbstractListed' = AbstractListed BY <3>1 DEF AbstractListed
    <3>3. command[c].at = "output_again" =>
             \A h \in FleetHosts : output[command[c].stack][h] = AbstractListed[h]
      <4>1. SUFFICES ASSUME command[c].at = "output_again", NEW h \in FleetHosts
                     PROVE  output[command[c].stack][h] = AbstractListed[h]
        OBVIOUS
      <4>2. command[c].stack = "fleet" BY <1>1, <4>1 DEF Carries, Pruning
      <4>3. h \in StackHosts("fleet") /\ "fleet" \in Stacks BY DEF StackHosts, Stacks
      <4>4. AbstractListed[h] = IF output["fleet"] = None THEN 0 ELSE output["fleet"][h]
        BY <4>3, ListedValue
      <4> QED BY <3>1, <4>2, <4>4 DEF Listed
    <3> QED BY <3>1, <3>2, <3>3 DEF Fresh
  <2> QED BY <2>1, <2>2
<1>5. CASE Load(c)
  <2>1. CASE Fails(c) BY <1>3, <2>1
  <2>2. CASE ~Fails(c)
    <3>1. /\ command'[c].at = "empty" /\ command'[c].content = _upsert_host_targets(c)
          /\ command'[c].stack = command[c].stack /\ command[c].at = "load"
          /\ hosts_toml # "torn" /\ UNCHANGED <<targets, hosts_toml, output>>
      BY <1>1, <1>5, <2>2 DEF Load, Commands, files, terraform
    <3>2. command[c].read = output[command[c].stack] BY <1>1, <3>1 DEF Fresh
    <3>3. Listed(command[c].stack)
      <4>1. /\ output[command[c].stack] \in [StackHosts(command[c].stack) -> 0 .. 2]
            /\ \E h \in StackHosts(command[c].stack) : output[command[c].stack][h] # 0
        BY <1>1, <3>1, <3>2 DEF Carries, ManifestsOf
      <4>2. None \notin [StackHosts(command[c].stack) -> 0 .. 2]
        BY <1>2, InventoryAssumption DEF StackHosts
      <4>3. output[command[c].stack] # None BY <4>1, <4>2
      <4> QED BY <4>1, <4>3 DEF Listed
    <3>4. \A h \in StackHosts(command[c].stack) : AbstractListed[h] = command[c].read[h]
      BY <1>2, <3>2, <3>3, ListedValue DEF Listed
    <3>5. _upsert_host_targets(c) = Imported(command[c].stack)
      BY <3>4 DEF _upsert_host_targets, Imported
    <3>6. AbstractListed' = AbstractListed BY <3>1 DEF AbstractListed
    <3>7. Imported(command[c].stack)' = Imported(command[c].stack)
      BY <3>1, <3>6 DEF Imported
    <3>8. Listed(command[c].stack)' BY <3>1, <3>3 DEF Listed
    <3> QED BY <3>1, <3>5, <3>7, <3>8 DEF Fresh
  <2> QED BY <2>1, <2>2
<1>6. CASE PruneLoad(c)
  <2>1. CASE Fails(c) \/ Ends(c) BY <1>3, <2>1
  <2>2. CASE ~(Fails(c) \/ Ends(c))
    <3>1. /\ command'[c].content = Remaining(c) /\ command[c].at = "prune_load"
          /\ hosts_toml # "torn" /\ UNCHANGED <<targets, hosts_toml, output>>
          /\ command'[c].at = IF Remaining(c) = Empty THEN "prune_unlink" ELSE "prune_empty"
      BY <1>1, <1>6, <2>2 DEF PruneLoad, Remaining, Commands, files, terraform
    <3>2. \A h \in FleetHosts : command[c].read[h] = AbstractListed[h] BY <1>1, <3>1 DEF Fresh
    <3>3. targets \in Inventories BY <1>1 DEF FileType
    <3>4. Remaining(c) = Unlisted
      <4>1. \A h \in Hosts : (IF h \in Pruned(c) THEN 0 ELSE targets[h]) =
                             IF h \in FleetHosts /\ AbstractListed[h] = 0 THEN 0 ELSE targets[h]
        BY <3>2 DEF Pruned
      <4> QED BY <4>1 DEF Remaining, Unlisted
    <3>5. Unlisted' = Unlisted
      <4>1. AbstractListed' = AbstractListed BY <3>1 DEF AbstractListed
      <4> QED BY <3>1, <4>1 DEF Unlisted
    <3> QED BY <3>1, <3>4, <3>5 DEF Fresh
  <2> QED BY <2>1, <2>2
<1>7. CASE EmptyFile(c)
  <2>1. /\ command'[c].content = command[c].content /\ command'[c].stack = command[c].stack
        /\ command'[c].at = IF command[c].at = "empty" THEN "fill" ELSE "prune_fill"
        /\ command[c].at \in {"empty", "prune_empty"} /\ UNCHANGED <<targets, output>>
        /\ hosts_toml' = "torn"
    BY <1>1, <1>7 DEF EmptyFile, Commands, terraform
  <2>2. AbstractListed' = AbstractListed BY <2>1 DEF AbstractListed
  <2>3. /\ Imported(command[c].stack)' = Imported(command[c].stack) /\ Unlisted' = Unlisted
        /\ Listed(command[c].stack)' = Listed(command[c].stack)
    BY <2>1, <2>2 DEF Imported, Unlisted, Listed
  <2> QED BY <1>1, <2>1, <2>3 DEF Fresh
<1>8. CASE TerraformDone(c)
  <2>1. CASE command'[c].at # "prune_load"
    <3>1. ~(ReadOutput(c) \/ Load(c) \/ PruneLoad(c) \/ EmptyFile(c))
      BY <1>8 DEF TerraformDone, ReadOutput, Load, PruneLoad, EmptyFile
    <3> QED BY <1>1, <2>1, <3>1, PlacesFrom DEF Fresh
  <2>2. CASE command'[c].at = "prune_load"
    <3>1. ~Ends(c) /\ ~Goes(c, "output") BY <1>1, <2>2 DEF Ends, Goes, Idle, Commands
    <3>2. /\ command[c].stack # "dev"
          /\ command' = [command EXCEPT ![c].at = "prune_load",
                                        ![c].read = [h \in FleetHosts |-> 0]]
          /\ output' = [output EXCEPT ![command[c].stack] = None]
      BY <1>8, <3>1 DEF TerraformDone
    <3>3. command[c].stack = "fleet" BY <1>2, <3>2 DEF Stacks
    <3>4. output'["fleet"] = None BY <1>1, <3>2, <3>3 DEF CloudType, Stacks
    <3>5. \A h \in FleetHosts : AbstractListed'[h] = 0
      BY <3>4, InventoryAssumption DEF AbstractListed, Hosts
    <3>6. command'[c].read = [h \in FleetHosts |-> 0] BY <1>1, <3>2 DEF Commands
    <3> QED BY <2>2, <3>5, <3>6 DEF Fresh
  <2> QED BY <2>1, <2>2
<1>9. CASE ~(ReadOutput(c) \/ Load(c) \/ PruneLoad(c) \/ EmptyFile(c) \/ TerraformDone(c))
  BY <1>1, <1>9, PlacesFrom DEF Fresh
<1> QED BY <1>4, <1>5, <1>6, <1>7, <1>8, <1>9

\* The operator's entries stay,
LEMMA UserStep ==
  ASSUME IInv, OneCommand, NEW c \in Cmds, Step(c)
  PROVE  UserTargetsKept'
<1>1. /\ TypeInv /\ UserTargetsKept /\ Merges(c) /\ command \in [Cmds -> Whole]
  BY DEF IInv, SoloInv, TypeInv
<1>2. own' = own BY Frame
<1>3. CASE Fill(c)
  <2>1. targets' = command[c].content /\ command[c].at \in {"fill", "prune_fill"}
    BY <1>3 DEF Fill
  <2>2. \A h \in UserHosts : h \in Hosts \ FleetHosts
    BY InventoryAssumption DEF Hosts
  <2>3. \A h \in UserHosts : targets'[h] = targets[h] BY <1>1, <2>1, <2>2 DEF Merges
  <2> QED BY <1>1, <1>2, <2>3 DEF UserTargetsKept
<1>4. CASE Unlink(c)
  <2>1. command[c].at = "prune_unlink" /\ (targets' = Empty \/ targets' = targets)
    BY <1>4 DEF Unlink, files
  <2>2. \A h \in UserHosts : h \in Hosts \ FleetHosts
    BY InventoryAssumption DEF Hosts
  <2>3. \A h \in UserHosts : targets[h] = 0 /\ Empty[h] = 0 BY <1>1, <2>1, <2>2 DEF Merges, Empty
  <2> QED BY <1>1, <1>2, <2>1, <2>3 DEF UserTargetsKept
<1>5. CASE targets' = targets BY <1>1, <1>2, <1>5 DEF UserTargetsKept
<1> QED BY <1>3, <1>4, <1>5, Frame DEF EmptyFile, files

\* a command that ends well leaves the fleet in step with Terraform,
LEMMA SyncStep ==
  ASSUME IInv, OneCommand, NEW c \in Cmds, Step(c)
  PROVE  FleetInSync'
<1>1. /\ TypeInv /\ Matches(c) /\ Merges(c) /\ command \in [Cmds -> Whole]
      /\ command[c] \in Commands /\ Carries(command[c]) /\ FileType
  BY DEF IInv, SoloInv, TypeInv, Whole
<1>2. SUFFICES ASSUME command'[c].at = "ok", command'[c].stack = "fleet",
                      command'[c].op \in {"apply", "destroy"}
      PROVE  hosts_toml' # "torn" /\ \A h \in FleetHosts : targets'[h] = cloud'[h]
  BY DEF FleetInSync, OneCommand
<1>3. \A h \in FleetHosts : h \in Hosts BY DEF Hosts
<1>4. CASE Ends(c)
  <2>1. command[c].stack = "fleet" /\ command[c].op \in {"apply", "destroy"}
    BY <1>1, <1>2, <1>4 DEF Ends, Idle
  <2>2. CASE TerraformDone(c)
    <3>1. ~Goes(c, "output") BY <1>1, <1>2 DEF Goes, Commands
    <3>2. command[c].op = "apply" => command[c].stack = "dev"
      BY <2>2, <3>1 DEF TerraformDone
    <3>3. command[c].op # "plan" BY <2>1
    <3>4. command[c].op = "destroy" => command'[c].at = "prune_load"
      BY <1>1, <2>1, <2>2 DEF TerraformDone, Commands
    <3> QED BY <1>2, <2>1, <3>2, <3>4
  <2>3. CASE PruneLoad(c)
    <3>1. command[c].at = "prune_load" /\ UNCHANGED <<targets, hosts_toml, cloud>>
      BY <2>3 DEF PruneLoad, files, terraform
    <3>2. hosts_toml # "torn" /\ Pruned(c) = {}
      <4>1. ~Fails(c) BY <1>1, <1>2 DEF Fails, Idle
      <4>2. \A place \in {"prune_unlink", "prune_empty"} : \A content :
               command' # [command EXCEPT ![c].at = place, ![c].content = content]
        BY <1>1, <1>2 DEF Commands
      <4> QED BY <2>3, <4>1, <4>2 DEF PruneLoad
    <3>3. ASSUME NEW h \in FleetHosts PROVE targets[h] = cloud[h]
      <4>1. command[c].read[h] = cloud[h] /\ (cloud[h] # 0 => targets[h] = cloud[h])
        BY <1>1, <2>1, <3>1 DEF Matches
      <4>2. targets[h] # 0 => command[c].read[h] # 0 BY <3>2 DEF Pruned
      <4> QED BY <4>1, <4>2
    <3> QED BY <3>1, <3>2, <3>3
  <2>4. CASE Fill(c)
    <3>1. /\ hosts_toml' = "written" /\ targets' = command[c].content /\ UNCHANGED cloud
          /\ command[c].at \in {"fill", "prune_fill"}
      BY <2>4 DEF Fill, terraform
    <3>2. command[c].at = "prune_fill"
      <4>1. CASE command[c].at = "fill"
        <5>1. command[c].op = "apply" BY <1>1, <2>1, <4>1 DEF Carries, Importing
        <5>2. command'[c].at = "output_again"
          BY <1>1, <2>1, <2>4, <4>1, <5>1 DEF Fill, Commands
        <5> QED BY <1>2, <5>2
      <4> QED BY <3>1, <4>1
    <3> QED BY <1>1, <2>1, <3>1, <3>2 DEF Matches
  <2>5. CASE Unlink(c)
    <3>1. command[c].at = "prune_unlink" /\ UNCHANGED cloud BY <2>5 DEF Unlink, terraform
    <3>2. ~Fails(c) BY <1>1, <1>2 DEF Fails, Idle
    <3>3. hosts_toml' = "absent" /\ targets' = Empty BY <2>5, <3>2 DEF Unlink
    <3> QED BY <1>1, <1>3, <2>1, <3>1, <3>3 DEF Matches, Empty
  <2> QED BY <1>1, <1>2, <2>2, <2>3, <2>4, <2>5, PlacesFrom
<1>5. CASE ~Ends(c)
  <2>1. \A place : Goes(c, place) => command'[c].at = place BY <1>1 DEF Goes, Commands
  <2>2. ~Fails(c) BY <1>1, <1>2 DEF Fails, Idle
  <2>3. CASE TerraformDone(c)
    <3>1. command'[c].at = "prune_load" \/ Goes(c, "output")
      BY <1>1, <1>5, <2>3 DEF TerraformDone, Commands
    <3> QED BY <1>2, <2>1, <3>1
  <2>4. CASE PruneLoad(c)
    <3>1. command'[c].at \in {"prune_unlink", "prune_empty"}
      BY <1>1, <1>5, <2>2, <2>4 DEF PruneLoad, Commands
    <3> QED BY <1>2, <3>1
  <2>5. CASE Fill(c)
    <3>1. command'[c].at = "output_again" BY <1>1, <1>5, <2>5 DEF Fill, Commands
    <3> QED BY <1>2, <3>1
  <2>6. ~Unlink(c) BY <1>5, <2>2 DEF Unlink
  <2> QED BY <1>1, <1>2, <2>3, <2>4, <2>5, <2>6, PlacesFrom
<1> QED BY <1>4, <1>5

\* and the set that is saved stays one that was asked for.
LEMMA AskedStep ==
  ASSUME IInv, OneCommand, NEW c \in Cmds, Step(c)
  PROVE  Asked'
<1>1. /\ TypeInv /\ Asked /\ command \in [Cmds -> Whole] /\ command[c] \in Commands
      /\ FileType
  BY DEF IInv, SoloInv, TypeInv, Whole
<1>2. SUFFICES /\ fleet_set' \in Sets => fleet_set' \in asked'
               /\ fleet_set' = "none" => "lts" \in asked'
               /\ (command'[c].at \in {"empty_set", "fill_set"} /\ command'[c].set \in Sets) =>
                     command'[c].set \in asked'
  BY DEF Asked, OneCommand
<1>3. ASSUME NEW op \in Ops, NEW stack \in Stacks, NEW set \in SetOptions, Start(c, op, stack, set)
      PROVE  /\ fleet_set' \in Sets => fleet_set' \in asked'
             /\ fleet_set' = "none" => "lts" \in asked'
             /\ command'[c].set \in Sets => command'[c].set \in asked'
  <2>1. command'[c].set = set /\ fleet_set' = fleet_set /\ asked' = asked \cup ({set} \cap Sets)
    BY <1>1, <1>3 DEF Start
  <2> QED BY <1>1, <2>1 DEF Asked
<1>4. CASE EmptySet(c)
  <2>1. /\ fleet_set' = "torn" /\ asked' = asked /\ command'[c].set = command[c].set
        /\ command[c].at = "empty_set"
    BY <1>1, <1>4 DEF EmptySet, Goes, operator, Commands
  <2> QED BY <1>1, <2>1 DEF Asked, Sets
<1>5. CASE FillSet(c)
  <2>1. /\ fleet_set' = command[c].set /\ asked' = asked /\ command'[c].at = "terraform"
        /\ command[c].at = "fill_set"
    BY <1>1, <1>5 DEF FillSet, operator, Commands
  <2>2. command[c].set # "none" BY <1>1, <2>1 DEF TypeInv, Whole, Carries
  <2> QED BY <1>1, <2>1, <2>2 DEF Asked
<1>6. CASE TerraformDone(c)
  <2>1. /\ fleet_set' = fleet_set
        /\ asked' = asked \/ asked' = {IF fleet_set = "none" THEN "lts" ELSE fleet_set}
    BY <1>6 DEF TerraformDone
  <2>2. command'[c].at \notin {"empty_set", "fill_set"}
    <3>1. command[c].at = "terraform" BY <1>6 DEF TerraformDone
    <3>2. ~EmptySet(c) BY <3>1 DEF EmptySet
    <3>3. ASSUME NEW op, NEW stack, NEW set PROVE ~Start(c, op, stack, set)
      BY <3>1 DEF Start, Returned
    <3> QED BY <1>1, <3>2, <3>3, PlacesFrom
  <2> QED BY <1>1, <2>1, <2>2 DEF Asked, Sets
<1>7. CASE /\ UNCHANGED <<fleet_set, asked>> /\ ~EmptySet(c)
           /\ ~(\E op \in Ops, stack \in Stacks, set \in SetOptions : Start(c, op, stack, set))
  BY <1>1, <1>7, PlacesFrom DEF Asked
<1> QED BY <1>3, <1>4, <1>5, <1>6, <1>7
        DEF Step, TerraformFails, ReadOutput, Load, PruneLoad, EmptyFile, Fill, Unlink, Interrupt,
            operator

\* An edit of the operator's leaves no command at work.
LEMMA EditStep ==
  ASSUME IInv, OneCommand, NEW h \in Hosts, Edit(h)
  PROVE  SoloInv'
<1>1. /\ UserTargetsKept /\ Asked /\ own \subseteq UserHosts
      /\ command' = [c \in Cmds |-> Idle] /\ UNCHANGED <<fleet_set, asked>>
  BY DEF IInv, SoloInv, TypeInv, FileType, Edit
<1>2. UserTargetsKept'
  <2>1. own' \subseteq UserHosts BY <1>1 DEF Edit
  <2>2. \A g \in UserHosts : targets'[g] = IF g \in own' THEN 1 ELSE 0
    BY DEF Edit, Hosts
  <2> QED BY <2>2 DEF UserTargetsKept
<1>3. \A c \in Cmds : command'[c].at = "idle" BY <1>1 DEF Idle
<1>4. FleetInSync' BY <1>3 DEF FleetInSync
<1>5. Asked' BY <1>1, <1>3 DEF Asked
<1>6. \A c \in Cmds : Merges(c)' /\ Matches(c)' /\ Fresh(c)'
  BY <1>3 DEF Merges, Matches, Fresh, Importing
<1> QED BY <1>2, <1>4, <1>5, <1>6 DEF SoloInv

\* Every step keeps the invariant.
LEMMA NextInv == IInv /\ [Next]_vars => IInv'
<1> SUFFICES ASSUME IInv, [Next]_vars PROVE IInv' OBVIOUS
<1>1. TypeInv' BY TypeStep DEF IInv
<1>2. ASSUME OneCommand PROVE SoloInv'
  <2>1. ASSUME NEW c \in Cmds, Step(c) PROVE SoloInv'
    <3>1. \A d \in Cmds : d = c BY <1>2 DEF OneCommand
    <3>2. \A d \in Cmds : Merges(d)' /\ Matches(d)' /\ Fresh(d)'
      <4>1. Merges(c)' /\ Matches(c)' /\ Fresh(c)'
        BY <1>2, <2>1, MergesStep, MatchesStep, FreshStep
      <4> QED BY <3>1, <4>1
    <3> QED BY <1>2, <2>1, <3>2, UserStep, SyncStep, AskedStep DEF SoloInv
  <2>2. CASE UNCHANGED vars
    <3>1. SoloInv BY <1>2 DEF IInv
    <3> QED BY <2>2, <3>1
            DEF vars, files, terraform, operator, SoloInv, UserTargetsKept, FleetInSync, Asked,
                Merges, Matches, Fresh, Listed, Imported, Unlisted, AbstractListed
  <2> QED BY <1>2, <2>1, <2>2, EditStep DEF Next
<1> QED BY <1>1, <1>2 DEF IInv, OneCommand

\* The inductive invariant holds in every reachable state.
THEOREM Invariance == Spec => []IInv
<1> QED BY InitInv, NextInv, PTL DEF Spec

-----------------------------------------------------------------------------
\* Whatever commands run, and however they overlap, the files, what Terraform
\* holds and what the commands carry are what they must be; hosts.toml holds
\* something whenever it was written.
THEOREM TypeCorrect == Spec => []TypeOK
<1>1. IInv => TypeOK BY TypeOfInv DEF IInv
<1> QED BY <1>1, Invariance, PTL

\* With one command at a time, the operator's own entries stay in hosts.toml,
\* whatever merges and prunes rewrite it (_upsert_host_targets,
\* _prune_test_fleet_targets).
THEOREM OwnTargets ==
  ASSUME OneCommand
  PROVE  Spec => []UserTargetsKept
<1>1. IInv => UserTargetsKept BY DEF IInv, SoloInv
<1> QED BY <1>1, Invariance, PTL

\* With one command at a time, a fleet apply or destroy that ends well leaves in
\* hosts.toml exactly the fleet that Terraform holds, however earlier commands
\* ended (infra_aws_test_fleet_apply, infra_aws_test_fleet_destroy).
THEOREM InSync ==
  ASSUME OneCommand
  PROVE  Spec => []FleetInSync
<1>1. IInv => FleetInSync BY DEF IInv, SoloInv
<1> QED BY <1>1, Invariance, PTL

\* With one command at a time, a prune touches the fleet's entries only
\* (_prune_test_fleet_targets).
THEOREM PruneIsOwn ==
  ASSUME OneCommand
  PROVE  Spec => PruneTouchesFleetOnly
<1> DEFINE Own == \A c \in Cmds :
       (command[c].at \in {"prune_fill", "prune_unlink"} /\ command'[c] # command[c])
           => \A h \in Hosts \ FleetHosts : targets'[h] = targets[h]
<1>1. IInv /\ [Next]_vars => [Own]_vars
  <2> SUFFICES ASSUME IInv, Next, NEW c \in Cmds,
                      command[c].at \in {"prune_fill", "prune_unlink"},
                      NEW h \in Hosts \ FleetHosts
               PROVE  targets'[h] = targets[h]
    OBVIOUS
  <2>1. Merges(c) /\ \A d \in Cmds : d = c BY DEF IInv, SoloInv, OneCommand
  <2>2. \A g \in Hosts : ~Edit(g) BY DEF Edit, Returned
  <2>3. Step(c) BY <2>1, <2>2 DEF Next
  <2>4. CASE Fill(c) BY <2>1, <2>4 DEF Fill, Merges
  <2>5. CASE Unlink(c)
    <3>1. targets[h] = 0 BY <2>1, <2>5 DEF Unlink, Merges
    <3> QED BY <2>5, <3>1 DEF Unlink, Empty, files
  <2>6. CASE UNCHANGED files BY <2>6 DEF files
  <2>7. ~EmptyFile(c) BY DEF EmptyFile
  <2> QED BY <2>3, <2>4, <2>5, <2>6, <2>7, Frame
<1> QED BY <1>1, Invariance, PTL DEF Spec, PruneTouchesFleetOnly

\* With one command at a time, an apply drops a host of the fleet only for a set
\* that was asked for: the set is remembered for the commands without --set
\* (_save_test_fleet_set).
THEOREM AskedDrops ==
  ASSUME OneCommand
  PROVE  Spec => NoSilentDrop
<1> DEFINE Granted == \A h \in FleetHosts :
       (\E c \in Cmds : command[c].at = "terraform" /\ command[c].op = "apply")
       /\ cloud[h] # 0 /\ cloud'[h] = 0
       => \E set \in asked : h \notin SetHosts(set)
<1>1. IInv /\ [Next]_vars => [Granted]_vars
  <2> SUFFICES ASSUME IInv, Next, NEW h \in FleetHosts,
                      \E c \in Cmds : command[c].at = "terraform" /\ command[c].op = "apply",
                      cloud[h] # 0, cloud'[h] = 0
               PROVE  \E set \in asked : h \notin SetHosts(set)
    OBVIOUS
  <2>1. PICK c \in Cmds : command[c].at = "terraform" /\ command[c].op = "apply" OBVIOUS
  <2>2. /\ Asked /\ \A d \in Cmds : d = c
        /\ fleet_set \in SetOptions \cup {"torn"} /\ command[c].stack \in Stacks
    BY DEF IInv, SoloInv, OneCommand, TypeInv, FileType, Whole, Commands
  <2>3. h \in Hosts /\ h \notin DevHosts BY InventoryAssumption DEF Hosts
  <2>4. \A g \in Hosts : ~Edit(g) BY <2>1 DEF Edit, Returned
  <2>5. Step(c) BY <2>2, <2>4 DEF Next
  <2>6. PICK made \in Outcomes("apply", command[c].stack) :
           Accepted(command[c].stack) /\ (made[h] = 0 \/ cloud'[h] = cloud[h])
    <3>1. CASE TerraformDone(c) BY <2>1, <3>1 DEF TerraformDone
    <3>2. CASE TerraformFails(c) BY <2>1, <2>3, <3>2 DEF TerraformFails, terraform
    <3>3. ~UNCHANGED terraform BY DEF terraform
    <3> QED BY <2>5, <3>1, <3>2, <3>3, Frame
  <2>7. made[h] = 0 BY <2>6
  <2>8. command[c].stack = "fleet" BY <2>2, <2>3, <2>6, <2>7 DEF Outcomes, StackHosts, Stacks
  <2>9. h \notin SetHosts(fleet_set)
    BY <2>3, <2>6, <2>7, <2>8 DEF Outcomes, StackHosts, Wanted
  <2>10. fleet_set \in {"none", "lts", "full"} BY <2>2, <2>6, <2>8 DEF Accepted, SetOptions, Sets
  <2> QED BY <2>2, <2>9, <2>10 DEF Asked, Sets, SetHosts
<1> QED BY <1>1, Invariance, PTL DEF Spec, NoSilentDrop

-----------------------------------------------------------------------------
\* FleetInventory implements HostInventory.

\* The initial states map to an empty inventory.
LEMMA RefinesInit == Init => Inventory!Init
<1> SUFFICES ASSUME Init PROVE Inventory!Init OBVIOUS
<1>1. targets = [h \in Inventory!Hosts |-> 0] BY DEF Init, Empty, Hosts, Inventory!Hosts
<1>2. AbstractListed = [h \in Inventory!Hosts |-> 0]
  BY DEF Init, AbstractListed, Hosts, Inventory!Hosts, Stacks
<1>3. ~AbstractLost BY DEF Init, AbstractLost
<1>4. ~AbstractWorking BY DEF Init, AbstractWorking, Idle, Returned
<1> QED BY <1>1, <1>2, <1>3, <1>4 DEF Inventory!Init

\* With one command, what is lost and who works is told by that command.
LEMMA AloneIsAll ==
  ASSUME OneCommand, NEW c \in Cmds
  PROVE  /\ AbstractLost <=> (hosts_toml = "torn" /\ command[c].at \notin {"fill", "prune_fill"})
         /\ AbstractLost' <=> (hosts_toml' = "torn" /\ command'[c].at \notin {"fill", "prune_fill"})
         /\ AbstractWorking <=> command[c].at \notin Returned
         /\ AbstractWorking' <=> command'[c].at \notin Returned
  BY DEF OneCommand, AbstractLost, AbstractWorking

\* A step that leaves hosts.toml and the output alone is seen only if it ends
\* the command.
LEMMA QuietStep ==
  ASSUME OneCommand, NEW c \in Cmds, UNCHANGED <<files, output>>,
         command[c].at \notin Returned \cup {"fill", "prune_fill"},
         command'[c].at \notin {"fill", "prune_fill"}
  PROVE  Inventory!Next
<1>1. AbstractWorking /\ (AbstractLost' <=> AbstractLost) BY AloneIsAll DEF files
<1>2. AbstractLost' = AbstractLost BY <1>1 DEF AbstractLost
<1>3. AbstractListed' = AbstractListed /\ targets' = targets BY DEF AbstractListed, files
<1>4. AbstractWorking' \in BOOLEAN BY DEF AbstractWorking
<1> QED BY <1>1, <1>2, <1>3, <1>4 DEF Inventory!Next, Inventory!End, Inventory!Works

\* A run of Terraform is one of the inventory's, or is not seen there.
LEMMA RefinesTerraform ==
  ASSUME IInv, IInv', OneCommand, NEW c \in Cmds, Step(c), TerraformDone(c) \/ TerraformFails(c)
  PROVE  Inventory!Next
<1>1. /\ TypeInv /\ CloudType' /\ command \in [Cmds -> Whole] /\ command[c] \in Commands
      /\ CloudType
  BY DEF IInv, TypeInv, Whole
<1>2. command[c].stack \in Stacks BY <1>1 DEF Commands
<1>3. /\ UNCHANGED files /\ command[c].at = "terraform"
      /\ output' = output \/ \E value : output' = [output EXCEPT ![command[c].stack] = value]
  BY DEF TerraformDone, TerraformFails, terraform
<1>4. command'[c].at \notin {"fill", "prune_fill"}
  BY <1>1, <1>3, PlacesFrom DEF EmptyFile
<1>5. CASE output' = output BY <1>3, <1>4, <1>5, QuietStep DEF Returned
<1>6. CASE output' # output
  <2> DEFINE stack == command[c].stack
             here == StackHosts(stack)
             now == [h \in here |-> AbstractListed'[h]]
  <2>1. \A h \in here : AbstractListed'[h] \in 0 .. 2
    <3>1. ASSUME NEW h \in here PROVE AbstractListed'[h] \in 0 .. 2
      <4>1. h \in Hosts /\ here \in {DevHosts, FleetHosts} BY <1>2 DEF StackHosts, Hosts, Stacks
      <4>2. AbstractListed'[h] = 0 \/ (h \in DevHosts /\ output'["dev"] # None
                                       /\ AbstractListed'[h] = output'["dev"][h])
                \/ (h \in FleetHosts /\ output'["fleet"] # None
                     /\ AbstractListed'[h] = output'["fleet"][h])
        BY <4>1 DEF AbstractListed
      <4>3. /\ output'["dev"] # None => output'["dev"] \in [DevHosts -> 0 .. 2]
            /\ output'["fleet"] # None => output'["fleet"] \in [FleetHosts -> 0 .. 2]
        BY <1>1 DEF CloudType, Stacks, ManifestsOf, StackHosts
      <4> QED BY <4>2, <4>3
    <3> QED BY <3>1
  <2>2. now \in [here -> 0 .. 2] BY <2>1
  <2>3. ASSUME NEW h \in Hosts, h \notin here PROVE AbstractListed'[h] = AbstractListed[h]
    <3>1. \A other \in Stacks : other # stack => output'[other] = output[other]
      BY <1>1, <1>3 DEF CloudType
    <3>2. CASE stack = "dev"
      <4>1. h \notin DevHosts BY <2>3, <3>2 DEF StackHosts
      <4>2. output'["fleet"] = output["fleet"] BY <3>1, <3>2 DEF Stacks
      <4> QED BY <4>1, <4>2 DEF AbstractListed
    <3>3. CASE stack = "fleet"
      <4>1. h \notin FleetHosts BY <2>3, <3>3 DEF StackHosts
      <4>2. output'["dev"] = output["dev"] BY <3>1, <3>3 DEF Stacks
      <4> QED BY <4>1, <4>2 DEF AbstractListed
    <3> QED BY <1>2, <3>2, <3>3 DEF Stacks
  <2>4. AbstractListed' = [h \in Hosts |-> IF h \in here THEN now[h] ELSE AbstractListed[h]]
    <3>1. AbstractListed' = [h \in Hosts |-> AbstractListed'[h]] BY DEF AbstractListed
    <3> QED BY <2>3, <3>1
  <2>5. AbstractWorking /\ (AbstractLost' <=> AbstractLost)
    BY <1>3, <1>4, AloneIsAll DEF files, Returned
  <2>6. AbstractLost' = AbstractLost BY <2>5 DEF AbstractLost
  <2>7. AbstractWorking' \in BOOLEAN BY DEF AbstractWorking
  <2>8. here \in Inventory!Stacks BY <1>2 DEF StackHosts, Stacks, Inventory!Stacks
  <2>9. targets' = targets BY <1>3 DEF files
  <2>10. Hosts = Inventory!Hosts BY DEF Hosts, Inventory!Hosts
  <2> HIDE DEF here, now
  <2>11. Inventory!Terraform(here)
    BY <2>2, <2>4, <2>5, <2>6, <2>7, <2>9, <2>10 DEF Inventory!Terraform, Inventory!Works
  <2> QED BY <2>8, <2>11 DEF Inventory!Next
<1> QED BY <1>5, <1>6

\* A write that completes is an import or a prune.
LEMMA RefinesWrite ==
  ASSUME IInv, OneCommand, NEW c \in Cmds, Step(c), Fill(c) \/ Unlink(c)
  PROVE  Inventory!Next
<1>1. /\ TypeInv /\ Fresh(c) /\ Merges(c) /\ command \in [Cmds -> Whole]
      /\ command[c] \in Commands
  BY DEF IInv, SoloInv, TypeInv, Whole
<1>2. command[c].stack \in Stacks BY <1>1 DEF Commands
<1>3. command[c].at \in {"fill", "prune_fill", "prune_unlink"} /\ output' = output
  BY DEF Fill, Unlink, terraform
<1>4. AbstractListed' = AbstractListed BY <1>3 DEF AbstractListed
<1>5. AbstractWorking BY <1>3, AloneIsAll DEF Returned
<1>6. AbstractWorking' \in BOOLEAN BY DEF AbstractWorking
<1>7. Hosts = Inventory!Hosts BY DEF Hosts, Inventory!Hosts
<1>8. ~AbstractLost BY <1>1, <1>3, AloneIsAll DEF Merges
<1>9. CASE hosts_toml' # "torn" /\ targets' # targets
  <2>1. ~AbstractLost' BY <1>9 DEF AbstractLost
  <2>2. AbstractLost' = AbstractLost BY <1>8, <2>1 DEF AbstractLost
  <2>3. targets' = command[c].content
    BY <1>1, <1>9 DEF Fill, Unlink, Fresh, files
  <2>4. CASE command[c].at = "fill"
    <3> DEFINE here == StackHosts(command[c].stack)
    <3>1. Listed(command[c].stack) /\ targets' = Imported(command[c].stack)
      BY <1>1, <2>3, <2>4 DEF Fresh
    <3>2. \E h \in here : AbstractListed[h] # 0
      BY <1>2, <3>1, ListedValue DEF Listed
    <3>3. here \in Inventory!Stacks BY <1>2 DEF StackHosts, Stacks, Inventory!Stacks
    <3>4. Inventory!Import(here)
      BY <1>4, <1>5, <1>6, <1>7, <1>8, <2>2, <3>1, <3>2
         DEF Inventory!Import, Inventory!Works, Imported
    <3> HIDE DEF here
    <3> QED BY <3>3, <3>4 DEF Inventory!Next
  <2>5. CASE command[c].at # "fill"
    <3>1. targets' = Unlisted BY <1>1, <1>3, <2>3, <2>5 DEF Fresh
    <3>2. Inventory!Prune
      BY <1>4, <1>5, <1>6, <1>7, <1>8, <2>2, <3>1 DEF Inventory!Prune, Inventory!Works, Unlisted
    <3> QED BY <3>2 DEF Inventory!Next
  <2> QED BY <2>4, <2>5
<1>10. CASE hosts_toml' # "torn" /\ targets' = targets
  <2>1. ~AbstractLost' BY <1>10 DEF AbstractLost
  <2>2. AbstractLost' = AbstractLost BY <1>8, <2>1 DEF AbstractLost
  <2> QED BY <1>4, <1>5, <1>6, <1>10, <2>2 DEF Inventory!Next, Inventory!End, Inventory!Works
<1>11. hosts_toml' # "torn" BY <1>1 DEF Fill, Unlink, Merges, files
<1> QED BY <1>9, <1>10, <1>11

\* Every step of a command that runs alone is one of the inventory's, or is not
\* seen there.
LEMMA RefinesStep ==
  ASSUME IInv, IInv', OneCommand, NEW c \in Cmds, Step(c)
  PROVE  [Inventory!Next]_(Inventory!vars)
<1>1. /\ TypeInv /\ Fresh(c) /\ command \in [Cmds -> Whole] /\ command[c] \in Commands
  BY DEF IInv, SoloInv, TypeInv, Whole
<1>2. ASSUME Fails(c) PROVE command'[c].at = "idle" BY <1>1, <1>2 DEF Fails, Idle
<1>3. ASSUME NEW op \in Ops, NEW stack \in Stacks, NEW set \in SetOptions, Start(c, op, stack, set)
      PROVE  Inventory!Next
  <2>1. /\ command[c].at \in Returned /\ UNCHANGED <<files, output>>
        /\ command'[c].at \in {"empty_set", "output", "terraform"}
    BY <1>1, <1>3 DEF Start, terraform
  <2>2. ~AbstractWorking /\ AbstractWorking' BY <2>1, AloneIsAll DEF Returned
  <2>3. AbstractLost' <=> AbstractLost BY <2>1, AloneIsAll DEF files, Returned
  <2>4. AbstractLost' = AbstractLost BY <2>3 DEF AbstractLost
  <2>5. AbstractListed' = AbstractListed /\ targets' = targets BY <2>1 DEF AbstractListed, files
  <2> QED BY <2>2, <2>4, <2>5 DEF Inventory!Next, Inventory!Begin
<1>4. CASE /\ UNCHANGED <<files, output>>
           /\ command[c].at \notin Returned \cup {"fill", "prune_fill"} /\ ~EmptyFile(c)
  <2>1. command'[c].at \notin {"fill", "prune_fill"} BY <1>1, <1>4, PlacesFrom
  <2> QED BY <1>4, <2>1, QuietStep
<1>5. CASE EmptyFile(c)
  <2>1. /\ command[c].at \in {"empty", "prune_empty"} /\ UNCHANGED <<targets, output>>
        /\ command'[c].at \in {"fill", "prune_fill"}
    BY <1>1, <1>5 DEF EmptyFile, Commands, terraform
  <2>2. ~AbstractLost BY <1>1, <2>1 DEF Fresh, AbstractLost
  <2>3. ~AbstractLost' BY <2>1, AloneIsAll
  <2>4. AbstractLost' = AbstractLost BY <2>2, <2>3 DEF AbstractLost
  <2>5. AbstractListed' = AbstractListed BY <2>1 DEF AbstractListed
  <2>6. AbstractWorking BY <2>1, AloneIsAll DEF Returned
  <2>7. AbstractWorking' \in BOOLEAN BY DEF AbstractWorking
  <2> QED BY <2>1, <2>4, <2>5, <2>6, <2>7 DEF Inventory!Next, Inventory!End, Inventory!Works
<1>6. CASE Interrupt(c) /\ command[c].at \in {"fill", "prune_fill"}
  <2>1. UNCHANGED <<files, output>> /\ command'[c].at = "idle"
    BY <1>2, <1>6 DEF Interrupt, terraform
  <2>2. AbstractWorking /\ ~AbstractWorking' BY <1>6, <2>1, AloneIsAll DEF Returned
  <2>3. AbstractListed' = AbstractListed /\ targets' = targets BY <2>1 DEF AbstractListed, files
  <2>4. hosts_toml = "torn" BY <1>1, <1>6 DEF Fresh
  <2>5. AbstractLost' BY <2>1, <2>4, AloneIsAll DEF files
  <2> QED BY <2>2, <2>3, <2>5 DEF Inventory!Next, Inventory!Lose
<1>7. CASE Interrupt(c) /\ command[c].at \notin {"fill", "prune_fill"}
  <2>1. UNCHANGED <<files, output>> /\ command'[c].at = "idle" /\ command[c].at \notin Returned
    BY <1>2, <1>7 DEF Interrupt, terraform
  <2> QED BY <1>7, <2>1, QuietStep
<1>8. CASE TerraformDone(c) \/ TerraformFails(c) BY <1>8, RefinesTerraform
<1>9. CASE Fill(c) \/ Unlink(c) BY <1>9, RefinesWrite
<1>10. CASE EmptySet(c) \/ FillSet(c) \/ ReadOutput(c) \/ Load(c) \/ PruneLoad(c)
  <2>1. /\ UNCHANGED <<files, output>> /\ ~EmptyFile(c)
        /\ command[c].at \notin Returned \cup {"fill", "prune_fill"}
    BY <1>10
       DEF EmptySet, FillSet, ReadOutput, Load, PruneLoad, EmptyFile, terraform, Returned
  <2> QED BY <1>4, <2>1
<1> QED BY <1>3, <1>5, <1>6, <1>7, <1>8, <1>9, <1>10 DEF Step

\* The operator's edit is the inventory's.
LEMMA RefinesEdit ==
  ASSUME IInv, OneCommand, NEW h \in Hosts, Edit(h)
  PROVE  Inventory!Next
<1>1. own \subseteq UserHosts /\ targets \in Inventories /\ output' = output
  BY DEF IInv, TypeInv, FileType, Edit, terraform
<1>2. own' \subseteq UserHosts BY <1>1 DEF Edit
<1>3. DEFINE dropped == {g \in DevHosts \cup FleetHosts : g = h \/ hosts_toml = "torn"}
<1>4. targets' = [g \in Hosts |-> IF g \in UserHosts THEN IF g \in own' THEN 1 ELSE 0
                                  ELSE IF g \in dropped THEN 0 ELSE targets[g]]
  BY DEF Edit, Hosts
<1>5. dropped \subseteq DevHosts \cup FleetHosts OBVIOUS
<1>6. hosts_toml' # "torn" BY DEF Edit
<1>7. ~AbstractLost' BY <1>6 DEF AbstractLost
<1>8. \A c \in Cmds : command[c].at \in Returned /\ command'[c].at \in Returned
  BY DEF Edit, Idle, Returned
<1>9. ~AbstractWorking /\ ~AbstractWorking' BY <1>8 DEF AbstractWorking
<1>10. AbstractWorking' = AbstractWorking BY <1>9 DEF AbstractWorking
<1>11. AbstractListed' = AbstractListed BY <1>1 DEF AbstractListed
<1>12. Hosts = Inventory!Hosts BY DEF Hosts, Inventory!Hosts
<1> HIDE DEF dropped
<1> QED BY <1>2, <1>4, <1>5, <1>7, <1>9, <1>10, <1>11, <1>12 DEF Inventory!Next, Inventory!Edit

\* With one command at a time, whatever fails or is interrupted, hosts.toml
\* changes only by whole merges of what Terraform lists at that moment, by prunes
\* of what it lists no more, or by the operator, and never from a file that was
\* left empty (_import_terraform_host_targets, _prune_test_fleet_targets).
THEOREM Implements ==
  ASSUME OneCommand
  PROVE  Spec => ImplementsInventory
<1>1. IInv /\ IInv' /\ [Next]_vars => [Inventory!Next]_(Inventory!vars)
  <2> SUFFICES ASSUME IInv, IInv', [Next]_vars PROVE [Inventory!Next]_(Inventory!vars) OBVIOUS
  <2>1. CASE UNCHANGED vars
    <3>1. UNCHANGED Inventory!vars
      BY <2>1 DEF vars, files, terraform, Inventory!vars, AbstractListed, AbstractLost,
                  AbstractWorking
    <3> QED BY <3>1
  <2> QED BY <2>1, RefinesStep, RefinesEdit DEF Next
<1> QED BY <1>1, RefinesInit, Invariance, PTL DEF Spec, Inventory!Spec, ImplementsInventory
=============================================================================
