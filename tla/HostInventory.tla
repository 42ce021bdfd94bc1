---------------------------- MODULE HostInventory ----------------------------
(***************************************************************************)
(* What the commands that keep hosts.toml promise together, without their  *)
(* steps: the list of targets changes only as a whole, by the import of a  *)
(* stack, which takes over what Terraform lists now and keeps every other  *)
(* entry, by a prune of the fleet, which drops what Terraform lists no     *)
(* more, or by the operator's hand.  A command that is cut off while it    *)
(* writes loses the list; then no command writes until the operator has    *)
(* put it together again.  FleetInventory is shown to implement this       *)
(* module as long as one command runs at a time.                           *)
(***************************************************************************)
EXTENDS Naturals

CONSTANTS DevHosts, FleetHosts, UserHosts

VARIABLES
    targets,   \* targets[h]: host h's address in the list, 0 if it has no entry
    listed,    \* listed[h]: its address in `terraform output`, 0 if not there
    lost,      \* the file was left empty
    working    \* a command is at work

vars == <<targets, listed, lost, working>>

Hosts == DevHosts \cup FleetHosts \cup UserHosts
Stacks == {DevHosts, FleetHosts}

Init ==
    /\ targets = [h \in Hosts |-> 0]
    /\ listed = [h \in Hosts |-> 0]
    /\ lost = FALSE
    /\ working = FALSE

Begin ==
    /\ ~working /\ working'
    /\ UNCHANGED <<targets, listed, lost>>

\* The command ends here, or goes on.
Works == working /\ working' \in BOOLEAN

End == Works /\ UNCHANGED <<targets, listed, lost>>

\* Terraform makes, replaces or destroys hosts of one stack.
Terraform(stack) ==
    /\ Works
    /\ \E now \in [stack -> 0 .. 2] :
          listed' = [h \in Hosts |-> IF h \in stack THEN now[h] ELSE listed[h]]
    /\ UNCHANGED <<targets, lost>>

Import(stack) ==
    /\ Works /\ ~lost
    /\ \E h \in stack : listed[h] # 0
    /\ targets' = [h \in Hosts |-> IF h \in stack /\ listed[h] # 0 THEN listed[h] ELSE targets[h]]
    /\ UNCHANGED <<listed, lost>>

Prune ==
    /\ Works /\ ~lost
    /\ targets' = [h \in Hosts |-> IF h \in FleetHosts /\ listed[h] = 0 THEN 0 ELSE targets[h]]
    /\ UNCHANGED <<listed, lost>>

Lose ==
    /\ working /\ ~working' /\ lost'
    /\ UNCHANGED <<targets, listed>>

\* The operator lists hosts of their own, and may drop others.
Edit ==
    /\ ~working
    /\ \E mine \in SUBSET UserHosts, dropped \in SUBSET (DevHosts \cup FleetHosts) :
          targets' = [h \in Hosts |-> IF h \in UserHosts THEN IF h \in mine THEN 1 ELSE 0
                                      ELSE IF h \in dropped THEN 0 ELSE targets[h]]
    /\ lost' = FALSE
    /\ UNCHANGED <<listed, working>>

Next ==
    \/ Begin \/ End
    \/ \E stack \in Stacks : Terraform(stack) \/ Import(stack)
    \/ Prune \/ Lose \/ Edit

Spec == Init /\ [][Next]_vars
=============================================================================
