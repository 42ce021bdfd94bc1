---------------------------- MODULE FleetVerdict ----------------------------
(***************************************************************************)
(* What `ft infra aws-test-fleet check` promises its caller, without its   *)
(* threads, steps, logs and timeouts: a set of hosts is put under check,   *)
(* each of them gets one verdict that never changes, and the command       *)
(* reports success only when every one of them passed.  FleetCheck is      *)
(* shown to implement this module.                                         *)
(***************************************************************************)
CONSTANT Hosts

VARIABLES
    verdict,   \* verdict[h]: "none" (not under check), "pending", "passed", "failed"
    outcome    \* "open", then "success", "failure" or "aborted" for ever

vars == <<verdict, outcome>>

UnderCheck == {h \in Hosts : verdict[h] # "none"}

Init ==
    /\ verdict = [h \in Hosts |-> "none"]
    /\ outcome = "open"

\* The hosts of one run are chosen once, all together, and are never none.
Choose ==
    /\ outcome = "open"
    /\ UnderCheck = {}
    /\ \E S \in (SUBSET Hosts) \ {{}} :
          verdict' = [h \in Hosts |-> IF h \in S THEN "pending" ELSE "none"]
    /\ UNCHANGED outcome

Decide(h) ==
    /\ outcome = "open"
    /\ verdict[h] = "pending"
    /\ \E v \in {"passed", "failed"} : verdict' = [verdict EXCEPT ![h] = v]
    /\ UNCHANGED outcome

Conclude ==
    /\ outcome = "open"
    /\ UnderCheck # {}
    /\ \A h \in Hosts : verdict[h] # "pending"
    /\ outcome' = IF \A h \in UnderCheck : verdict[h] = "passed"
                  THEN "success" ELSE "failure"
    /\ UNCHANGED verdict

Abort ==
    /\ outcome = "open"
    /\ outcome' = "aborted"
    /\ UNCHANGED verdict

Next ==
    \/ Choose
    \/ \E h \in Hosts : Decide(h)
    \/ Conclude
    \/ Abort

Spec == Init /\ [][Next]_vars
=============================================================================
