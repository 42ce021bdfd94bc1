---------------------------- MODULE MCFleetCheck ----------------------------
(* One Ubuntu host, whose check has two passes, and one Arch host.         *)
EXTENDS FleetCheck

MCHosts == {"ubuntu-2604", "arch"}
MCOs == [h \in MCHosts |-> IF h = "arch" THEN "arch" ELSE "ubuntu"]

Recap(c, f, u) == [changed |-> c, failed |-> f, unreachable |-> u]

\* A log cut before any recap, a converged one, one with changes, a failed and
\* an unreachable play, and a failed play followed by a clean one and back.
MCLogs ==
    {<<>>, <<Recap(0, 0, 0)>>, <<Recap(1, 0, 0)>>, <<Recap(0, 0, 1)>>,
     <<Recap(0, 1, 0), Recap(0, 0, 0)>>, <<Recap(0, 0, 0), Recap(0, 1, 0)>>}
=============================================================================
