-------------------------- MODULE MCFleetInventory --------------------------
(* The disposable host, a fleet of one or of two hosts, and a host of the  *)
(* operator's whose name looks like the fleet's.                           *)
EXTENDS FleetInventory, TLC

MCSymmetry == Permutations(Cmds)

MCDevHosts   == {"dev"}
MCFleetHosts == {"lts-host", "full-host"}
MCLtsHosts   == {"lts-host"}
MCUserHosts  == {"fleet-mine"}
=============================================================================
