---------------------------- MODULE MCHostTarget ----------------------------
(* Two commands on one target.                                             *)
EXTENDS HostTarget, TLC

MCSymmetry == Permutations(Cmds)
=============================================================================
