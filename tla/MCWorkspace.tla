---------------------------- MODULE MCWorkspace -----------------------------
(* Two commands on one profile.                                            *)
EXTENDS Workspace, TLC

MCSymmetry == Permutations(Cmds)
=============================================================================
