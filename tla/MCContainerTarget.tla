------------------------- MODULE MCContainerTarget --------------------------
(* Two commands on one target.                                             *)
EXTENDS ContainerTarget, TLC

MCSymmetry == Permutations(Cmds)
=============================================================================
