---------------------------- MODULE MCToolCache -----------------------------
(* One tool of each kind in tools.toml.                                    *)
EXTENDS ToolCache, TLC

MCSymmetry == Permutations(Procs)

MCTools   == {"lazygit", "posh", "gum", "jq"}
MCChecked == {"lazygit", "posh"}
MCRaw     == {"posh", "jq"}
=============================================================================
