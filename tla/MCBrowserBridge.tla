--------------------------- MODULE MCBrowserBridge --------------------------
(* Two commands, up to three brokers, two openers.                         *)
EXTENDS BrowserBridge, TLC

MCSymmetry == Permutations(Ups) \cup Permutations(Brokers) \cup Permutations(Openers)
=============================================================================
