--------------------------- MODULE MCBridgeSession ---------------------------
(* Instances of BridgeSession for TLC. *)
EXTENDS BridgeSession, TLC

CONSTANTS l1, l2, l3, h1

MCLoops == {l1, l2, l3}
MCLoops2 == {l1, l2}
MCHandlers == {h1}
Symmetry == Permutations(MCLoops)
=============================================================================
