------------------------- MODULE MCInverterRecovery -------------------------
(* Small instance of InverterRecovery for TLC. *)
EXTENDS InverterRecovery, TLC

CONSTANTS u1, k1, k2

MCTokens == {u1}
MCCycles == {k1, k2}
Symmetry == Permutations(MCCycles)
=============================================================================
