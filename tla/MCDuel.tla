------------------------------- MODULE MCDuel -------------------------------
(* A duel for TLC: two devices.                                            *)
EXTENDS Duel

CONSTANTS d1, d2, e1, e2

Symmetry == Permutations(Device)
=============================================================================
