---------------------------- MODULE MCTournament ----------------------------
(* A tournament of up to five accounts. *)
EXTENDS Tournament, TLC

Symmetry == Permutations(Player)
=============================================================================
