------------------------------- MODULE MCMatch -------------------------------
(* A match of two players. *)
EXTENDS Match
=============================================================================
