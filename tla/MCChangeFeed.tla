---------------------------- MODULE MCChangeFeed ----------------------------
(* A small change feed for TLC: one row of each sort of kind, pages of one *)
(* change merged two at a time.                                              *)
EXTENDS ChangeFeed

CONSTANTS e1, g1, v1, v2, d1

=============================================================================
