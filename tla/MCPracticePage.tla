--------------------------- MODULE MCPracticePage ---------------------------
(* The practice page on three contexts: two of one puzzle, one of another. *)
EXTENDS PracticePage

CONSTANTS k1, k2, k3

MCPuzzle == [k \in Contexts |-> IF k = k3 THEN 2 ELSE 1]
MCOpening == [k \in Contexts |-> IF k = k1 THEN 1 ELSE IF k = k3 THEN 2 ELSE 0]
=============================================================================
