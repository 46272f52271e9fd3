--------------------------- MODULE MCPracticeSync ---------------------------
EXTENDS PracticeSync, TLC

CONSTANTS v1, v2

Symmetry == Permutations(Value)
=============================================================================
