--------------------------- MODULE KeptWorkspace ---------------------------
(***************************************************************************)
(* What a device's storage promises of a workspace: it is the changes made *)
(* to it, in order.  A change is kept whole and once, and one kept is never *)
(* undone, whatever is written, read again or cut short.                   *)
(***************************************************************************)
EXTENDS Sequences, Functions

CONSTANT Change

VARIABLE kept

TypeOK == kept \in Seq(Change)

Init == kept = <<>>

Keep(x) ==
  /\ x \notin Range(kept)
  /\ kept' = Append(kept, x)

Next == \E x \in Change : Keep(x)

Spec == Init /\ [][Next]_kept

=============================================================================
