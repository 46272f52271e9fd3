---------------------------- MODULE MCEngineHost ----------------------------
(* EngineHost for TLC. *)
EXTENDS EngineHost

=============================================================================
