---------------------------- MODULE MCLiveStream ----------------------------
(* The sockets of an account only share its writer: one is enough.          *)
EXTENDS LiveStream

CONSTANTS d1
=============================================================================
