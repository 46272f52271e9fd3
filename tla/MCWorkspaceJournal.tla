------------------------- MODULE MCWorkspaceJournal -------------------------
(* Mobile's storage, one two clients share, and the web's.                *)
EXTENDS WorkspaceJournal
CONSTANTS c1, c2
Mobile == [later |-> FALSE, fails |-> Calls, aborts |-> {}, clients |-> {c1}]
Shared == [later |-> FALSE, fails |-> Calls \ {"revision"}, aborts |-> {}, clients |-> {c1, c2}]
Web == [later |-> TRUE, fails |-> {}, aborts |-> {"drop", "revision"}, clients |-> {c1}]
MCPlatform == {Mobile, Shared, Web}
=============================================================================
