------------------------------ MODULE MCEdaSync -----------------------------
(* Three EDAs of one priority.                                                *)
EXTENDS EdaSync

MCPriority == [e \in Edas |-> 0]
MCEvts     == {"SYNC", "SYNC_CANCEL", "TIMER", "USER"}
=============================================================================
