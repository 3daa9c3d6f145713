----------------------------- MODULE MCPollLoop -----------------------------
(* Small instances of PollLoop.                                             *)
EXTENDS PollLoop

(* One of the collectors that log a failed query and return no error, and   *)
(* the one that returns it.                                                 *)
TwoCollectors == {"tables", "restart"}
AsBuilt == {{"restart"}}
AnyReporting == SUBSET TwoCollectors
=============================================================================
