--------------------------- MODULE MCBrowserJobs ---------------------------
(* Small instances of BrowserJobs for TLC. *)
EXTENDS BrowserJobs

CONSTANTS sup, child, api, del, read

(* Either process may be handed either job. *)
MixedConsumers == [j \in Jobs |-> Procs]
=============================================================================
