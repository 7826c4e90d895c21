-------------------------- MODULE MCPublishWorker --------------------------
(* Small instances of PublishWorker for TLC: one account, since accounts     *)
(* only share the process cap.                                               *)
EXTENDS PublishWorker

CONSTANT acc

OneAccount == [j \in Jobs |-> acc]
=============================================================================
