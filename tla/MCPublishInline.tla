-------------------------- MODULE MCPublishInline --------------------------
(* Small instances of PublishInline for TLC: the jobs share one account.     *)
EXTENDS PublishInline, TLC

CONSTANTS acc, w1, w2

OneAccount == [j \in Jobs |-> acc]
Alike == Permutations({w1, w2})
=============================================================================
