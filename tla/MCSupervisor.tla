---------------------------- MODULE MCSupervisor ----------------------------
(* Small instances of Supervisor for TLC. *)
EXTENDS Supervisor

(* Jobs 1 to 3 belong to account 1, the others to account 2. *)
TwoAccounts == [j \in Jobs |-> IF j <= 3 THEN 1 ELSE 2]
=============================================================================
