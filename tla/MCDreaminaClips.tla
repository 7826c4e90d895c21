-------------------------- MODULE MCDreaminaClips --------------------------
(* Small instances of DreaminaClips for TLC. *)
EXTENDS DreaminaClips

(* Request 1 is a batch of all shots; the others replay its first shot. *)
OneBatch == [r \in Requests |-> IF r = 1 THEN Clips ELSE {1}]
Enough == [r \in Requests |-> 2]
=============================================================================
