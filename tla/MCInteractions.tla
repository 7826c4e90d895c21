--------------------------- MODULE MCInteractions ---------------------------
(* Small instances of Interactions for TLC. *)
EXTENDS Interactions

(* All notes were published by an account that is no actor, but the first. *)
FirstByActor == [n \in Notes |-> IF n = Min(Notes) /\ n \notin Fresh
                                 THEN CHOOSE a \in Actors : TRUE ELSE None]
=============================================================================
