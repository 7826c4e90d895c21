----------------------------- MODULE JobPromise -----------------------------
(***************************************************************************)
(* What the browser_jobs ledger promises to those who submit jobs          *)
(* (docs/design/2026-07-24-api-worker-split-design.md, goals 2 and 5, and  *)
(* app/models/browser_job.py): a submitted job waits, is taken by one      *)
(* holder, and ends done or failed.  A holder may vanish; the job it held  *)
(* then goes back to waiting if its kind is idempotent and is otherwise    *)
(* reported "outcome unknown" and never taken again.  Ends are ends.       *)
(***************************************************************************)
CONSTANTS Jobs, Procs, Idempotent, Nobody

VARIABLES state, holder

vars == <<state, holder>>

Init ==
  /\ state = [j \in Jobs |-> "absent"]
  /\ holder = [j \in Jobs |-> Nobody]

Submit(j) ==
  /\ state[j] = "absent"
  /\ state' = [state EXCEPT ![j] = "waiting"]
  /\ UNCHANGED holder

Take(j, p) ==
  /\ state[j] = "waiting"
  /\ state' = [state EXCEPT ![j] = "held"]
  /\ holder' = [holder EXCEPT ![j] = p]

Settle(j, end) ==
  /\ state[j] = "held" /\ holder[j] # Nobody
  /\ state' = [state EXCEPT ![j] = end]
  /\ holder' = [holder EXCEPT ![j] = Nobody]

(* The holders of the jobs in S are gone. *)
Vanish(S) ==
  /\ \A j \in S : state[j] = "held"
  /\ holder' = [j \in Jobs |-> IF j \in S THEN Nobody ELSE holder[j]]
  /\ UNCHANGED state

(* The jobs in S are known to have lost their holders. *)
GiveUp(S) ==
  /\ \A j \in S : state[j] = "held" /\ holder[j] = Nobody
  /\ state' = [j \in Jobs |-> IF j \notin S THEN state[j]
                              ELSE IF j \in Idempotent THEN "waiting" ELSE "unknown"]
  /\ UNCHANGED holder

Next ==
  \/ \E j \in Jobs : \/ Submit(j)
                     \/ \E p \in Procs : Take(j, p)
                     \/ \E end \in {"done", "failed"} : Settle(j, end)
  \/ \E S \in SUBSET Jobs : Vanish(S) \/ GiveUp(S)

Spec == Init /\ [][Next]_vars
=============================================================================
