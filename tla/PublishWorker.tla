--------------------------- MODULE PublishWorker ---------------------------
(***************************************************************************)
(* Publishing in the split deployment: the worker supervisor (app/worker.py) *)
(* scans publish_jobs, spawns one account_worker child per account with a   *)
(* batch of job ids, reaps or kills it; the child (app/account_worker.py)   *)
(* runs its batch one job at a time.                                        *)
(*                                                                         *)
(*   due        what the supervisor's last scan listed and has not          *)
(*              dispatched yet                                              *)
(*   pc[a]      where a's child stands: "off" (there is none), "next",      *)
(*              "gate", "claim", "run" (publish_once before the platform    *)
(*              has the note), "posted" (after), "apply", "rescue" (the     *)
(*              except branch), "finally"                                   *)
(*   batch[a]   publish ids the child has not reached yet                   *)
(*   cur[a]     the job it works on; loaded[a], the row as it was loaded    *)
(*   verdict[a] what publish_once reported                                  *)
(*   kills, faults  history: processes killed, ledger writes failed         *)
(***************************************************************************)
EXTENDS PublishRows

CONSTANTS MaxBatch,  \* WORKER_BATCH_PER_ACCOUNT
          MaxProcs,  \* BROWSER_CONCURRENCY
          MaxKills,  \* bound: processes killed
          MaxFaults  \* bound: failed ledger writes

ASSUME WorkerAssumption ==
  /\ MaxBatch \in Nat \ {0} /\ MaxProcs \in Nat \ {0}
  /\ MaxKills \in Nat /\ MaxFaults \in Nat

VARIABLES due, pc, batch, cur, loaded, verdict, kills, faults

childVars == <<pc, batch, cur, loaded, verdict>>
vars == <<rowVars, due, childVars, kills, faults>>

Live(a) == pc[a] # "off"
Running == {"run", "posted", "apply"}
Phases == {"off", "next", "gate", "claim", "rescue", "finally"} \cup Running
Fresh == [text |-> 0, retries |-> 0]

Init ==
  /\ RowsInit
  /\ due = {}
  /\ pc = [a \in Accounts |-> "off"]
  /\ batch = [a \in Accounts |-> {}]
  /\ cur = [a \in Accounts |-> Null]
  /\ loaded = [a \in Accounts |-> Fresh]
  /\ verdict = [a \in Accounts |-> Null]
  /\ kills = 0 /\ faults = 0

(***************************************************************************)
(* Supervisor                                                              *)
(***************************************************************************)

(* Mutants, here and below (names ending in _m): the definition that follows *)
(* with a plausible bug.  Live children are not spared; accounts whose child  *)
(* is gone are never taken off the list of the spared.                        *)
SparedNone_m == {}
SparedAll_m == Jobs

(* Rows recovery must not touch: those of accounts with a live child. *)
SparedByChildren == {j \in Jobs : Live(Account[j])}

(* _recover_stale_publish, at the start of a scan. *)
Recover ==
  /\ due = {}
  /\ RecoverRows(SparedByChildren)
  /\ UNCHANGED <<cancels, posts, attempts, lost, due, childVars, kills, faults>>

ListDue ==
  /\ due = {}
  /\ due' = {j \in Jobs : Due(j)}
  /\ UNCHANGED <<rowVars, childVars, kills, faults>>

(* The oldest MaxBatch of a's listed jobs. *)
Oldest(a) ==
  {j \in due \cap JobsOf(a) : Cardinality({k \in due \cap JobsOf(a) : k < j}) < MaxBatch}

MaySpawn(a) == ~Live(a) /\ Cardinality({b \in Accounts : Live(b)}) < MaxProcs

(* The hourly session caps may hold back any of the batch. *)
Spawn(a, ids) ==
  /\ MaySpawn(a)
  /\ ids # {} /\ ids \subseteq Oldest(a)
  /\ due' = due \ JobsOf(a)
  /\ pc' = [pc EXCEPT ![a] = "next"]
  /\ batch' = [batch EXCEPT ![a] = ids]
  /\ cur' = [cur EXCEPT ![a] = Null]
  /\ UNCHANGED <<rowVars, loaded, verdict, kills, faults>>

(* a's listed jobs are left for a later scan: a child is alive, the process  *)
(* or session cap is reached, or the spawn failed.                           *)
Skip(a) ==
  /\ due \cap JobsOf(a) # {}
  /\ due' = due \ JobsOf(a)
  /\ UNCHANGED <<rowVars, childVars, kills, faults>>

(* What is left of the children of S. *)
Gone(S) ==
  /\ pc' = [a \in Accounts |-> IF a \in S THEN "off" ELSE pc[a]]
  /\ batch' = [a \in Accounts |-> IF a \in S THEN {} ELSE batch[a]]
  /\ cur' = [a \in Accounts |-> IF a \in S THEN Null ELSE cur[a]]
  /\ loaded' = [a \in Accounts |-> IF a \in S THEN Fresh ELSE loaded[a]]
  /\ verdict' = [a \in Accounts |-> IF a \in S THEN Null ELSE verdict[a]]
  /\ lost' = [j \in Jobs |-> IF \E a \in S : cur[a] = j /\ pc[a] \in Running
                             THEN lost[j] + 1 ELSE lost[j]]
  /\ kills < MaxKills /\ kills' = kills + 1

(* The child exceeds its hard timeout and is killed with its browser, or     *)
(* dies on its own.                                                          *)
KillChild(a) ==
  /\ Live(a)
  /\ Gone({a})
  /\ UNCHANGED <<rows, cancels, posts, attempts, due, faults>>

(* The supervisor stops or crashes; its children are killed with it.         *)
RestartSupervisor ==
  /\ Gone({a \in Accounts : Live(a)})
  /\ due' = {}
  /\ UNCHANGED <<rows, cancels, posts, attempts, faults>>

(***************************************************************************)
(* The account_worker child                                                *)
(***************************************************************************)

(* run_publish_job returns, and its local variables with it.                 *)
BackToBatch(a) ==
  /\ pc' = [pc EXCEPT ![a] = "next"]
  /\ cur' = [cur EXCEPT ![a] = Null]
  /\ loaded' = [loaded EXCEPT ![a] = Fresh]
  /\ verdict' = [verdict EXCEPT ![a] = Null]

(* run_publish_job reads the row; publish ids run in ascending order.        *)
Load(a, j) ==
  /\ pc[a] = "next"
  /\ j \in batch[a] /\ \A k \in batch[a] : j <= k
  /\ batch' = [batch EXCEPT ![a] = @ \ {j}]
  /\ IF rows[j].status = "pending"
     THEN /\ pc' = [pc EXCEPT ![a] = "gate"]
          /\ cur' = [cur EXCEPT ![a] = j]
          /\ loaded' = [loaded EXCEPT ![a] = [text |-> rows[j].text,
                                              retries |-> rows[j].retries]]
     ELSE UNCHANGED <<pc, cur, loaded>>
  /\ UNCHANGED <<rowVars, due, verdict, kills, faults>>

(* The batch is done (and any browser jobs after it): the child exits and    *)
(* is reaped.                                                                *)
Exit(a) ==
  /\ pc[a] = "next" /\ batch[a] = {}
  /\ pc' = [pc EXCEPT ![a] = "off"]
  /\ UNCHANGED <<rowVars, due, batch, cur, loaded, verdict, kills, faults>>

(* Mutants: the cooldown only looks at published rows; the cap is passed at  *)
(* one note too many.                                                        *)
GateOpenPublished_m(a) ==
  PublishedToday(a) < DailyCap
  /\ \A k \in Siblings(cur[a]) : rows[k].status = "published" => rows[k].age >= MinInterval
GateOpenCap_m(a) == Cooled(cur[a], MinInterval) /\ PublishedToday(a) <= DailyCap

(* _publish_gate: the interval is drawn between the two limits, so the gate  *)
(* may open from MinInterval on and must open from MaxInterval on.           *)
GateOpen(a) == Cooled(cur[a], MinInterval) /\ PublishedToday(a) < DailyCap

GatePass(a) ==
  /\ pc[a] = "gate" /\ GateOpen(a)
  /\ pc' = [pc EXCEPT ![a] = "claim"]
  /\ UNCHANGED <<rowVars, due, batch, cur, loaded, verdict, kills, faults>>

(* Put off: UPDATE next_retry_at ... WHERE status='pending', no retry used.  *)
GateDeny(a, delay) ==
  /\ pc[a] = "gate"
  /\ ~Cooled(cur[a], MaxInterval) \/ PublishedToday(a) >= DailyCap
  /\ rows' = IF rows[cur[a]].status = "pending"
             THEN [rows EXCEPT ![cur[a]] = PutOff(@, delay)] ELSE rows
  /\ BackToBatch(a)
  /\ UNCHANGED <<cancels, posts, attempts, lost, due, batch, kills, faults>>

(* _claim_publish: UPDATE ... WHERE status='pending', rowcount=1.            *)
Claim(a) ==
  /\ pc[a] = "claim" /\ rows[cur[a]].status = "pending"
  /\ rows' = [rows EXCEPT ![cur[a]] = Claimed(@)]
  /\ attempts' = [attempts EXCEPT ![cur[a]] = @ + 1]
  /\ pc' = [pc EXCEPT ![a] = "run"]
  /\ UNCHANGED <<cancels, posts, lost, due, batch, cur, loaded, verdict, kills, faults>>

LoseClaim(a) ==
  /\ pc[a] = "claim" /\ rows[cur[a]].status # "pending"
  /\ BackToBatch(a)
  /\ UNCHANGED <<rowVars, due, batch, kills, faults>>

(* step7 clicks publish and the platform takes the note.                     *)
Post(a) ==
  /\ pc[a] = "run"
  /\ posts' = [posts EXCEPT ![cur[a]] = @ + 1]
  /\ pc' = [pc EXCEPT ![a] = "posted"]
  /\ UNCHANGED <<rows, cancels, attempts, lost, due, batch, cur, loaded, verdict, kills, faults>>

(* publish_once returns.  Without the note on the platform it reports a      *)
(* failure or a dead account; with it, success, or a failure when the        *)
(* success page did not show in time.                                        *)
Return(a, v) ==
  /\ \/ pc[a] = "run" /\ v \in {"fail", "dead"} /\ UNCHANGED lost
     \/ pc[a] = "posted" /\ v = "ok" /\ UNCHANGED lost
     \/ pc[a] = "posted" /\ v = "fail" /\ lost' = [lost EXCEPT ![cur[a]] = @ + 1]
  /\ verdict' = [verdict EXCEPT ![a] = v]
  /\ pc' = [pc EXCEPT ![a] = "apply"]
  /\ UNCHANGED <<rows, cancels, posts, attempts, due, batch, cur, loaded, kills, faults>>

(* Mutant: the decision is written whatever the row's status is.             *)
AppliedUnguarded_m(a, wait) == Settled(rows[cur[a]], verdict[a], loaded[a].retries, wait)

(* _apply_publish_decision: every UPDATE says WHERE status='publishing'.     *)
Applied(a, wait) ==
  IF rows[cur[a]].status = "publishing"
  THEN Settled(rows[cur[a]], verdict[a], loaded[a].retries, wait)
  ELSE rows[cur[a]]

Apply(a, wait) ==
  /\ pc[a] \in {"apply", "rescue"}
  /\ rows' = [rows EXCEPT ![cur[a]] = Applied(a, wait)]
  /\ pc' = [pc EXCEPT ![a] = "finally"]
  /\ UNCHANGED <<cancels, posts, attempts, lost, due, batch, cur, loaded, verdict, kills, faults>>

(* A ledger write raises (database locked).  The except branch decides once  *)
(* more, as a failure; a second exception is only logged; one in finally     *)
(* leaves the row publishing.                                                *)
WriteRaises(a) ==
  /\ faults < MaxFaults /\ faults' = faults + 1
  /\ \/ /\ pc[a] = "apply"
        /\ pc' = [pc EXCEPT ![a] = "rescue"]
        /\ verdict' = [verdict EXCEPT ![a] = "fail"]
        /\ lost' = [lost EXCEPT ![cur[a]] = @ + 1]
        /\ UNCHANGED <<cur, loaded>>
     \/ /\ pc[a] = "rescue"
        /\ pc' = [pc EXCEPT ![a] = "finally"]
        /\ UNCHANGED <<lost, cur, loaded, verdict>>
     \/ pc[a] = "finally" /\ BackToBatch(a) /\ UNCHANGED lost
  /\ UNCHANGED <<rows, cancels, posts, attempts, due, batch, kills>>

(* _requeue_if_hanging: still publishing means that both writes failed.      *)
Finally(a, wait) ==
  /\ pc[a] = "finally"
  /\ rows' = IF rows[cur[a]].status = "publishing"
             THEN [rows EXCEPT ![cur[a]] = Requeued(@, wait)]
             ELSE rows
  /\ BackToBatch(a)
  /\ UNCHANGED <<cancels, posts, attempts, lost, due, batch, kills, faults>>

Rest ==
  /\ \E j \in Jobs :
       \/ \E when \in Schedule : Create(j, when) \/ Patch(j, when)
       \/ CancelRead(j) \/ CancelWrite(j)
  /\ UNCHANGED <<due, childVars, kills, faults>>

Time == (Tick \/ Midnight) /\ UNCHANGED <<due, childVars, kills, faults>>

ChildStep(a) ==
  \/ \E j \in Jobs : Load(a, j)
  \/ Exit(a) \/ GatePass(a) \/ Claim(a) \/ LoseClaim(a) \/ Post(a)
  \/ \E delay \in MinInterval..MaxInterval : GateDeny(a, delay)
  \/ \E v \in {"ok", "fail", "dead"} : Return(a, v)
  \/ \E wait \in RetryWaits : Apply(a, wait) \/ Finally(a, wait)

Next ==
  \/ Rest \/ Time
  \/ Recover \/ ListDue \/ RestartSupervisor
  \/ \E a \in Accounts :
       \/ \E ids \in SUBSET Jobs : Spawn(a, ids)
       \/ Skip(a) \/ KillChild(a) \/ WriteRaises(a) \/ ChildStep(a)

Spec == Init /\ [][Next]_vars

(* The supervisor keeps scanning, a child's steps return (or the child is    *)
(* killed), time passes; an account is not held back by the session caps and *)
(* failing spawns for ever.                                                  *)
Fairness ==
  /\ WF_vars(Recover) /\ WF_vars(ListDue)
  /\ WF_vars(Tick /\ UNCHANGED <<due, childVars, kills, faults>>)
  /\ WF_vars(Midnight /\ UNCHANGED <<due, childVars, kills, faults>>)
  /\ \A a \in Accounts :
       /\ WF_vars(ChildStep(a)) /\ WF_vars(Skip(a))
       /\ \A j \in Jobs : SF_vars(\E ids \in SUBSET Jobs : j \in ids /\ Spawn(a, ids))

FairSpec == Spec /\ Fairness

(***************************************************************************)
(* Properties                                                              *)
(***************************************************************************)

TypeOK ==
  /\ RowsOK
  /\ due \in SUBSET Jobs
  /\ pc \in [Accounts -> Phases]
  /\ batch \in [Accounts -> SUBSET Jobs]
  /\ cur \in [Accounts -> Jobs \cup {Null}]
  /\ loaded \in [Accounts -> [text: 0..MaxPatches, retries: 0..MaxRetries]]
  /\ verdict \in [Accounts -> {"ok", "fail", "dead", Null}]
  /\ kills \in 0..MaxKills /\ faults \in 0..MaxFaults

(* While a child executes a job, nothing but an operator's cancel takes the  *)
(* row away from it: recovery spares live children.                          *)
HeldWhilePublishing ==
  \A a \in Accounts : pc[a] \in Running =>
    \/ rows[cur[a]].status = "publishing"
    \/ cur[a] \in Editable /\ rows[cur[a]].status = "canceled"

(* A canceled job stays canceled: a child that was already publishing does   *)
(* not write over it.                                                        *)
CanceledStays ==
  [][\A j \in Jobs : rows[j].status = "canceled" => rows'[j].status = "canceled"]_rows

(* What the operators see of it: the column, and the jobs being executed.     *)
Executing == {cur[a] : a \in {b \in Accounts : pc[b] \in Running}}
Promise == INSTANCE PublishPromise
  WITH status <- [j \in Jobs |-> rows[j].status], running <- Executing

(* This deployment keeps the promise of the publish_jobs table: PublishPromise. *)
KeepsPublishPromise == Promise!Spec

(* Every job that exists is eventually published, failed or canceled.        *)
EveryJobEnds ==
  \A j \in Jobs : rows[j].status \in {"pending", "publishing"} ~> rows[j].status \in Ended
=============================================================================
