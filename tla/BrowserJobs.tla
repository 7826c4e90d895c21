---------------------------- MODULE BrowserJobs ----------------------------
(***************************************************************************)
(* The browser_jobs ledger (app/services/browser_jobs_repo.py) and the     *)
(* processes that consume it: account_worker children, the supervisor      *)
(* (op_images) and, under NBDPSY_ROLE=all, the API process itself.         *)
(*                                                                         *)
(* A process p is followed through its restarts: epoch[p] counts them, and *)
(* <<p, epoch[p]>> is the worker tag (role name and pid) it writes into    *)
(* claimed_by, so a restarted process never carries its old tag.           *)
(*                                                                         *)
(*   row[j]     the ledger row; age is the number of heartbeat periods     *)
(*              since heartbeat_at was touched, capped at StaleAge         *)
(*   exec[p][j] where p stands with j: "idle", "exec" (claimed and         *)
(*              executing), "ok"/"err" (verdict reached, not yet written)  *)
(*   inbox[p]   jobs p was told to run and has not claimed yet: the inline *)
(*              tasks of role=all, the batch of a child process            *)
(*   snap[j]    the result column recover_stale loaded when it SELECTed j, *)
(*              until its flush; "absent" when j is not in its hands         *)
(*   starts[j]  history: executions of j ever started, saturated at 2      *)
(*   faults     history: ledger writes that have failed (bounded)          *)
(***************************************************************************)
EXTENDS Naturals, FiniteSets

CONSTANTS Jobs,               \* job ids
          Procs,              \* processes that execute jobs
          Recoverer,          \* the process that runs recover_stale
          Serial,             \* account_worker children: one job at a time
          Idempotent,         \* jobs whose kind is in _IDEMPOTENT_KINDS
          Consumers,          \* job -> the processes it may be handed to
          Supervised,         \* TRUE: a supervisor hands out queued rows
          StaleAge,           \* STALE_AFTER_SECONDS in heartbeat periods
          HeartbeatsReliable, \* TRUE: no heartbeat of a live process is missed
          MaxCrashes,         \* bound: restarts of one process
          MaxFaults,          \* bound: failed ledger writes
          NoTag               \* claimed_by IS NULL

ASSUME LedgerAssumption ==
  /\ Recoverer \in Procs
  /\ Serial \subseteq Procs
  /\ Idempotent \subseteq Jobs
  /\ Consumers \in [Jobs -> SUBSET Procs]
  /\ Supervised \in BOOLEAN
  /\ HeartbeatsReliable \in BOOLEAN
  /\ StaleAge \in Nat \ {0}
  /\ MaxCrashes \in Nat
  /\ MaxFaults \in Nat
  /\ NoTag \notin Procs \cup (Procs \X Nat)

VARIABLES row, exec, inbox, snap, epoch, starts, faults

vars == <<row, exec, inbox, snap, epoch, starts, faults>>

Tag(p) == <<p, epoch[p]>>
Terminal == {"done", "error"}
Statuses == {"none", "queued", "running"} \cup Terminal
Results == {"none", "ok", "err", "unknown"}
Phases == {"idle", "exec", "ok", "err"}
Rows == [status: Statuses, owner: (Procs \X Nat) \cup {NoTag},
         age: 0..StaleAge, result: Results]

NoSnap == [j \in Jobs |-> "absent"]
InSnap(j) == snap[j] # "absent"

(* p is in the middle of j; IsBusy: p has something in its hands. *)
Holds(p, j) == exec[p][j] # "idle"
IsBusy(p) == \E j \in Jobs : Holds(p, j)

Init ==
  /\ row = [j \in Jobs |-> [status |-> "none", owner |-> NoTag,
                            age |-> 0, result |-> "none"]]
  /\ exec = [p \in Procs |-> [j \in Jobs |-> "idle"]]
  /\ inbox = [p \in Procs |-> {}]
  /\ snap = NoSnap
  /\ epoch = [p \in Procs |-> 0]
  /\ starts = [j \in Jobs |-> 0]
  /\ faults = 0

(***************************************************************************)
(* Producers                                                               *)
(***************************************************************************)

(* enqueue / enqueue_sync: INSERT a queued row.  Under role=all the request *)
(* that enqueued also creates the in-process task (spawn_inline).           *)
Enqueue(j) ==
  /\ row[j].status = "none"
  /\ row' = [row EXCEPT ![j].status = "queued"]
  /\ inbox' = IF Supervised THEN inbox
              ELSE [p \in Procs |-> IF p \in Consumers[j]
                                    THEN inbox[p] \cup {j} ELSE inbox[p]]
  /\ UNCHANGED <<exec, snap, epoch, starts, faults>>

(* The supervisor lists the queued rows and hands some to a process: a      *)
(* child's --browser-job-ids, or its own op_images tasks.  A child is only  *)
(* given a batch when it is spawned, i.e. when it has nothing left to do.   *)
Dispatch(p, batch) ==
  /\ Supervised
  /\ batch # {} /\ inbox[p] = {}
  /\ p \in Serial => ~IsBusy(p)
  /\ \A j \in batch : row[j].status = "queued" /\ p \in Consumers[j] /\ ~Holds(p, j)
  /\ inbox' = [inbox EXCEPT ![p] = batch]
  /\ UNCHANGED <<row, exec, snap, epoch, starts, faults>>

(***************************************************************************)
(* Executors: claim -> execute -> finish, with a heartbeat alongside        *)
(***************************************************************************)

(* UPDATE ... WHERE id AND status='queued'; rowcount=1 is the claim. *)
ClaimRow(r, tag) ==
  [r EXCEPT !.status = "running", !.owner = tag, !.age = 0]

(* p reaches j in its batch; a child takes its batch one job at a time. *)
Reaches(p, j) ==
  /\ j \in inbox[p]
  /\ p \in Serial => ~IsBusy(p)
  /\ ~Holds(p, j)
  /\ inbox' = [inbox EXCEPT ![p] = @ \ {j}]

(* Mutants, here and below (names ending in _m): the definition that follows  *)
(* with a plausible bug.  Claim with WHERE status='queued' widened to running *)
(* rows.                                                                     *)
CanClaimRunning_m(j) == row[j].status \in {"queued", "running"}

CanClaim(j) == row[j].status = "queued"

Claim(p, j) ==
  /\ Reaches(p, j)
  /\ CanClaim(j)
  /\ row' = [row EXCEPT ![j] = ClaimRow(@, Tag(p))]
  /\ exec' = [exec EXCEPT ![p][j] = "exec"]
  /\ starts' = [starts EXCEPT ![j] = IF @ = 0 THEN 1 ELSE 2]
  /\ UNCHANGED <<snap, epoch, faults>>

(* rowcount=0: somebody else has it, p goes on with its batch. *)
LoseClaim(p, j) ==
  /\ Reaches(p, j)
  /\ ~CanClaim(j)
  /\ UNCHANGED <<row, exec, snap, epoch, starts, faults>>

(* execute returned; an exception or an "error" in the dict is "err". *)
Execute(p, j) ==
  /\ exec[p][j] = "exec"
  /\ \E verdict \in {"ok", "err"} : exec' = [exec EXCEPT ![p][j] = verdict]
  /\ UNCHANGED <<row, inbox, snap, epoch, starts, faults>>

(* UPDATE ... WHERE id AND status='running' AND claimed_by=tag. *)
FinishGuard(p, j) == row[j].status = "running" /\ row[j].owner = Tag(p)

(* The executor's verdict written as the row's status. *)
FinishRow(r, verdict) ==
  [r EXCEPT !.status = IF verdict = "ok" THEN "done" ELSE "error",
            !.result = verdict]

Finish(p, j) ==
  /\ exec[p][j] \in {"ok", "err"}
  /\ row' = IF FinishGuard(p, j)
            THEN [row EXCEPT ![j] = FinishRow(@, exec[p][j])]
            ELSE row
  /\ exec' = [exec EXCEPT ![p][j] = "idle"]
  /\ UNCHANGED <<inbox, snap, epoch, starts, faults>>

(* The terminal write raises (database locked).  A child falls into         *)
(* run_browser_job's except branch and tries once more with "error"; the    *)
(* in-process consumers only log and leave the row to recover_stale.        *)
FinishRaises(p, j) ==
  /\ exec[p][j] \in {"ok", "err"}
  /\ faults < MaxFaults
  /\ faults' = faults + 1
  /\ exec' = [exec EXCEPT ![p][j] =
                IF p \in Serial /\ @ = "ok" THEN "err" ELSE "idle"]
  /\ UNCHANGED <<row, inbox, snap, epoch, starts>>

(* heartbeat / heartbeat_sync: UPDATE ... WHERE id, whatever the status and *)
(* whoever the owner.                                                       *)
Heartbeat(p, j) ==
  /\ Holds(p, j)
  /\ row' = [row EXCEPT ![j].age = 0]
  /\ UNCHANGED <<exec, inbox, snap, epoch, starts, faults>>

(* One heartbeat period passes.  With reliable heartbeats every live         *)
(* execution has been touched since the last period.                        *)
Tick ==
  /\ \E j \in Jobs : row[j].status = "running" /\ row[j].age < StaleAge
  /\ HeartbeatsReliable =>
       \A p \in Procs, j \in Jobs : Holds(p, j) => row[j].age + 1 < StaleAge
  /\ row' = [j \in Jobs |->
               IF row[j].status = "running" /\ row[j].age < StaleAge
               THEN [row[j] EXCEPT !.age = @ + 1] ELSE row[j]]
  /\ UNCHANGED <<exec, inbox, snap, epoch, starts, faults>>

(* SIGKILL, power loss, restart: everything in memory is gone, the rows     *)
(* stay as they are.                                                        *)
Crash(p) ==
  /\ epoch[p] < MaxCrashes
  /\ epoch' = [epoch EXCEPT ![p] = @ + 1]
  /\ exec' = [exec EXCEPT ![p] = [j \in Jobs |-> "idle"]]
  /\ inbox' = [inbox EXCEPT ![p] = {}]
  /\ snap' = IF p = Recoverer THEN NoSnap ELSE snap
  /\ UNCHANGED <<row, starts, faults>>

(***************************************************************************)
(* Recovery: a SELECT outside any write transaction, then one flush of      *)
(* UPDATE ... WHERE id over the rows it returned                            *)
(***************************************************************************)

Stale(j) == row[j].status = "running" /\ row[j].age = StaleAge

RecoverSelect ==
  /\ snap = NoSnap
  /\ \E j \in Jobs : Stale(j)
  /\ snap' = [j \in Jobs |-> IF Stale(j) THEN row[j].result ELSE "absent"]
  /\ UNCHANGED <<row, exec, inbox, epoch, starts, faults>>

(* The flush writes only the attributes that differ from what was loaded: a *)
(* result that was NULL at the SELECT is not written by the idempotent      *)
(* branch.                                                                  *)
(* Mutants: every kind requeued; the status left running. *)
RecoverRowAll_m(j, r) == [r EXCEPT !.status = "queued", !.owner = NoTag, !.age = 0]
RecoverRowKeep_m(j, r) == [r EXCEPT !.owner = NoTag, !.age = 0]

RecoverRow(j, r) ==
  IF j \in Idempotent
  THEN [r EXCEPT !.status = "queued", !.owner = NoTag, !.age = 0,
                 !.result = IF snap[j] = "none" THEN @ ELSE "none"]
  ELSE [r EXCEPT !.status = "error", !.result = "unknown"]

RecoverFlush ==
  /\ snap # NoSnap
  /\ row' = [j \in Jobs |-> IF InSnap(j) THEN RecoverRow(j, row[j]) ELSE row[j]]
  /\ snap' = NoSnap
  /\ UNCHANGED <<exec, inbox, epoch, starts, faults>>

Next ==
  \/ \E j \in Jobs : Enqueue(j)
  \/ \E p \in Procs, batch \in SUBSET Jobs : Dispatch(p, batch)
  \/ \E p \in Procs, j \in Jobs :
       \/ Claim(p, j) \/ LoseClaim(p, j) \/ Execute(p, j) \/ Finish(p, j)
       \/ FinishRaises(p, j) \/ Heartbeat(p, j)
  \/ \E p \in Procs : Crash(p)
  \/ Tick \/ RecoverSelect \/ RecoverFlush

Spec == Init /\ [][Next]_vars

(* The scan loop keeps dispatching and recovering, time passes, a claimed    *)
(* execution returns (or its process is killed at its hard timeout).        *)
Fairness ==
  /\ \A p \in Procs :
       /\ WF_vars(\E batch \in SUBSET Jobs : Dispatch(p, batch))
       /\ \A j \in Jobs :
            /\ WF_vars(Claim(p, j)) /\ WF_vars(LoseClaim(p, j))
            /\ WF_vars(Execute(p, j)) /\ WF_vars(Finish(p, j))
            /\ WF_vars(row[j].age > 0 /\ Heartbeat(p, j))
  /\ WF_vars(Tick) /\ WF_vars(RecoverSelect) /\ WF_vars(RecoverFlush)

FairSpec == Spec /\ Fairness

(***************************************************************************)
(* Properties                                                              *)
(***************************************************************************)

TypeOK ==
  /\ row \in [Jobs -> Rows]
  /\ exec \in [Procs -> [Jobs -> Phases]]
  /\ inbox \in [Procs -> SUBSET Jobs]
  /\ snap \in [Jobs -> Results \cup {"absent"}]
  /\ epoch \in [Procs -> 0..MaxCrashes]
  /\ starts \in [Jobs -> 0..2]
  /\ faults \in 0..MaxFaults

(* A job whose kind is not idempotent (a deletion, paid image generation) is *)
(* executed at most once, whatever crashes, missed heartbeats, recoveries    *)
(* and competing consumers happen in between (recover_stale's kind split,    *)
(* the optimistic claim).                                                    *)
NonIdempotentOnce == \A j \in Jobs \ Idempotent : starts[j] <= 1

(* Once recovery has told the operator "outcome unknown, check by hand", no  *)
(* late executor takes that back (the guard of finish_job).                  *)
UnknownIsKept ==
  [][\A j \in Jobs : row[j].result = "unknown" =>
        row'[j].result = "unknown" /\ row'[j].status = "error"]_vars

(* While heartbeats arrive, a job is in the hands of at most one process,    *)
(* and that process owns a running row: recovery never takes a job away      *)
(* from a live executor.                                                     *)
SoleExecution ==
  \A j \in Jobs, p \in Procs : Holds(p, j) =>
     /\ row[j].status = "running" /\ row[j].owner = Tag(p)
     /\ \A q \in Procs \ {p} : ~Holds(q, j)

(* A terminal state, once written, is never lost.                            *)
TerminalStable ==
  [][\A j \in Jobs : row[j].status \in Terminal =>
        row'[j].status = row[j].status /\ row'[j].result = row[j].result]_vars

(* No restart loses a job: what is queued or running eventually reaches a    *)
(* terminal state.                                                           *)
EveryJobSettles ==
  \A j \in Jobs : row[j].status \in {"queued", "running"} ~> row[j].status \in Terminal

(***************************************************************************)
(* What the ledger promises, and how it shows in the implementation        *)
(***************************************************************************)

PromiseState(j) ==
  CASE row[j].status = "none" -> "absent"
    [] row[j].status = "queued" -> "waiting"
    [] row[j].status = "running" -> "held"
    [] row[j].status = "done" -> "done"
    [] row[j].status = "error" ->
         IF row[j].result = "unknown" THEN "unknown" ELSE "failed"

PromiseHolder(j) ==
  IF \E p \in Procs : Holds(p, j) THEN CHOOSE p \in Procs : Holds(p, j) ELSE NoTag

Promise == INSTANCE JobPromise
  WITH state <- [j \in Jobs |-> PromiseState(j)],
       holder <- [j \in Jobs |-> PromiseHolder(j)],
       Nobody <- NoTag

(* While heartbeats arrive the ledger keeps that promise: claims, heartbeats, *)
(* guarded finishes, crashes and the two-step recovery implement it.         *)
KeepsPromise == Promise!Spec
=============================================================================
