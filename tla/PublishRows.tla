---------------------------- MODULE PublishRows ----------------------------
(***************************************************************************)
(* The publish_jobs table, shared by everything that publishes notes: the  *)
(* REST handlers that create, patch and cancel jobs                        *)
(* (app/http/publish_rest.py), the verdict rules (app/publish/policy.py)   *)
(* and the row updates that account_worker and the in-process scheduler    *)
(* both issue.  PublishWorker and PublishInline extend this module with    *)
(* the two deployments.                                                    *)
(*                                                                         *)
(* Time is counted in ticks of PUBLISH_JOB_TIMEOUT's order and is kept     *)
(* relative, so that it never ends: a row's age counts up from started_at  *)
(* and stops at MaxAge, wait counts down to next_retry_at.  Days pass       *)
(* independently of ticks (Midnight); schedule_time is 0 when it is NULL or *)
(* has come, 1 when it is later today, 2 when it is tomorrow (which stands  *)
(* for any later day).                                                      *)
(*                                                                         *)
(*   rows[j]     the row: status; age, Null when started_at is NULL; today *)
(*               (started today); made (created today); wait; sched;       *)
(*               retries; text, the version of title, content and images   *)
(*   cancels     cancel requests that have read "pending", not written yet *)
(*   posts[j]    history: notes of j that have appeared on the platform    *)
(*   attempts[j] history: executions of j begun                            *)
(*   lost[j]     history: executions of j whose outcome never reached the  *)
(*               row: killed, failed to write, or published and reported   *)
(*               as a failure (the 30 s wait for the success page)         *)
(***************************************************************************)
EXTENDS Naturals, FiniteSets

CONSTANTS Jobs,           \* publish_jobs ids
          Accounts,
          Account,        \* job -> account
          MinInterval,    \* PUBLISH_MIN_INTERVAL_MIN, in ticks
          MaxInterval,    \* PUBLISH_MIN_INTERVAL_MAX, in ticks
          RetryWaits,     \* what a jittered retry delay may be, in ticks
          MaxRetries,     \* len(retry_delays)
          JobTimeout,     \* PUBLISH_JOB_TIMEOUT, in ticks
          DailyCap,       \* PUBLISH_DAILY_CAP
          MaxPatches,     \* bound: PATCH requests per job
          Editable,       \* jobs that operators may patch or cancel
          Null            \* NULL

ASSUME PublishAssumption ==
  /\ Jobs \subseteq Nat /\ IsFiniteSet(Jobs)
  /\ Account \in [Jobs -> Accounts]
  /\ MinInterval \in Nat \ {0} /\ MaxInterval \in Nat /\ MinInterval <= MaxInterval
  /\ RetryWaits \in SUBSET (Nat \ {0}) /\ RetryWaits # {}
  /\ MaxRetries \in Nat /\ JobTimeout \in Nat \ {0} /\ DailyCap \in Nat \ {0}
  /\ MaxPatches \in Nat
  /\ Editable \subseteq Jobs
  /\ Null \notin Nat \cup Jobs

VARIABLES rows, cancels, posts, attempts, lost

rowVars == <<rows, cancels, posts, attempts, lost>>

MaxAge == IF MaxInterval > JobTimeout THEN MaxInterval ELSE JobTimeout
Statuses == {"none", "pending", "publishing", "published", "failed", "canceled"}
Schedule == 0..2
Tomorrow == 2
Ended == {"published", "failed", "canceled"}
Rows == [status: Statuses, age: 0..MaxAge \cup {Null}, today: BOOLEAN,
         made: BOOLEAN, wait: Nat, sched: Schedule,
         retries: 0..MaxRetries, text: 0..MaxPatches]

RowsInit ==
  /\ rows = [j \in Jobs |-> [status |-> "none", age |-> Null, today |-> FALSE,
                             made |-> FALSE, wait |-> 0, sched |-> 0,
                             retries |-> 0, text |-> 0]]
  /\ cancels = {}
  /\ posts = [j \in Jobs |-> 0]
  /\ attempts = [j \in Jobs |-> 0]
  /\ lost = [j \in Jobs |-> 0]

(***************************************************************************)
(* Reading the table                                                       *)
(***************************************************************************)

JobsOf(a) == {j \in Jobs : Account[j] = a}

(* scan_once and _due_publish_jobs share this filter. *)
Due(j) == rows[j].status = "pending" /\ rows[j].sched = 0 /\ rows[j].wait = 0

(* What the cooldown looks at: the account's other jobs that are published   *)
(* or publishing and carry a started_at.                                     *)
Begun(j) == rows[j].status \in {"publishing", "published"} /\ rows[j].age # Null
Siblings(j) == {k \in JobsOf(Account[j]) \ {j} : Begun(k)}
Cooled(j, interval) == \A k \in Siblings(j) : rows[k].age >= interval

PublishedToday(a) ==
  Cardinality({j \in JobsOf(a) : rows[j].status = "published" /\ rows[j].today})
CreatedToday(a) ==
  Cardinality({j \in JobsOf(a) : /\ rows[j].made
                                 /\ rows[j].status \in {"pending", "publishing", "published"}})

(***************************************************************************)
(* Writing a row                                                           *)
(***************************************************************************)

Unstart(r, status) == [r EXCEPT !.status = status, !.age = Null, !.today = FALSE]

PutOff(r, delay) == [r EXCEPT !.wait = delay]

Requeued(r, delay) == PutOff(Unstart(r, "pending"), delay)

Claimed(r) == [r EXCEPT !.status = "publishing", !.age = 0, !.today = TRUE]

(* decide_finish and its three UPDATEs.  "dead" stands for need_manual_login *)
(* and account_restricted.  n is the retries the caller read; the UPDATE     *)
(* increments the stored one.                                                *)
Settled(r, verdict, n, wait) ==
  CASE verdict = "ok" -> [r EXCEPT !.status = "published"]
    [] verdict = "fail" /\ n < MaxRetries ->
         [Requeued(r, wait) EXCEPT !.retries = @ + 1]
    [] OTHER -> Unstart(r, "failed")

Stalled(j) == Begun(j) /\ rows[j].status = "publishing" /\ rows[j].age >= JobTimeout

(* UPDATE publishing -> pending over the stalled rows outside Spared. *)
RecoverRows(Spared) ==
  rows' = [j \in Jobs |-> IF Stalled(j) /\ j \notin Spared
                          THEN Unstart(rows[j], "pending") ELSE rows[j]]

(***************************************************************************)
(* REST handlers                                                           *)
(***************************************************************************)

(* A job that would go out today while the account has used up today's       *)
(* quota is moved to tomorrow's window.                                      *)
EffectiveSchedule(a, when) ==
  IF when < Tomorrow /\ CreatedToday(a) >= DailyCap THEN Tomorrow ELSE when

Created(r, when) == [r EXCEPT !.status = "pending", !.made = TRUE, !.sched = when]

(* _create_publish_job *)
Create(j, when) ==
  /\ rows[j].status = "none"
  /\ rows' = [rows EXCEPT ![j] = Created(@, EffectiveSchedule(Account[j], when))]
  /\ UNCHANGED <<cancels, posts, attempts, lost>>

Patched(r, when) == [r EXCEPT !.text = @ + 1, !.sched = when]

(* PATCH: UPDATE ... WHERE id AND status='pending'. *)
Patch(j, when) ==
  /\ j \in Editable /\ rows[j].text < MaxPatches /\ rows[j].status = "pending"
  /\ rows' = [rows EXCEPT ![j] = Patched(@, when)]
  /\ UNCHANGED <<cancels, posts, attempts, lost>>

Canceled(r) == [r EXCEPT !.status = "canceled"]

(* Cancel reads the row, checks that it is pending and then flushes UPDATE   *)
(* ... WHERE id: the check and the write are two database round trips.       *)
CancelRead(j) ==
  /\ j \in Editable \ cancels /\ rows[j].status = "pending"
  /\ cancels' = cancels \cup {j}
  /\ UNCHANGED <<rows, posts, attempts, lost>>

CancelWrite(j) ==
  /\ j \in cancels
  /\ rows' = [rows EXCEPT ![j] = Canceled(@)]
  /\ cancels' = cancels \ {j}
  /\ UNCHANGED <<posts, attempts, lost>>

(***************************************************************************)
(* Time                                                                    *)
(***************************************************************************)

Older(r) ==
  [r EXCEPT !.age = IF @ = Null \/ @ = MaxAge THEN @ ELSE @ + 1,
            !.wait = IF @ = 0 THEN 0 ELSE @ - 1,
            !.sched = IF @ = Tomorrow THEN @ ELSE 0]

NextDay(r) ==
  [r EXCEPT !.today = FALSE, !.made = FALSE, !.sched = IF @ = Tomorrow THEN 1 ELSE 0]

Tick ==
  /\ rows' = [j \in Jobs |-> Older(rows[j])]
  /\ UNCHANGED <<cancels, posts, attempts, lost>>

Midnight ==
  /\ rows' = [j \in Jobs |-> NextDay(rows[j])]
  /\ UNCHANGED <<cancels, posts, attempts, lost>>

(***************************************************************************)
(* Properties of the table that both deployments are asked for             *)
(***************************************************************************)

RowsOK ==
  /\ rows \in [Jobs -> Rows]
  /\ cancels \in SUBSET Jobs
  /\ posts \in [Jobs -> Nat] /\ attempts \in [Jobs -> Nat] /\ lost \in [Jobs -> Nat]

Claims(j) == rows[j].status # "publishing" /\ rows'[j].status = "publishing"

(* A note appears twice only if an earlier execution's outcome was lost on   *)
(* the way to the row: claims, guarded writes and recovery never publish a   *)
(* note again on their own.                                                  *)
RepostsNeedLoss == \A j \in Jobs : posts[j] <= 1 + lost[j]

(* Retries are bounded by the retry schedule: every execution beyond it is   *)
(* one whose outcome was lost.                                               *)
AttemptsBounded == \A j \in Jobs : attempts[j] <= rows[j].retries + 1 + lost[j]

(* The account cooldown: when a job is claimed, the account's other jobs     *)
(* that are publishing or published were started at least the minimal        *)
(* interval ago.                                                             *)
ClaimsSpaced ==
  [][\A j \in Jobs : Claims(j) => Cooled(j, MinInterval)]_rows

(* Published, failed and canceled are final, unless an operator cancels.      *)
EndsAreFinal ==
  [][\A j \in Jobs \ Editable :
        rows[j].status \in Ended => rows'[j].status = rows[j].status]_rows

(* No account has more notes of one day than its daily cap.                  *)
DailyCapKept == \A a \in Accounts : PublishedToday(a) <= DailyCap
=============================================================================
