------------------------------ MODULE Retention ------------------------------
(***************************************************************************)
(* The note ceiling of one managed account: services/retention_scheduler   *)
(* .py, the REST handlers of http/managed_accounts_rest.py that run it or  *)
(* change what it reads, and the job that carries a deletion out           *)
(* (services/note_delete.py).                                              *)
(*                                                                         *)
(* A round reads the account's ledger, chooses the notes of least          *)
(* interaction above the ceiling, writes an audit row and then queues one  *)
(* note_delete job per chosen note.  Two runners make rounds: the          *)
(* scheduler ("scan") and an operator's POST ("hand").  Each of them waits *)
(* for the database between its checks, its plan, the audit row and the    *)
(* jobs, and the process may die at each of these points.                  *)
(***************************************************************************)
EXTENDS Naturals, FiniteSets, Sequences, FiniteSetsExt, SequencesExt

CONSTANTS
  Notes,        \* notes the account publishes, in the order of their rows
  TitleOf,      \* [Notes -> titles]: two notes may share one
  Ceilings,     \* values note_cap takes
  DailyMax,     \* RETENTION_DAILY_DELETE_MAX
  GraceDays,    \* RETENTION_GRACE_DAYS
  Scores,       \* the interaction a note may have, weighed and compared
  LastDate,     \* bound on days
  MaxChanges,   \* bound on what others do: operators, ledger, metrics
  Troubles,     \* may cookies, browsers and children fail?
  MaxDeaths,    \* bound on deaths of the process that makes the rounds
  Null

ASSUME RetentionGiven ==
  /\ IsFiniteSet(Notes) /\ Ceilings \subseteq Nat
  /\ DailyMax \in Nat /\ GraceDays \in Nat /\ LastDate \in Nat \ {0}
  /\ MaxChanges \in Nat /\ MaxDeaths \in Nat

Runners == {"scan", "hand"}

VARIABLES
  state,        \* published_notes: "absent", "kept", or "gone" (deleted_at is set)
  linked,       \* notes whose row has a note_id
  shielded,     \* notes whose row has protected = TRUE
  born,         \* [Notes -> day of publication, or of discovery where that is unknown]
  score,        \* [Notes -> interaction of note_metrics, or Null]
  account,      \* managed and note_cap of the account; enabled: the kill switch is not thrown
  date, snapped, \* the UTC day, and whether it has its metrics snapshot
  rounds,       \* retention_runs: the set of rows [day, dry]
  deletions,    \* note_delete jobs, oldest first.  A job of a round is "promised" while
                \* only the audit row names it, later a row of browser_jobs
  runner,       \* [Runners -> what the runner holds in memory]
  changes, deaths,
  crossed       \* history: the two runners were at work at the same time

ledger == <<state, linked, shielded, born, score>>
clock == <<date, snapped>>
retentionVars == <<ledger, account, clock, rounds, deletions, runner, changes, deaths, crossed>>

(***************************************************************************)
(* Keys.  A note is known by its platform id once it has one, by its title *)
(* until then.                                                             *)
(***************************************************************************)
KeyOf(n) == IF n \in linked THEN <<"id", n>> ELSE <<"title", TitleOf[n]>>

Kept == {n \in Notes : state[n] = "kept"}
Bearers(k) == {n \in Kept : IF k[1] = "id" THEN n = k[2] ELSE TitleOf[n] = k[2]}
Idle == [at |-> "idle", day |-> 0, cap |-> 0, quota |-> 0, chosen |-> {}]

IsUnfinished(job) == job.status = "queued"       \* or running: no round tells them apart
IsRow(job) == job.status # "promised"

(***************************************************************************)
(* reconcile_deletions: the audit rows name the jobs; a job that deleted   *)
(* its note marks the row of it (only if it is the one row that answers to *)
(* the key), an unfinished one makes its key in flight.                    *)
(***************************************************************************)
KeysOf(some(_)) == {deletions[i].key : i \in {j \in DOMAIN deletions : deletions[j].by \in Runners /\ some(deletions[j])}}
Erased(job) == job.status = "done"
InFlight == KeysOf(IsUnfinished)

Sole(k, gone) == LET rest == Bearers(k) \ gone IN IF Cardinality(rest) = 1 THEN rest ELSE {}
Marked == FoldSet(LAMBDA k, gone : gone \cup Sole(k, gone), {}, KeysOf(Erased))

(***************************************************************************)
(* build_plan, over the rows the reconciliation leaves.                    *)
(***************************************************************************)
Stock == Kept \ Marked
Unmistakable(n) == \A m \in Stock \ {n} : TitleOf[m] # TitleOf[n]
Past(n, today) == born[n] + GraceDays <= today
Deletable(today) == {n \in Stock : /\ n \notin shielded
                                     /\ Unmistakable(n)
                                     /\ KeyOf(n) \notin InFlight
                                     /\ Past(n, today)
                                     /\ score[n] # Null}
Under == {n \in Stock : KeyOf(n) \in InFlight}
Less(a, b) == IF a > b THEN a - b ELSE 0
\* mutant: the notes already on their way out are not taken off
Room_m(cap) == Less(Cardinality(Stock), cap)
Room(cap) == Less(Less(Cardinality(Stock), cap), Cardinality(Under))

Before(m, n) == \/ score[m] < score[n]
                \/ score[m] = score[n] /\ born[m] < born[n]

Selections(cap, quota, today) ==
  LET able == Deletable(today) IN
  {C \in SUBSET able : /\ Cardinality(C) = Min({Room(cap), quota, Cardinality(able)})
                       /\ \A c \in C, m \in able \ C : ~Before(m, c)}

(***************************************************************************)
(* A runner.  Its first step reads what decides whether it may make a      *)
(* round at all; the second reconciles and plans; the third commits the    *)
(* audit row; the fourth the jobs.                                         *)
(***************************************************************************)
Admit(r, quota) ==
  /\ runner[r].at = "idle"
  /\ runner' = [runner EXCEPT ![r] = [Idle EXCEPT !.at = "admitted", !.day = date,
                                                  !.cap = account.cap, !.quota = quota]]
  /\ crossed' = (crossed \/ \E o \in Runners \ {r} : runner[o].at # "idle")

Ran(dry) == [day |-> date, dry |-> dry] \in rounds
AskedToday == Cardinality({i \in DOMAIN deletions : IsRow(deletions[i]) /\ deletions[i].day = date})

\* mutant: the scheduler does not look for the rounds already made
Scan_m ==
  /\ account.managed
  /\ snapped
  /\ Admit("scan", DailyMax)
  /\ UNCHANGED <<ledger, account, clock, rounds, deletions, changes, deaths>>

\* RetentionScheduler.scan_once: one round a day, dry ones count, and only
\* with the metrics of the day.
Scan ==
  /\ account.managed
  /\ ~Ran(TRUE) /\ ~Ran(FALSE)
  /\ snapped
  /\ Admit("scan", DailyMax)
  /\ UNCHANGED <<ledger, account, clock, rounds, deletions, changes, deaths>>

\* POST /api/retention-runs with dry_run false: the three gates.
HandRun ==
  /\ changes < MaxChanges
  /\ account.managed
  /\ account.enabled
  /\ ~Ran(FALSE)
  /\ AskedToday < DailyMax
  /\ Admit("hand", DailyMax - AskedToday)
  /\ changes' = changes + 1
  /\ UNCHANGED <<ledger, account, clock, rounds, deletions, deaths>>

Reconciles == state' = [n \in Notes |-> IF n \in Marked THEN "gone" ELSE state[n]]

\* The same POST with dry_run true: it reconciles and leaves no other trace.
Preview ==
  /\ changes < MaxChanges
  /\ account.managed
  /\ Marked # {}
  /\ Reconciles
  /\ changes' = changes + 1
  /\ UNCHANGED <<linked, shielded, born, score, account, clock, rounds, deletions, runner, deaths,
                 crossed>>

Plan(r) ==
  /\ runner[r].at = "admitted"
  /\ Reconciles
  /\ \E C \in Selections(runner[r].cap, runner[r].quota, runner[r].day) :
       runner' = [runner EXCEPT ![r].at = "planned",
                                ![r].chosen = {[note |-> n, key |-> KeyOf(n)] : n \in C}]
  /\ UNCHANGED <<linked, shielded, born, score, account, clock, rounds, deletions, changes, deaths,
                 crossed>>

IsDry(r) == r = "scan" /\ ~account.enabled
JobOf(e, r) == [note |-> e.note, key |-> e.key, by |-> r, round |-> runner[r].day,
                   day |-> 0, status |-> "promised"]
Promises(r) == IF IsDry(r) THEN <<>>
                  ELSE LET es == SetToSeq(runner[r].chosen)
                       IN [i \in DOMAIN es |-> JobOf(es[i], r)]

Audit(r) ==
  /\ runner[r].at = "planned"
  /\ rounds' = rounds \cup {[day |-> runner[r].day, dry |-> IsDry(r)]}
  /\ deletions' = deletions \o Promises(r)
  /\ runner' = [runner EXCEPT ![r] = IF Promises(r) = <<>> THEN Idle
                                     ELSE [@ EXCEPT !.at = "audited"]]
  /\ UNCHANGED <<ledger, account, clock, changes, deaths, crossed>>

\* The round's jobs become rows.
IsHers(job, r) == job.status = "promised" /\ job.by = r /\ job.round = runner[r].day

Enqueue(r) ==
  /\ runner[r].at = "audited"
  /\ deletions' = [i \in DOMAIN deletions |-> IF IsHers(deletions[i], r)
                                    THEN [deletions[i] EXCEPT !.status = "queued", !.day = date]
                                    ELSE deletions[i]]
  /\ runner' = [runner EXCEPT ![r] = Idle]
  /\ UNCHANGED <<ledger, account, clock, rounds, changes, deaths, crossed>>

\* The process that makes the rounds dies; it may come back with the kill
\* switch the other way.
Die ==
  /\ deaths < MaxDeaths
  /\ \E on \in BOOLEAN : account' = [account EXCEPT !.enabled = on]
  /\ runner' = [r \in Runners |-> Idle]
  /\ deaths' = deaths + 1
  /\ UNCHANGED <<ledger, clock, rounds, deletions, changes, crossed>>

(***************************************************************************)
(* The jobs.  A job runs in a child of its own.  Its cookies, its browser  *)
(* or its process may fail it; otherwise it reaches _delete_sync, whose    *)
(* call of the page's procedure reads a name that is not defined there,    *)
(* and execute turns the exception into an error.                          *)
(***************************************************************************)
EndsInError(i) ==
  /\ IsUnfinished(deletions[i])
  /\ deletions' = [deletions EXCEPT ![i].status = "error"]
  /\ UNCHANGED <<ledger, account, clock, rounds, runner, changes, deaths, crossed>>

Fails(i) == Troubles /\ EndsInError(i)
DeleteSync(i) == EndsInError(i)

(***************************************************************************)
(* What goes on around the rounds: notes are published and enter the       *)
(* ledger, its synchronisation gives them their ids, the metrics are       *)
(* fetched, operators set the ceiling and the shields and delete notes.    *)
(***************************************************************************)
Changes == changes < MaxChanges /\ changes' = changes + 1

Publishes(n) ==
  /\ Changes
  /\ state[n] = "absent"
  /\ state' = [state EXCEPT ![n] = "kept"]
  /\ born' = [born EXCEPT ![n] = date]
  /\ linked' \in {linked, linked \cup {n}}
  /\ UNCHANGED <<shielded, score, account, clock, rounds, deletions, runner, deaths, crossed>>

Link(n) ==
  /\ Changes
  /\ state[n] # "absent" /\ n \notin linked
  /\ linked' = linked \cup {n}
  /\ UNCHANGED <<state, shielded, born, score, account, clock, rounds, deletions, runner, deaths,
                 crossed>>

\* PUT .../notes/{note_id}/protected: only a row with an id can be named.
Protect(n) ==
  /\ Changes
  /\ n \in linked
  /\ shielded' = IF n \in shielded THEN shielded \ {n} ELSE shielded \cup {n}
  /\ UNCHANGED <<state, linked, born, score, account, clock, rounds, deletions, runner, deaths,
                 crossed>>

\* PUT /api/accounts/{id}/managed
Manage ==
  /\ Changes
  /\ \E on \in BOOLEAN, cap \in Ceilings :
       account' = [account EXCEPT !.managed = on, !.cap = cap]
  /\ UNCHANGED <<ledger, clock, rounds, deletions, runner, deaths, crossed>>

\* POST .../note-deletions: an operator deletes by title.
HandDelete(n) ==
  /\ Changes
  /\ state[n] = "kept"
  /\ deletions' = Append(deletions, [note |-> n, key |-> <<"title", TitleOf[n]>>, by |-> "operator",
                           round |-> 0, day |-> date, status |-> "queued"])
  /\ UNCHANGED <<ledger, account, clock, rounds, runner, deaths, crossed>>

\* The metrics of the day arrive.
Measure ==
  /\ ~snapped
  /\ snapped' = TRUE
  /\ \E n \in Kept, s \in Scores : score' = [score EXCEPT ![n] = s]
  /\ UNCHANGED <<state, linked, shielded, born, account, date, rounds, deletions, runner, changes,
                 deaths, crossed>>

NextDay ==
  /\ date < LastDate
  /\ date' = date + 1
  /\ snapped' = FALSE
  /\ UNCHANGED <<ledger, account, rounds, deletions, runner, changes, deaths, crossed>>

(***************************************************************************)
(* An account that has been managed for a while.  One of its notes may     *)
(* have been chosen by an earlier round, when a deletion could still       *)
(* succeed.                                                                *)
(***************************************************************************)
Earlier(n, st) ==
  <<[note |-> n, key |-> KeyOf(n), by |-> "scan", round |-> 0, day |-> 0,
     status |-> st]>>

Pasts == {<<>>} \cup {Earlier(n, st) : n \in Kept, st \in {"queued", "done"}}

RetentionInit ==
  /\ state \in [Notes -> {"absent", "kept"}]
  /\ linked \in SUBSET Kept
  /\ shielded \in SUBSET linked
  /\ born = [n \in Notes |-> 0]
  /\ score \in [Notes -> Scores \cup {Null}]
  /\ account \in [managed : {TRUE}, cap : Ceilings, enabled : BOOLEAN]
  /\ date = 1 /\ snapped = FALSE
  /\ rounds = {}
  /\ deletions \in Pasts
  /\ runner = [r \in Runners |-> Idle]
  /\ changes = 0 /\ deaths = 0
  /\ crossed = FALSE

Round(r) == Plan(r) \/ Audit(r) \/ Enqueue(r)
Job(i) == Fails(i) \/ DeleteSync(i)
Others(n) == Publishes(n) \/ Link(n) \/ Protect(n) \/ HandDelete(n)

RetentionNext ==
  \/ Scan \/ HandRun \/ Preview
  \/ \E r \in Runners : Round(r)
  \/ \E i \in DOMAIN deletions : Job(i)
  \/ \E n \in Notes : Others(n)
  \/ Manage \/ Measure \/ NextDay \/ Die

RetentionSpec == RetentionInit /\ [][RetentionNext]_retentionVars

(***************************************************************************)
(* Properties.                                                             *)
(***************************************************************************)
Keys == ({"id"} \X Notes) \cup ({"title"} \X {TitleOf[n] : n \in Notes})
Deletions == [note : Notes, key : Keys, by : Runners \cup {"operator"}, round : Nat, day : Nat,
              status : {"promised", "queued", "done", "error"}]
Rounding == [at : {"idle", "admitted", "planned", "audited"}, day : 0 .. LastDate, cap : Nat,
             quota : 0 .. DailyMax, chosen : SUBSET [note : Notes, key : Keys]]
RetentionTypeOK ==
  /\ state \in [Notes -> {"absent", "kept", "gone"}]
  /\ linked \subseteq Notes /\ shielded \subseteq linked
  /\ born \in [Notes -> Nat] /\ score \in [Notes -> Scores \cup {Null}]
  /\ account \in [managed : BOOLEAN, cap : Ceilings, enabled : BOOLEAN]
  /\ date \in 1 .. LastDate /\ snapped \in BOOLEAN
  /\ rounds \subseteq [day : Nat, dry : BOOLEAN]
  /\ deletions \in Seq(Deletions) /\ runner \in [Runners -> Rounding]
  /\ changes \in 0 .. MaxChanges /\ deaths \in 0 .. MaxDeaths /\ crossed \in BOOLEAN

\* However the scheduler, an operator's runs and deaths of the process follow
\* one another, the rounds of one day queue no more than the daily maximum --
\* unless two of them were under way at once, which nothing prevents
\* (scan_once, _real_run_quota, execute_retention).
RoundsOf(d) == {i \in DOMAIN deletions : deletions[i].by \in Runners /\ deletions[i].round = d}
DailyMaxKept ==
  crossed \/ \A d \in 1 .. LastDate : Cardinality(RoundsOf(d)) <= DailyMax

\* A note whose deletion has succeeded is never chosen again: its row is marked
\* before the next plan is made, whatever the note has been linked to since
\* (reconcile_deletions, plan_account_retention).
NoGhosts ==
  \A i, j \in DOMAIN deletions :
    i < j /\ deletions[i].status = "done" /\ deletions[j].by \in Runners => deletions[i].note # deletions[j].note

\* What the rounds of an account promise together, in every state: the daily
\* maximum and no second choice of a deleted note (scan_once, execute_retention,
\* reconcile_deletions).
RetentionHolds == DailyMaxKept /\ NoGhosts

\* A plan that chooses anything leaves its ceiling: the notes that remain once
\* every deletion that a round has queued and every note of this plan are gone
\* are at least as many as the ceiling the round was admitted with -- as long as
\* the keys the rounds recorded are still the keys of their notes.  What the
\* other runner has planned or promised and not yet queued is no row, and the
\* code does not count it either: two rounds that cross may together go below
\* the ceiling (build_plan, reconcile_deletions).
Pending == {deletions[i].note : i \in {j \in DOMAIN deletions : deletions[j].by \in Runners
                                                        /\ IsUnfinished(deletions[j])}}
KeysStand == \A i \in DOMAIN deletions : deletions[i].key = KeyOf(deletions[i].note)
Chosen(r) == {c.note : c \in runner'[r].chosen}
StaysFull(r) ==
  runner[r].at = "admitted" /\ runner'[r].at = "planned" /\ KeysStand =>
    Chosen(r) = {} \/ Cardinality(Kept' \ (Pending \cup Chosen(r))) >= runner[r].cap
NeverBelowCeiling == [][\A r \in Runners : StaysFull(r)]_retentionVars

\* Where no cookies, browser or child fails, no deletion ends in error
\* (note_delete.execute: "returns deleted and remaining on success").
DeletionsSucceed == Troubles \/ \A i \in DOMAIN deletions : deletions[i].status # "error"
=============================================================================
