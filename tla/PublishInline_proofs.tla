------------------------ MODULE PublishInline_proofs ------------------------
(***************************************************************************)
(* Proofs about PublishInline, for any jobs, accounts, workers and bounds. *)
(*                                                                         *)
(* A worker that has its account's lock is alone with the account, and     *)
(* while it executes a job nothing but an operator's cancel takes the row  *)
(* away: recover_stale spares it, PATCH and a claim need a pending row.    *)
(* From there follow one session per account, the text that is published   *)
(* and that a second note needs a lost outcome.                            *)
(***************************************************************************)
EXTENDS PublishInline, FiniteSetTheorems, TLAPS

(***************************************************************************)
(* Row updates: what each write to the publish_jobs table does to the        *)
(* columns the invariants read.                                            *)
(***************************************************************************)

(* MaxAge is a number that the cooldown can reach. *)
LEMMA AgeRange == MaxAge \in Nat /\ MinInterval <= MaxAge /\ JobTimeout <= MaxAge
BY PublishAssumption, SMT DEF MaxAge

LEMMA RowFields ==
  ASSUME NEW r \in Rows
  PROVE  /\ r.status \in Statuses /\ r.age \in 0..MaxAge \cup {Null} /\ r.today \in BOOLEAN
         /\ r.made \in BOOLEAN /\ r.wait \in Nat /\ r.sched \in Schedule
         /\ r.retries \in 0..MaxRetries /\ r.text \in 0..MaxPatches
BY Zenon DEF Rows

(* Giving a job back or giving it up: status is set, started_at cleared. *)
LEMMA UnstartRow ==
  ASSUME NEW r \in Rows, NEW s \in Statuses
  PROVE  /\ Unstart(r, s) \in Rows
         /\ Unstart(r, s).status = s /\ Unstart(r, s).age = Null
         /\ Unstart(r, s).retries = r.retries /\ Unstart(r, s).text = r.text
BY DEF Unstart, Rows

(* Writing next_retry_at. *)
LEMMA PutOffRow ==
  ASSUME NEW r \in Rows, NEW d \in Nat
  PROVE  /\ PutOff(r, d) \in Rows
         /\ PutOff(r, d).status = r.status /\ PutOff(r, d).age = r.age
         /\ PutOff(r, d).today = r.today /\ PutOff(r, d).retries = r.retries
         /\ PutOff(r, d).text = r.text
BY DEF PutOff, Rows

LEMMA ClaimedRow ==
  ASSUME NEW r \in Rows
  PROVE  /\ Claimed(r) \in Rows
         /\ Claimed(r).status = "publishing" /\ Claimed(r).age = 0
         /\ Claimed(r).retries = r.retries /\ Claimed(r).text = r.text
<1>1. 0 \in 0..MaxAge \cup {Null} /\ "publishing" \in Statuses
  BY AgeRange DEF Statuses
<1> QED BY <1>1 DEF Claimed, Rows

LEMMA CreatedRow ==
  ASSUME NEW r \in Rows, NEW w \in Schedule
  PROVE  /\ Created(r, w) \in Rows
         /\ Created(r, w).status = "pending" /\ Created(r, w).retries = r.retries
         /\ Created(r, w).text = r.text
BY DEF Created, Rows, Statuses

LEMMA PatchedRow ==
  ASSUME NEW r \in Rows, NEW w \in Schedule, r.text < MaxPatches
  PROVE  /\ Patched(r, w) \in Rows
         /\ Patched(r, w).status = r.status /\ Patched(r, w).age = r.age
         /\ Patched(r, w).today = r.today /\ Patched(r, w).retries = r.retries
<1>1. r.text + 1 \in 0..MaxPatches
  BY PublishAssumption DEF Rows
<1> QED BY <1>1 DEF Patched, Rows

LEMMA CanceledRow ==
  ASSUME NEW r \in Rows
  PROVE  /\ Canceled(r) \in Rows
         /\ Canceled(r).status = "canceled" /\ Canceled(r).retries = r.retries
         /\ Canceled(r).text = r.text
BY DEF Canceled, Rows, Statuses

(* Time passing. *)
LEMMA OlderRow ==
  ASSUME NEW r \in Rows
  PROVE  /\ Older(r) \in Rows
         /\ Older(r).status = r.status /\ Older(r).retries = r.retries
         /\ Older(r).today = r.today /\ Older(r).text = r.text
         /\ r.age = Null => Older(r).age = Null
         /\ r.age # Null => Older(r).age \in Nat /\ Older(r).age >= r.age
<1> DEFINE age == IF r.age = Null \/ r.age = MaxAge THEN r.age ELSE r.age + 1
           wait == IF r.wait = 0 THEN 0 ELSE r.wait - 1
           sched == IF r.sched = Tomorrow THEN r.sched ELSE 0
<1>1. /\ age \in 0..MaxAge \cup {Null}
      /\ r.age = Null => age = Null
      /\ r.age # Null => age \in Nat /\ age >= r.age
  BY RowFields, AgeRange, PublishAssumption, SMT
<1>2. wait \in Nat /\ sched \in Schedule
  BY RowFields, SMT DEF Schedule
<1>3. Older(r) = [r EXCEPT !.age = age, !.wait = wait, !.sched = sched]
  BY DEF Older
<1> HIDE DEF age, wait, sched
<1> QED BY <1>1, <1>2, <1>3 DEF Rows

(* A day ending. *)
LEMMA NextDayRow ==
  ASSUME NEW r \in Rows
  PROVE  /\ NextDay(r) \in Rows
         /\ NextDay(r).status = r.status /\ NextDay(r).retries = r.retries
         /\ NextDay(r).age = r.age /\ NextDay(r).today = FALSE
         /\ NextDay(r).text = r.text
<1>1. (IF r.sched = Tomorrow THEN 1 ELSE 0) \in Schedule
  BY DEF Schedule
<1> QED BY <1>1 DEF NextDay, Rows

(* Giving a job back with a delay. *)
LEMMA RequeuedRow ==
  ASSUME NEW r \in Rows, NEW d \in Nat
  PROVE  /\ Requeued(r, d) \in Rows
         /\ Requeued(r, d).status = "pending" /\ Requeued(r, d).age = Null
         /\ Requeued(r, d).retries = r.retries /\ Requeued(r, d).text = r.text
BY UnstartRow, PutOffRow DEF Requeued, Statuses

(* Recording an execution. *)
LEMMA SettledRow ==
  ASSUME NEW r \in Rows, NEW v \in {"ok", "fail", "dead"}, NEW w \in Nat
  PROVE  /\ Settled(r, v, r.retries, w) \in Rows
         /\ v = "ok" => /\ Settled(r, v, r.retries, w).status = "published"
                        /\ Settled(r, v, r.retries, w).retries = r.retries
                        /\ Settled(r, v, r.retries, w).age = r.age
                        /\ Settled(r, v, r.retries, w).today = r.today
         /\ v # "ok" => /\ \/ /\ Settled(r, v, r.retries, w).status = "pending"
                              /\ Settled(r, v, r.retries, w).retries = r.retries + 1
                           \/ /\ Settled(r, v, r.retries, w).status = "failed"
                              /\ Settled(r, v, r.retries, w).retries = r.retries
                        /\ Settled(r, v, r.retries, w).age = Null
<1>1. CASE v = "ok"
  BY <1>1 DEF Settled, Rows, Statuses
<1>2. CASE v = "fail" /\ r.retries < MaxRetries
  <2> DEFINE u == Requeued(r, w)
             again == r.retries + 1
  <2>1. u \in Rows /\ u.status = "pending" /\ u.age = Null /\ u.retries = r.retries
    BY RequeuedRow
  <2>2. again \in 0..MaxRetries
    BY <1>2, RowFields, PublishAssumption, SMT
  <2>3. Settled(r, v, r.retries, w) = [u EXCEPT !.retries = again]
    BY <1>2, <2>1 DEF Settled
  <2> HIDE DEF u
  <2>4. again = r.retries + 1
    OBVIOUS
  <2> HIDE DEF again
  <2>5. [u EXCEPT !.retries = again] \in Rows /\ [u EXCEPT !.retries = again].status = "pending"
        /\ [u EXCEPT !.retries = again].age = Null /\ [u EXCEPT !.retries = again].retries = again
    BY <2>1, <2>2 DEF Rows
  <2> QED BY <1>2, <2>3, <2>4, <2>5
<1>3. CASE v # "ok" /\ ~(v = "fail" /\ r.retries < MaxRetries)
  <2>1. Settled(r, v, r.retries, w) = Unstart(r, "failed")
    BY <1>3, Zenon DEF Settled
  <2> QED BY <1>3, <2>1, UnstartRow DEF Statuses
<1> QED BY <1>1, <1>2, <1>3, Zenon

(* One row is rewritten. *)
LEMMA OneRow ==
  ASSUME NEW f \in [Jobs -> Rows], NEW g, NEW c \in Jobs, NEW r \in Rows,
         g = [f EXCEPT ![c] = r]
  PROVE  g \in [Jobs -> Rows] /\ g[c] = r /\ \A k \in Jobs \ {c} : g[k] = f[k]
BY Zenon

Verdicts == {"ok", "fail", "dead"}

(* The row of a job that is being executed. *)
Held(j) == rows[j].status = "publishing" \/ (j \in Editable /\ rows[j].status = "canceled")

(* j's note is up and the worker that executes j may still say so. *)
Open(j) == rows[j].status \in {"none", "pending", "publishing"}
Noted(j) == \E w \in Workers :
  /\ cur[w] = j /\ pc[w] \in {"posted", "finish", "write"}
  /\ pc[w] # "posted" => verdict[w] = "ok"

(* What a worker at work knows of its job.                                   *)
WorkerOK(w) ==
  /\ pc[w] # "idle" => cur[w] \in Jobs
  /\ pc[w] \in AtWork => Held(cur[w])
  /\ pc[w] = "run" => text[w] = rows[cur[w]].text /\ posts[cur[w]] <= lost[cur[w]]
  /\ pc[w] \in {"finish", "write"} =>
       verdict[w] \in Verdicts /\ (verdict[w] # "ok" => posts[cur[w]] <= lost[cur[w]])
  /\ rescue[w] => pc[w] \in {"finish", "write"} /\ verdict[w] = "fail"

(* The account lock. *)
LockOK ==
  \A v, w \in Workers :
    v # w /\ pc[v] \in Locked /\ pc[w] \in Locked => Account[cur[v]] # Account[cur[w]]

(* A second note needs a lost outcome; a job that may run again owes nothing. *)
JobOK(j) ==
  /\ posts[j] <= 1 + lost[j]
  /\ Open(j) /\ ~Noted(j) => posts[j] <= lost[j]

IInv ==
  /\ TypeOK /\ cancels \subseteq Editable
  /\ \A w \in Workers : WorkerOK(w)
  /\ LockOK
  /\ \A j \in Jobs : JobOK(j)

(* The invariant holds at the start. *)
LEMMA InitIInv == Init => IInv
  <1> SUFFICES ASSUME Init PROVE IInv
    OBVIOUS
  <1> USE PublishAssumption, InlineAssumption DEF Init, RowsInit, Idle
  <1>1. TypeOK
    <2>1. rows \in [Jobs -> Rows]
      BY AgeRange DEF Rows, Statuses, Schedule
    <2>2. RowsOK
      BY <2>1, Zenon DEF RowsOK
    <2>3. queue \in Seq(Jobs) /\ Len(queue) <= MaxQueue
      OBVIOUS
    <2> QED BY <2>2, <2>3 DEF TypeOK, Phases
  <1>2. \A w \in Workers : WorkerOK(w)
    BY DEF WorkerOK, AtWork
  <1>3. LockOK /\ cancels \subseteq Editable
    BY DEF LockOK, Locked, AtWork
  <1>4. \A j \in Jobs : JobOK(j)
    BY DEF JobOK
  <1> HIDE DEF Init
  <1> QED BY <1>1, <1>2, <1>3, <1>4, Zenon DEF IInv

(***************************************************************************)
(* Everything but the workers                                              *)
(***************************************************************************)

(* What a step of the poll loop, of the REST handlers or of time may do to    *)
(* row j: a job in flight keeps its status unless an operator cancels it, and *)
(* only a pending row gets another text.                                     *)
RowDrift(j) ==
  /\ rows'[j] \in Rows
  /\ \/ rows'[j].status = rows[j].status
     \/ rows[j].status = "none" /\ rows'[j].status = "pending"
     \/ j \in Editable /\ rows'[j].status = "canceled"
     \/ rows[j].status = "publishing" /\ rows'[j].status = "pending" /\ j \notin InFlight
  /\ rows'[j].text = rows[j].text \/ rows[j].status = "pending"

Drift ==
  /\ rows' \in [Jobs -> Rows] /\ \A j \in Jobs : RowDrift(j)
  /\ cancels' \subseteq Editable
  /\ UNCHANGED <<workerVars, posts, attempts, lost, troubles>>

(* One row rewritten, the others left alone. *)
LEMMA OneDrifts ==
  ASSUME TypeOK, NEW c \in Jobs, NEW r \in Rows, rows' = [rows EXCEPT ![c] = r], RowDrift(c)
  PROVE  rows' \in [Jobs -> Rows] /\ \A j \in Jobs : RowDrift(j)
  <1>1. rows' \in [Jobs -> Rows] /\ \A k \in Jobs \ {c} : rows'[k] = rows[k] /\ rows[k] \in Rows
    BY OneRow DEF TypeOK, RowsOK
  <1> QED BY <1>1 DEF RowDrift

(* The REST handlers. *)
LEMMA RestDrifts ==
  ASSUME TypeOK, cancels \subseteq Editable, Rest
  PROVE  Drift
  <1>0. \A j \in Jobs : rows[j] \in Rows
    BY DEF TypeOK, RowsOK
  <1>1. UNCHANGED <<workerVars, troubles>>
    BY DEF Rest
  <1>2. PICK j \in Jobs :
          \/ \E when \in Schedule : Create(j, when) \/ Patch(j, when)
          \/ CancelRead(j) \/ CancelWrite(j)
    BY DEF Rest
  <1>3. ASSUME NEW when \in Schedule, Create(j, when) PROVE Drift
    <2> DEFINE eff == EffectiveSchedule(Account[j], when)
    <2>1. eff \in Schedule
      BY SMT DEF EffectiveSchedule, Schedule, Tomorrow
    <2> HIDE DEF eff
    <2>2. rows' = [rows EXCEPT ![j] = Created(rows[j], eff)] /\ rows[j].status = "none"
          /\ UNCHANGED <<cancels, posts, attempts, lost>>
      BY <1>3 DEF Create, eff
    <2>3. Created(rows[j], eff) \in Rows /\ Created(rows[j], eff).status = "pending"
          /\ Created(rows[j], eff).text = rows[j].text
      BY <1>0, <2>1, CreatedRow
    <2>4. rows'[j] = Created(rows[j], eff)
      BY <2>2, <2>3, OneRow DEF TypeOK, RowsOK
    <2>5. RowDrift(j)
      BY <2>2, <2>3, <2>4 DEF RowDrift
    <2> QED BY <1>1, <2>2, <2>3, <2>5, OneDrifts DEF Drift
  <1>4. ASSUME NEW when \in Schedule, Patch(j, when) PROVE Drift
    <2>1. rows' = [rows EXCEPT ![j] = Patched(rows[j], when)] /\ rows[j].text < MaxPatches
          /\ rows[j].status = "pending" /\ UNCHANGED <<cancels, posts, attempts, lost>>
      BY <1>4 DEF Patch
    <2>2. Patched(rows[j], when) \in Rows /\ Patched(rows[j], when).status = rows[j].status
      BY <1>0, <2>1, PatchedRow
    <2>3. rows'[j] = Patched(rows[j], when)
      BY <2>1, <2>2, OneRow DEF TypeOK, RowsOK
    <2>4. RowDrift(j)
      BY <2>1, <2>2, <2>3 DEF RowDrift
    <2> QED BY <1>1, <2>1, <2>2, <2>4, OneDrifts DEF Drift
  <1>5. CASE CancelRead(j)
    <2>1. rows' = rows /\ cancels' \subseteq Editable /\ UNCHANGED <<posts, attempts, lost>>
      BY <1>5 DEF CancelRead
    <2>2. \A k \in Jobs : RowDrift(k)
      BY <1>0, <2>1 DEF RowDrift
    <2> QED BY <1>1, <2>1, <2>2 DEF Drift, TypeOK, RowsOK
  <1>6. CASE CancelWrite(j)
    <2>1. rows' = [rows EXCEPT ![j] = Canceled(rows[j])] /\ j \in Editable
          /\ cancels' \subseteq Editable /\ UNCHANGED <<posts, attempts, lost>>
      BY <1>6 DEF CancelWrite
    <2>2. Canceled(rows[j]) \in Rows /\ Canceled(rows[j]).status = "canceled"
          /\ Canceled(rows[j]).text = rows[j].text
      BY <1>0, CanceledRow
    <2>3. rows'[j] = Canceled(rows[j])
      BY <2>1, <2>2, OneRow DEF TypeOK, RowsOK
    <2>4. RowDrift(j)
      BY <2>1, <2>2, <2>3 DEF RowDrift
    <2> QED BY <1>1, <2>1, <2>2, <2>4, OneDrifts DEF Drift
  <1> QED BY <1>2, <1>3, <1>4, <1>5, <1>6

(* Time and recovery. *)
LEMMA TimeDrifts ==
  ASSUME TypeOK, cancels \subseteq Editable, Time \/ Recover
  PROVE  Drift /\ queue' = queue
  <1>0. \A j \in Jobs : rows[j] \in Rows
    BY DEF TypeOK, RowsOK
  <1>1. UNCHANGED <<queue, workerVars, cancels, posts, attempts, lost, troubles>>
    BY DEF Time, Tick, Midnight, Recover
  <1>2. ASSUME rows' \in [Jobs -> Rows], \A j \in Jobs : RowDrift(j)
        PROVE  Drift /\ queue' = queue
    BY <1>1, <1>2 DEF Drift
  <1>3. ASSUME NEW j \in Jobs, rows'[j] = rows[j] PROVE RowDrift(j)
    BY <1>0, <1>3 DEF RowDrift
  <1>4. CASE Tick
    <2>1. rows' = [j \in Jobs |-> Older(rows[j])]
      BY <1>4 DEF Tick
    <2>2. \A j \in Jobs : Older(rows[j]) \in Rows /\ Older(rows[j]).status = rows[j].status
                          /\ Older(rows[j]).text = rows[j].text
      BY <1>0, OlderRow
    <2> QED BY <1>2, <2>1, <2>2 DEF RowDrift
  <1>5. CASE Midnight
    <2>1. rows' = [j \in Jobs |-> NextDay(rows[j])]
      BY <1>5 DEF Midnight
    <2>2. \A j \in Jobs : NextDay(rows[j]) \in Rows /\ NextDay(rows[j]).status = rows[j].status
                          /\ NextDay(rows[j]).text = rows[j].text
      BY <1>0, NextDayRow
    <2> QED BY <1>2, <2>1, <2>2 DEF RowDrift
  <1>6. CASE Recover
    <2>1. rows' = [j \in Jobs |-> IF Stalled(j) /\ j \notin InFlight
                                  THEN Unstart(rows[j], "pending") ELSE rows[j]]
      BY <1>6 DEF Recover, RecoverRows
    <2>2. \A j \in Jobs : /\ Unstart(rows[j], "pending") \in Rows
                          /\ Unstart(rows[j], "pending").status = "pending"
                          /\ Unstart(rows[j], "pending").text = rows[j].text
      BY <1>0, UnstartRow DEF Statuses
    <2>3. ASSUME NEW j \in Jobs PROVE RowDrift(j)
      <3>1. CASE Stalled(j) /\ j \notin InFlight
        BY <2>1, <2>2, <3>1 DEF RowDrift, Stalled
      <3>2. CASE ~(Stalled(j) /\ j \notin InFlight)
        BY <1>3, <2>1, <3>2
      <3> QED BY <3>1, <3>2
    <2>4. rows' \in [Jobs -> Rows]
      BY <1>0, <2>1, <2>2
    <2> QED BY <1>2, <2>3, <2>4
  <1> QED BY <1>4, <1>5, <1>6 DEF Time

(* What drifts keeps the invariant, whatever it does to the queue. *)
LEMMA DriftKeeps ==
  ASSUME IInv, Drift, queue' \in Seq(Jobs), Len(queue') <= MaxQueue
  PROVE  IInv'
  <1>0. /\ UNCHANGED <<pc, cur, text, verdict, rescue, posts, attempts, lost, troubles>>
        /\ \A j \in Jobs : RowDrift(j)
        /\ rows' \in [Jobs -> Rows] /\ cancels' \subseteq Editable
    BY DEF Drift, workerVars
  <1>1. TypeOK'
    <2>1. RowsOK'
      BY <1>0, PublishAssumption DEF IInv, TypeOK, RowsOK
    <2> QED BY <1>0, <2>1 DEF IInv, TypeOK
  <1>2. ASSUME NEW w \in Workers PROVE WorkerOK(w)'
    <2>1. WorkerOK(w) /\ (pc[w] \in AtWork => cur[w] \in InFlight /\ cur[w] \in Jobs)
      BY DEF IInv, InFlight, WorkerOK, AtWork
    <2>2. pc[w] \in AtWork => Held(cur[w])' /\ rows'[cur[w]].text = rows[cur[w]].text
      BY <1>0, <2>1 DEF WorkerOK, Held, RowDrift
    <2> QED BY <1>0, <2>1, <2>2 DEF WorkerOK, AtWork
  <1>3. LockOK'
    BY <1>0 DEF IInv, LockOK
  <1>4. ASSUME NEW j \in Jobs PROVE JobOK(j)'
    <2>1. JobOK(j) /\ RowDrift(j)
      BY <1>0 DEF IInv
    <2>2. Open(j)' => Open(j)
      BY <2>1 DEF Open, RowDrift
    <2>3. Noted(j)' <=> Noted(j)
      BY <1>0 DEF Noted
    <2> QED BY <1>0, <2>1, <2>2, <2>3, Zenon DEF JobOK
  <1> QED BY <1>0, <1>1, <1>2, <1>3, <1>4 DEF IInv

(* The poll loop's submissions. *)
LEMMA AscendingIsSeq ==
  ASSUME NEW S \in SUBSET Jobs, NEW ids \in Ascending(S)
  PROVE  ids \in Seq(Jobs)
  <1>1. Cardinality(S) \in Nat
    BY FS_Subset, FS_CardinalityType, PublishAssumption
  <1>2. ids \in [1..Cardinality(S) -> Jobs]
    BY DEF Ascending
  <1> QED BY <1>1, <1>2

LEMMA ScanKeeps ==
  ASSUME IInv, Scan
  PROVE  IInv'
  <1>1. PICK found \in Ascending({j \in Jobs : Due(j)}) :
          Len(queue) + Len(found) <= MaxQueue /\ queue' = queue \o found
    BY DEF Scan
  <1>2. UNCHANGED <<rowVars, workerVars, troubles>>
    BY DEF Scan
  <1>3. found \in Seq(Jobs) /\ queue \in Seq(Jobs)
    BY AscendingIsSeq DEF IInv, TypeOK
  <1>4. queue' \in Seq(Jobs) /\ Len(queue') <= MaxQueue
    BY <1>1, <1>3
  <1>5. Drift
    BY <1>2 DEF Drift, RowDrift, rowVars, IInv, TypeOK, RowsOK
  <1> QED BY <1>4, <1>5, DriftKeeps

LEMMA RestKeeps ==
  ASSUME IInv, Rest
  PROVE  IInv'
  <1>1. queue \in Seq(Jobs) /\ Len(queue) <= MaxQueue
    BY DEF IInv, TypeOK
  <1>2. PICK j \in Jobs : Nudged(j) \/ queue' = queue
    BY DEF Rest
  <1>3. queue' = queue \/ (queue' = Append(queue, j) /\ Len(queue) < MaxQueue)
    BY <1>2 DEF Nudged
  <1>4. queue' \in Seq(Jobs) /\ Len(queue') <= MaxQueue
    BY <1>1, <1>3, InlineAssumption
  <1> QED BY <1>4, RestDrifts, DriftKeeps DEF IInv

LEMMA TimeKeeps ==
  ASSUME IInv, Time \/ Recover
  PROVE  IInv'
  <1>1. Drift /\ queue' = queue /\ queue \in Seq(Jobs) /\ Len(queue) <= MaxQueue
    BY TimeDrifts DEF IInv, TypeOK
  <1> QED BY <1>1, DriftKeeps

(***************************************************************************)
(* The workers                                                             *)
(***************************************************************************)

(* A step of a worker that has the lock concerns its job and nobody else's.   *)
LEMMA OthersKept ==
  ASSUME IInv, NEW w \in Workers, pc[w] \in Locked,
         \A k \in Jobs \ {cur[w]} : /\ rows'[k] = rows[k] /\ posts'[k] = posts[k]
                                    /\ lost'[k] = lost[k],
         \A v \in Workers \ {w} : /\ pc'[v] = pc[v] /\ cur'[v] = cur[v] /\ text'[v] = text[v]
                                  /\ verdict'[v] = verdict[v] /\ rescue'[v] = rescue[v],
         \/ cur'[w] = cur[w] /\ pc'[w] \in Locked
         \/ cur'[w] = Null /\ pc'[w] = "idle"
  PROVE  /\ cur[w] \in Jobs /\ WorkerOK(w) /\ JobOK(cur[w])
         /\ \A v \in Workers \ {w} : WorkerOK(v)'
         /\ LockOK'
         /\ \A j \in Jobs \ {cur[w]} : JobOK(j)'
         /\ \A v \in Workers \ {w} : pc[v] \in AtWork => cur[v] # cur[w]
  <1>1. cur[w] \in Jobs /\ WorkerOK(w) /\ JobOK(cur[w]) /\ Null \notin Jobs
    BY PublishAssumption DEF IInv, WorkerOK, Locked, AtWork
  <1>2. \A v \in Workers \ {w} : pc[v] \in Locked => cur[v] # cur[w]
    BY DEF IInv, LockOK
  <1>3. ASSUME NEW v \in Workers \ {w} PROVE WorkerOK(v)'
    <2>1. WorkerOK(v)
      BY DEF IInv
    <2>2. CASE pc[v] \in AtWork
      <3>1. cur[v] \in Jobs \ {cur[w]}
        BY <1>2, <2>1, <2>2 DEF WorkerOK, AtWork, Locked
      <3> QED BY <2>1, <2>2, <3>1 DEF WorkerOK, Held
    <2>3. CASE pc[v] \notin AtWork
      BY <2>1, <2>3 DEF WorkerOK, AtWork
    <2> QED BY <2>2, <2>3
  <1>4. LockOK'
    <2>1. \A v \in Workers : pc'[v] \in Locked => pc[v] \in Locked /\ cur'[v] = cur[v]
      BY DEF Locked, AtWork
    <2> QED BY <2>1 DEF IInv, LockOK
  <1>5. ASSUME NEW j \in Jobs \ {cur[w]} PROVE JobOK(j)'
    <2>1. JobOK(j) /\ j # Null
      BY <1>1 DEF IInv
    <2>2. \A v \in Workers : /\ cur'[v] = j <=> cur[v] = j
                             /\ cur[v] = j => pc'[v] = pc[v] /\ verdict'[v] = verdict[v]
      BY <2>1
    <2>3. Noted(j)' <=> Noted(j)
      BY <2>2 DEF Noted
    <2>4. Open(j)' <=> Open(j)
      BY DEF Open
    <2> QED BY <2>1, <2>3, <2>4, Zenon DEF JobOK
  <1>6. \A v \in Workers \ {w} : pc[v] \in AtWork => cur[v] # cur[w]
    BY <1>2 DEF Locked
  <1> QED BY <1>1, <1>3, <1>4, <1>5, <1>6, Zenon

(* What is left to show of such a step. *)
LEMMA WorkKeeps ==
  ASSUME IInv, NEW w \in Workers, NEW c \in Jobs, TypeOK', cancels' = cancels,
         WorkerOK(w)', \A v \in Workers \ {w} : WorkerOK(v)', LockOK',
         JobOK(c)', \A j \in Jobs \ {c} : JobOK(j)'
  PROVE  IInv'
  <1>1. \A j \in Jobs : JobOK(j)'
    OBVIOUS
  <1>2. \A v \in Workers : WorkerOK(v)'
    OBVIOUS
  <1> QED BY <1>1, <1>2 DEF IInv

(* Taking an id from the queue. *)
LEMMA TakeKeeps ==
  ASSUME IInv, NEW w \in Workers, Take(w)
  PROVE  IInv'
  <1>1. Head(queue) \in Jobs /\ queue' \in Seq(Jobs) /\ Len(queue') <= MaxQueue
    BY InlineAssumption DEF IInv, TypeOK, Take
  <1>2. /\ UNCHANGED <<rows, cancels, posts, attempts, lost, text, verdict, rescue, troubles>>
        /\ pc[w] = "idle"
        /\ \/ pc' = [pc EXCEPT ![w] = "wait"] /\ cur' = [cur EXCEPT ![w] = Head(queue)]
           \/ pc' = pc /\ cur' = cur
    BY DEF Take, Goto, rowVars
  <1>3. TypeOK'
    BY <1>1, <1>2, Zenon DEF IInv, TypeOK, RowsOK, Phases
  <1>4. ASSUME NEW v \in Workers
        PROVE  /\ pc[v] # "idle" => pc'[v] = pc[v] /\ cur'[v] = cur[v]
               /\ pc[v] = "idle" => pc'[v] \in {"idle", "wait"} /\ (pc'[v] = "wait" => cur'[v] \in Jobs)
    BY <1>1, <1>2 DEF IInv, TypeOK
  <1>5. \A v \in Workers : WorkerOK(v)'
    BY <1>2, <1>4 DEF IInv, WorkerOK, AtWork, Held
  <1>6. LockOK'
    BY <1>4 DEF IInv, LockOK, Locked, AtWork
  <1>7. ASSUME NEW j \in Jobs PROVE JobOK(j)'
    <2>1. Noted(j)' <=> Noted(j)
      BY <1>2, <1>4 DEF Noted
    <2>2. Open(j)' <=> Open(j)
      BY <1>2 DEF Open
    <2> QED BY <1>2, <2>1, <2>2 DEF JobOK, IInv
  <1> QED BY <1>2, <1>3, <1>5, <1>6, <1>7 DEF IInv

(* Getting the account's lock. *)
LEMMA LockKeeps ==
  ASSUME IInv, NEW w \in Workers, Lock(w)
  PROVE  IInv'
  <1>1. /\ pc[w] = "wait" /\ LockFree(Account[cur[w]]) /\ pc' = [pc EXCEPT ![w] = "gate"]
        /\ UNCHANGED <<rows, cancels, posts, attempts, lost, queue, cur, text, verdict, rescue, troubles>>
    BY DEF Lock, Goto, rowVars
  <1>2. TypeOK'
    BY <1>1 DEF IInv, TypeOK, RowsOK, Phases, Locked
  <1>3. \A v \in Workers : WorkerOK(v)'
    BY <1>1 DEF IInv, TypeOK, WorkerOK, AtWork, Held
  <1>4. LockOK'
    <2>1. \A v \in Workers \ {w} : pc'[v] = pc[v]
      BY <1>1 DEF IInv, TypeOK
    <2>2. \A v \in Workers \ {w} : pc[v] \in Locked => Account[cur[v]] # Account[cur[w]]
      BY <1>1 DEF LockFree
    <2> QED BY <1>1, <2>1, <2>2 DEF IInv, LockOK
  <1>5. ASSUME NEW j \in Jobs PROVE JobOK(j)'
    <2>1. \A v \in Workers : pc'[v] = pc[v] \/ (pc[v] = "wait" /\ pc'[v] = "gate")
      BY <1>1 DEF IInv, TypeOK
    <2>2. Noted(j)' <=> Noted(j)
      BY <1>1, <2>1 DEF Noted
    <2>3. Open(j)' <=> Open(j)
      BY <1>1 DEF Open
    <2> QED BY <1>1, <2>2, <2>3 DEF JobOK, IInv
  <1> QED BY <1>1, <1>2, <1>3, <1>4, <1>5 DEF IInv

(* The gate and the claim. *)
LEMMA GateKeeps ==
  ASSUME IInv, NEW w \in Workers,
         GatePass(w) \/ LoseClaim(w) \/ \E interval \in MinInterval..MaxInterval : GateDeny(w, interval)
  PROVE  IInv'
  <1>0. rows \in [Jobs -> Rows] /\ pc \in [Workers -> Phases] /\ cur \in [Workers -> Jobs \cup {Null}]
        /\ cur[w] \in Jobs
    BY DEF IInv, TypeOK, RowsOK, WorkerOK, GatePass, LoseClaim, GateDeny
  <1> PICK c \in Jobs : c = cur[w]
    BY <1>0
  <1>1. /\ UNCHANGED <<cancels, posts, attempts, lost, queue, text, verdict, rescue, troubles>>
        /\ pc[w] \in {"gate", "claim"}
        /\ \/ pc' = [pc EXCEPT ![w] = "claim"] /\ cur' = cur
           \/ pc' = [pc EXCEPT ![w] = "idle"] /\ cur' = [cur EXCEPT ![w] = Null]
    BY DEF GatePass, LoseClaim, GateDeny, Goto, rowVars
  <1>2. /\ rows' \in [Jobs -> Rows]
        /\ \A k \in Jobs \ {cur[w]} : rows'[k] = rows[k]
        /\ rows'[cur[w]].status = rows[cur[w]].status
    <2>1. CASE rows' = rows
      BY <1>0, <2>1
    <2>2. ASSUME NEW interval \in MinInterval..MaxInterval, NEW k \in Siblings(cur[w]),
                 rows[k].age < interval,
                 rows' = [rows EXCEPT ![cur[w]] = PutOff(rows[cur[w]], interval - rows[k].age)]
          PROVE  /\ rows' \in [Jobs -> Rows]
                 /\ \A i \in Jobs \ {cur[w]} : rows'[i] = rows[i]
                 /\ rows'[cur[w]].status = rows[cur[w]].status
      <3>1. rows[k].age \in 0..MaxAge
        BY <1>0, RowFields DEF Siblings, Begun, JobsOf
      <3>2. interval - rows[k].age \in Nat
        BY <2>2, <3>1, AgeRange, PublishAssumption
      <3>3. /\ PutOff(rows[cur[w]], interval - rows[k].age) \in Rows
            /\ PutOff(rows[cur[w]], interval - rows[k].age).status = rows[cur[w]].status
        BY <1>0, <3>2, PutOffRow
      <3> QED BY <1>0, <2>2, <3>3, OneRow
    <2> QED BY <2>1, <2>2 DEF GatePass, LoseClaim, GateDeny, rowVars
  <1>3. TypeOK'
    <2>1. pc' \in [Workers -> Phases] /\ cur' \in [Workers -> Jobs \cup {Null}]
      BY <1>0, <1>1 DEF Phases, Locked
    <2>2. RowsOK'
      BY <1>1, <1>2 DEF IInv, TypeOK, RowsOK
    <2> QED BY <1>1, <2>1, <2>2 DEF IInv, TypeOK
  <1>4. /\ \A v \in Workers \ {w} : pc'[v] = pc[v] /\ cur'[v] = cur[v]
        /\ \/ cur'[w] = cur[w] /\ pc'[w] = "claim"
           \/ cur'[w] = Null /\ pc'[w] = "idle"
    BY <1>0, <1>1
  <1>5. /\ \A v \in Workers \ {w} : WorkerOK(v)'
        /\ LockOK' /\ \A j \in Jobs \ {cur[w]} : JobOK(j)'
        /\ WorkerOK(w) /\ JobOK(cur[w])
        /\ \A v \in Workers \ {w} : pc[v] \in AtWork => cur[v] # cur[w]
    BY <1>1, <1>2, <1>4, OthersKept DEF Locked
  <1>6. WorkerOK(w)'
    BY <1>0, <1>1, <1>4, <1>5 DEF WorkerOK, AtWork
  <1>7. JobOK(c)'
    <2>1. ~Noted(c)
      BY <1>1, <1>5 DEF Noted, AtWork
    <2>2. Open(c)' <=> Open(c)
      BY <1>2 DEF Open
    <2> QED BY <1>1, <1>5, <2>1, <2>2 DEF JobOK
  <1> QED BY <1>1, <1>3, <1>5, <1>6, <1>7, WorkKeeps

(* mark_publishing, and loading what is published. *)
LEMMA ClaimKeeps ==
  ASSUME IInv, NEW w \in Workers, Claim(w)
  PROVE  IInv'
  <1>0. rows \in [Jobs -> Rows] /\ pc \in [Workers -> Phases] /\ text \in [Workers -> 0..MaxPatches]
        /\ cur[w] \in Jobs /\ attempts \in [Jobs -> Nat]
    BY DEF IInv, TypeOK, RowsOK, WorkerOK, Claim
  <1> PICK c \in Jobs : c = cur[w]
    BY <1>0
  <1>1. /\ pc[w] = "claim" /\ rows[c].status = "pending"
        /\ rows' = [rows EXCEPT ![c] = Claimed(rows[c])]
        /\ attempts' = [attempts EXCEPT ![c] = @ + 1]
        /\ text' = [text EXCEPT ![w] = rows[c].text]
        /\ pc' = [pc EXCEPT ![w] = "run"]
        /\ UNCHANGED <<cancels, posts, lost, queue, cur, verdict, rescue, troubles>>
    BY DEF Claim, Goto, TextToPublish
  <1>2. /\ rows' \in [Jobs -> Rows]
        /\ \A k \in Jobs \ {c} : rows'[k] = rows[k]
        /\ rows'[c].status = "publishing" /\ rows'[c].text = rows[c].text
    <2>1. /\ Claimed(rows[c]) \in Rows /\ Claimed(rows[c]).status = "publishing"
          /\ Claimed(rows[c]).text = rows[c].text
      BY <1>0, ClaimedRow
    <2> QED BY <1>0, <1>1, <2>1, OneRow
  <1>3. TypeOK'
    <2>1. pc' \in [Workers -> Phases] /\ text' \in [Workers -> 0..MaxPatches]
      BY <1>0, <1>1, RowFields DEF Phases, Locked, AtWork
    <2>2. attempts' \in [Jobs -> Nat]
      BY <1>0, <1>1
    <2>3. RowsOK'
      BY <1>1, <1>2, <2>2 DEF IInv, TypeOK, RowsOK
    <2> QED BY <1>1, <2>1, <2>3 DEF IInv, TypeOK
  <1>4. /\ \A v \in Workers \ {w} : /\ pc'[v] = pc[v] /\ cur'[v] = cur[v] /\ text'[v] = text[v]
                                    /\ verdict'[v] = verdict[v] /\ rescue'[v] = rescue[v]
        /\ cur'[w] = cur[w] /\ pc'[w] = "run" /\ text'[w] = rows[c].text
    BY <1>0, <1>1
  <1>5. /\ \A v \in Workers \ {w} : WorkerOK(v)'
        /\ LockOK' /\ \A j \in Jobs \ {c} : JobOK(j)'
        /\ WorkerOK(w) /\ JobOK(c)
        /\ \A v \in Workers \ {w} : pc[v] \in AtWork => cur[v] # c
    BY <1>1, <1>2, <1>4, OthersKept DEF Locked, AtWork
  <1>6. posts[c] <= lost[c]
    <2>1. ~Noted(c)
      BY <1>1, <1>5 DEF Noted, AtWork
    <2> QED BY <1>1, <1>5, <2>1 DEF JobOK, Open
  <1>7. WorkerOK(w)'
    BY <1>1, <1>2, <1>4, <1>5, <1>6 DEF WorkerOK, AtWork, Held
  <1>8. JobOK(c)'
    BY <1>1, <1>5, <1>6 DEF JobOK
  <1> QED BY <1>1, <1>3, <1>5, <1>7, <1>8, WorkKeeps

(* The note appears, publish_once returns, finish has read the row.           *)
LEMMA WorkingKeeps ==
  ASSUME IInv, NEW w \in Workers,
         Post(w) \/ (\E v \in Verdicts : Return(w, v)) \/ (FinishRead(w) /\ pc'[w] # "idle")
  PROVE  IInv'
  <1>0. /\ pc \in [Workers -> Phases] /\ verdict \in [Workers -> {"ok", "fail", "dead", Null}]
        /\ posts \in [Jobs -> Nat] /\ lost \in [Jobs -> Nat] /\ cur[w] \in Jobs
    BY DEF IInv, TypeOK, RowsOK, WorkerOK, Post, Return, FinishRead
  <1> PICK c \in Jobs : c = cur[w]
    BY <1>0
  <1> DEFINE noted == [posts EXCEPT ![c] = @ + 1]
             missed == [lost EXCEPT ![c] = @ + 1]
  <1>1. /\ UNCHANGED <<rows, cancels, attempts, queue, cur, text, rescue, troubles>>
        /\ \/ /\ pc[w] = "run" /\ pc' = [pc EXCEPT ![w] = "posted"]
              /\ posts' = noted /\ UNCHANGED <<lost, verdict>>
           \/ /\ pc[w] = "finish" /\ pc' = [pc EXCEPT ![w] = "write"]
              /\ UNCHANGED <<lost, verdict, posts>>
           \/ /\ pc[w] \in {"run", "posted"} /\ pc' = [pc EXCEPT ![w] = "finish"]
              /\ UNCHANGED posts
              /\ \E v \in Verdicts :
                   /\ verdict' = [verdict EXCEPT ![w] = v]
                   /\ \/ pc[w] = "run" /\ v # "ok" /\ lost' = lost
                      \/ pc[w] = "posted" /\ v = "ok" /\ lost' = lost
                      \/ pc[w] = "posted" /\ v # "ok" /\ lost' = missed
    <2>1. ASSUME Post(w)
          PROVE  /\ UNCHANGED <<rows, cancels, attempts, queue, cur, text, rescue, troubles>>
                 /\ pc[w] = "run" /\ pc' = [pc EXCEPT ![w] = "posted"]
                 /\ posts' = noted /\ UNCHANGED <<lost, verdict>>
      BY <2>1 DEF Post, Goto
    <2>2. ASSUME FinishRead(w), pc'[w] # "idle"
          PROVE  /\ UNCHANGED <<rows, cancels, attempts, queue, cur, text, rescue, troubles>>
                 /\ pc[w] = "finish" /\ pc' = [pc EXCEPT ![w] = "write"]
                 /\ UNCHANGED <<lost, verdict, posts>>
      BY <1>0, <2>2 DEF FinishRead, Goto, Leave, rowVars
    <2>3. ASSUME NEW v \in Verdicts, Return(w, v)
          PROVE  /\ UNCHANGED <<rows, cancels, attempts, queue, cur, text, rescue, troubles>>
                 /\ pc[w] \in {"run", "posted"} /\ pc' = [pc EXCEPT ![w] = "finish"]
                 /\ UNCHANGED posts
                 /\ verdict' = [verdict EXCEPT ![w] = v]
                 /\ \/ pc[w] = "run" /\ v # "ok" /\ lost' = lost
                    \/ pc[w] = "posted" /\ v = "ok" /\ lost' = lost
                    \/ pc[w] = "posted" /\ v # "ok" /\ lost' = missed
      BY <2>3 DEF Return, Goto
    <2> QED BY <2>1, <2>2, <2>3
  <1>2. TypeOK'
    <2>1. pc' \in [Workers -> Phases]
      BY <1>0, <1>1 DEF Phases, Locked, AtWork
    <2>2. verdict' \in [Workers -> {"ok", "fail", "dead", Null}]
      BY <1>0, <1>1 DEF Verdicts
    <2>3. noted \in [Jobs -> Nat] /\ missed \in [Jobs -> Nat]
      BY <1>0
    <2>4. posts' \in [Jobs -> Nat] /\ lost' \in [Jobs -> Nat]
      <3> HIDE DEF noted, missed
      <3> QED BY <1>0, <1>1, <2>3
    <2>5. RowsOK'
      BY <1>1, <2>4 DEF IInv, TypeOK, RowsOK
    <2> QED BY <1>1, <2>1, <2>2, <2>5 DEF IInv, TypeOK
  <1>3. /\ \A v \in Workers \ {w} : /\ pc'[v] = pc[v] /\ cur'[v] = cur[v] /\ text'[v] = text[v]
                                    /\ verdict'[v] = verdict[v] /\ rescue'[v] = rescue[v]
        /\ cur'[w] = cur[w] /\ pc'[w] \in AtWork /\ pc[w] \in AtWork
    BY <1>0, <1>1 DEF AtWork
  <1>4. \A k \in Jobs \ {c} : rows'[k] = rows[k] /\ posts'[k] = posts[k] /\ lost'[k] = lost[k]
    BY <1>0, <1>1
  <1>5. /\ \A v \in Workers \ {w} : WorkerOK(v)'
        /\ LockOK' /\ \A j \in Jobs \ {c} : JobOK(j)'
        /\ WorkerOK(w) /\ JobOK(c)
        /\ \A v \in Workers \ {w} : pc[v] \in AtWork => cur[v] # c
    BY <1>3, <1>4, OthersKept DEF Locked
  <1>6. posts[c] \in Nat /\ lost[c] \in Nat
    BY <1>0
  <1>7. WorkerOK(w)' /\ JobOK(c)'
    <2>0. Held(c)' /\ rescue'[w] = rescue[w]
      BY <1>1, <1>3, <1>5 DEF WorkerOK, Held
    <2>1. CASE pc[w] = "run" /\ pc'[w] = "posted"
      <3>1. posts'[c] = posts[c] + 1 /\ lost'[c] = lost[c]
        BY <1>0, <1>1, <2>1
      <3>2. Noted(c)'
        BY <1>3, <2>1 DEF Noted
      <3>3. posts[c] <= lost[c]
        BY <1>5, <2>1 DEF WorkerOK
      <3> QED BY <1>3, <1>5, <1>6, <2>0, <2>1, <3>1, <3>2, <3>3 DEF WorkerOK, JobOK
    <2>2. CASE pc'[w] = "write"
      <3>1. posts'[c] = posts[c] /\ lost'[c] = lost[c] /\ verdict'[w] = verdict[w] /\ pc[w] = "finish"
        BY <1>0, <1>1, <2>2
      <3>2. Noted(c) => Noted(c)'
        BY <1>3, <1>5, <2>2, <3>1 DEF Noted, AtWork
      <3>3. Open(c)' <=> Open(c)
        BY <1>1 DEF Open
      <3> QED BY <1>3, <1>5, <2>0, <2>2, <3>1, <3>2, <3>3 DEF WorkerOK, JobOK
    <2>3. CASE pc'[w] = "finish"
      <3>1. PICK v \in Verdicts :
              /\ verdict'[w] = v /\ posts'[c] = posts[c]
              /\ \/ pc[w] = "run" /\ v # "ok" /\ lost'[c] = lost[c]
                 \/ pc[w] = "posted" /\ v = "ok" /\ lost'[c] = lost[c]
                 \/ pc[w] = "posted" /\ v # "ok" /\ lost'[c] = lost[c] + 1
        BY <1>0, <1>1, <2>3
      <3>2. v # "ok" => posts'[c] <= lost'[c]
        BY <1>5, <1>6, <3>1 DEF WorkerOK, JobOK
      <3>3. v = "ok" => Noted(c)'
        BY <1>3, <2>3, <3>1 DEF Noted
      <3>4. posts'[c] <= 1 + lost'[c]
        BY <1>5, <1>6, <3>1 DEF JobOK
      <3>5. ~rescue[w]
        BY <1>5, <3>1 DEF WorkerOK
      <3> QED BY <1>3, <1>5, <2>0, <2>3, <3>1, <3>2, <3>3, <3>4, <3>5 DEF WorkerOK, JobOK
    <2> QED BY <1>0, <1>1, <2>1, <2>2, <2>3
  <1> QED BY <1>1, <1>2, <1>5, <1>7, WorkKeeps

(* Leaving the job: with it settled, or with what was posted accounted for.   *)
LEMMA LeaveKeeps ==
  ASSUME IInv, NEW w \in Workers, pc[w] \in {"finish", "write"}, Leave(w),
         UNCHANGED <<cancels, posts, attempts, lost, queue>>, troubles' \in 0..MaxTroubles,
         rows' \in [Jobs -> Rows], \A k \in Jobs \ {cur[w]} : rows'[k] = rows[k],
         rows'[cur[w]].status \in Ended \/ posts[cur[w]] <= lost[cur[w]]
  PROVE  IInv'
  <1>0. /\ pc \in [Workers -> Phases] /\ cur \in [Workers -> Jobs \cup {Null}]
        /\ text \in [Workers -> 0..MaxPatches] /\ rescue \in [Workers -> BOOLEAN]
        /\ verdict \in [Workers -> {"ok", "fail", "dead", Null}]
        /\ cur[w] \in Jobs
    BY DEF IInv, TypeOK, WorkerOK
  <1> PICK c \in Jobs : c = cur[w]
    BY <1>0
  <1>1. /\ pc' = [pc EXCEPT ![w] = "idle"] /\ cur' = [cur EXCEPT ![w] = Null]
        /\ text' = [text EXCEPT ![w] = 0] /\ verdict' = [verdict EXCEPT ![w] = Null]
        /\ rescue' = [rescue EXCEPT ![w] = FALSE]
    BY DEF Leave, Goto
  <1>2. TypeOK'
    <2>1. pc' \in [Workers -> Phases] /\ cur' \in [Workers -> Jobs \cup {Null}]
      BY <1>0, <1>1 DEF Phases
    <2>2. text' \in [Workers -> 0..MaxPatches]
      BY <1>0, <1>1, PublishAssumption
    <2>3. verdict' \in [Workers -> {"ok", "fail", "dead", Null}] /\ rescue' \in [Workers -> BOOLEAN]
      BY <1>0, <1>1
    <2>4. RowsOK'
      BY DEF IInv, TypeOK, RowsOK
    <2> QED BY <2>1, <2>2, <2>3, <2>4 DEF IInv, TypeOK
  <1>3. /\ \A v \in Workers \ {w} : /\ pc'[v] = pc[v] /\ cur'[v] = cur[v] /\ text'[v] = text[v]
                                    /\ verdict'[v] = verdict[v] /\ rescue'[v] = rescue[v]
        /\ cur'[w] = Null /\ pc'[w] = "idle" /\ rescue'[w] = FALSE
    BY <1>0, <1>1
  <1>4. /\ \A v \in Workers \ {w} : WorkerOK(v)'
        /\ LockOK' /\ \A j \in Jobs \ {c} : JobOK(j)'
        /\ JobOK(c)
    BY <1>3, OthersKept DEF Locked, AtWork
  <1>5. WorkerOK(w)'
    BY <1>3 DEF WorkerOK, AtWork
  <1>6. JobOK(c)'
    BY <1>4 DEF JobOK, Open, Ended
  <1> QED BY <1>2, <1>4, <1>5, <1>6, WorkKeeps

(* finish finds the row taken away: canceled. *)
LEMMA FinishReadKeeps ==
  ASSUME IInv, NEW w \in Workers, FinishRead(w)
  PROVE  IInv'
  <1>1. CASE pc'[w] # "idle"
    BY <1>1, WorkingKeeps
  <1>2. CASE pc'[w] = "idle"
    <2>1. pc \in [Workers -> Phases] /\ pc[w] = "finish" /\ cur[w] \in Jobs /\ Held(cur[w])
          /\ rows \in [Jobs -> Rows] /\ troubles \in 0..MaxTroubles
      BY DEF FinishRead, IInv, TypeOK, RowsOK, WorkerOK, AtWork
    <2>2. rows[cur[w]].status # "publishing" /\ Leave(w)
      BY <1>2, <2>1 DEF FinishRead, Goto
    <2>3. rows[cur[w]].status \in Ended
      BY <2>1, <2>2 DEF Held, Ended
    <2>4. UNCHANGED <<rows, cancels, posts, attempts, lost, queue, troubles>>
      BY DEF FinishRead, rowVars
    <2> QED BY <2>1, <2>2, <2>3, <2>4, LeaveKeeps
  <1> QED BY <1>1, <1>2

(* decide_finish and its UPDATE. *)
LEMMA FinishWriteKeeps ==
  ASSUME IInv, NEW w \in Workers, NEW wait \in RetryWaits, FinishWrite(w, wait)
  PROVE  IInv'
  <1>0. /\ rows \in [Jobs -> Rows] /\ cur[w] \in Jobs /\ verdict[w] \in Verdicts /\ wait \in Nat
        /\ troubles \in 0..MaxTroubles
        /\ verdict[w] # "ok" => posts[cur[w]] <= lost[cur[w]]
    BY PublishAssumption DEF FinishWrite, IInv, TypeOK, RowsOK, WorkerOK
  <1> DEFINE r == rows[cur[w]]
             s == Settled(r, verdict[w], r.retries, wait)
  <1>1. /\ rows' = [rows EXCEPT ![cur[w]] = s] /\ Leave(w) /\ pc[w] = "write"
        /\ UNCHANGED <<cancels, posts, attempts, lost, queue, troubles>>
    BY DEF FinishWrite
  <1>2. s \in Rows /\ (verdict[w] = "ok" => s.status = "published")
    BY <1>0, SettledRow DEF Verdicts
  <1> HIDE DEF s
  <1>3. /\ rows' \in [Jobs -> Rows] /\ rows'[cur[w]] = s
        /\ \A k \in Jobs \ {cur[w]} : rows'[k] = rows[k]
    BY <1>0, <1>1, <1>2, OneRow
  <1>4. rows'[cur[w]].status \in Ended \/ posts[cur[w]] <= lost[cur[w]]
    BY <1>0, <1>2, <1>3 DEF Ended
  <1> QED BY <1>0, <1>1, <1>3, <1>4, LeaveKeeps

(* The ledger write fails, once or in the except branch too. *)
LEMMA FinishRaisesKeeps ==
  ASSUME IInv, NEW w \in Workers, FinishRaises(w)
  PROVE  IInv'
  <1>0. /\ pc \in [Workers -> Phases] /\ verdict \in [Workers -> {"ok", "fail", "dead", Null}]
        /\ rescue \in [Workers -> BOOLEAN] /\ lost \in [Jobs -> Nat] /\ posts \in [Jobs -> Nat]
        /\ cur[w] \in Jobs /\ rows \in [Jobs -> Rows] /\ pc[w] \in {"finish", "write"}
        /\ troubles' \in 0..MaxTroubles
        /\ UNCHANGED <<rows, cancels, posts, attempts, queue>>
    BY InlineAssumption DEF FinishRaises, Trouble, IInv, TypeOK, RowsOK, WorkerOK
  <1> PICK c \in Jobs : c = cur[w]
    BY <1>0
  <1>1. CASE rescue[w]
    <2>1. posts[c] <= lost[c]
      BY <1>1 DEF IInv, WorkerOK
    <2> QED BY <1>0, <1>1, <2>1, LeaveKeeps DEF FinishRaises
  <1>2. CASE ~rescue[w]
    <2>1. /\ lost' = [lost EXCEPT ![c] = @ + 1] /\ pc' = [pc EXCEPT ![w] = "finish"]
          /\ verdict' = [verdict EXCEPT ![w] = "fail"] /\ rescue' = [rescue EXCEPT ![w] = TRUE]
          /\ UNCHANGED <<cur, text>>
      BY <1>2 DEF FinishRaises, Goto
    <2>2. TypeOK'
      <3>1. pc' \in [Workers -> Phases]
        BY <1>0, <2>1 DEF Phases, Locked, AtWork
      <3>2. verdict' \in [Workers -> {"ok", "fail", "dead", Null}] /\ rescue' \in [Workers -> BOOLEAN]
            /\ lost' \in [Jobs -> Nat]
        BY <1>0, <2>1
      <3>3. RowsOK'
        BY <1>0, <3>2 DEF IInv, TypeOK, RowsOK
      <3> QED BY <1>0, <2>1, <3>1, <3>2, <3>3 DEF IInv, TypeOK
    <2>3. /\ \A v \in Workers \ {w} : /\ pc'[v] = pc[v] /\ cur'[v] = cur[v] /\ text'[v] = text[v]
                                      /\ verdict'[v] = verdict[v] /\ rescue'[v] = rescue[v]
          /\ cur'[w] = cur[w] /\ pc'[w] = "finish" /\ verdict'[w] = "fail" /\ rescue'[w] = TRUE
          /\ lost'[c] = lost[c] + 1 /\ \A k \in Jobs \ {c} : lost'[k] = lost[k]
      BY <1>0, <2>1
    <2>4. /\ \A v \in Workers \ {w} : WorkerOK(v)'
          /\ LockOK' /\ \A j \in Jobs \ {c} : JobOK(j)'
          /\ WorkerOK(w) /\ JobOK(c)
      BY <1>0, <2>3, OthersKept DEF Locked, AtWork
    <2>5. posts[c] \in Nat /\ lost[c] \in Nat /\ posts[c] <= lost[c] + 1
      BY <1>0, <2>4 DEF JobOK
    <2>6. WorkerOK(w)'
      BY <1>0, <2>3, <2>4, <2>5 DEF WorkerOK, AtWork, Held, Verdicts
    <2>7. JobOK(c)'
      BY <1>0, <2>3, <2>5 DEF JobOK
    <2> QED BY <1>0, <2>2, <2>4, <2>6, <2>7, WorkKeeps
  <1> QED BY <1>0, <1>1, <1>2

(* The process restarts. *)
LEMMA RestartKeeps ==
  ASSUME IInv, Restart
  PROVE  IInv'
  <1>0. /\ lost \in [Jobs -> Nat] /\ posts \in [Jobs -> Nat]
        /\ \A j \in Jobs : JobOK(j) /\ posts[j] \in Nat /\ lost[j] \in Nat
    BY DEF IInv, TypeOK, RowsOK
  <1> DEFINE Cut(j) == \E w \in Workers : cur[w] = j /\ pc[w] \in AtWork /\ ~rescue[w]
  <1>1. /\ queue' = <<>> /\ cancels' = {} /\ UNCHANGED <<rows, posts, attempts>>
        /\ lost' = [j \in Jobs |-> IF Cut(j) THEN lost[j] + 1 ELSE lost[j]]
        /\ \A w \in Workers : pc'[w] = "idle" /\ rescue'[w] = FALSE
        /\ troubles' \in 0..MaxTroubles
    BY InlineAssumption DEF Restart, Trouble, IInv, TypeOK
  <1>2. TypeOK'
    <2>1. lost' \in [Jobs -> Nat]
      BY <1>0, <1>1
    <2>2. RowsOK'
      BY <1>1, <2>1 DEF IInv, TypeOK, RowsOK
    <2>3. /\ pc' \in [Workers -> Phases] /\ cur' \in [Workers -> Jobs \cup {Null}]
          /\ text' \in [Workers -> 0..MaxPatches] /\ rescue' \in [Workers -> BOOLEAN]
          /\ verdict' \in [Workers -> {"ok", "fail", "dead", Null}]
      BY PublishAssumption DEF Restart, Phases
    <2>4. queue' \in Seq(Jobs) /\ Len(queue') <= MaxQueue
      BY <1>1, InlineAssumption
    <2> QED BY <1>1, <2>2, <2>3, <2>4 DEF TypeOK
  <1>3. \A w \in Workers : WorkerOK(w)'
    BY <1>1 DEF WorkerOK, AtWork
  <1>4. LockOK'
    BY <1>1 DEF LockOK, Locked, AtWork
  <1>5. ASSUME NEW j \in Jobs PROVE JobOK(j)'
    <2>1. Noted(j) => Cut(j)
      <3> SUFFICES ASSUME NEW w \in Workers, cur[w] = j, pc[w] \in {"posted", "finish", "write"},
                          pc[w] # "posted" => verdict[w] = "ok"
                   PROVE  pc[w] \in AtWork /\ ~rescue[w]
        BY DEF Noted
      <3> QED BY DEF IInv, WorkerOK, AtWork
    <2>2. lost'[j] = IF Cut(j) THEN lost[j] + 1 ELSE lost[j]
      BY <1>1
    <2> HIDE DEF Cut
    <2>3. posts[j] <= 1 + lost[j] /\ (Open(j) /\ ~Cut(j) => posts[j] <= lost[j])
      BY <1>0, <2>1 DEF JobOK
    <2>4. Open(j)' <=> Open(j)
      BY <1>1 DEF Open
    <2> QED BY <1>0, <1>1, <2>2, <2>3, <2>4 DEF JobOK
  <1> QED BY <1>1, <1>2, <1>3, <1>4, <1>5 DEF IInv

(***************************************************************************)
(* The theorems                                                            *)
(***************************************************************************)

LEMMA StepKeeps == IInv /\ [Next]_vars => IInv'
  <1> SUFFICES ASSUME IInv, [Next]_vars PROVE IInv'
    OBVIOUS
  <1>1. CASE UNCHANGED vars
    <2>1. /\ UNCHANGED <<rowVars, workerVars, troubles, queue>>
          /\ queue \in Seq(Jobs) /\ Len(queue) <= MaxQueue
      BY <1>1 DEF vars, IInv, TypeOK
    <2>2. Drift
      BY <2>1 DEF Drift, RowDrift, rowVars, IInv, TypeOK, RowsOK
    <2> QED BY <2>1, <2>2, DriftKeeps
  <1>2. ASSUME NEW w \in Workers, Run(w) PROVE IInv'
    BY <1>2, TakeKeeps, LockKeeps, GateKeeps, ClaimKeeps, WorkingKeeps, FinishReadKeeps,
       FinishWriteKeeps DEF Run, Verdicts
  <1> QED BY <1>1, <1>2, RestKeeps, TimeKeeps, ScanKeeps, RestartKeeps, FinishRaisesKeeps DEF Next

(* The inductive invariant holds throughout. *)
THEOREM Invariant == Spec => []IInv
  <1> QED BY InitIInv, StepKeeps, PTL DEF Spec

(* The rows, the queue and the workers keep their types. *)
THEOREM InlineTypes == Spec => []TypeOK
  <1>1. IInv => TypeOK
    BY DEF IInv
  <1> QED BY <1>1, Invariant, PTL

(* However ids are queued twice, jobs put off, recovered and canceled, and    *)
(* whenever the process restarts, an account never has two sessions at once.  *)
THEOREM SessionsAreSingle == Spec => []OneSessionPerAccount
  <1>1. IInv => OneSessionPerAccount
    BY DEF IInv, LockOK, OneSessionPerAccount, Locked
  <1> QED BY <1>1, Invariant, PTL

(* Nothing but an operator's cancel takes a row away from its execution.      *)
THEOREM RowStaysHeld == Spec => []HeldWhilePublishing
  <1>1. IInv => HeldWhilePublishing
    BY DEF IInv, WorkerOK, Held, HeldWhilePublishing
  <1> QED BY <1>1, Invariant, PTL

(* A second note needs an outcome that was lost, in this deployment too.      *)
THEOREM RepostsAreLosses == Spec => []RepostsNeedLoss
  <1>1. IInv => RepostsNeedLoss
    BY DEF IInv, JobOK, RepostsNeedLoss
  <1> QED BY <1>1, Invariant, PTL

(* The note that appears is the one the row describes: an edit needs a row     *)
(* that is pending, and the text is loaded after the claim.                   *)
THEOREM TextIsCurrent == Spec => PostsCurrentText
  <1>1. IInv /\ [Next]_vars =>
          [\A w \in Workers : pc[w] = "run" /\ pc'[w] = "posted" => text[w] = rows[cur[w]].text]_vars
    BY DEF IInv, WorkerOK
  <1> QED BY <1>1, Invariant, PTL DEF Spec, PostsCurrentText

(***************************************************************************)
(* PublishInline implements PublishPromise                                 *)
(***************************************************************************)

Shown == [j \in Jobs |-> rows[j].status]
Owes(j) == posts[j] > lost[j]
ShowsUp(w) == pc[w] = "posted" \/ (pc[w] \in {"finish", "write"} /\ verdict[w] = "ok")

(* A cancel was read of a job that exists; a worker that says a note is up    *)
(* has put it up.                                                            *)
ReportsOK ==
  /\ \A j \in cancels : rows[j].status # "none"
  /\ \A w \in Workers : ShowsUp(w) => posts[cur[w]] > 0

(* The column after a step that writes one row.                              *)
LEMMA ShownOne ==
  ASSUME NEW c \in Jobs, NEW s, rows'[c].status = s,
         \A k \in Jobs \ {c} : rows'[k] = rows[k]
  PROVE  Shown' = [Shown EXCEPT ![c] = s]
  BY DEF Shown

(* What a step of one worker does to the set of jobs in flight.               *)
LEMMA InFlightMoves ==
  ASSUME IInv, IInv', NEW w \in Workers,
         \A v \in Workers \ {w} : pc'[v] = pc[v] /\ cur'[v] = cur[v]
  PROVE  /\ pc[w] \in AtWork /\ pc'[w] \in AtWork /\ cur'[w] = cur[w] => InFlight' = InFlight
         /\ pc[w] \notin AtWork /\ pc'[w] \notin AtWork => InFlight' = InFlight
         /\ pc[w] \notin AtWork /\ pc'[w] \in AtWork =>
              InFlight' = InFlight \cup {cur'[w]} /\ cur'[w] \notin InFlight
         /\ pc[w] \in AtWork /\ pc'[w] \notin AtWork =>
              InFlight' = InFlight \ {cur[w]} /\ cur[w] \in InFlight
  <1>1. /\ \A u, v \in Workers : u # v /\ pc[u] \in AtWork /\ pc[v] \in AtWork => cur[u] # cur[v]
        /\ \A u, v \in Workers : u # v /\ pc'[u] \in AtWork /\ pc'[v] \in AtWork => cur'[u] # cur'[v]
    BY DEF IInv, LockOK, Locked
  <1> USE DEF InFlight
  <1>2. pc[w] \in AtWork /\ pc'[w] \in AtWork /\ cur'[w] = cur[w] => InFlight' = InFlight
    OBVIOUS
  <1>3. pc[w] \notin AtWork /\ pc'[w] \notin AtWork => InFlight' = InFlight
    OBVIOUS
  <1>4. pc[w] \notin AtWork /\ pc'[w] \in AtWork =>
          InFlight' = InFlight \cup {cur'[w]} /\ cur'[w] \notin InFlight
    BY <1>1
  <1>5. pc[w] \in AtWork /\ pc'[w] \notin AtWork =>
          InFlight' = InFlight \ {cur[w]} /\ cur[w] \in InFlight
    BY <1>1
  <1> QED BY <1>2, <1>3, <1>4, <1>5

(* A job that is waiting or left publishing owes nothing.                    *)
LEMMA OwesNothing ==
  ASSUME IInv, NEW j \in Jobs, Open(j), j \notin InFlight
  PROVE  ~Owes(j)
  <1>1. ~Noted(j)
    BY DEF Noted, InFlight, AtWork
  <1>2. posts[j] <= lost[j] /\ posts[j] \in Nat /\ lost[j] \in Nat
    BY <1>1 DEF IInv, JobOK, TypeOK, RowsOK
  <1> QED BY <1>2 DEF Owes

(* REST handlers, time and recovery.                                         *)
LEMMA DriftPromise ==
  ASSUME IInv, ReportsOK, Rest \/ Time \/ Recover
  PROVE  [Promise!Next]_(Promise!vars)
  <1>0. /\ \A j \in Jobs : rows[j] \in Rows
        /\ rows \in [Jobs -> Rows] /\ cancels \subseteq Editable /\ Editable \subseteq Jobs
    BY PublishAssumption DEF IInv, TypeOK, RowsOK
  <1>1. UNCHANGED <<posts, lost, InFlight>>
    <2>1. UNCHANGED <<posts, lost, pc, cur>>
      BY DEF Rest, Time, Recover, Create, Patch, CancelRead, CancelWrite, Tick, Midnight, workerVars
    <2> QED BY <2>1 DEF InFlight
  <1>2. Shown' = Shown => [Promise!Next]_(Promise!vars)
    BY <1>1 DEF Promise!vars, Shown
  <1>3. ASSUME NEW j \in Jobs, NEW when \in Schedule, Create(j, when) PROVE Promise!Next
    <2> DEFINE eff == EffectiveSchedule(Account[j], when)
    <2>1. eff \in Schedule
      BY SMT DEF EffectiveSchedule, Schedule, Tomorrow
    <2> HIDE DEF eff
    <2>2. rows' = [rows EXCEPT ![j] = Created(rows[j], eff)] /\ rows[j].status = "none"
      BY <1>3 DEF Create, eff
    <2>3. Created(rows[j], eff) \in Rows /\ Created(rows[j], eff).status = "pending"
      BY <1>0, <2>1, CreatedRow
    <2>4. Shown' = [Shown EXCEPT ![j] = "pending"]
      BY <1>0, <2>2, <2>3, OneRow, ShownOne
    <2>5. Promise!Create(j)
      BY <1>1, <2>2, <2>4 DEF Promise!Create, Shown
    <2> QED BY <2>5 DEF Promise!Next
  <1>4. ASSUME NEW j \in Jobs, NEW when \in Schedule, Patch(j, when) PROVE Shown' = Shown
    <2>1. rows' = [rows EXCEPT ![j] = Patched(rows[j], when)] /\ rows[j].text < MaxPatches
      BY <1>4 DEF Patch
    <2>2. Patched(rows[j], when) \in Rows /\ Patched(rows[j], when).status = rows[j].status
      BY <1>0, <2>1, PatchedRow
    <2>3. rows'[j].status = rows[j].status /\ \A k \in Jobs \ {j} : rows'[k] = rows[k]
      BY <1>0, <2>1, <2>2, OneRow
    <2> QED BY <2>3 DEF Shown
  <1>5. ASSUME NEW j \in Jobs, CancelRead(j) PROVE Shown' = Shown
    BY <1>5 DEF CancelRead, Shown
  <1>6. ASSUME NEW j \in Jobs, CancelWrite(j) PROVE Promise!Next
    <2>1. rows' = [rows EXCEPT ![j] = Canceled(rows[j])] /\ j \in Editable /\ rows[j].status # "none"
      BY <1>0, <1>6 DEF CancelWrite, ReportsOK
    <2>2. Canceled(rows[j]) \in Rows /\ Canceled(rows[j]).status = "canceled"
      BY <1>0, CanceledRow
    <2>3. Shown' = [Shown EXCEPT ![j] = "canceled"]
      BY <1>0, <2>1, <2>2, OneRow, ShownOne
    <2>4. Promise!Cancel(j)
      BY <1>1, <2>1, <2>3 DEF Promise!Cancel, Shown
    <2> QED BY <2>4 DEF Promise!Next
  <1>7. CASE Time
    <2>1. (\A j \in Jobs : rows'[j] = Older(rows[j])) \/ (\A j \in Jobs : rows'[j] = NextDay(rows[j]))
      BY <1>7 DEF Time, Tick, Midnight
    <2>2. \A j \in Jobs : Older(rows[j]).status = rows[j].status
      BY <1>0, OlderRow
    <2>3. \A j \in Jobs : NextDay(rows[j]).status = rows[j].status
      BY <1>0, NextDayRow
    <2>4. Shown' = Shown
      BY <2>1, <2>2, <2>3 DEF Shown
    <2> QED BY <1>2, <2>4
  <1>8. CASE Recover
    <2> DEFINE S == {j \in Jobs : Stalled(j) /\ j \notin InFlight}
    <2>1. rows' = [j \in Jobs |-> IF j \in S THEN Unstart(rows[j], "pending") ELSE rows[j]]
      BY <1>8 DEF Recover, RecoverRows
    <2>2. \A j \in Jobs : Unstart(rows[j], "pending").status = "pending"
      BY <1>0, UnstartRow DEF Statuses
    <2>3. \A j \in S : rows[j].status = "publishing" /\ j \notin InFlight /\ ~Owes(j)
      BY OwesNothing DEF Stalled, Open
    <2> HIDE DEF S
    <2>4. Shown' = [j \in Jobs |-> IF j \in S THEN "pending" ELSE Shown[j]]
      BY <2>1, <2>2 DEF Shown
    <2>5. S \in SUBSET Jobs
      BY DEF S
    <2>6. Promise!GiveBack(S, "pending")
      BY <1>1, <2>3, <2>4, <2>5 DEF Promise!GiveBack, Promise!Owes, Shown, Owes
    <2> QED BY <2>5, <2>6 DEF Promise!Next
  <1> QED BY <1>2, <1>3, <1>4, <1>5, <1>6, <1>7, <1>8 DEF Rest

(* Queue, lock and gate: steps that the operators do not see.                *)
Unseen(w) ==
  \/ Take(w) \/ Lock(w) \/ GatePass(w) \/ LoseClaim(w)
  \/ \E interval \in MinInterval..MaxInterval : GateDeny(w, interval)

LEMMA UnseenPromise ==
  ASSUME IInv, IInv', NEW w \in Workers, Unseen(w)
  PROVE  UNCHANGED Promise!vars
  <1>0. rows \in [Jobs -> Rows] /\ \A j \in Jobs : rows[j] \in Rows
    BY DEF IInv, TypeOK, RowsOK
  <1>1. /\ UNCHANGED <<posts, lost>>
        /\ pc[w] \notin AtWork /\ pc'[w] \notin AtWork
        /\ \A v \in Workers \ {w} : pc'[v] = pc[v] /\ cur'[v] = cur[v]
    BY DEF Unseen, Take, Lock, GatePass, LoseClaim, GateDeny, Goto, rowVars, IInv, TypeOK, AtWork
  <1>2. InFlight' = InFlight
    BY <1>1, InFlightMoves
  <1>3. Shown' = Shown
    <2>1. ASSUME NEW interval \in MinInterval..MaxInterval, GateDeny(w, interval)
          PROVE  Shown' = Shown
      <3>0. PICK k \in Siblings(cur[w]) :
              /\ rows[k].age < interval
              /\ rows' = [rows EXCEPT ![cur[w]] = PutOff(rows[cur[w]], interval - rows[k].age)]
        BY <2>1 DEF GateDeny
      <3>1. rows[k].age \in 0..MaxAge /\ cur[w] \in Jobs
        BY <1>0, <2>1, RowFields DEF Siblings, Begun, JobsOf, GateDeny, IInv, WorkerOK
      <3>2. interval - rows[k].age \in Nat
        BY <3>0, <3>1, AgeRange, PublishAssumption
      <3>3. /\ PutOff(rows[cur[w]], interval - rows[k].age) \in Rows
            /\ PutOff(rows[cur[w]], interval - rows[k].age).status = rows[cur[w]].status
        BY <1>0, <3>1, <3>2, PutOffRow
      <3>4. rows'[cur[w]].status = rows[cur[w]].status /\ \A i \in Jobs \ {cur[w]} : rows'[i] = rows[i]
        BY <1>0, <3>0, <3>1, <3>3, OneRow
      <3> QED BY <3>4 DEF Shown
    <2>2. ASSUME rows' = rows PROVE Shown' = Shown
      BY <2>2 DEF Shown
    <2> QED BY <2>1, <2>2 DEF Unseen, Take, Lock, GatePass, LoseClaim, rowVars
  <1> QED BY <1>1, <1>2, <1>3 DEF Promise!vars, Shown

(* A job begins. *)
LEMMA ClaimPromise ==
  ASSUME IInv, IInv', NEW w \in Workers, Claim(w)
  PROVE  Promise!Next
  <1>c. PICK c \in Jobs : c = cur[w]
    BY DEF IInv, WorkerOK, Claim
  <1>1. /\ rows[c].status = "pending" /\ rows' = [rows EXCEPT ![c] = Claimed(rows[c])]
        /\ UNCHANGED <<posts, lost, cur>> /\ pc[w] = "claim" /\ pc'[w] = "run"
        /\ \A v \in Workers \ {w} : pc'[v] = pc[v] /\ cur'[v] = cur[v]
    BY <1>c DEF Claim, Goto, IInv, TypeOK
  <1>2. InFlight' = InFlight \cup {c} /\ c \notin InFlight
    BY <1>c, <1>1, InFlightMoves DEF AtWork
  <1>3. Shown' = [Shown EXCEPT ![c] = "publishing"]
    <2>1. rows \in [Jobs -> Rows] /\ rows[c] \in Rows
      BY DEF IInv, TypeOK, RowsOK
    <2> QED BY <1>1, <2>1, ClaimedRow, OneRow, ShownOne
  <1>4. Promise!Start(c)
    BY <1>1, <1>2, <1>3 DEF Promise!Start, Shown
  <1> QED BY <1>4 DEF Promise!Next

(* A note is put up. *)
LEMMA PostPromise ==
  ASSUME IInv, IInv', NEW w \in Workers, Post(w)
  PROVE  Promise!Next
  <1>c. PICK c \in Jobs : c = cur[w]
    BY DEF IInv, WorkerOK, Post
  <1>1. /\ posts' = [posts EXCEPT ![c] = @ + 1]
        /\ UNCHANGED <<rows, lost, cur>> /\ pc[w] = "run" /\ pc'[w] = "posted"
        /\ \A v \in Workers \ {w} : pc'[v] = pc[v] /\ cur'[v] = cur[v]
    BY <1>c DEF Post, Goto, IInv, TypeOK
  <1>2. InFlight' = InFlight /\ c \in InFlight
    BY <1>c, <1>1, InFlightMoves DEF AtWork, InFlight
  <1>3. ~Owes(c)
    <2>1. posts[c] <= lost[c] /\ posts[c] \in Nat /\ lost[c] \in Nat
      BY <1>c, <1>1 DEF IInv, WorkerOK, TypeOK, RowsOK
    <2> QED BY <2>1 DEF Owes
  <1>4. Promise!Post(c)
    BY <1>1, <1>2, <1>3 DEF Promise!Post, Promise!Owes, Owes
  <1> QED BY <1>4 DEF Promise!Next

(* publish_once returns; an outcome is lost on the way, or in a write that    *)
(* raises for the first time.                                                *)
LEMMA ReturnPromise ==
  ASSUME IInv, IInv', NEW w \in Workers,
         (\E v \in Verdicts : Return(w, v)) \/ (FinishRaises(w) /\ ~rescue[w])
  PROVE  [Promise!Next]_(Promise!vars)
  <1>c. PICK c \in Jobs : c = cur[w]
    BY DEF IInv, WorkerOK, Return, FinishRaises
  <1>1. /\ UNCHANGED <<rows, posts, cur>> /\ pc[w] \in AtWork /\ pc'[w] = "finish"
        /\ lost' \in {lost, [lost EXCEPT ![c] = @ + 1]}
        /\ \A v \in Workers \ {w} : pc'[v] = pc[v] /\ cur'[v] = cur[v]
    BY <1>c DEF Return, FinishRaises, Goto, IInv, TypeOK, AtWork
  <1>2. InFlight' = InFlight /\ c \in InFlight
    BY <1>c, <1>1, InFlightMoves DEF AtWork, InFlight
  <1>3. CASE lost' = lost
    BY <1>1, <1>2, <1>3 DEF Promise!vars
  <1>4. CASE lost' = [lost EXCEPT ![c] = @ + 1]
    <2>1. lost' = [j \in Jobs |-> IF j \in {c} THEN lost[j] + 1 ELSE lost[j]]
      BY <1>4 DEF IInv, TypeOK, RowsOK
    <2>2. Promise!Lose({}, {c})
      BY <1>1, <1>2, <2>1 DEF Promise!Lose
    <2> QED BY <1>2, <2>2 DEF Promise!Next
  <1> QED BY <1>1, <1>3, <1>4

(* finish reads the row: a canceled job is left as it is.                    *)
LEMMA FinishReadPromise ==
  ASSUME IInv, IInv', NEW w \in Workers, FinishRead(w)
  PROVE  [Promise!Next]_(Promise!vars)
  <1>c. PICK c \in Jobs : c = cur[w]
    BY DEF IInv, WorkerOK, FinishRead
  <1>1. /\ UNCHANGED <<rows, posts, lost>> /\ pc[w] = "finish" /\ Held(c)
        /\ \A v \in Workers \ {w} : pc'[v] = pc[v] /\ cur'[v] = cur[v]
        /\ rows[c].status = "publishing" => pc'[w] = "write" /\ cur'[w] = cur[w]
        /\ rows[c].status # "publishing" => pc'[w] = "idle"
    BY <1>c DEF FinishRead, Goto, Leave, rowVars, IInv, TypeOK, WorkerOK, AtWork
  <1>2. CASE rows[c].status = "publishing"
    <2>1. InFlight' = InFlight
      BY <1>1, <1>2, InFlightMoves DEF AtWork
    <2> QED BY <1>1, <2>1 DEF Promise!vars
  <1>3. CASE rows[c].status # "publishing"
    <2>1. InFlight' = InFlight \ {c} /\ c \in InFlight
      BY <1>c, <1>1, <1>3, InFlightMoves DEF AtWork
    <2>2. Promise!Withdraw(c)
      BY <1>1, <1>3, <2>1 DEF Promise!Withdraw, Held
    <2> QED BY <2>2 DEF Promise!Next
  <1> QED BY <1>2, <1>3

(* finish writes what it has decided, whatever the row says by now.          *)
LEMMA FinishWritePromise ==
  ASSUME IInv, IInv', ReportsOK, NEW w \in Workers, NEW wait \in RetryWaits, FinishWrite(w, wait)
  PROVE  Promise!Next
  <1>c. PICK c \in Jobs : c = cur[w]
    BY DEF IInv, WorkerOK, FinishWrite
  <1> DEFINE s == Settled(rows[c], verdict[w], rows[c].retries, wait)
  <1>1. /\ UNCHANGED <<posts, lost>> /\ pc[w] = "write" /\ pc'[w] = "idle"
        /\ rows' = [rows EXCEPT ![c] = s]
        /\ \A v \in Workers \ {w} : pc'[v] = pc[v] /\ cur'[v] = cur[v]
    BY <1>c DEF FinishWrite, Goto, Leave, IInv, TypeOK
  <1>2. InFlight' = InFlight \ {c} /\ c \in InFlight
    BY <1>c, <1>1, InFlightMoves DEF AtWork
  <1>3. /\ verdict[w] \in {"ok", "fail", "dead"}
        /\ verdict[w] # "ok" => posts[c] <= lost[c]
        /\ verdict[w] = "ok" => posts[c] > 0
        /\ posts[c] \in Nat /\ lost[c] \in Nat
        /\ rows \in [Jobs -> Rows] /\ rows[c] \in Rows /\ wait \in Nat
    BY <1>c, <1>1, PublishAssumption DEF IInv, WorkerOK, Verdicts, ReportsOK, ShowsUp, TypeOK, RowsOK
  <1>4. s \in Rows /\ s.status \in {"published", "failed", "pending"}
        /\ (s.status = "published" <=> verdict[w] = "ok")
    BY <1>3, SettledRow
  <1> HIDE DEF s
  <1> PICK to \in {"published", "failed", "pending"} : to = s.status
    BY <1>4
  <1>5. Shown' = [Shown EXCEPT ![c] = to]
    <2>1. rows'[c] = s /\ \A k \in Jobs \ {c} : rows'[k] = rows[k]
      BY <1>1, <1>3, <1>4, OneRow
    <2> QED BY <2>1, ShownOne
  <1>6. Promise!Report(c, to)
    BY <1>1, <1>2, <1>3, <1>4, <1>5 DEF Promise!Report, Promise!Owes, Shown
  <1> QED BY <1>6 DEF Promise!Next

(* finish raises in the except branch too: the row is left publishing.       *)
LEMMA LeavePromise ==
  ASSUME IInv, IInv', NEW w \in Workers, FinishRaises(w), rescue[w]
  PROVE  Promise!Next
  <1>c. PICK c \in Jobs : c = cur[w]
    BY DEF IInv, WorkerOK, FinishRaises
  <1>1. /\ UNCHANGED <<rows, posts, lost>> /\ pc[w] \in {"finish", "write"} /\ pc'[w] = "idle"
        /\ \A v \in Workers \ {w} : pc'[v] = pc[v] /\ cur'[v] = cur[v]
        /\ verdict[w] = "fail"
    BY <1>c DEF FinishRaises, Goto, Leave, IInv, TypeOK, WorkerOK
  <1>2. InFlight' = InFlight \ {c} /\ c \in InFlight
    BY <1>c, <1>1, InFlightMoves DEF AtWork
  <1>3. posts[c] <= lost[c] /\ posts[c] \in Nat /\ lost[c] \in Nat
    BY <1>c, <1>1 DEF IInv, WorkerOK, TypeOK, RowsOK
  <1>4. Promise!Lose({c}, {})
    BY <1>1, <1>2, <1>3 DEF Promise!Lose, Promise!Owes, IInv, TypeOK, RowsOK
  <1> QED BY <1>2, <1>4 DEF Promise!Next

(* The process restarts: what was executed ends, and its outcome is lost      *)
(* unless it had been given up.                                              *)
LEMMA RestartPromise ==
  ASSUME IInv, IInv', Restart
  PROVE  Promise!Next
  <1> DEFINE L == {j \in Jobs : \E w \in Workers : cur[w] = j /\ pc[w] \in AtWork /\ ~rescue[w]}
  <1>1. /\ UNCHANGED <<rows, posts>> /\ InFlight' = {}
        /\ lost' = [j \in Jobs |-> IF j \in L THEN lost[j] + 1 ELSE lost[j]]
    BY DEF Restart, InFlight, AtWork
  <1>2. InFlight \subseteq Jobs /\ L \subseteq InFlight
    BY DEF InFlight, IInv, WorkerOK, AtWork
  <1>3. ASSUME NEW j \in InFlight \ L PROVE ~Owes(j)
    <2>1. PICK w \in Workers : cur[w] = j /\ pc[w] \in AtWork
      BY DEF InFlight
    <2>2. rescue[w]
      BY <1>2, <2>1
    <2>3. posts[j] <= lost[j] /\ posts[j] \in Nat /\ lost[j] \in Nat
      BY <1>2, <2>1, <2>2 DEF IInv, WorkerOK, TypeOK, RowsOK
    <2> QED BY <2>3 DEF Owes
  <1> HIDE DEF L
  <1>4. Promise!Lose(InFlight, L)
    BY <1>1, <1>2, <1>3 DEF Promise!Lose, Promise!Owes, Owes
  <1> QED BY <1>2, <1>4 DEF Promise!Next

(* Every step of the deployment is one of the promise, or none.              *)
LEMMA PromiseSteps ==
  ASSUME IInv, IInv', ReportsOK, [Next]_vars
  PROVE  [Promise!Next]_(Promise!vars)
  <1>1. CASE UNCHANGED vars
    BY <1>1 DEF vars, rowVars, workerVars, Promise!vars, InFlight
  <1>2. CASE Scan
    BY <1>2 DEF Scan, rowVars, workerVars, Promise!vars, InFlight
  <1>3. ASSUME NEW w \in Workers, FinishRaises(w) PROVE [Promise!Next]_(Promise!vars)
    BY <1>3, ReturnPromise, LeavePromise
  <1>4. ASSUME NEW w \in Workers, Run(w) PROVE [Promise!Next]_(Promise!vars)
    BY <1>4, UnseenPromise, ClaimPromise, PostPromise, ReturnPromise, FinishReadPromise,
       FinishWritePromise DEF Run, Unseen, Verdicts
  <1> QED BY <1>1, <1>2, <1>3, <1>4, DriftPromise, RestartPromise DEF Next

(* Once created, a job does not vanish. *)
LEMMA JobsStay ==
  ASSUME [Promise!Next]_(Promise!vars), NEW j \in Jobs, rows'[j].status = "none"
  PROVE  rows[j].status = "none"
  <1>1. Shown'[j] = rows'[j].status /\ Shown[j] = rows[j].status
    BY DEF Shown
  <1>2. CASE UNCHANGED Promise!vars
    BY <1>1, <1>2 DEF Promise!vars, Shown
  <1>3. CASE Promise!Next
    BY <1>1, <1>3 DEF Promise!Next, Promise!Create, Promise!Cancel, Promise!Start, Promise!Post,
                      Promise!Withdraw, Promise!Report, Promise!Lose, Promise!GiveBack, Shown
  <1> QED BY <1>2, <1>3

(* Reports stay true. *)
LEMMA ReportsKept ==
  ASSUME IInv, IInv', ReportsOK, [Next]_vars
  PROVE  ReportsOK'
  <1>1. ASSUME NEW j \in cancels' PROVE rows'[j].status # "none"
    <2>1. j \in Jobs /\ (j \in cancels \/ rows[j].status = "pending")
      <3>1. \/ cancels' = cancels \/ cancels' = {}
            \/ \E i \in Jobs : CancelRead(i) \/ CancelWrite(i)
        BY DEF Next, vars, rowVars, Rest, Create, Patch, Time, Tick, Midnight, Recover, Scan, Restart,
               Run, Take, Lock, GatePass, GateDeny, Claim, LoseClaim, Post, Return, FinishRead,
               FinishWrite, FinishRaises
      <3>2. cancels' \in SUBSET Jobs
        BY DEF IInv, TypeOK, RowsOK
      <3> QED BY <3>1, <3>2 DEF CancelRead, CancelWrite
    <2>2. rows[j].status # "none"
      BY <2>1 DEF ReportsOK
    <2> QED BY <2>1, <2>2, PromiseSteps, JobsStay
  <1>2. ASSUME NEW w \in Workers, ShowsUp(w)' PROVE posts'[cur'[w]] > 0
    <2> DEFINE Goal == posts'[cur'[w]] > 0
               Still == /\ UNCHANGED posts
                        /\ pc'[w] = pc[w] /\ cur'[w] = cur[w] /\ verdict'[w] = verdict[w]
    <2>0. Still => Goal
      BY <1>2 DEF ReportsOK, ShowsUp
    <2>1. CASE UNCHANGED vars \/ Rest \/ Time \/ Recover \/ Scan
      BY <2>0, <2>1 DEF vars, Rest, Time, Recover, Scan, Create, Patch, CancelRead, CancelWrite,
                        Tick, Midnight, rowVars, workerVars
    <2>2. ~Restart
      BY <1>2 DEF Restart, ShowsUp
    <2>3. ASSUME NEW v \in Workers, UNCHANGED posts,
                 pc'[v] \notin {"posted", "finish", "write"},
                 \A u \in Workers \ {v} : pc'[u] = pc[u] /\ cur'[u] = cur[u] /\ verdict'[u] = verdict[u]
          PROVE  Goal
      BY <1>2, <2>0, <2>3 DEF ShowsUp
    <2>4. ASSUME NEW v \in Workers,
                 Unseen(v) \/ Claim(v) \/ \E wait \in RetryWaits : FinishWrite(v, wait)
          PROVE  Goal
      <3>1. UNCHANGED posts /\ pc'[v] \notin {"posted", "finish", "write"}
            /\ \A u \in Workers \ {v} : pc'[u] = pc[u] /\ cur'[u] = cur[u] /\ verdict'[u] = verdict[u]
        BY <2>4 DEF Unseen, Take, Lock, GatePass, LoseClaim, GateDeny, Claim, FinishWrite, Leave, Goto,
                    rowVars, IInv, TypeOK
      <3> QED BY <2>3, <3>1
    <2>5. ASSUME NEW v \in Workers, FinishRead(v) PROVE Goal
      <3>1. /\ UNCHANGED posts /\ pc[v] = "finish"
            /\ \A u \in Workers \ {v} : pc'[u] = pc[u] /\ cur'[u] = cur[u] /\ verdict'[u] = verdict[u]
            /\ \/ pc'[v] = "idle"
               \/ pc'[v] = "write" /\ cur'[v] = cur[v] /\ verdict'[v] = verdict[v]
        BY <2>5 DEF FinishRead, Leave, Goto, rowVars, IInv, TypeOK
      <3>2. CASE v = w
        BY <1>2, <3>1, <3>2 DEF ShowsUp, ReportsOK
      <3>3. CASE v # w
        BY <2>0, <3>1, <3>3
      <3> QED BY <3>2, <3>3
    <2>6. ASSUME NEW v \in Workers, Post(v) PROVE Goal
      <3>1. /\ posts \in [Jobs -> Nat] /\ cur[v] \in Jobs /\ posts' = [posts EXCEPT ![cur[v]] = @ + 1]
            /\ \A u \in Workers \ {v} : pc'[u] = pc[u]
            /\ UNCHANGED <<cur, verdict>>
        BY <2>6 DEF Post, Goto, IInv, TypeOK, RowsOK, WorkerOK
      <3>2. \A j \in Jobs : posts'[j] >= posts[j] /\ posts[j] \in Nat
        BY <3>1
      <3>3. CASE v = w
        BY <3>1, <3>3
      <3>4. CASE v # w
        <4>1. ShowsUp(w)
          BY <1>2, <3>1, <3>4 DEF ShowsUp
        <4>2. cur[w] \in Jobs /\ posts[cur[w]] > 0
          BY <4>1 DEF IInv, WorkerOK, ShowsUp, ReportsOK
        <4> QED BY <3>1, <3>2, <4>2
      <3> QED BY <3>3, <3>4
    <2>7. ASSUME NEW v \in Workers, (\E r \in Verdicts : Return(v, r)) \/ FinishRaises(v) PROVE Goal
      <3>1. /\ UNCHANGED posts
            /\ \A u \in Workers \ {v} : pc'[u] = pc[u] /\ cur'[u] = cur[u] /\ verdict'[u] = verdict[u]
        BY <2>7 DEF Return, FinishRaises, Leave, Goto, IInv, TypeOK
      <3>2. CASE v # w
        BY <2>0, <3>1, <3>2
      <3>3. CASE v = w
        <4>1. pc[w] = "posted" /\ cur'[w] = cur[w]
          BY <1>2, <2>7, <3>3 DEF Return, FinishRaises, Leave, Goto, ShowsUp, IInv, TypeOK
        <4> QED BY <3>1, <4>1 DEF ReportsOK, ShowsUp
      <3> QED BY <3>2, <3>3
    <2>8. ASSUME NEW v \in Workers, Run(v) PROVE Goal
      BY <2>4, <2>5, <2>6, <2>7, <2>8 DEF Run, Unseen, Verdicts
    <2> HIDE DEF Still
    <2> QED BY <2>1, <2>2, <2>7, <2>8 DEF Next
  <1> QED BY <1>1, <1>2 DEF ReportsOK

(* The single process keeps the promise of the publish_jobs table too,       *)
(* although its finish writes over a cancel that comes while it decides.      *)
THEOREM InlineKeepsPromise == Spec => KeepsPublishPromise
  <1>1. Init => ReportsOK /\ Promise!Init
    BY DEF Init, RowsInit, Idle, ReportsOK, ShowsUp, Promise!Init, InFlight, AtWork
  <1>2. IInv /\ IInv' /\ ReportsOK /\ [Next]_vars => ReportsOK' /\ [Promise!Next]_(Promise!vars)
    BY ReportsKept, PromiseSteps
  <1> QED BY <1>1, <1>2, Invariant, PTL DEF Spec, KeepsPublishPromise, Promise!Spec
=============================================================================
