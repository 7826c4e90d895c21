------------------------ MODULE PublishWorker_proofs ------------------------
(***************************************************************************)
(* Proofs about PublishWorker, for any jobs, accounts and bounds.          *)
(*                                                                         *)
(* The lemmas on the row updates come first.  The steps                     *)
(* of everything but the children are summarised by what they may do to a  *)
(* row (Drift), so that the inductive invariant is looked at once for all   *)
(* of them and once for each step of a child.                              *)
(***************************************************************************)
EXTENDS PublishWorker, FiniteSetTheorems, TLAPS

(***************************************************************************)
(* Row updates: what each write to the publish_jobs table does to the        *)
(* columns the invariants read.                                            *)
(***************************************************************************)

(* MaxAge is a number that the cooldown can reach. *)
LEMMA AgeRange == MaxAge \in Nat /\ MinInterval <= MaxAge /\ JobTimeout <= MaxAge
BY PublishAssumption, SMT DEF MaxAge

LEMMA RowFields ==
  ASSUME NEW r \in Rows
  PROVE  /\ r.status \in Statuses /\ r.age \in 0..MaxAge \cup {Null} /\ r.today \in BOOLEAN
         /\ r.made \in BOOLEAN /\ r.wait \in Nat /\ r.sched \in Schedule
         /\ r.retries \in 0..MaxRetries /\ r.text \in 0..MaxPatches
BY Zenon DEF Rows

(* Giving a job back or giving it up: status is set, started_at cleared. *)
LEMMA UnstartRow ==
  ASSUME NEW r \in Rows, NEW s \in Statuses
  PROVE  /\ Unstart(r, s) \in Rows
         /\ Unstart(r, s).status = s /\ Unstart(r, s).age = Null
         /\ Unstart(r, s).retries = r.retries /\ Unstart(r, s).text = r.text
BY DEF Unstart, Rows

(* Writing next_retry_at. *)
LEMMA PutOffRow ==
  ASSUME NEW r \in Rows, NEW d \in Nat
  PROVE  /\ PutOff(r, d) \in Rows
         /\ PutOff(r, d).status = r.status /\ PutOff(r, d).age = r.age
         /\ PutOff(r, d).today = r.today /\ PutOff(r, d).retries = r.retries
         /\ PutOff(r, d).text = r.text
BY DEF PutOff, Rows

LEMMA ClaimedRow ==
  ASSUME NEW r \in Rows
  PROVE  /\ Claimed(r) \in Rows
         /\ Claimed(r).status = "publishing" /\ Claimed(r).age = 0
         /\ Claimed(r).retries = r.retries /\ Claimed(r).text = r.text
<1>1. 0 \in 0..MaxAge \cup {Null} /\ "publishing" \in Statuses
  BY AgeRange DEF Statuses
<1> QED BY <1>1 DEF Claimed, Rows

LEMMA CreatedRow ==
  ASSUME NEW r \in Rows, NEW w \in Schedule
  PROVE  /\ Created(r, w) \in Rows
         /\ Created(r, w).status = "pending" /\ Created(r, w).retries = r.retries
         /\ Created(r, w).text = r.text
BY DEF Created, Rows, Statuses

LEMMA PatchedRow ==
  ASSUME NEW r \in Rows, NEW w \in Schedule, r.text < MaxPatches
  PROVE  /\ Patched(r, w) \in Rows
         /\ Patched(r, w).status = r.status /\ Patched(r, w).age = r.age
         /\ Patched(r, w).today = r.today /\ Patched(r, w).retries = r.retries
<1>1. r.text + 1 \in 0..MaxPatches
  BY PublishAssumption DEF Rows
<1> QED BY <1>1 DEF Patched, Rows

LEMMA CanceledRow ==
  ASSUME NEW r \in Rows
  PROVE  /\ Canceled(r) \in Rows
         /\ Canceled(r).status = "canceled" /\ Canceled(r).retries = r.retries
         /\ Canceled(r).text = r.text
BY DEF Canceled, Rows, Statuses

(* Time passing. *)
LEMMA OlderRow ==
  ASSUME NEW r \in Rows
  PROVE  /\ Older(r) \in Rows
         /\ Older(r).status = r.status /\ Older(r).retries = r.retries
         /\ Older(r).today = r.today /\ Older(r).text = r.text
         /\ r.age = Null => Older(r).age = Null
         /\ r.age # Null => Older(r).age \in Nat /\ Older(r).age >= r.age
<1> DEFINE age == IF r.age = Null \/ r.age = MaxAge THEN r.age ELSE r.age + 1
           wait == IF r.wait = 0 THEN 0 ELSE r.wait - 1
           sched == IF r.sched = Tomorrow THEN r.sched ELSE 0
<1>1. /\ age \in 0..MaxAge \cup {Null}
      /\ r.age = Null => age = Null
      /\ r.age # Null => age \in Nat /\ age >= r.age
  BY RowFields, AgeRange, PublishAssumption, SMT
<1>2. wait \in Nat /\ sched \in Schedule
  BY RowFields, SMT DEF Schedule
<1>3. Older(r) = [r EXCEPT !.age = age, !.wait = wait, !.sched = sched]
  BY DEF Older
<1> HIDE DEF age, wait, sched
<1> QED BY <1>1, <1>2, <1>3 DEF Rows

(* A day ending. *)
LEMMA NextDayRow ==
  ASSUME NEW r \in Rows
  PROVE  /\ NextDay(r) \in Rows
         /\ NextDay(r).status = r.status /\ NextDay(r).retries = r.retries
         /\ NextDay(r).age = r.age /\ NextDay(r).today = FALSE
         /\ NextDay(r).text = r.text
<1>1. (IF r.sched = Tomorrow THEN 1 ELSE 0) \in Schedule
  BY DEF Schedule
<1> QED BY <1>1 DEF NextDay, Rows

(* Giving a job back with a delay. *)
LEMMA RequeuedRow ==
  ASSUME NEW r \in Rows, NEW d \in Nat
  PROVE  /\ Requeued(r, d) \in Rows
         /\ Requeued(r, d).status = "pending" /\ Requeued(r, d).age = Null
         /\ Requeued(r, d).retries = r.retries /\ Requeued(r, d).text = r.text
BY UnstartRow, PutOffRow DEF Requeued, Statuses

(* Recording an execution. *)
LEMMA SettledRow ==
  ASSUME NEW r \in Rows, NEW v \in {"ok", "fail", "dead"}, NEW w \in Nat
  PROVE  /\ Settled(r, v, r.retries, w) \in Rows
         /\ v = "ok" => /\ Settled(r, v, r.retries, w).status = "published"
                        /\ Settled(r, v, r.retries, w).retries = r.retries
                        /\ Settled(r, v, r.retries, w).age = r.age
                        /\ Settled(r, v, r.retries, w).today = r.today
         /\ v # "ok" => /\ \/ /\ Settled(r, v, r.retries, w).status = "pending"
                              /\ Settled(r, v, r.retries, w).retries = r.retries + 1
                           \/ /\ Settled(r, v, r.retries, w).status = "failed"
                              /\ Settled(r, v, r.retries, w).retries = r.retries
                        /\ Settled(r, v, r.retries, w).age = Null
<1>1. CASE v = "ok"
  BY <1>1 DEF Settled, Rows, Statuses
<1>2. CASE v = "fail" /\ r.retries < MaxRetries
  <2> DEFINE u == Requeued(r, w)
             again == r.retries + 1
  <2>1. u \in Rows /\ u.status = "pending" /\ u.age = Null /\ u.retries = r.retries
    BY RequeuedRow
  <2>2. again \in 0..MaxRetries
    BY <1>2, RowFields, PublishAssumption, SMT
  <2>3. Settled(r, v, r.retries, w) = [u EXCEPT !.retries = again]
    BY <1>2, <2>1 DEF Settled
  <2> HIDE DEF u
  <2>4. again = r.retries + 1
    OBVIOUS
  <2> HIDE DEF again
  <2>5. [u EXCEPT !.retries = again] \in Rows /\ [u EXCEPT !.retries = again].status = "pending"
        /\ [u EXCEPT !.retries = again].age = Null /\ [u EXCEPT !.retries = again].retries = again
    BY <2>1, <2>2 DEF Rows
  <2> QED BY <1>2, <2>3, <2>4, <2>5
<1>3. CASE v # "ok" /\ ~(v = "fail" /\ r.retries < MaxRetries)
  <2>1. Settled(r, v, r.retries, w) = Unstart(r, "failed")
    BY <1>3, Zenon DEF Settled
  <2> QED BY <1>3, <2>1, UnstartRow DEF Statuses
<1> QED BY <1>1, <1>2, <1>3, Zenon

(* One row is rewritten. *)
LEMMA OneRow ==
  ASSUME NEW f \in [Jobs -> Rows], NEW g, NEW c \in Jobs, NEW r \in Rows,
         g = [f EXCEPT ![c] = r]
  PROVE  g \in [Jobs -> Rows] /\ g[c] = r /\ \A k \in Jobs \ {c} : g[k] = f[k]
BY Zenon

(***************************************************************************)
(* The inductive invariant                                                 *)
(***************************************************************************)

Open(j) == rows[j].status \in {"none", "pending", "publishing"}
Held(j) == rows[j].status = "publishing" \/ (j \in Editable /\ rows[j].status = "canceled")

(* A child is executing j; it has put j's note up and may still say so. *)
Busy(j) == pc[Account[j]] \in Running /\ cur[Account[j]] = j
Noted(j) == Busy(j) /\ pc[Account[j]] # "run" /\ (pc[Account[j]] = "apply" => verdict[Account[j]] = "ok")

(* A child works on a job of its account, has seen its retries, holds it     *)
(* while it executes it, and starts it when the account has cooled down.     *)
ChildOK(a) ==
  /\ batch[a] \subseteq JobsOf(a)
  /\ pc[a] \in Phases \ {"off", "next"} => cur[a] \in JobsOf(a)
  /\ pc[a] \in Phases \ {"off", "next", "finally"} => loaded[a].retries = rows[cur[a]].retries
  /\ pc[a] = "claim" => Cooled(cur[a], MinInterval)
  /\ pc[a] = "run" => posts[cur[a]] <= lost[cur[a]]
  /\ pc[a] \in Running => Held(cur[a])
  /\ pc[a] = "apply" => verdict[a] \in {"ok", "fail", "dead"}
  /\ pc[a] = "rescue" => verdict[a] = "fail"

(* What has been published and executed is accounted for by what was lost;   *)
(* a job that may run again owes nothing, unless it is being executed.       *)
JobOK(j) ==
  /\ posts[j] <= 1 + lost[j]
  /\ attempts[j] <= rows[j].retries + 1 + lost[j]
  /\ Open(j) /\ ~Noted(j) => posts[j] <= lost[j]
  /\ Open(j) /\ ~Busy(j) => attempts[j] <= rows[j].retries + lost[j]

CancelsOK == cancels \subseteq Editable

IInv ==
  /\ TypeOK /\ CancelsOK
  /\ \A a \in Accounts : ChildOK(a)
  /\ \A j \in Jobs : JobOK(j)

(* The invariant holds at the start. *)
LEMMA InitIInv == Init => IInv
  <1> SUFFICES ASSUME Init PROVE IInv
    OBVIOUS
  <1> USE PublishAssumption, WorkerAssumption DEF Init, RowsInit, Fresh
  <1>1. TypeOK
    <2>1. rows \in [Jobs -> Rows]
      BY AgeRange DEF Rows, Statuses, Schedule
    <2>2. RowsOK
      BY <2>1, Zenon DEF RowsOK
    <2>3. loaded \in [Accounts -> [text: 0..MaxPatches, retries: 0..MaxRetries]]
      OBVIOUS
    <2>4. batch \in [Accounts -> SUBSET Jobs] /\ due \in SUBSET Jobs
      OBVIOUS
    <2> QED BY <2>2, <2>3, <2>4 DEF TypeOK, Phases, Running
  <1>2. \A a \in Accounts : ChildOK(a)
    BY DEF ChildOK, Running
  <1>3. \A j \in Jobs : JobOK(j)
    BY DEF JobOK, Busy, Noted, Running
  <1>4. CancelsOK
    BY DEF CancelsOK
  <1> HIDE DEF Init
  <1> QED BY <1>1, <1>2, <1>3, <1>4, Zenon DEF IInv

(***************************************************************************)
(* Everything but the children                                             *)
(***************************************************************************)

(* What a step of the REST handlers, of time or of the supervisor's scan may *)
(* do to row j: no retry is used, a live child's job keeps its status unless *)
(* an operator cancels it, and no job begins or becomes younger.             *)
RowDrift(j) ==
  /\ rows'[j] \in Rows /\ rows'[j].retries = rows[j].retries
  /\ \/ rows'[j].status = rows[j].status
     \/ rows[j].status = "none" /\ rows'[j].status = "pending"
     \/ j \in Editable /\ rows'[j].status = "canceled"
     \/ rows[j].status = "publishing" /\ rows'[j].status = "pending" /\ ~Live(Account[j])
  /\ Begun(j)' => Begun(j) /\ rows'[j].age >= rows[j].age
  /\ rows'[j].status = "published" /\ rows'[j].today
       => rows[j].status = "published" /\ rows[j].today

Drift ==
  /\ rows' \in [Jobs -> Rows] /\ \A j \in Jobs : RowDrift(j)
  /\ UNCHANGED <<childVars, posts, attempts, lost>>

(* A row that stays as it is drifts. *)
LEMMA StillDrifts ==
  ASSUME TypeOK, NEW j \in Jobs, rows'[j] = rows[j]
  PROVE  RowDrift(j)
  <1>1. rows[j] \in Rows
    BY DEF TypeOK, RowsOK
  <1>2. Begun(j)' => Begun(j) /\ rows'[j].age >= rows[j].age
    BY <1>1, RowFields, AgeRange, SMT DEF Begun
  <1> QED BY <1>1, <1>2 DEF RowDrift

(* One row rewritten, the others left alone. *)
LEMMA OneDrifts ==
  ASSUME TypeOK, NEW c \in Jobs, NEW r \in Rows, rows' = [rows EXCEPT ![c] = r],
         RowDrift(c), UNCHANGED <<childVars, posts, attempts, lost>>
  PROVE  Drift
  <1>1. rows' \in [Jobs -> Rows] /\ \A k \in Jobs \ {c} : rows'[k] = rows[k]
    BY OneRow DEF TypeOK, RowsOK
  <1> QED BY <1>1, StillDrifts DEF Drift

(* The REST handlers. *)
LEMMA RestDrifts ==
  ASSUME TypeOK, CancelsOK, Rest
  PROVE  Drift /\ CancelsOK'
  <1> USE DEF Rest
  <1>0. \A j \in Jobs : rows[j] \in Rows
    BY DEF TypeOK, RowsOK
  <1>1. PICK j \in Jobs :
          \/ \E when \in Schedule : Create(j, when) \/ Patch(j, when)
          \/ CancelRead(j) \/ CancelWrite(j)
    OBVIOUS
  <1>2. ASSUME NEW when \in Schedule, Create(j, when) PROVE Drift /\ CancelsOK'
    <2> DEFINE eff == EffectiveSchedule(Account[j], when)
    <2>1. eff \in Schedule
      BY SMT DEF EffectiveSchedule, Schedule, Tomorrow
    <2> HIDE DEF eff
    <2>2. rows' = [rows EXCEPT ![j] = Created(rows[j], eff)] /\ rows[j].status = "none"
          /\ UNCHANGED <<cancels, posts, attempts, lost>>
      BY <1>2 DEF Create, eff
    <2>3. /\ Created(rows[j], eff) \in Rows
          /\ Created(rows[j], eff).status = "pending"
          /\ Created(rows[j], eff).retries = rows[j].retries
      BY <1>0, <2>1, CreatedRow
    <2>4. rows'[j] = Created(rows[j], eff)
      BY <2>2, <2>3, OneRow DEF TypeOK, RowsOK
    <2>5. RowDrift(j)
      BY <2>2, <2>3, <2>4 DEF RowDrift, Begun
    <2> QED BY <2>2, <2>3, <2>5, OneDrifts DEF CancelsOK
  <1>3. ASSUME NEW when \in Schedule, Patch(j, when) PROVE Drift /\ CancelsOK'
    <2>1. rows' = [rows EXCEPT ![j] = Patched(rows[j], when)] /\ rows[j].text < MaxPatches
          /\ UNCHANGED <<cancels, posts, attempts, lost>>
      BY <1>3 DEF Patch
    <2>2. /\ Patched(rows[j], when) \in Rows
          /\ Patched(rows[j], when).status = rows[j].status
          /\ Patched(rows[j], when).age = rows[j].age
          /\ Patched(rows[j], when).today = rows[j].today
          /\ Patched(rows[j], when).retries = rows[j].retries
      BY <1>0, <2>1, PatchedRow
    <2>3. rows'[j] = Patched(rows[j], when)
      BY <2>1, <2>2, OneRow DEF TypeOK, RowsOK
    <2>4. Begun(j)' => Begun(j) /\ rows'[j].age >= rows[j].age
      BY <1>0, <2>2, <2>3, RowFields, AgeRange, SMT DEF Begun
    <2>5. RowDrift(j)
      BY <2>2, <2>3, <2>4 DEF RowDrift
    <2> QED BY <2>1, <2>2, <2>5, OneDrifts DEF CancelsOK
  <1>4. CASE CancelRead(j)
    BY <1>4, StillDrifts DEF CancelRead, CancelsOK, Drift, TypeOK, RowsOK
  <1>5. CASE CancelWrite(j)
    <2>1. rows' = [rows EXCEPT ![j] = Canceled(rows[j])] /\ j \in Editable
          /\ cancels' = cancels \ {j} /\ UNCHANGED <<posts, attempts, lost>>
      BY <1>5 DEF CancelWrite, CancelsOK
    <2>2. /\ Canceled(rows[j]) \in Rows /\ Canceled(rows[j]).status = "canceled"
          /\ Canceled(rows[j]).retries = rows[j].retries
      BY <1>0, CanceledRow
    <2>3. rows'[j] = Canceled(rows[j])
      BY <2>1, <2>2, OneRow DEF TypeOK, RowsOK
    <2>4. RowDrift(j)
      BY <2>1, <2>2, <2>3 DEF RowDrift, Begun
    <2> QED BY <2>1, <2>2, <2>4, OneDrifts DEF CancelsOK
  <1> QED BY <1>1, <1>2, <1>3, <1>4, <1>5

(* Time. *)
LEMMA TimeDrifts ==
  ASSUME TypeOK, Time
  PROVE  Drift /\ UNCHANGED cancels
  <1>0. \A j \in Jobs : rows[j] \in Rows
    BY DEF TypeOK, RowsOK
  <1>1. CASE Tick
    <2>1. rows' = [j \in Jobs |-> Older(rows[j])]
      BY <1>1 DEF Tick
    <2>2. ASSUME NEW j \in Jobs PROVE RowDrift(j)
      <3>1. rows'[j] = Older(rows[j])
        BY <2>1
      <3>2. Begun(j)' => Begun(j) /\ rows'[j].age >= rows[j].age
        BY <3>1, <1>0, OlderRow, Zenon DEF Begun
      <3> QED BY <1>0, <3>1, <3>2, OlderRow DEF RowDrift
    <2> QED BY <1>0, <1>1, <2>1, <2>2, OlderRow DEF Drift, Tick, Time
  <1>2. CASE Midnight
    <2>1. rows' = [j \in Jobs |-> NextDay(rows[j])]
      BY <1>2 DEF Midnight
    <2>2. ASSUME NEW j \in Jobs PROVE RowDrift(j)
      <3>1. rows'[j] = NextDay(rows[j])
        BY <2>1
      <3>2. Begun(j)' => Begun(j) /\ rows'[j].age >= rows[j].age
        <4>1. rows[j].age # Null => rows[j].age >= rows[j].age
          BY <1>0, RowFields, AgeRange, SMT
        <4> QED BY <3>1, <4>1, <1>0, NextDayRow, Zenon DEF Begun
      <3> QED BY <1>0, <3>1, <3>2, NextDayRow DEF RowDrift
    <2> QED BY <1>0, <1>2, <2>1, <2>2, NextDayRow DEF Drift, Midnight, Time
  <1> QED BY <1>1, <1>2 DEF Time, Tick, Midnight

(* Recovery. *)
LEMMA RecoverDrifts ==
  ASSUME TypeOK, Recover
  PROVE  Drift /\ UNCHANGED <<cancels, due>>
  <1>0. \A j \in Jobs : rows[j] \in Rows
    BY DEF TypeOK, RowsOK
  <1>1. rows' = [j \in Jobs |-> IF Stalled(j) /\ j \notin SparedByChildren
                                THEN Unstart(rows[j], "pending") ELSE rows[j]]
    BY DEF Recover, RecoverRows
  <1>2. ASSUME NEW j \in Jobs PROVE RowDrift(j)
    <2>1. CASE Stalled(j) /\ j \notin SparedByChildren
      <3>1. rows'[j] = Unstart(rows[j], "pending")
        BY <1>1, <2>1
      <3>2. /\ rows'[j] \in Rows /\ rows'[j].status = "pending"
            /\ rows'[j].retries = rows[j].retries
        BY <3>1, <1>0, UnstartRow DEF Statuses
      <3> QED BY <2>1, <3>2 DEF RowDrift, Begun, Stalled, SparedByChildren
    <2>2. CASE ~(Stalled(j) /\ j \notin SparedByChildren)
      <3>1. rows'[j] = rows[j]
        BY <1>1, <2>2
      <3> QED BY <3>1, StillDrifts
    <2> QED BY <2>1, <2>2
  <1>3. rows' \in [Jobs -> Rows]
    BY <1>1, <1>2 DEF RowDrift
  <1> QED BY <1>2, <1>3 DEF Drift, Recover

(* What drifts keeps the children's and the jobs' invariants. *)
LEMMA DriftKeeps ==
  ASSUME IInv, Drift
  PROVE  (\A a \in Accounts : ChildOK(a)') /\ (\A j \in Jobs : JobOK(j)')
  <1>0. /\ UNCHANGED <<pc, batch, cur, loaded, verdict, posts, attempts, lost>>
        /\ \A j \in Jobs : RowDrift(j) /\ rows[j] \in Rows /\ rows'[j] \in Rows
    BY DEF IInv, TypeOK, RowsOK, Drift, childVars
  <1>1. ASSUME NEW a \in Accounts PROVE ChildOK(a)'
    <2>1. ChildOK(a) /\ \A j \in JobsOf(a) : j \in Jobs /\ Account[j] = a
      BY DEF IInv, JobsOf
    <2>2. pc[a] = "claim" => Cooled(cur[a], MinInterval)'
      <3> SUFFICES ASSUME pc[a] = "claim", NEW k \in Siblings(cur[a])'
                   PROVE  rows'[k].age >= MinInterval
        BY <1>0 DEF Cooled
      <3>1. k \in Jobs /\ k \in Siblings(cur[a]) /\ rows'[k].age >= rows[k].age
            /\ rows[k].age # Null /\ rows'[k].age # Null
        BY <1>0 DEF Siblings, RowDrift, JobsOf, Begun
      <3>2. rows[k].age >= MinInterval
        BY <2>1, <3>1 DEF ChildOK, Cooled
      <3>3. rows[k].age \in Nat /\ rows'[k].age \in Nat
        BY <1>0, <3>1, RowFields, AgeRange, SMT
      <3> QED BY <3>1, <3>2, <3>3, PublishAssumption, SMT
    <2>3. pc[a] \in Running => Held(cur[a])'
      BY <1>0, <2>1 DEF ChildOK, Held, RowDrift, Live, Running, Phases
    <2>4. pc[a] \in Phases \ {"off", "next", "finally"} => loaded[a].retries = rows'[cur[a]].retries
      BY <1>0, <2>1 DEF ChildOK, RowDrift, Phases
    <2> QED BY <1>0, <2>1, <2>2, <2>3, <2>4 DEF ChildOK, JobsOf
  <1>2. ASSUME NEW j \in Jobs PROVE JobOK(j)'
    <2>1. JobOK(j) /\ RowDrift(j)
      BY <1>0 DEF IInv
    <2>2. Open(j)' => Open(j)
      BY <2>1 DEF Open, RowDrift
    <2>3. Busy(j)' <=> Busy(j)
      BY <1>0 DEF Busy
    <2>4. Noted(j)' <=> Noted(j)
      BY <1>0 DEF Busy, Noted
    <2>5. rows'[j].retries = rows[j].retries
      BY <2>1 DEF RowDrift
    <2> QED BY <1>0, <2>1, <2>2, <2>3, <2>4, <2>5, Zenon DEF JobOK
  <1> QED BY <1>1, <1>2

(***************************************************************************)
(* The children                                                            *)
(***************************************************************************)

(* A step that concerns only account a's child and jobs leaves the other     *)
(* children and their jobs as they were.                                     *)
LEMMA OthersKept ==
  ASSUME IInv, NEW a \in Accounts,
         \A k \in Jobs \ JobsOf(a) : /\ rows'[k] = rows[k] /\ posts'[k] = posts[k]
                                     /\ attempts'[k] = attempts[k] /\ lost'[k] = lost[k],
         \A b \in Accounts \ {a} : /\ pc'[b] = pc[b] /\ batch'[b] = batch[b] /\ cur'[b] = cur[b]
                                   /\ loaded'[b] = loaded[b] /\ verdict'[b] = verdict[b]
  PROVE  /\ \A b \in Accounts \ {a} : ChildOK(b)'
         /\ \A j \in Jobs \ JobsOf(a) : JobOK(j)'
  <1>1. ASSUME NEW b \in Accounts \ {a} PROVE ChildOK(b)'
    <2>1. ChildOK(b) /\ JobsOf(b) \subseteq Jobs \ JobsOf(a)
      BY DEF IInv, JobsOf
    <2>2. pc[b] = "claim" => Cooled(cur[b], MinInterval)'
      BY <2>1 DEF ChildOK, Cooled, Siblings, Begun, JobsOf, Phases
    <2>3. pc[b] \in Running => Held(cur[b])'
      BY <2>1 DEF ChildOK, Held, Running, Phases
    <2>4. pc[b] \in Phases \ {"off", "next"} => cur[b] \in JobsOf(b)
      BY <2>1 DEF ChildOK
    <2>5. pc[b] \in Phases \ {"off", "next", "finally"} => loaded[b].retries = rows'[cur[b]].retries
      BY <2>1, <2>4 DEF ChildOK
    <2>6. pc[b] = "run" => posts'[cur[b]] <= lost'[cur[b]]
      BY <2>1, <2>4 DEF ChildOK, Phases, Running
    <2>7. (JobsOf(b))' = JobsOf(b)
      BY DEF JobsOf
    <2> QED BY <2>1, <2>2, <2>3, <2>4, <2>5, <2>6, <2>7 DEF ChildOK
  <1>2. ASSUME NEW j \in Jobs \ JobsOf(a) PROVE JobOK(j)'
    <2>1. JobOK(j) /\ Account[j] \in Accounts \ {a} /\ rows'[j] = rows[j]
          /\ posts'[j] = posts[j] /\ attempts'[j] = attempts[j] /\ lost'[j] = lost[j]
      BY PublishAssumption DEF IInv, JobsOf
    <2>2. (Open(j)' <=> Open(j)) /\ (Busy(j)' <=> Busy(j)) /\ (Noted(j)' <=> Noted(j))
      BY <2>1 DEF Open, Busy, Noted
    <2> QED BY <2>1, <2>2, Zenon DEF JobOK
  <1> QED BY <1>1, <1>2

(* A step that concerns only the job the child works on. *)
LEMMA WorkKept ==
  ASSUME IInv, NEW a \in Accounts, pc[a] \in Phases \ {"off", "next"},
         \A k \in Jobs \ {cur[a]} : /\ rows'[k] = rows[k] /\ posts'[k] = posts[k]
                                    /\ attempts'[k] = attempts[k] /\ lost'[k] = lost[k],
         cur'[a] \in {cur[a], Null},
         \A b \in Accounts \ {a} : /\ pc'[b] = pc[b] /\ batch'[b] = batch[b] /\ cur'[b] = cur[b]
                                   /\ loaded'[b] = loaded[b] /\ verdict'[b] = verdict[b]
  PROVE  /\ \A b \in Accounts \ {a} : ChildOK(b)'
         /\ \A j \in Jobs \ {cur[a]} : JobOK(j)'
         /\ cur[a] \in Jobs /\ Account[cur[a]] = a /\ cur[a] # Null
         /\ ChildOK(a) /\ JobOK(cur[a])
  <1>1. cur[a] \in JobsOf(a) /\ cur[a] \in Jobs /\ Account[cur[a]] = a /\ Null \notin Jobs
        /\ ChildOK(a) /\ JobOK(cur[a])
    BY PublishAssumption DEF IInv, ChildOK, JobsOf
  <1>2. (\A b \in Accounts \ {a} : ChildOK(b)') /\ \A j \in Jobs \ JobsOf(a) : JobOK(j)'
    BY <1>1, OthersKept
  <1>3. ASSUME NEW j \in JobsOf(a) \ {cur[a]} PROVE JobOK(j)'
    <2>1. j \in Jobs /\ Account[j] = a /\ JobOK(j) /\ cur[a] # j /\ cur'[a] # j
          /\ rows'[j] = rows[j]
          /\ posts'[j] = posts[j] /\ attempts'[j] = attempts[j] /\ lost'[j] = lost[j]
      BY <1>1 DEF IInv, JobsOf
    <2>2. (Open(j)' <=> Open(j)) /\ (Busy(j)' <=> Busy(j)) /\ (Noted(j)' <=> Noted(j))
      BY <2>1 DEF Open, Busy, Noted
    <2> QED BY <2>1, <2>2, Zenon DEF JobOK
  <1>4. \A j \in Jobs \ {cur[a]} : JobOK(j)'
    BY <1>2, <1>3
  <1> QED BY <1>1, <1>2, <1>4

(* run_publish_job returns. *)
LEMMA BackFacts ==
  ASSUME TypeOK, NEW a \in Accounts, BackToBatch(a)
  PROVE  /\ pc' \in [Accounts -> Phases] /\ cur' \in [Accounts -> Jobs \cup {Null}]
         /\ loaded' \in [Accounts -> [text: 0..MaxPatches, retries: 0..MaxRetries]]
         /\ verdict' \in [Accounts -> {"ok", "fail", "dead", Null}]
         /\ pc'[a] = "next" /\ cur'[a] = Null
         /\ \A b \in Accounts \ {a} : /\ pc'[b] = pc[b] /\ cur'[b] = cur[b]
                                     /\ loaded'[b] = loaded[b] /\ verdict'[b] = verdict[b]
  <1>1. Fresh \in [text: 0..MaxPatches, retries: 0..MaxRetries]
    BY PublishAssumption, SMT DEF Fresh
  <1>2. loaded' \in [Accounts -> [text: 0..MaxPatches, retries: 0..MaxRetries]]
    BY <1>1 DEF TypeOK, BackToBatch
  <1> HIDE DEF Fresh
  <1> QED BY <1>2 DEF TypeOK, BackToBatch, Phases

(* The supervisor starts a child. *)
LEMMA SpawnKeeps ==
  ASSUME IInv, NEW a \in Accounts, NEW ids \in SUBSET Jobs, Spawn(a, ids)
  PROVE  IInv'
  <1> USE DEF Spawn, MaySpawn, Live
  <1>1. TypeOK'
    BY DEF IInv, TypeOK, RowsOK, rowVars, Phases, Running
  <1>2. ids \subseteq JobsOf(a) /\ pc[a] = "off" /\ pc'[a] = "next"
    BY DEF Oldest, IInv, TypeOK
  <1>3. (\A b \in Accounts \ {a} : ChildOK(b)') /\ \A j \in Jobs \ JobsOf(a) : JobOK(j)'
    BY OthersKept DEF rowVars, IInv, TypeOK
  <1>4. ChildOK(a)'
    BY <1>2 DEF ChildOK, IInv, TypeOK, JobsOf, Running
  <1>5. ASSUME NEW j \in JobsOf(a) PROVE JobOK(j)'
    <2>1. j \in Jobs /\ Account[j] = a /\ JobOK(j)
      BY DEF IInv, JobsOf
    <2>2. (Open(j)' <=> Open(j)) /\ ~Busy(j) /\ ~Busy(j)'
      BY <1>2, <2>1 DEF Open, Busy, rowVars, Running
    <2> QED BY <2>1, <2>2, Zenon DEF JobOK, rowVars, Noted
  <1> QED BY <1>1, <1>3, <1>4, <1>5 DEF IInv, CancelsOK, rowVars

(* A child looks at the next job of its batch. *)
LEMMA LoadKeeps ==
  ASSUME IInv, NEW a \in Accounts, NEW j \in Jobs, Load(a, j)
  PROVE  IInv'
  <1>0. /\ pc[a] = "next" /\ j \in batch[a] /\ j \in JobsOf(a)
        /\ batch' = [batch EXCEPT ![a] = @ \ {j}]
        /\ UNCHANGED <<rowVars, due, verdict, kills, faults>>
        /\ rows[j] \in Rows
    BY DEF Load, IInv, ChildOK, TypeOK, RowsOK
  <1>1. CASE rows[j].status = "pending"
    <2>1. /\ pc' = [pc EXCEPT ![a] = "gate"] /\ cur' = [cur EXCEPT ![a] = j]
          /\ loaded' = [loaded EXCEPT ![a] = [text |-> rows[j].text, retries |-> rows[j].retries]]
      BY <1>1 DEF Load
    <2>2. TypeOK'
      <3>1. [text |-> rows[j].text, retries |-> rows[j].retries]
              \in [text: 0..MaxPatches, retries: 0..MaxRetries]
        BY <1>0, RowFields
      <3>2. loaded' \in [Accounts -> [text: 0..MaxPatches, retries: 0..MaxRetries]]
        BY <2>1, <3>1, Zenon DEF IInv, TypeOK
      <3>3. cur' \in [Accounts -> Jobs \cup {Null}] /\ batch' \in [Accounts -> SUBSET Jobs]
            /\ pc' \in [Accounts -> Phases]
        BY <1>0, <2>1 DEF IInv, TypeOK, Phases
      <3>4. RowsOK'
        BY <1>0 DEF IInv, TypeOK, RowsOK, rowVars
      <3> QED BY <1>0, <3>2, <3>3, <3>4, Zenon DEF IInv, TypeOK
    <2>3. (\A b \in Accounts \ {a} : ChildOK(b)') /\ \A k \in Jobs \ JobsOf(a) : JobOK(k)'
      BY <1>0, <2>1, OthersKept DEF rowVars, IInv, TypeOK
    <2>4. ChildOK(a)'
      <3>1. pc'[a] = "gate" /\ cur'[a] = j /\ loaded'[a].retries = rows[j].retries
            /\ batch'[a] \subseteq JobsOf(a)
        BY <1>0, <2>1 DEF IInv, TypeOK, ChildOK
      <3> QED BY <3>1, <1>0 DEF ChildOK, rowVars, Running, JobsOf
    <2>5. ASSUME NEW k \in JobsOf(a) PROVE JobOK(k)'
      <3>1. k \in Jobs /\ Account[k] = a /\ JobOK(k) /\ pc'[a] = "gate"
        BY <2>1 DEF IInv, JobsOf, TypeOK
      <3>2. (Open(k)' <=> Open(k)) /\ ~Busy(k) /\ ~Busy(k)'
        BY <1>0, <3>1 DEF Open, Busy, rowVars, Running
      <3> QED BY <1>0, <3>1, <3>2, Zenon DEF JobOK, rowVars, Noted
    <2> QED BY <1>0, <2>2, <2>3, <2>4, <2>5 DEF IInv, CancelsOK, rowVars
  <1>2. CASE rows[j].status # "pending"
    <2>1. UNCHANGED <<pc, cur, loaded>>
      BY <1>2 DEF Load
    <2>2. TypeOK'
      BY <1>0, <2>1 DEF IInv, TypeOK, RowsOK, rowVars
    <2>3. (\A b \in Accounts \ {a} : ChildOK(b)') /\ \A k \in Jobs \ JobsOf(a) : JobOK(k)'
      BY <1>0, <2>1, OthersKept DEF rowVars, IInv, TypeOK
    <2>4. ChildOK(a)'
      BY <1>0, <2>1 DEF IInv, ChildOK, rowVars, Running, JobsOf, TypeOK
    <2>5. ASSUME NEW k \in JobsOf(a) PROVE JobOK(k)'
      <3>1. k \in Jobs /\ Account[k] = a /\ JobOK(k)
        BY DEF IInv, JobsOf
      <3>2. (Open(k)' <=> Open(k)) /\ ~Busy(k) /\ ~Busy(k)'
        BY <1>0, <2>1, <3>1 DEF Open, Busy, rowVars, Running
      <3> QED BY <1>0, <3>1, <3>2, Zenon DEF JobOK, rowVars, Noted
    <2> QED BY <1>0, <2>2, <2>3, <2>4, <2>5 DEF IInv, CancelsOK, rowVars
  <1> QED BY <1>1, <1>2

(* A child that has done its batch exits. *)
LEMMA ExitKeeps ==
  ASSUME IInv, NEW a \in Accounts, Exit(a)
  PROVE  IInv'
  <1> USE DEF Exit
  <1>1. TypeOK'
    BY DEF IInv, TypeOK, RowsOK, rowVars, Phases
  <1>2. pc[a] = "next" /\ pc'[a] = "off"
    BY DEF IInv, TypeOK
  <1>3. (\A b \in Accounts \ {a} : ChildOK(b)') /\ \A j \in Jobs \ JobsOf(a) : JobOK(j)'
    BY OthersKept DEF rowVars, IInv, TypeOK
  <1>4. ChildOK(a)'
    BY <1>2 DEF ChildOK, IInv, TypeOK, JobsOf, Running
  <1>5. ASSUME NEW j \in JobsOf(a) PROVE JobOK(j)'
    <2>1. j \in Jobs /\ Account[j] = a /\ JobOK(j)
      BY DEF IInv, JobsOf
    <2>2. (Open(j)' <=> Open(j)) /\ ~Busy(j) /\ ~Busy(j)'
      BY <1>2, <2>1 DEF Open, Busy, rowVars, Running
    <2> QED BY <2>1, <2>2, Zenon DEF JobOK, rowVars, Noted
  <1> QED BY <1>1, <1>3, <1>4, <1>5 DEF IInv, CancelsOK, rowVars

(* The gate opens: the account has cooled down. *)
LEMMA GatePassKeeps ==
  ASSUME IInv, NEW a \in Accounts, GatePass(a)
  PROVE  IInv'
  <1> USE DEF GatePass
  <1>1. TypeOK'
    BY DEF IInv, TypeOK, RowsOK, rowVars, Phases
  <1>2. pc[a] = "gate" /\ pc'[a] = "claim" /\ Cooled(cur[a], MinInterval)
    BY DEF IInv, TypeOK, GateOpen
  <1>3. /\ \A b \in Accounts \ {a} : ChildOK(b)'
        /\ \A j \in Jobs \ {cur[a]} : JobOK(j)'
        /\ cur[a] \in Jobs /\ Account[cur[a]] = a /\ ChildOK(a) /\ JobOK(cur[a])
    BY <1>2, WorkKept DEF rowVars, IInv, TypeOK, Phases
  <1>4. ChildOK(a)'
    <2>1. Cooled(cur[a], MinInterval)'
      BY <1>2 DEF Cooled, Siblings, Begun, JobsOf, rowVars
    <2> QED BY <1>2, <1>3, <2>1 DEF ChildOK, JobsOf, Running, Phases, rowVars
  <1>5. JobOK(cur[a])'
    <2>1. (Open(cur[a])' <=> Open(cur[a])) /\ ~Busy(cur[a]) /\ ~Busy(cur[a])'
      BY <1>2, <1>3 DEF Open, Busy, rowVars, Running
    <2> QED BY <1>3, <2>1, Zenon DEF JobOK, rowVars, Noted
  <1> QED BY <1>1, <1>3, <1>4, <1>5 DEF IInv, CancelsOK, rowVars

(* The gate stays shut: a pending job is put off. *)
LEMMA GateDenyKeeps ==
  ASSUME IInv, NEW a \in Accounts, NEW delay \in MinInterval..MaxInterval, GateDeny(a, delay)
  PROVE  IInv'
  <1>c. PICK c \in Jobs : c = cur[a] /\ c \in JobsOf(a)
    BY DEF IInv, ChildOK, JobsOf, Phases, Running, GateDeny
  <1>0. delay \in Nat
    BY <1>c, PublishAssumption, SMT
  <1>1. /\ pc[a] = "gate" /\ BackToBatch(a)
        /\ UNCHANGED <<cancels, posts, attempts, lost, due, batch, kills, faults>>
    BY <1>c DEF GateDeny
  <1>2. TypeOK
    BY DEF IInv
  <1>3. /\ rows' \in [Jobs -> Rows] /\ \A k \in Jobs \ {c} : rows'[k] = rows[k]
        /\ rows'[c].status = rows[c].status /\ rows'[c].retries = rows[c].retries
    <2>1. rows[c] \in Rows /\ rows \in [Jobs -> Rows]
      BY <1>c DEF IInv, TypeOK, RowsOK
    <2>2. /\ PutOff(rows[c], delay) \in Rows
          /\ PutOff(rows[c], delay).status = rows[c].status
          /\ PutOff(rows[c], delay).retries = rows[c].retries
      BY <1>c, <1>0, <2>1, PutOffRow
    <2>3. rows' = [rows EXCEPT ![c] = PutOff(rows[c], delay)] \/ rows' = rows
      BY <1>c DEF GateDeny
    <2> QED BY <1>c, <2>1, <2>2, <2>3, OneRow
  <1>4. TypeOK'
    <2>1. RowsOK'
      BY <1>c, <1>1, <1>3, Zenon DEF IInv, TypeOK, RowsOK
    <2> QED BY <1>1, <1>2, <2>1, BackFacts, Zenon DEF TypeOK
  <1>5. /\ \A b \in Accounts \ {a} : ChildOK(b)'
        /\ \A j \in Jobs \ {c} : JobOK(j)'
        /\ Account[c] = a /\ ChildOK(a) /\ JobOK(c) /\ c # Null
    BY <1>c, <1>1, <1>2, <1>3, BackFacts, WorkKept DEF Phases
  <1>6. pc'[a] = "next" /\ cur'[a] = Null
    BY <1>1, <1>2, BackFacts
  <1>7. ChildOK(a)'
    BY <1>c, <1>1, <1>5, <1>6 DEF ChildOK, JobsOf, Running
  <1>8. JobOK(c)'
    <2>1. (Open(c)' <=> Open(c)) /\ ~Busy(c) /\ ~Busy(c)'
      BY <1>c, <1>1, <1>3, <1>5, <1>6 DEF Open, Busy, Running
    <2> QED BY <1>c, <1>1, <1>3, <1>5, <2>1, Zenon DEF JobOK, Noted
  <1> QED BY <1>c, <1>1, <1>4, <1>5, <1>7, <1>8 DEF IInv, CancelsOK

(* The job is claimed. *)
LEMMA ClaimKeeps ==
  ASSUME IInv, NEW a \in Accounts, Claim(a)
  PROVE  IInv'
  <1>c. PICK c \in Jobs : c = cur[a] /\ c \in JobsOf(a)
    BY DEF IInv, ChildOK, JobsOf, Phases, Running, Claim
  <1>1. /\ pc[a] = "claim" /\ pc' = [pc EXCEPT ![a] = "run"] /\ rows[c].status = "pending"
        /\ rows' = [rows EXCEPT ![c] = Claimed(rows[c])]
        /\ attempts' = [attempts EXCEPT ![c] = @ + 1]
        /\ UNCHANGED <<cancels, posts, lost, due, batch, cur, loaded, verdict, kills, faults>>
    BY <1>c DEF Claim
  <1>3. /\ rows' \in [Jobs -> Rows] /\ \A k \in Jobs \ {c} : rows'[k] = rows[k]
        /\ rows'[c].status = "publishing" /\ rows'[c].retries = rows[c].retries
    <2>1. rows[c] \in Rows /\ rows \in [Jobs -> Rows]
      BY <1>c DEF IInv, TypeOK, RowsOK
    <2> QED BY <1>c, <1>1, <2>1, ClaimedRow, OneRow
  <1>3a. /\ attempts' \in [Jobs -> Nat] /\ attempts'[c] = attempts[c] + 1
         /\ \A k \in Jobs \ {c} : attempts'[k] = attempts[k]
    BY <1>c, <1>1 DEF IInv, TypeOK, RowsOK
  <1>4. TypeOK'
    <2>1. RowsOK'
      BY <1>c, <1>1, <1>3, <1>3a, Zenon DEF IInv, TypeOK, RowsOK
    <2>2. pc' \in [Accounts -> Phases]
      BY <1>c, <1>1 DEF IInv, TypeOK, Phases, Running
    <2> QED BY <1>c, <1>1, <2>1, <2>2, Zenon DEF IInv, TypeOK
  <1>5. /\ \A b \in Accounts \ {a} : ChildOK(b)'
        /\ \A j \in Jobs \ {c} : JobOK(j)'
        /\ Account[c] = a /\ ChildOK(a) /\ JobOK(c) /\ c # Null
    BY <1>c, <1>1, <1>3, <1>3a, WorkKept DEF IInv, TypeOK, Phases
  <1>6. pc'[a] = "run" /\ cur'[a] = c
    BY <1>c, <1>1 DEF IInv, TypeOK
  <1>6a. ~Busy(c) /\ Busy(c)' /\ ~Noted(c)' /\ Open(c)
    BY <1>c, <1>1, <1>5, <1>6 DEF Busy, Noted, Running, Open
  <1>6b. posts[c] <= lost[c] /\ attempts[c] <= rows[c].retries + lost[c]
    BY <1>c, <1>5, <1>6a DEF JobOK, Noted
  <1>7. ChildOK(a)'
    BY <1>c, <1>1, <1>3, <1>5, <1>6, <1>6b DEF ChildOK, JobsOf, Held, Phases, Running
  <1>8. JobOK(c)'
    <2>1. /\ posts[c] \in Nat /\ lost[c] \in Nat /\ attempts[c] \in Nat /\ rows[c].retries \in Nat
      BY <1>c, RowFields, PublishAssumption, SMT DEF IInv, TypeOK, RowsOK
    <2>2. posts'[c] = posts[c] /\ lost'[c] = lost[c]
      BY <1>c, <1>1
    <2> QED BY <1>c, <1>3, <1>3a, <1>6a, <1>6b, <2>1, <2>2, SMT DEF JobOK
  <1> QED BY <1>c, <1>1, <1>4, <1>5, <1>7, <1>8 DEF IInv, CancelsOK

(* The claim is lost. *)
LEMMA LoseClaimKeeps ==
  ASSUME IInv, NEW a \in Accounts, LoseClaim(a)
  PROVE  IInv'
  <1>c. PICK c \in Jobs : c = cur[a] /\ c \in JobsOf(a)
    BY DEF IInv, ChildOK, JobsOf, Phases, Running, LoseClaim
  <1>1. /\ pc[a] = "claim" /\ BackToBatch(a)
        /\ UNCHANGED <<rows, cancels, posts, attempts, lost, due, batch, kills, faults>>
    BY <1>c DEF LoseClaim, rowVars
  <1>0. TypeOK
    BY DEF IInv
  <1>2. TypeOK'
    BY <1>0, <1>1, BackFacts, Zenon DEF TypeOK, RowsOK
  <1>3. /\ \A b \in Accounts \ {a} : ChildOK(b)'
        /\ \A j \in Jobs \ {c} : JobOK(j)'
        /\ c \in Jobs /\ Account[c] = a /\ ChildOK(a) /\ JobOK(c) /\ c # Null
    BY <1>0, <1>c, <1>1, BackFacts, WorkKept DEF Phases
  <1>4. pc'[a] = "next" /\ cur'[a] = Null
    BY <1>0, <1>1, BackFacts
  <1>5. ChildOK(a)'
    BY <1>c, <1>1, <1>3, <1>4 DEF ChildOK, JobsOf, Running
  <1>6. JobOK(c)'
    <2>1. (Open(c)' <=> Open(c)) /\ ~Busy(c) /\ ~Busy(c)'
      BY <1>c, <1>1, <1>3, <1>4 DEF Open, Busy, Running
    <2> QED BY <1>c, <1>1, <1>3, <2>1, Zenon DEF JobOK, Noted
  <1> QED BY <1>c, <1>1, <1>2, <1>3, <1>5, <1>6 DEF IInv, CancelsOK

(* The platform takes the note. *)
LEMMA PostKeeps ==
  ASSUME IInv, NEW a \in Accounts, Post(a)
  PROVE  IInv'
  <1>c. PICK c \in Jobs : c = cur[a] /\ c \in JobsOf(a)
    BY DEF IInv, ChildOK, JobsOf, Phases, Running, Post
  <1>1. /\ pc[a] = "run" /\ pc' = [pc EXCEPT ![a] = "posted"]
        /\ posts' = [posts EXCEPT ![c] = @ + 1]
        /\ UNCHANGED <<rows, cancels, attempts, lost, due, batch, cur, loaded, verdict, kills,
                       faults>>
    BY <1>c DEF Post
  <1>3. /\ posts' \in [Jobs -> Nat] /\ posts'[c] = posts[c] + 1
        /\ \A k \in Jobs \ {c} : posts'[k] = posts[k]
    BY <1>c, <1>1 DEF IInv, TypeOK, RowsOK
  <1>4. TypeOK'
    <2>1. RowsOK'
      BY <1>c, <1>1, <1>3, Zenon DEF IInv, TypeOK, RowsOK
    <2>2. pc' \in [Accounts -> Phases]
      BY <1>c, <1>1 DEF IInv, TypeOK, Phases, Running
    <2> QED BY <1>c, <1>1, <2>1, <2>2, Zenon DEF IInv, TypeOK
  <1>5. /\ \A b \in Accounts \ {a} : ChildOK(b)'
        /\ \A j \in Jobs \ {c} : JobOK(j)'
        /\ Account[c] = a /\ ChildOK(a) /\ JobOK(c) /\ c # Null
    BY <1>c, <1>1, <1>3, WorkKept DEF IInv, TypeOK, Phases, Running
  <1>6. pc'[a] = "posted" /\ cur'[a] = c
    BY <1>c, <1>1 DEF IInv, TypeOK
  <1>7. ChildOK(a)'
    BY <1>c, <1>1, <1>5, <1>6 DEF ChildOK, JobsOf, Held, Phases, Running
  <1>8. JobOK(c)'
    <2>1. Busy(c) /\ Busy(c)' /\ Noted(c)' /\ (Open(c)' <=> Open(c)) /\ posts[c] <= lost[c]
      BY <1>c, <1>1, <1>5, <1>6 DEF Busy, Noted, Open, Running, ChildOK
    <2>2. posts[c] \in Nat /\ lost[c] \in Nat /\ lost'[c] = lost[c] /\ attempts'[c] = attempts[c]
          /\ rows'[c] = rows[c]
      BY <1>c, <1>1 DEF IInv, TypeOK, RowsOK
    <2>3. posts'[c] <= 1 + lost'[c]
      BY <1>c, <1>3, <2>1, <2>2, SMT
    <2> QED BY <1>c, <1>5, <2>1, <2>2, <2>3, Zenon DEF JobOK
  <1> QED BY <1>c, <1>1, <1>4, <1>5, <1>7, <1>8 DEF IInv, CancelsOK

(* publish_once returns. *)
LEMMA ReturnKeeps ==
  ASSUME IInv, NEW a \in Accounts, NEW v \in {"ok", "fail", "dead"}, Return(a, v)
  PROVE  IInv'
  <1>c. PICK c \in Jobs : c = cur[a] /\ c \in JobsOf(a)
    BY DEF IInv, ChildOK, JobsOf, Phases, Running, Return
  <1>1. /\ pc[a] \in {"run", "posted"} /\ pc' = [pc EXCEPT ![a] = "apply"]
        /\ verdict' = [verdict EXCEPT ![a] = v]
        /\ UNCHANGED <<rows, cancels, posts, attempts, due, batch, cur, loaded, kills, faults>>
    BY DEF Return
  <1>2. /\ posts[c] \in Nat /\ lost[c] \in Nat /\ attempts[c] \in Nat /\ rows[c].retries \in Nat
    BY RowFields, PublishAssumption, SMT DEF IInv, TypeOK, RowsOK
  <1>3. /\ lost' \in [Jobs -> Nat] /\ \A k \in Jobs \ {c} : lost'[k] = lost[k]
        /\ lost'[c] \in {lost[c], lost[c] + 1}
        /\ v # "ok" => posts[c] <= lost'[c]
    <2>1. CASE pc[a] = "run" /\ v \in {"fail", "dead"} /\ UNCHANGED lost
      BY <1>c, <2>1 DEF IInv, TypeOK, RowsOK, ChildOK
    <2>2. CASE pc[a] = "posted" /\ v = "ok" /\ UNCHANGED lost
      BY <2>2 DEF IInv, TypeOK, RowsOK
    <2>3. CASE pc[a] = "posted" /\ v = "fail" /\ lost' = [lost EXCEPT ![cur[a]] = @ + 1]
      <3>1. lost' \in [Jobs -> Nat] /\ lost'[c] = lost[c] + 1 /\ \A k \in Jobs \ {c} : lost'[k] = lost[k]
        BY <1>c, <2>3 DEF IInv, TypeOK, RowsOK
      <3>2. posts[c] <= 1 + lost[c]
        BY DEF IInv, JobOK
      <3> QED BY <1>2, <3>1, <3>2, SMT
    <2> QED BY <2>1, <2>2, <2>3 DEF Return
  <1>4. TypeOK'
    <2>1. RowsOK'
      BY <1>1, <1>3, Zenon DEF IInv, TypeOK, RowsOK
    <2>2. pc' \in [Accounts -> Phases] /\ verdict' \in [Accounts -> {"ok", "fail", "dead", Null}]
      BY <1>1 DEF IInv, TypeOK, Phases, Running
    <2> QED BY <1>1, <2>1, <2>2, Zenon DEF IInv, TypeOK
  <1>5. /\ \A b \in Accounts \ {a} : ChildOK(b)'
        /\ \A j \in Jobs \ {c} : JobOK(j)'
        /\ Account[c] = a /\ ChildOK(a) /\ JobOK(c) /\ c # Null
    BY <1>c, <1>1, <1>3, WorkKept DEF IInv, TypeOK, Phases, Running
  <1>6. pc'[a] = "apply" /\ cur'[a] = c /\ verdict'[a] = v
    BY <1>c, <1>1 DEF IInv, TypeOK
  <1>7. ChildOK(a)'
    BY <1>c, <1>1, <1>5, <1>6 DEF ChildOK, JobsOf, Held, Phases, Running
  <1>8. JobOK(c)'
    <2>1. Busy(c)' /\ (~Noted(c)' => v # "ok") /\ (Open(c)' <=> Open(c))
      BY <1>1, <1>5, <1>6 DEF Busy, Noted, Open, Running
    <2>2. posts'[c] = posts[c] /\ attempts'[c] = attempts[c] /\ rows'[c] = rows[c]
      BY <1>1
    <2>3. posts[c] <= 1 + lost[c] /\ attempts[c] <= rows[c].retries + 1 + lost[c]
      BY <1>5 DEF JobOK
    <2>4. posts[c] <= 1 + lost'[c] /\ attempts[c] <= rows[c].retries + 1 + lost'[c]
      BY <1>2, <1>3, <2>3, SMT
    <2> QED BY <1>3, <2>1, <2>2, <2>4, Zenon DEF JobOK
  <1> QED BY <1>1, <1>4, <1>5, <1>7, <1>8 DEF IInv, CancelsOK

(* The outcome is written. *)
LEMMA ApplyKeeps ==
  ASSUME IInv, NEW a \in Accounts, NEW wait \in RetryWaits, Apply(a, wait)
  PROVE  IInv'
  <1>c. PICK c \in Jobs : c = cur[a] /\ c \in JobsOf(a)
    BY DEF IInv, ChildOK, JobsOf, Phases, Running, Apply
  <1>1. /\ pc[a] \in {"apply", "rescue"} /\ pc' = [pc EXCEPT ![a] = "finally"]
        /\ rows' = [rows EXCEPT ![c] = Applied(a, wait)]
        /\ UNCHANGED <<cancels, posts, attempts, lost, due, batch, cur, loaded, verdict, kills,
                       faults>>
    BY <1>c DEF Apply
  <1>2. rows[c] \in Rows /\ rows \in [Jobs -> Rows] /\ wait \in Nat
    BY PublishAssumption DEF IInv, TypeOK, RowsOK
  <1>3. verdict[a] \in {"ok", "fail", "dead"} /\ loaded[a].retries = rows[c].retries
    BY <1>c, <1>1 DEF IInv, ChildOK, Phases, Running
  <1>4. /\ rows' \in [Jobs -> Rows] /\ \A k \in Jobs \ {c} : rows'[k] = rows[k]
        /\ rows[c].status # "publishing" => rows'[c] = rows[c]
        /\ rows[c].status = "publishing" =>
             /\ rows'[c].status \in {"pending", "failed", "published"}
             /\ rows'[c].status = "pending" => rows'[c].retries = rows[c].retries + 1
                                               /\ verdict[a] # "ok"
             /\ rows'[c].retries \in {rows[c].retries, rows[c].retries + 1}
    <2>1. CASE rows[c].status = "publishing"
      <3>1. Applied(a, wait) = Settled(rows[c], verdict[a], rows[c].retries, wait)
        BY <1>c, <1>3, <2>1 DEF Applied
      <3> DEFINE s == Settled(rows[c], verdict[a], rows[c].retries, wait)
      <3>2. /\ s \in Rows
            /\ s.status \in {"pending", "failed", "published"}
            /\ s.status = "pending" => s.retries = rows[c].retries + 1 /\ verdict[a] # "ok"
            /\ s.retries \in {rows[c].retries, rows[c].retries + 1}
        BY <1>2, <1>3, SettledRow
      <3> HIDE DEF s
      <3>3. rows' \in [Jobs -> Rows] /\ rows'[c] = s /\ \A k \in Jobs \ {c} : rows'[k] = rows[k]
        <4>1. rows' = [rows EXCEPT ![c] = s]
          BY <1>1, <3>1 DEF s
        <4> QED BY <1>2, <3>2, <4>1, OneRow
      <3> QED BY <2>1, <3>2, <3>3
    <2>2. CASE rows[c].status # "publishing"
      BY <1>c, <1>1, <1>2, <2>2 DEF Applied
    <2> QED BY <2>1, <2>2
  <1>5. TypeOK'
    <2>1. RowsOK'
      BY <1>1, <1>4, Zenon DEF IInv, TypeOK, RowsOK
    <2>2. pc' \in [Accounts -> Phases]
      BY <1>1 DEF IInv, TypeOK, Phases
    <2> QED BY <1>1, <2>1, <2>2, Zenon DEF IInv, TypeOK
  <1>6. /\ \A b \in Accounts \ {a} : ChildOK(b)'
        /\ \A j \in Jobs \ {c} : JobOK(j)'
        /\ Account[c] = a /\ ChildOK(a) /\ JobOK(c) /\ c # Null
    BY <1>c, <1>1, <1>4, WorkKept DEF IInv, TypeOK, Phases, Running
  <1>7. pc'[a] = "finally" /\ cur'[a] = c
    BY <1>c, <1>1 DEF IInv, TypeOK
  <1>8. ChildOK(a)'
    BY <1>c, <1>1, <1>6, <1>7 DEF ChildOK, JobsOf, Phases, Running
  <1>9. JobOK(c)'
    <2>1. ~Busy(c)' /\ ~Noted(c)'
      BY <1>6, <1>7 DEF Busy, Noted, Running
    <2>2. Noted(c) => pc[a] = "apply" /\ verdict[a] = "ok"
      BY <1>1, <1>6 DEF Noted, Busy, Running
    <2>3. Busy(c) => pc[a] = "apply"
      BY <1>1, <1>6 DEF Busy, Running
    <2>4. /\ posts[c] \in Nat /\ lost[c] \in Nat /\ attempts[c] \in Nat /\ rows[c].retries \in Nat
      BY RowFields, PublishAssumption, SMT DEF IInv, TypeOK, RowsOK
    <2>5. posts'[c] = posts[c] /\ attempts'[c] = attempts[c] /\ lost'[c] = lost[c]
      BY <1>1
    <2>6. CASE rows[c].status = "publishing"
      <3>1. Open(c) /\ (Open(c)' => rows'[c].status = "pending")
        BY <1>4, <2>6 DEF Open
      <3>2. rows'[c].status = "pending" => ~Noted(c)
        BY <1>4, <2>2, <2>6
      <3>3. attempts[c] <= rows[c].retries + 1 + lost[c]
        BY <1>6 DEF JobOK
      <3>4. attempts[c] <= rows'[c].retries + 1 + lost[c]
        BY <1>4, <2>4, <2>6, <3>3, SMT
      <3>5. rows'[c].status = "pending" => attempts[c] <= rows'[c].retries + lost[c]
        BY <1>4, <2>4, <2>6, <3>3, SMT
      <3> QED BY <1>6, <2>1, <2>5, <3>1, <3>2, <3>4, <3>5, Zenon DEF JobOK
    <2>7. CASE rows[c].status # "publishing"
      <3>1. rows'[c] = rows[c] /\ (Open(c)' <=> Open(c))
        BY <1>4, <2>7 DEF Open
      <3>2. Open(c) => ~Busy(c)
        <4>1. Busy(c) => Held(c)
          BY <1>c, <1>1, <1>6, <2>3 DEF ChildOK, Running
        <4> QED BY <2>7, <4>1 DEF Held, Open
      <3>3. Open(c) => ~Noted(c)
        BY <3>2 DEF Noted
      <3> QED BY <1>6, <2>1, <2>5, <3>1, <3>2, <3>3, Zenon DEF JobOK
    <2> QED BY <2>6, <2>7
  <1> QED BY <1>1, <1>5, <1>6, <1>8, <1>9 DEF IInv, CancelsOK

(* A ledger write raises. *)
LEMMA WriteRaisesKeeps ==
  ASSUME IInv, NEW a \in Accounts, WriteRaises(a)
  PROVE  IInv'
  <1>c. PICK c \in Jobs : c = cur[a] /\ c \in JobsOf(a)
    BY DEF IInv, ChildOK, JobsOf, Phases, Running, WriteRaises
  <1>0. TypeOK
    BY DEF IInv
  <1>1. /\ pc[a] \in {"apply", "rescue", "finally"} /\ faults < MaxFaults /\ faults' = faults + 1
        /\ UNCHANGED <<rows, cancels, posts, attempts, due, batch, kills>>
    BY <1>c DEF WriteRaises
  <1>1a. \/ /\ pc[a] = "apply" /\ pc' = [pc EXCEPT ![a] = "rescue"]
            /\ verdict' = [verdict EXCEPT ![a] = "fail"]
            /\ lost' = [lost EXCEPT ![c] = @ + 1] /\ UNCHANGED <<cur, loaded>>
         \/ /\ pc[a] = "rescue" /\ pc' = [pc EXCEPT ![a] = "finally"]
            /\ UNCHANGED <<lost, cur, loaded, verdict>>
         \/ pc[a] = "finally" /\ BackToBatch(a) /\ UNCHANGED lost
    BY <1>c DEF WriteRaises
  <1>2. /\ pc' \in [Accounts -> Phases] /\ cur' \in [Accounts -> Jobs \cup {Null}]
        /\ loaded' \in [Accounts -> [text: 0..MaxPatches, retries: 0..MaxRetries]]
        /\ verdict' \in [Accounts -> {"ok", "fail", "dead", Null}]
        /\ \A b \in Accounts \ {a} : /\ pc'[b] = pc[b] /\ cur'[b] = cur[b]
                                    /\ loaded'[b] = loaded[b] /\ verdict'[b] = verdict[b]
        /\ pc[a] = "apply" => pc'[a] = "rescue" /\ verdict'[a] = "fail" /\ cur'[a] = c
        /\ pc[a] = "rescue" => pc'[a] = "finally" /\ cur'[a] = c
        /\ pc[a] = "finally" => pc'[a] = "next" /\ cur'[a] = Null
        /\ pc[a] \in {"apply", "rescue"} => loaded'[a] = loaded[a]
    <2>1. CASE pc[a] \in {"apply", "rescue"}
      BY <1>0, <1>c, <1>1a, <2>1 DEF TypeOK, Phases, Running
    <2>2. CASE pc[a] = "finally"
      BY <1>0, <1>1a, <2>2, BackFacts
    <2> QED BY <1>1, <2>1, <2>2
  <1>3. /\ posts[c] \in Nat /\ lost[c] \in Nat /\ attempts[c] \in Nat /\ rows[c].retries \in Nat
    BY RowFields, PublishAssumption, SMT DEF IInv, TypeOK, RowsOK
  <1>4. /\ lost' \in [Jobs -> Nat] /\ \A k \in Jobs \ {c} : lost'[k] = lost[k]
        /\ pc[a] = "apply" => lost'[c] = lost[c] + 1
        /\ pc[a] # "apply" => lost'[c] = lost[c]
    BY <1>1a DEF IInv, TypeOK, RowsOK
  <1>5. TypeOK'
    <2>1. RowsOK'
      BY <1>1, <1>4, Zenon DEF IInv, TypeOK, RowsOK
    <2>3. faults' \in 0..MaxFaults
      BY <1>1, WorkerAssumption, SMT DEF IInv, TypeOK
    <2> QED BY <1>0, <1>1, <1>2, <2>1, <2>3, Zenon DEF TypeOK
  <1>6. /\ \A b \in Accounts \ {a} : ChildOK(b)'
        /\ \A j \in Jobs \ {c} : JobOK(j)'
        /\ Account[c] = a /\ ChildOK(a) /\ JobOK(c) /\ c # Null
    <2>1. cur'[a] \in {c, Null} /\ \A b \in Accounts \ {a} : batch'[b] = batch[b]
      BY <1>1, <1>2
    <2> QED BY <1>c, <1>1, <1>2, <1>4, <2>1, WorkKept DEF Phases, Running
  <1>8. ChildOK(a)'
    BY <1>c, <1>1, <1>2, <1>6 DEF ChildOK, JobsOf, Phases, Running
  <1>9. JobOK(c)'
    <2>1. ~Busy(c)' /\ ~Noted(c)' /\ (Open(c)' <=> Open(c)) /\ (Busy(c) => pc[a] = "apply")
      BY <1>1, <1>2, <1>6 DEF Busy, Noted, Running, Open
    <2>2. posts'[c] = posts[c] /\ attempts'[c] = attempts[c] /\ rows'[c] = rows[c]
      BY <1>1
    <2>3. CASE pc[a] = "apply"
      <3>1. posts[c] <= 1 + lost[c] /\ attempts[c] <= rows[c].retries + 1 + lost[c]
        BY <1>6 DEF JobOK
      <3>2. /\ posts[c] <= lost'[c] /\ posts[c] <= 1 + lost'[c]
            /\ attempts[c] <= rows[c].retries + lost'[c]
            /\ attempts[c] <= rows[c].retries + 1 + lost'[c]
        BY <1>3, <1>4, <2>3, <3>1, SMT
      <3> QED BY <2>1, <2>2, <3>2, Zenon DEF JobOK
    <2>4. CASE pc[a] # "apply"
      <3>1. lost'[c] = lost[c] /\ ~Busy(c) /\ ~Noted(c)
        BY <1>4, <2>1, <2>4 DEF Noted
      <3> QED BY <1>6, <2>1, <2>2, <3>1, Zenon DEF JobOK
    <2> QED BY <2>3, <2>4
  <1> QED BY <1>1, <1>5, <1>6, <1>8, <1>9 DEF IInv, CancelsOK

(* The child lets go of the job; a row still publishing is given back. *)
LEMMA FinallyKeeps ==
  ASSUME IInv, NEW a \in Accounts, NEW wait \in RetryWaits, Finally(a, wait)
  PROVE  IInv'
  <1>c. PICK c \in Jobs : c = cur[a] /\ c \in JobsOf(a)
    BY DEF IInv, ChildOK, JobsOf, Phases, Running, Finally
  <1>1. /\ pc[a] = "finally" /\ BackToBatch(a)
        /\ rows' = IF rows[c].status = "publishing"
                   THEN [rows EXCEPT ![c] = Requeued(rows[c], wait)] ELSE rows
        /\ UNCHANGED <<cancels, posts, attempts, lost, due, batch, kills, faults>>
    BY <1>c DEF Finally
  <1>0. TypeOK
    BY DEF IInv
  <1>2. rows[c] \in Rows /\ rows \in [Jobs -> Rows] /\ wait \in Nat
    BY PublishAssumption DEF IInv, TypeOK, RowsOK
  <1>3. /\ rows' \in [Jobs -> Rows] /\ \A k \in Jobs \ {c} : rows'[k] = rows[k]
        /\ rows'[c].retries = rows[c].retries
        /\ rows'[c].status = rows[c].status
           \/ (rows[c].status = "publishing" /\ rows'[c].status = "pending")
    <2>1. /\ Requeued(rows[c], wait) \in Rows
          /\ Requeued(rows[c], wait).status = "pending"
          /\ Requeued(rows[c], wait).retries = rows[c].retries
      BY <1>2, RequeuedRow
    <2> QED BY <1>1, <1>2, <2>1, OneRow
  <1>4. TypeOK'
    <2>1. RowsOK'
      BY <1>1, <1>3, Zenon DEF IInv, TypeOK, RowsOK
    <2> QED BY <1>0, <1>1, <2>1, BackFacts, Zenon DEF TypeOK
  <1>5. /\ \A b \in Accounts \ {a} : ChildOK(b)'
        /\ \A j \in Jobs \ {c} : JobOK(j)'
        /\ Account[c] = a /\ ChildOK(a) /\ JobOK(c) /\ c # Null
    BY <1>0, <1>c, <1>1, <1>3, BackFacts, WorkKept DEF Phases, Running
  <1>6. pc'[a] = "next" /\ cur'[a] = Null
    BY <1>0, <1>1, BackFacts
  <1>7. ChildOK(a)'
    BY <1>c, <1>1, <1>5, <1>6 DEF ChildOK, JobsOf, Phases, Running
  <1>8. JobOK(c)'
    <2>1. ~Busy(c) /\ ~Busy(c)' /\ (Open(c)' <=> Open(c))
      BY <1>1, <1>3, <1>5, <1>6 DEF Busy, Running, Open
    <2> QED BY <1>1, <1>3, <1>5, <2>1, Zenon DEF JobOK, Noted
  <1> QED BY <1>1, <1>4, <1>5, <1>7, <1>8 DEF IInv, CancelsOK

(* Children are killed. *)
LEMMA GoneKeeps ==
  ASSUME IInv, NEW S \in SUBSET Accounts, Gone(S),
         UNCHANGED <<rows, cancels, posts, attempts, faults>>, due' \in SUBSET Jobs
  PROVE  IInv'
  <1>1. TypeOK'
    <2>1. lost' \in [Jobs -> Nat]
      BY DEF Gone, IInv, TypeOK, RowsOK
    <2>2. RowsOK'
      BY <2>1, Zenon DEF IInv, TypeOK, RowsOK
    <2>3. kills' \in 0..MaxKills
      BY WorkerAssumption, SMT DEF Gone, IInv, TypeOK
    <2>4. Fresh \in [text: 0..MaxPatches, retries: 0..MaxRetries]
      BY PublishAssumption, SMT DEF Fresh
    <2>5. loaded' \in [Accounts -> [text: 0..MaxPatches, retries: 0..MaxRetries]]
      BY <2>4 DEF Gone, IInv, TypeOK
    <2>6. pc' \in [Accounts -> Phases]
      BY DEF Gone, IInv, TypeOK, Phases
    <2>7. batch' \in [Accounts -> SUBSET Jobs] /\ cur' \in [Accounts -> Jobs \cup {Null}]
          /\ verdict' \in [Accounts -> {"ok", "fail", "dead", Null}]
      BY DEF Gone, IInv, TypeOK
    <2> QED BY <2>2, <2>3, <2>5, <2>6, <2>7, Zenon DEF IInv, TypeOK
  <1>2. ASSUME NEW j \in Jobs
        PROVE  /\ JobOK(j) /\ posts[j] \in Nat /\ attempts[j] \in Nat /\ lost[j] \in Nat
               /\ rows[j].retries \in Nat
    BY RowFields, PublishAssumption, SMT DEF IInv, TypeOK, RowsOK
  <1>3. ASSUME NEW a \in Accounts PROVE ChildOK(a)'
    <2>1. CASE a \in S
      BY <2>1 DEF Gone, ChildOK, Running
    <2>2. CASE a \notin S
      <3>1. /\ pc'[a] = pc[a] /\ batch'[a] = batch[a] /\ cur'[a] = cur[a]
            /\ loaded'[a] = loaded[a] /\ verdict'[a] = verdict[a] /\ ChildOK(a)
        BY <2>2 DEF Gone, IInv
      <3>2. pc[a] = "run" => posts'[cur'[a]] <= lost'[cur'[a]]
        <4> SUFFICES ASSUME pc[a] = "run" PROVE posts[cur[a]] <= lost'[cur[a]]
          BY <3>1
        <4>1. cur[a] \in Jobs /\ posts[cur[a]] <= lost[cur[a]]
          BY <3>1 DEF ChildOK, JobsOf, Phases, Running
        <4>2. lost'[cur[a]] \in {lost[cur[a]], lost[cur[a]] + 1}
          BY <4>1 DEF Gone
        <4> QED BY <4>1, <4>2, <1>2, SMT
      <3>3. pc[a] = "claim" => Cooled(cur[a], MinInterval)'
        BY <3>1 DEF ChildOK, Cooled, Siblings, Begun, JobsOf
      <3> QED BY <3>1, <3>2, <3>3 DEF ChildOK, JobsOf, Held
    <2> QED BY <2>1, <2>2
  <1>4. ASSUME NEW j \in Jobs PROVE JobOK(j)'
    <2>1. Account[j] \in Accounts
      BY PublishAssumption
    <2>2. CASE Busy(j) /\ Account[j] \in S
      <3>1. lost'[j] = lost[j] + 1
        BY <2>2 DEF Busy, Gone
      <3>2. /\ posts[j] <= lost'[j] /\ posts[j] <= 1 + lost'[j]
            /\ attempts[j] <= rows[j].retries + lost'[j]
            /\ attempts[j] <= rows[j].retries + 1 + lost'[j]
        BY <1>2, <3>1, SMT DEF JobOK
      <3> QED BY <3>2, Zenon DEF JobOK
    <2>3. CASE ~(Busy(j) /\ Account[j] \in S)
      <3>1. lost'[j] = lost[j]
        <4>1. ~ \E a \in S : cur[a] = j /\ pc[a] \in Running
          <5> SUFFICES ASSUME NEW a \in S, cur[a] = j, pc[a] \in Running PROVE FALSE
            OBVIOUS
          <5>1. Account[j] = a
            BY DEF IInv, ChildOK, JobsOf, Running, Phases
          <5> QED BY <2>3, <5>1 DEF Busy
        <4> QED BY <4>1 DEF Gone
      <3>2. (Busy(j)' <=> Busy(j)) /\ (Noted(j)' <=> Noted(j)) /\ (Open(j)' <=> Open(j))
        <4>1. CASE Account[j] \in S
          <5>1. ~Busy(j) /\ ~Busy(j)'
            BY <2>1, <2>3, <4>1 DEF Busy, Gone, Running
          <5> QED BY <5>1 DEF Noted, Open
        <4>2. CASE Account[j] \notin S
          BY <2>1, <4>2 DEF Busy, Noted, Open, Gone
        <4> QED BY <4>1, <4>2
      <3> QED BY <1>2, <3>1, <3>2, Zenon DEF JobOK
    <2> QED BY <2>2, <2>3
  <1> QED BY <1>1, <1>3, <1>4 DEF IInv, CancelsOK

(***************************************************************************)
(* Theorems                                                                *)
(***************************************************************************)

(* Every step keeps the invariant. *)
LEMMA StepKeeps == IInv /\ [Next]_vars => IInv'
  <1> SUFFICES ASSUME IInv, [Next]_vars PROVE IInv'
    OBVIOUS
  <1>0. TypeOK /\ CancelsOK
    BY DEF IInv
  <1>1. CASE Rest
    <2>1. Drift /\ CancelsOK' /\ UNCHANGED <<due, kills, faults>> /\ cancels' \in SUBSET Jobs
      <3>1. cancels' \in SUBSET Jobs
        BY <1>0, <1>1 DEF TypeOK, RowsOK, Rest, Create, Patch, CancelRead, CancelWrite
      <3> QED BY <1>0, <1>1, <3>1, RestDrifts DEF Rest
    <2>2. TypeOK'
      BY <1>0, <2>1 DEF TypeOK, RowsOK, Drift, childVars
    <2> QED BY <2>1, <2>2, DriftKeeps DEF IInv
  <1>2. CASE Time
    <2>1. Drift /\ UNCHANGED <<cancels, due, kills, faults>>
      BY <1>0, <1>2, TimeDrifts DEF Time
    <2>2. TypeOK'
      BY <1>0, <2>1 DEF TypeOK, RowsOK, Drift, childVars
    <2> QED BY <2>1, <2>2, DriftKeeps DEF IInv, CancelsOK
  <1>3. CASE Recover
    <2>1. Drift /\ UNCHANGED <<cancels, due, kills, faults>>
      BY <1>0, <1>3, RecoverDrifts DEF Recover
    <2>2. TypeOK'
      BY <1>0, <2>1 DEF TypeOK, RowsOK, Drift, childVars
    <2> QED BY <2>1, <2>2, DriftKeeps DEF IInv, CancelsOK
  <1>4. CASE ListDue \/ \E a \in Accounts : Skip(a)
    <2>1. UNCHANGED <<rowVars, childVars, kills, faults>> /\ due' \in SUBSET Jobs
      BY <1>0, <1>4 DEF ListDue, Skip, TypeOK
    <2>2. Drift /\ TypeOK'
      BY <1>0, <2>1, StillDrifts DEF Drift, TypeOK, RowsOK, rowVars, childVars
    <2> QED BY <2>1, <2>2, DriftKeeps DEF IInv, CancelsOK, rowVars
  <1>5. CASE RestartSupervisor
    BY <1>5, GoneKeeps DEF RestartSupervisor
  <1>6. ASSUME NEW a \in Accounts, KillChild(a) PROVE IInv'
    BY <1>0, <1>6, GoneKeeps DEF KillChild, TypeOK
  <1>7. ASSUME NEW a \in Accounts, NEW ids \in SUBSET Jobs, Spawn(a, ids) PROVE IInv'
    BY <1>7, SpawnKeeps
  <1>8. ASSUME NEW a \in Accounts, WriteRaises(a) PROVE IInv'
    BY <1>8, WriteRaisesKeeps
  <1>9. ASSUME NEW a \in Accounts, ChildStep(a) PROVE IInv'
    BY <1>9, LoadKeeps, ExitKeeps, GatePassKeeps, ClaimKeeps, LoseClaimKeeps, PostKeeps,
       GateDenyKeeps, ReturnKeeps, ApplyKeeps, FinallyKeeps DEF ChildStep
  <1>10. CASE UNCHANGED vars
    <2>1. Drift /\ TypeOK' /\ UNCHANGED cancels
      BY <1>0, <1>10, StillDrifts DEF Drift, TypeOK, RowsOK, vars, rowVars, childVars
    <2> QED BY <2>1, DriftKeeps DEF IInv, CancelsOK
  <1> QED
    BY <1>1, <1>2, <1>3, <1>4, <1>5, <1>6, <1>7, <1>8, <1>9, <1>10 DEF Next

(* The inductive invariant. *)
THEOREM Invariant == Spec => []IInv
  <1> QED BY InitIInv, StepKeeps, PTL DEF Spec

(* The table, the supervisor and the children keep their types. *)
THEOREM WorkerTypes == Spec => []TypeOK
  <1>1. IInv => TypeOK
    BY DEF IInv
  <1> QED BY <1>1, Invariant, PTL

(* While a child executes a job, nothing but an operator's cancel takes the  *)
(* row away from it.                                                         *)
THEOREM RowIsHeld == Spec => []HeldWhilePublishing
  <1>1. IInv => HeldWhilePublishing
    BY DEF IInv, ChildOK, Held, HeldWhilePublishing
  <1> QED BY <1>1, Invariant, PTL

(* A note is put up again only after the outcome of an execution was lost.   *)
THEOREM NoNeedlessRepost == Spec => []RepostsNeedLoss
  <1>1. IInv => RepostsNeedLoss
    BY DEF IInv, JobOK, RepostsNeedLoss
  <1> QED BY <1>1, Invariant, PTL

(* A job is executed once more than the retries it has used, and once more   *)
(* for every outcome lost.                                                   *)
THEOREM RetriesAreCounted == Spec => []AttemptsBounded
  <1>1. IInv => AttemptsBounded
    BY DEF IInv, JobOK, AttemptsBounded
  <1> QED BY <1>1, Invariant, PTL

(* What a step may do to the status of a row. *)
StatusStep(j) ==
  \/ rows'[j].status = rows[j].status
  \/ rows[j].status = "none" /\ rows'[j].status = "pending"
  \/ j \in Editable /\ rows'[j].status = "canceled"
  \/ rows[j].status = "publishing" /\ rows'[j].status \in {"pending", "failed", "published"}
  \/ rows[j].status = "pending" /\ rows'[j].status = "publishing" /\ Cooled(j, MinInterval)

(* No step does anything else to a status. *)
LEMMA StatusSteps ==
  ASSUME IInv, [Next]_vars, NEW j \in Jobs
  PROVE  StatusStep(j)
  <1>0. TypeOK /\ CancelsOK /\ rows[j] \in Rows
    BY DEF IInv, TypeOK, RowsOK
  <1>1. CASE Drift
    BY <1>1 DEF Drift, RowDrift, StatusStep
  <1>2. CASE UNCHANGED rows
    BY <1>2 DEF StatusStep
  <1>3. ASSUME NEW a \in Accounts, NEW delay \in MinInterval..MaxInterval, GateDeny(a, delay)
        PROVE  StatusStep(j)
    <2>1. delay \in Nat
      BY PublishAssumption, SMT
    <2>2. PutOff(rows[j], delay).status = rows[j].status
      BY <1>0, <2>1, PutOffRow
    <2>3. rows' = [rows EXCEPT ![cur[a]] = PutOff(rows[cur[a]], delay)] \/ rows' = rows
      BY <1>3 DEF GateDeny
    <2>4. rows'[j] = PutOff(rows[j], delay) \/ rows'[j] = rows[j]
      BY <1>0, <2>3 DEF TypeOK, RowsOK
    <2> QED BY <2>2, <2>4 DEF StatusStep
  <1>4. ASSUME NEW a \in Accounts, Claim(a) PROVE StatusStep(j)
    <2>1. /\ rows' = [rows EXCEPT ![cur[a]] = Claimed(rows[cur[a]])]
          /\ rows[cur[a]].status = "pending" /\ Cooled(cur[a], MinInterval)
      BY <1>4 DEF Claim, IInv, ChildOK
    <2>2. CASE j = cur[a]
      <3>1. rows'[j] = Claimed(rows[j])
        BY <1>0, <2>1, <2>2 DEF TypeOK, RowsOK
      <3> QED BY <1>0, <2>1, <2>2, <3>1, ClaimedRow DEF StatusStep
    <2>3. CASE j # cur[a]
      BY <1>0, <2>1, <2>3 DEF TypeOK, RowsOK, StatusStep
    <2> QED BY <2>2, <2>3
  <1>5. ASSUME NEW a \in Accounts, NEW wait \in RetryWaits, Apply(a, wait) PROVE StatusStep(j)
    <2>1. rows' = [rows EXCEPT ![cur[a]] = Applied(a, wait)]
      BY <1>5 DEF Apply
    <2>2. CASE j = cur[a] /\ rows[j].status = "publishing"
      <3>1. rows'[j] = Settled(rows[j], verdict[a], loaded[a].retries, wait)
        BY <1>0, <2>1, <2>2 DEF TypeOK, RowsOK, Applied
      <3>2. verdict[a] \in {"ok", "fail", "dead"} /\ loaded[a].retries = rows[j].retries /\ wait \in Nat
        BY <1>5, <2>2, PublishAssumption DEF Apply, IInv, ChildOK, Phases, Running
      <3>3. rows'[j] = Settled(rows[j], verdict[a], rows[j].retries, wait)
        BY <3>1, <3>2
      <3>4. Settled(rows[j], verdict[a], rows[j].retries, wait).status
              \in {"pending", "failed", "published"}
        BY <1>0, <3>2, SettledRow
      <3>5. rows'[j].status \in {"pending", "failed", "published"}
        BY <3>3, <3>4, Zenon
      <3> QED BY <2>2, <3>5 DEF StatusStep
    <2>3. CASE ~(j = cur[a] /\ rows[j].status = "publishing")
      BY <1>0, <2>1, <2>3 DEF TypeOK, RowsOK, StatusStep, Applied
    <2> QED BY <2>2, <2>3
  <1>6. ASSUME NEW a \in Accounts, NEW wait \in RetryWaits, Finally(a, wait) PROVE StatusStep(j)
    <2>1. Requeued(rows[j], wait).status = "pending"
      BY <1>0, PublishAssumption, RequeuedRow
    <2>2. rows'[j] = rows[j] \/ (rows[j].status = "publishing" /\ rows'[j] = Requeued(rows[j], wait))
      BY <1>0, <1>6 DEF Finally, TypeOK, RowsOK
    <2> QED BY <2>1, <2>2 DEF StatusStep
  <1>7. CASE Next
    <2>1. CASE Rest \/ Time \/ Recover
      BY <1>0, <1>1, <2>1, RestDrifts, TimeDrifts, RecoverDrifts
    <2>2. CASE ListDue \/ RestartSupervisor
      BY <1>2, <2>2 DEF ListDue, RestartSupervisor, rowVars
    <2>3. ASSUME NEW a \in Accounts,
                 (\E ids \in SUBSET Jobs : Spawn(a, ids)) \/ Skip(a) \/ KillChild(a) \/ WriteRaises(a)
          PROVE  StatusStep(j)
      BY <1>2, <2>3 DEF Spawn, Skip, KillChild, WriteRaises, rowVars
    <2>4. ASSUME NEW a \in Accounts, ChildStep(a) PROVE StatusStep(j)
      <3>1. CASE (\E k \in Jobs : Load(a, k)) \/ Exit(a) \/ GatePass(a) \/ LoseClaim(a) \/ Post(a)
                 \/ \E v \in {"ok", "fail", "dead"} : Return(a, v)
        BY <1>2, <3>1 DEF Load, Exit, GatePass, LoseClaim, Post, Return, rowVars
      <3> QED BY <1>3, <1>4, <1>5, <1>6, <2>4, <3>1 DEF ChildStep
    <2> QED BY <1>7, <2>1, <2>2, <2>3, <2>4 DEF Next
  <1> QED BY <1>2, <1>7 DEF vars, rowVars

(* A job that no operator cancels keeps its end.                             *)
THEOREM EndsStay == Spec => EndsAreFinal
  <1>1. IInv /\ [Next]_vars =>
          [\A j \in Jobs \ Editable :
             rows[j].status \in Ended => rows'[j].status = rows[j].status]_rows
    BY StatusSteps DEF StatusStep, Ended
  <1> QED BY <1>1, Invariant, PTL DEF Spec, EndsAreFinal

(* Canceled is final, whatever a child that was publishing reports.          *)
THEOREM CanceledIsFinal == Spec => CanceledStays
  <1>1. IInv /\ [Next]_vars =>
          [\A j \in Jobs : rows[j].status = "canceled" => rows'[j].status = "canceled"]_rows
    BY StatusSteps DEF StatusStep
  <1> QED BY <1>1, Invariant, PTL DEF Spec, CanceledStays

(* A job is claimed only when its account has cooled down, although the gate *)
(* and the claim are two transactions.                                       *)
THEOREM CooldownIsKept == Spec => ClaimsSpaced
  <1>1. IInv /\ [Next]_vars => [\A j \in Jobs : Claims(j) => Cooled(j, MinInterval)]_rows
    BY StatusSteps DEF StatusStep, Claims
  <1> QED BY <1>1, Invariant, PTL DEF Spec, ClaimsSpaced

(***************************************************************************)
(* The daily cap                                                           *)
(***************************************************************************)

Counted(j) == rows[j].status = "published" /\ rows[j].today
CountedOf(a) == {j \in JobsOf(a) : Counted(j)}
PastGate(a) == pc[a] \in {"claim"} \cup Running

(* Between gate and write the account has room for the note that is on its   *)
(* way.                                                                      *)
CapOK(a) ==
  PublishedToday(a) <= DailyCap /\ (PastGate(a) => PublishedToday(a) < DailyCap)

(* A job is counted by nothing but the write of its own execution.           *)
LEMMA CountSteps ==
  ASSUME IInv, [Next]_vars, NEW j \in Jobs, Counted(j)', ~Counted(j)
  PROVE  pc[Account[j]] = "apply" /\ cur[Account[j]] = j /\ pc'[Account[j]] = "finally"
  <1>0. TypeOK /\ CancelsOK /\ rows[j] \in Rows
    BY DEF IInv, TypeOK, RowsOK
  <1>1. ~Drift /\ ~UNCHANGED rows
    BY DEF Drift, RowDrift, Counted
  <1>2. rows'[j] # rows[j]
    BY DEF Counted
  <1>3. \A a \in Accounts, delay \in MinInterval..MaxInterval : ~GateDeny(a, delay)
    <2> SUFFICES ASSUME NEW a \in Accounts, NEW delay \in MinInterval..MaxInterval,
                        GateDeny(a, delay)
                 PROVE  FALSE
      OBVIOUS
    <2>1. delay \in Nat
      BY PublishAssumption, SMT
    <2>2. PutOff(rows[j], delay).status = rows[j].status /\ PutOff(rows[j], delay).today = rows[j].today
      BY <1>0, <2>1, PutOffRow
    <2>3. rows'[j] = PutOff(rows[j], delay)
      BY <1>0, <1>2 DEF GateDeny, TypeOK, RowsOK
    <2> QED BY <2>2, <2>3, Zenon DEF Counted
  <1>4. \A a \in Accounts : ~Claim(a)
    <2> SUFFICES ASSUME NEW a \in Accounts, Claim(a) PROVE FALSE
      OBVIOUS
    <2>1. rows'[j] = Claimed(rows[j])
      BY <1>0, <1>2 DEF Claim, TypeOK, RowsOK
    <2>2. Claimed(rows[j]).status = "publishing"
      BY <1>0, ClaimedRow
    <2> QED BY <2>1, <2>2 DEF Counted
  <1>5. \A a \in Accounts, wait \in RetryWaits : ~Finally(a, wait)
    <2> SUFFICES ASSUME NEW a \in Accounts, NEW wait \in RetryWaits, Finally(a, wait) PROVE FALSE
      OBVIOUS
    <2>1. rows'[j] = Requeued(rows[j], wait)
      BY <1>0, <1>2 DEF Finally, TypeOK, RowsOK
    <2>2. Requeued(rows[j], wait).status = "pending"
      BY <1>0, PublishAssumption, RequeuedRow
    <2> QED BY <2>1, <2>2 DEF Counted
  <1>6. ASSUME NEW a \in Accounts, NEW wait \in RetryWaits, Apply(a, wait)
        PROVE  pc[Account[j]] = "apply" /\ cur[Account[j]] = j /\ pc'[Account[j]] = "finally"
    <2>1. /\ pc[a] \in {"apply", "rescue"} /\ pc'[a] = "finally"
          /\ rows' = [rows EXCEPT ![cur[a]] = Applied(a, wait)]
      BY <1>0, <1>6 DEF Apply, TypeOK
    <2>2. cur[a] = j /\ rows[j].status = "publishing"
      BY <1>0, <1>2, <2>1 DEF TypeOK, RowsOK, Applied
    <2>3. Account[j] = a
      BY <2>1, <2>2 DEF IInv, ChildOK, JobsOf, Phases, Running
    <2>4. pc[a] = "apply"
      <3> SUFFICES ASSUME pc[a] = "rescue" PROVE FALSE
        BY <2>1
      <3>1. verdict[a] = "fail" /\ loaded[a].retries = rows[j].retries /\ wait \in Nat
        BY <2>2, PublishAssumption DEF IInv, ChildOK, Phases, Running
      <3>2. rows'[j] = Settled(rows[j], "fail", rows[j].retries, wait)
        BY <1>0, <2>1, <2>2, <3>1 DEF TypeOK, RowsOK, Applied
      <3>3. Settled(rows[j], "fail", rows[j].retries, wait).status # "published"
        BY <1>0, <3>1, SettledRow
      <3> QED BY <3>2, <3>3, Zenon DEF Counted
    <2> QED BY <2>1, <2>2, <2>3, <2>4
  <1>7. Next
    BY <1>1 DEF vars, rowVars
  <1>8. ~Rest /\ ~Time /\ ~Recover /\ ~ListDue /\ ~RestartSupervisor
    BY <1>0, <1>1, RestDrifts, TimeDrifts, RecoverDrifts DEF ListDue, RestartSupervisor, rowVars
  <1>9. PICK a \in Accounts : ChildStep(a)
    BY <1>1, <1>7, <1>8 DEF Next, Spawn, Skip, KillChild, WriteRaises, rowVars
  <1>10. \E wait \in RetryWaits : Apply(a, wait)
    BY <1>1, <1>3, <1>4, <1>5, <1>9
       DEF ChildStep, Load, Exit, GatePass, LoseClaim, Post, Return, rowVars
  <1> QED BY <1>6, <1>10

(* A child gets past the gate only while the account has room.               *)
LEMMA GateSteps ==
  ASSUME IInv, [Next]_vars, NEW a \in Accounts, PastGate(a)', ~PastGate(a)
  PROVE  PublishedToday(a) < DailyCap
  <1>0. pc \in [Accounts -> Phases] /\ pc'[a] # pc[a] /\ ~UNCHANGED pc
    BY DEF IInv, TypeOK, PastGate
  <1>1. ~Rest /\ ~Time /\ ~Recover /\ ~ListDue /\ ~UNCHANGED vars
    BY <1>0 DEF Rest, Time, Recover, ListDue, childVars, vars
  <1>2. ~RestartSupervisor
    BY <1>0 DEF RestartSupervisor, Gone, PastGate, Running
  <1>3. PICK b \in Accounts :
          \/ \E ids \in SUBSET Jobs : Spawn(b, ids)
          \/ Skip(b) \/ KillChild(b) \/ WriteRaises(b) \/ ChildStep(b)
    BY <1>1, <1>2 DEF Next
  <1>4. ~Skip(b) /\ ~KillChild(b) /\ ~WriteRaises(b) /\ \A ids \in SUBSET Jobs : ~Spawn(b, ids)
    <2>1. ~Skip(b) /\ \A ids \in SUBSET Jobs : ~Spawn(b, ids)
      BY <1>0 DEF Skip, Spawn, childVars, PastGate, Running
    <2>2. ~KillChild(b)
      BY <1>0 DEF KillChild, Gone, PastGate, Running
    <2>3. ~WriteRaises(b)
      BY <1>0 DEF WriteRaises, BackToBatch, PastGate, Running
    <2> QED BY <2>1, <2>2, <2>3
  <1>5. GatePass(b)
    <2>1. ~Exit(b) /\ ~LoseClaim(b) /\ \A j \in Jobs : ~Load(b, j)
      BY <1>0 DEF Exit, LoseClaim, BackToBatch, Load, PastGate, Running
    <2>2. ~Claim(b) /\ ~Post(b) /\ \A v \in {"ok", "fail", "dead"} : ~Return(b, v)
      BY <1>0 DEF Claim, Post, Return, PastGate, Running
    <2>3. /\ \A delay \in MinInterval..MaxInterval : ~GateDeny(b, delay)
          /\ \A wait \in RetryWaits : ~Apply(b, wait) /\ ~Finally(b, wait)
      BY <1>0 DEF GateDeny, Apply, Finally, BackToBatch, PastGate, Running
    <2> QED BY <1>3, <1>4, <2>1, <2>2, <2>3 DEF ChildStep
  <1> QED BY <1>0, <1>5 DEF GatePass, GateOpen

(* The daily cap holds although it is read at the gate and the note is       *)
(* counted only when its execution has been written.                         *)
THEOREM DailyCapHolds == Spec => []DailyCapKept
  <1> DEFINE CapInv == \A a \in Accounts : CapOK(a)
  <1>0. \A a \in Accounts : PublishedToday(a) = Cardinality(CountedOf(a))
    BY DEF PublishedToday, CountedOf, Counted
  <1>1. Init => CapInv
    <2> SUFFICES ASSUME Init, NEW a \in Accounts PROVE CapOK(a)
      OBVIOUS
    <2>1. CountedOf(a) = {}
      BY DEF Init, RowsInit, CountedOf, Counted, JobsOf
    <2>2. PublishedToday(a) = 0
      BY <1>0, <2>1, FS_EmptySet
    <2> QED BY <2>2, PublishAssumption, SMT DEF CapOK, Init, PastGate, Running
  <1>2. IInv /\ CapInv /\ [Next]_vars => CapInv'
    <2> SUFFICES ASSUME IInv, CapInv, [Next]_vars, NEW a \in Accounts PROVE CapOK(a)'
      OBVIOUS
    <2> DEFINE old == CountedOf(a)
               new == {j \in JobsOf(a) : Counted(j)'}
               n == Cardinality(old)
               m == Cardinality(new)
    <2>1. PublishedToday(a) = n /\ PublishedToday(a)' = m
      BY <1>0 DEF PublishedToday, CountedOf, Counted, JobsOf
    <2>2. IsFiniteSet(old) /\ IsFiniteSet(new) /\ n \in Nat /\ m \in Nat
      <3>1. old \subseteq Jobs /\ new \subseteq Jobs
        BY DEF CountedOf, JobsOf
      <3> QED BY <3>1, FS_Subset, FS_CardinalityType, PublishAssumption
    <2>3. n <= DailyCap /\ (PastGate(a) => n < DailyCap)
      BY <2>1 DEF CapOK
    <2>4. new \subseteq old \cup {cur[a]} /\ (~(pc[a] = "apply" /\ pc'[a] = "finally") => new \subseteq old)
      BY CountSteps DEF CountedOf, JobsOf
    <2>5. m <= n + 1 /\ (~(pc[a] = "apply" /\ pc'[a] = "finally") => m <= n)
      <3>1. new \subseteq old => m <= n
        BY <2>2, FS_Subset
      <3>2. m <= n + 1
        <4>1. IsFiniteSet(old \cup {cur[a]}) /\ Cardinality(old \cup {cur[a]}) <= n + 1
          BY <2>2, FS_AddElement, SMT
        <4>2. m <= Cardinality(old \cup {cur[a]}) /\ Cardinality(old \cup {cur[a]}) \in Nat
          BY <2>4, <4>1, FS_Subset, FS_CardinalityType
        <4> QED BY <2>2, <4>1, <4>2, SMT
      <3> QED BY <2>4, <3>1, <3>2
    <2> HIDE DEF old, new, n, m
    <2>6. CASE PastGate(a)'
      <3>1. n < DailyCap
        BY <2>1, <2>3, <2>6, GateSteps
      <3>2. m <= n
        BY <2>5, <2>6 DEF PastGate, Running
      <3> QED BY <2>1, <2>2, <3>1, <3>2, PublishAssumption, SMT DEF CapOK
    <2>7. CASE ~PastGate(a)'
      <3>1. pc[a] = "apply" => n < DailyCap
        BY <2>3 DEF PastGate, Running
      <3>2. m <= DailyCap
        BY <2>2, <2>3, <2>5, <3>1, PublishAssumption, SMT
      <3> QED BY <2>1, <2>7, <3>2, Zenon DEF CapOK
    <2> QED BY <2>6, <2>7
  <1>3. CapInv => DailyCapKept
    BY DEF CapOK, DailyCapKept
  <1> HIDE DEF CapInv
  <1> QED BY <1>1, <1>2, <1>3, Invariant, PTL DEF Spec

(***************************************************************************)
(* PublishWorker implements PublishPromise                                 *)
(***************************************************************************)

Shown == [j \in Jobs |-> rows[j].status]
Owes(j) == posts[j] > lost[j]

(* A cancel was read of a job that exists; a child that says a note is up     *)
(* has put it up.                                                            *)
ReportsOK ==
  /\ \A j \in cancels : rows[j].status # "none"
  /\ \A a \in Accounts : pc[a] = "posted" \/ (pc[a] = "apply" /\ verdict[a] = "ok")
                           => posts[cur[a]] > 0

(* The column after a step that keeps it, and after one that writes one row.  *)
LEMMA ShownKept ==
  ASSUME \A j \in Jobs : rows'[j].status = rows[j].status
  PROVE  Shown' = Shown
  BY DEF Shown

LEMMA ShownOne ==
  ASSUME NEW c \in Jobs, NEW s, rows'[c].status = s,
         \A k \in Jobs \ {c} : rows'[k] = rows[k]
  PROVE  Shown' = [Shown EXCEPT ![c] = s]
  BY DEF Shown

(* The jobs that are executed are those of busy children.                    *)
LEMMA ExecutingIsBusy ==
  ASSUME IInv
  PROVE  Executing \subseteq Jobs /\ \A j \in Jobs : j \in Executing <=> Busy(j)
  <1>1. \A a \in Accounts : pc[a] \in Running => cur[a] \in Jobs /\ Account[cur[a]] = a
    BY DEF IInv, ChildOK, JobsOf, Running, Phases
  <1>2. \A j \in Jobs : Account[j] \in Accounts
    BY PublishAssumption
  <1> QED BY <1>1, <1>2 DEF Executing, Busy

(* What a step of one child does to them.                                    *)
LEMMA ExecutingMoves ==
  ASSUME IInv, IInv', NEW a \in Accounts,
         \A b \in Accounts \ {a} : pc'[b] = pc[b] /\ cur'[b] = cur[b]
  PROVE  /\ pc[a] \in Running /\ pc'[a] \in Running /\ cur'[a] = cur[a] => Executing' = Executing
         /\ pc[a] \notin Running /\ pc'[a] \notin Running => Executing' = Executing
         /\ pc[a] \notin Running /\ pc'[a] \in Running =>
              Executing' = Executing \cup {cur'[a]} /\ cur'[a] \notin Executing
         /\ pc[a] \in Running /\ pc'[a] \notin Running =>
              Executing' = Executing \ {cur[a]} /\ cur[a] \in Executing
  <1>1. /\ \A b \in Accounts : pc[b] \in Running => cur[b] \in Jobs /\ Account[cur[b]] = b
        /\ \A b \in Accounts : pc'[b] \in Running => cur'[b] \in Jobs /\ Account[cur'[b]] = b
    BY DEF IInv, ChildOK, JobsOf, Running, Phases
  <1> USE DEF Executing
  <1>2. pc[a] \in Running /\ pc'[a] \in Running /\ cur'[a] = cur[a] => Executing' = Executing
    OBVIOUS
  <1>3. pc[a] \notin Running /\ pc'[a] \notin Running => Executing' = Executing
    OBVIOUS
  <1>4. pc[a] \notin Running /\ pc'[a] \in Running =>
          Executing' = Executing \cup {cur'[a]} /\ cur'[a] \notin Executing
    BY <1>1
  <1>5. pc[a] \in Running /\ pc'[a] \notin Running =>
          Executing' = Executing \ {cur[a]} /\ cur[a] \in Executing
    BY <1>1
  <1> QED BY <1>2, <1>3, <1>4, <1>5

(* A job that is waiting or left publishing owes nothing.                    *)
LEMMA OwesNothing ==
  ASSUME IInv, NEW j \in Jobs, Open(j), ~Noted(j)
  PROVE  ~Owes(j)
  <1>1. posts[j] <= lost[j] /\ posts[j] \in Nat /\ lost[j] \in Nat
    BY DEF IInv, JobOK, TypeOK, RowsOK
  <1> QED BY <1>1 DEF Owes

(* REST handlers, time and recovery.                                         *)
LEMMA DriftPromise ==
  ASSUME IInv, ReportsOK, Rest \/ Time \/ Recover
  PROVE  [Promise!Next]_(Promise!vars)
  <1>0. /\ \A j \in Jobs : rows[j] \in Rows
        /\ rows \in [Jobs -> Rows] /\ cancels \subseteq Editable /\ Editable \subseteq Jobs
    BY PublishAssumption DEF IInv, TypeOK, RowsOK, CancelsOK
  <1>1. UNCHANGED <<posts, lost, Executing>>
    <2>1. UNCHANGED <<posts, lost, pc, cur>>
      BY DEF Rest, Time, Recover, Create, Patch, CancelRead, CancelWrite, Tick, Midnight, childVars
    <2> QED BY <2>1 DEF Executing
  <1> DEFINE Goal == Promise!Next \/ Shown' = Shown
  <1>2. Goal => [Promise!Next]_(Promise!vars)
    BY <1>1 DEF Promise!vars, Shown
  <1>3. ASSUME NEW j \in Jobs, NEW when \in Schedule, Create(j, when) PROVE Goal
    <2> DEFINE eff == EffectiveSchedule(Account[j], when)
    <2>1. eff \in Schedule
      BY SMT DEF EffectiveSchedule, Schedule, Tomorrow
    <2> HIDE DEF eff
    <2>2. rows' = [rows EXCEPT ![j] = Created(rows[j], eff)] /\ rows[j].status = "none"
      BY <1>3 DEF Create, eff
    <2>3. Created(rows[j], eff) \in Rows /\ Created(rows[j], eff).status = "pending"
      BY <1>0, <2>1, CreatedRow
    <2>4. Shown' = [Shown EXCEPT ![j] = "pending"]
      BY <1>0, <2>2, <2>3, OneRow, ShownOne
    <2>5. Promise!Create(j)
      BY <1>1, <2>2, <2>4 DEF Promise!Create, Shown
    <2> QED BY <2>5 DEF Promise!Next
  <1>4. ASSUME NEW j \in Jobs, NEW when \in Schedule, Patch(j, when) PROVE Goal
    <2>1. rows' = [rows EXCEPT ![j] = Patched(rows[j], when)] /\ rows[j].text < MaxPatches
      BY <1>4 DEF Patch
    <2>2. Patched(rows[j], when) \in Rows /\ Patched(rows[j], when).status = rows[j].status
      BY <1>0, <2>1, PatchedRow
    <2> QED BY <1>0, <2>1, <2>2, OneRow, ShownKept
  <1>5. ASSUME NEW j \in Jobs, CancelRead(j) PROVE Goal
    BY <1>5, ShownKept DEF CancelRead
  <1>6. ASSUME NEW j \in Jobs, CancelWrite(j) PROVE Goal
    <2>1. rows' = [rows EXCEPT ![j] = Canceled(rows[j])] /\ j \in Editable /\ rows[j].status # "none"
      BY <1>0, <1>6 DEF CancelWrite, ReportsOK
    <2>2. Canceled(rows[j]) \in Rows /\ Canceled(rows[j]).status = "canceled"
      BY <1>0, CanceledRow
    <2>3. Shown' = [Shown EXCEPT ![j] = "canceled"]
      BY <1>0, <2>1, <2>2, OneRow, ShownOne
    <2>4. Promise!Cancel(j)
      BY <1>1, <2>1, <2>3 DEF Promise!Cancel, Shown
    <2> QED BY <2>4 DEF Promise!Next
  <1>7. CASE Time
    <2>1. (\A j \in Jobs : rows'[j] = Older(rows[j])) \/ (\A j \in Jobs : rows'[j] = NextDay(rows[j]))
      BY <1>7 DEF Time, Tick, Midnight
    <2>2. \A j \in Jobs : Older(rows[j]).status = rows[j].status
      BY <1>0, OlderRow
    <2>3. \A j \in Jobs : NextDay(rows[j]).status = rows[j].status
      BY <1>0, NextDayRow
    <2>4. \A j \in Jobs : rows'[j].status = rows[j].status
      BY <2>1, <2>2, <2>3
    <2> QED BY <1>2, <2>4, ShownKept
  <1>8. CASE Recover
    <2> DEFINE S == {j \in Jobs : Stalled(j) /\ j \notin SparedByChildren}
    <2>1. rows' = [j \in Jobs |-> IF j \in S THEN Unstart(rows[j], "pending") ELSE rows[j]]
      BY <1>8 DEF Recover, RecoverRows
    <2>2. \A j \in Jobs : Unstart(rows[j], "pending").status = "pending"
      BY <1>0, UnstartRow DEF Statuses
    <2>3. ASSUME NEW j \in S
          PROVE  rows[j].status = "publishing" /\ j \notin Executing /\ ~Owes(j)
      <3>1. rows[j].status = "publishing" /\ ~Busy(j)
        BY DEF Stalled, SparedByChildren, Live, Busy, Running
      <3> QED BY <3>1, OwesNothing, ExecutingIsBusy DEF Open, Noted
    <2> HIDE DEF S
    <2>4. Shown' = [j \in Jobs |-> IF j \in S THEN "pending" ELSE Shown[j]]
      BY <2>1, <2>2 DEF Shown
    <2>5. S \in SUBSET Jobs
      BY DEF S
    <2>6. Promise!GiveBack(S, "pending")
      BY <1>1, <2>3, <2>4, <2>5 DEF Promise!GiveBack, Promise!Owes, Shown, Owes
    <2> QED BY <2>5, <2>6 DEF Promise!Next
  <1> HIDE DEF Goal
  <1> QED BY <1>2, <1>3, <1>4, <1>5, <1>6, <1>7, <1>8 DEF Rest

(* Children that are killed.                                                 *)
LEMMA GonePromise ==
  ASSUME IInv, NEW S \in SUBSET Accounts, Gone(S), UNCHANGED <<rows, posts>>
  PROVE  Promise!Next
  <1> DEFINE L == {j \in Jobs : \E a \in S : cur[a] = j /\ pc[a] \in Running}
  <1>1. /\ \A a \in Accounts : pc'[a] = IF a \in S THEN "off" ELSE pc[a]
        /\ \A a \in Accounts : cur'[a] = IF a \in S THEN Null ELSE cur[a]
        /\ lost' = [j \in Jobs |-> IF j \in L THEN lost[j] + 1 ELSE lost[j]]
    BY DEF Gone
  <1>2. \A a \in Accounts : pc[a] \in Running => cur[a] \in Jobs /\ Account[cur[a]] = a
    BY DEF IInv, ChildOK, JobsOf, Running, Phases
  <1>3. Executing' = Executing \ L /\ L \subseteq Executing
    <2>1. "off" \notin Running
      BY DEF Running
    <2> QED BY <1>1, <1>2, <2>1 DEF Executing
  <1>4. Shown' = Shown
    BY ShownKept
  <1> HIDE DEF L
  <1>5. Promise!Lose(L, L)
    BY <1>1, <1>3, <1>4 DEF Promise!Lose, Shown
  <1> QED BY <1>3, <1>5 DEF Promise!Next

(* Steps of a child, or of the supervisor with it, that the operators do not  *)
(* see.                                                                      *)
Unseen(a) ==
  \/ (\E ids \in SUBSET Jobs : Spawn(a, ids)) \/ (\E j \in Jobs : Load(a, j))
  \/ Exit(a) \/ GatePass(a) \/ LoseClaim(a)
  \/ \E delay \in MinInterval..MaxInterval : GateDeny(a, delay)

LEMMA UnseenPromise ==
  ASSUME IInv, IInv', NEW a \in Accounts, Unseen(a)
  PROVE  UNCHANGED Promise!vars
  <1>0. rows \in [Jobs -> Rows] /\ \A j \in Jobs : rows[j] \in Rows
    BY DEF IInv, TypeOK, RowsOK
  <1>1. /\ UNCHANGED <<posts, lost>>
        /\ pc[a] \notin Running /\ pc'[a] \notin Running
        /\ \A b \in Accounts \ {a} : pc'[b] = pc[b] /\ cur'[b] = cur[b]
    <2>1. ASSUME NEW ids \in SUBSET Jobs, Spawn(a, ids)
          PROVE  /\ UNCHANGED <<posts, lost>> /\ pc[a] = "off" /\ pc'[a] = "next"
                 /\ \A b \in Accounts \ {a} : pc'[b] = pc[b] /\ cur'[b] = cur[b]
      BY <2>1 DEF Spawn, MaySpawn, Live, rowVars, IInv, TypeOK
    <2>2. ASSUME NEW j \in Jobs, Load(a, j)
          PROVE  /\ UNCHANGED <<posts, lost>> /\ pc[a] = "next" /\ pc'[a] \in {"next", "gate"}
                 /\ \A b \in Accounts \ {a} : pc'[b] = pc[b] /\ cur'[b] = cur[b]
      BY <2>2 DEF Load, rowVars, IInv, TypeOK
    <2>3. ASSUME Exit(a) \/ GatePass(a)
          PROVE  /\ UNCHANGED <<posts, lost>> /\ pc[a] \in {"next", "gate"}
                 /\ pc'[a] \in {"off", "claim"}
                 /\ \A b \in Accounts \ {a} : pc'[b] = pc[b] /\ cur'[b] = cur[b]
      BY <2>3 DEF Exit, GatePass, rowVars, IInv, TypeOK
    <2>4. ASSUME LoseClaim(a) \/ \E delay \in MinInterval..MaxInterval : GateDeny(a, delay)
          PROVE  /\ UNCHANGED <<posts, lost>> /\ pc[a] \in {"gate", "claim"} /\ pc'[a] = "next"
                 /\ \A b \in Accounts \ {a} : pc'[b] = pc[b] /\ cur'[b] = cur[b]
      BY <2>4 DEF LoseClaim, GateDeny, BackToBatch, rowVars, IInv, TypeOK
    <2> QED BY <2>1, <2>2, <2>3, <2>4 DEF Unseen, Running
  <1>2. Executing' = Executing
    BY <1>1, ExecutingMoves
  <1>3. Shown' = Shown
    <2>1. ASSUME NEW delay \in MinInterval..MaxInterval, GateDeny(a, delay)
          PROVE  Shown' = Shown
      <3>1. delay \in Nat
        BY PublishAssumption, SMT
      <3>2. \A j \in Jobs : PutOff(rows[j], delay).status = rows[j].status
        BY <1>0, <3>1, PutOffRow
      <3>3. \A j \in Jobs : rows'[j] \in {rows[j], PutOff(rows[j], delay)}
        BY <1>0, <2>1 DEF GateDeny
      <3>4. \A j \in Jobs : rows'[j].status = rows[j].status
        BY <3>2, <3>3
      <3> QED BY <3>4, ShownKept
    <2>2. ASSUME rows' = rows PROVE Shown' = Shown
      BY <2>2 DEF Shown
    <2> QED BY <2>1, <2>2 DEF Unseen, Spawn, Load, Exit, GatePass, LoseClaim, rowVars
  <1> QED BY <1>1, <1>2, <1>3 DEF Promise!vars, Shown

(* A job begins. *)
LEMMA ClaimPromise ==
  ASSUME IInv, IInv', NEW a \in Accounts, Claim(a)
  PROVE  Promise!Next
  <1>c. PICK c \in Jobs : c = cur[a]
    BY DEF IInv, ChildOK, JobsOf, Phases, Running, Claim
  <1>1. /\ rows[c].status = "pending" /\ rows' = [rows EXCEPT ![c] = Claimed(rows[c])]
        /\ UNCHANGED <<posts, lost, cur>> /\ pc[a] = "claim" /\ pc'[a] = "run"
        /\ \A b \in Accounts \ {a} : pc'[b] = pc[b] /\ cur'[b] = cur[b]
    BY <1>c DEF Claim, IInv, TypeOK
  <1>2. Executing' = Executing \cup {c} /\ c \notin Executing
    BY <1>c, <1>1, ExecutingMoves DEF Running
  <1>3. Shown' = [Shown EXCEPT ![c] = "publishing"]
    <2>1. rows \in [Jobs -> Rows] /\ rows[c] \in Rows
      BY DEF IInv, TypeOK, RowsOK
    <2> QED BY <1>1, <2>1, ClaimedRow, OneRow, ShownOne
  <1>4. Promise!Start(c)
    BY <1>1, <1>2, <1>3 DEF Promise!Start, Shown
  <1> QED BY <1>4 DEF Promise!Next

(* A note is put up. *)
LEMMA PostPromise ==
  ASSUME IInv, IInv', NEW a \in Accounts, Post(a)
  PROVE  Promise!Next
  <1>c. PICK c \in Jobs : c = cur[a]
    BY DEF IInv, ChildOK, JobsOf, Phases, Running, Post
  <1>1. /\ posts' = [posts EXCEPT ![c] = @ + 1]
        /\ UNCHANGED <<rows, lost, cur>> /\ pc[a] = "run" /\ pc'[a] = "posted"
        /\ \A b \in Accounts \ {a} : pc'[b] = pc[b] /\ cur'[b] = cur[b]
    BY <1>c DEF Post, IInv, TypeOK
  <1>2. Executing' = Executing /\ c \in Executing
    BY <1>c, <1>1, ExecutingMoves DEF Running, Executing
  <1>3. ~Owes(c)
    <2>1. posts[c] <= lost[c] /\ posts[c] \in Nat /\ lost[c] \in Nat
      BY <1>c, <1>1 DEF IInv, ChildOK, TypeOK, RowsOK
    <2> QED BY <2>1 DEF Owes
  <1>4. Promise!Post(c)
    BY <1>1, <1>2, <1>3 DEF Promise!Post, Promise!Owes, Owes
  <1> QED BY <1>4 DEF Promise!Next

(* publish_once returns: with the truth, or with a failure although the note  *)
(* is up.                                                                    *)
LEMMA ReturnPromise ==
  ASSUME IInv, IInv', NEW a \in Accounts, NEW v \in {"ok", "fail", "dead"}, Return(a, v)
  PROVE  [Promise!Next]_(Promise!vars)
  <1>c. PICK c \in Jobs : c = cur[a]
    BY DEF IInv, ChildOK, JobsOf, Phases, Running, Return
  <1>1. /\ UNCHANGED <<rows, posts, cur>> /\ pc[a] \in {"run", "posted"} /\ pc'[a] = "apply"
        /\ lost' \in {lost, [lost EXCEPT ![c] = @ + 1]}
        /\ \A b \in Accounts \ {a} : pc'[b] = pc[b] /\ cur'[b] = cur[b]
    BY <1>c DEF Return, IInv, TypeOK
  <1>2. Executing' = Executing /\ c \in Executing
    BY <1>c, <1>1, ExecutingMoves DEF Running, Executing
  <1>3. CASE lost' = lost
    BY <1>1, <1>2, <1>3 DEF Promise!vars
  <1>4. CASE lost' = [lost EXCEPT ![c] = @ + 1]
    <2>1. lost' = [j \in Jobs |-> IF j \in {c} THEN lost[j] + 1 ELSE lost[j]]
      BY <1>4 DEF IInv, TypeOK, RowsOK
    <2>2. Promise!Lose({}, {c})
      BY <1>1, <1>2, <2>1 DEF Promise!Lose
    <2> QED BY <1>2, <2>2 DEF Promise!Next
  <1> QED BY <1>1, <1>3, <1>4

(* What a decision makes of a row.                                           *)
LEMMA VerdictShown ==
  ASSUME IInv, NEW c \in Jobs, NEW v \in {"ok", "fail", "dead"}, NEW wait \in RetryWaits,
         rows' = [rows EXCEPT ![c] = Settled(rows[c], v, rows[c].retries, wait)]
  PROVE  \E to \in {"published", "failed", "pending"} :
           /\ Shown' = [Shown EXCEPT ![c] = to]
           /\ to = "published" <=> v = "ok"
  <1> DEFINE s == Settled(rows[c], v, rows[c].retries, wait)
  <1>1. rows \in [Jobs -> Rows] /\ rows[c] \in Rows /\ wait \in Nat
    BY PublishAssumption DEF IInv, TypeOK, RowsOK
  <1>2. s \in Rows /\ s.status \in {"published", "failed", "pending"}
        /\ (s.status = "published" <=> v = "ok")
    BY <1>1, SettledRow
  <1> HIDE DEF s
  <1>3. rows'[c] = s /\ \A k \in Jobs \ {c} : rows'[k] = rows[k]
    BY <1>1, <1>2, OneRow DEF s
  <1>4. Shown' = [Shown EXCEPT ![c] = s.status]
    BY <1>3, ShownOne
  <1> QED BY <1>2, <1>4

(* The decision reaches the row, or finds it canceled.                       *)
LEMMA ApplyPromise ==
  ASSUME IInv, IInv', ReportsOK, NEW a \in Accounts, NEW wait \in RetryWaits, Apply(a, wait)
  PROVE  [Promise!Next]_(Promise!vars)
  <1>c. PICK c \in Jobs : c = cur[a] /\ Account[c] = a
    BY DEF IInv, ChildOK, JobsOf, Phases, Running, Apply
  <1>1. /\ UNCHANGED <<posts, lost, cur>> /\ pc[a] \in {"apply", "rescue"} /\ pc'[a] = "finally"
        /\ rows' = [rows EXCEPT ![c] = Applied(a, wait)]
        /\ \A b \in Accounts \ {a} : pc'[b] = pc[b] /\ cur'[b] = cur[b]
    BY <1>c DEF Apply, IInv, TypeOK
  <1>2. /\ pc[a] = "apply" => Executing' = Executing \ {c} /\ c \in Executing
        /\ pc[a] = "rescue" => Executing' = Executing
        /\ c \in Executing <=> pc[a] = "apply"
    BY <1>c, <1>1, ExecutingMoves, ExecutingIsBusy DEF Running, Busy
  <1>3. /\ verdict[a] \in {"ok", "fail", "dead"} /\ (pc[a] = "rescue" => verdict[a] = "fail")
        /\ loaded[a].retries = rows[c].retries
        /\ pc[a] = "apply" => Held(c)
    BY <1>c, <1>1 DEF IInv, ChildOK, Phases, Running
  <1>4. CASE rows[c].status = "publishing"
    <2>1. rows' = [rows EXCEPT ![c] = Settled(rows[c], verdict[a], rows[c].retries, wait)]
      BY <1>c, <1>1, <1>3, <1>4 DEF Applied
    <2>2. PICK to \in {"published", "failed", "pending"} :
            Shown' = [Shown EXCEPT ![c] = to] /\ (to = "published" <=> verdict[a] = "ok")
      BY <1>3, <2>1, VerdictShown
    <2>3. to # "published" => ~Owes(c)
      <3>1. to # "published" => ~Noted(c)
        BY <1>c, <1>1, <2>2 DEF Noted, Busy, Running
      <3> QED BY <1>4, <3>1, OwesNothing DEF Open
    <2>4. to = "published" => pc[a] = "apply" /\ posts[c] > 0
      BY <1>c, <1>1, <1>3, <2>2 DEF ReportsOK
    <2>5. CASE pc[a] = "apply"
      <3>1. Promise!Report(c, to)
        BY <1>1, <1>2, <2>2, <2>3, <2>4, <2>5 DEF Promise!Report, Promise!Owes, Owes, Shown
      <3> QED BY <3>1 DEF Promise!Next
    <2>6. CASE pc[a] = "rescue"
      <3>1. to \in {"pending", "failed"}
        BY <2>4, <2>6
      <3>2. Shown' = [j \in Jobs |-> IF j \in {c} THEN to ELSE Shown[j]]
        BY <2>2 DEF Shown
      <3>3. Promise!GiveBack({c}, to)
        BY <1>1, <1>2, <1>4, <2>3, <2>6, <3>1, <3>2
           DEF Promise!GiveBack, Promise!Owes, Owes, Shown
      <3> QED BY <3>1, <3>3 DEF Promise!Next
    <2> QED BY <1>1, <2>5, <2>6
  <1>5. CASE rows[c].status # "publishing"
    <2>1. Shown' = Shown
      BY <1>c, <1>1, <1>5 DEF Applied, Shown
    <2>2. CASE pc[a] = "apply"
      <3>1. Promise!Withdraw(c)
        BY <1>1, <1>2, <1>3, <1>5, <2>1, <2>2 DEF Promise!Withdraw, Held, Shown
      <3> QED BY <3>1 DEF Promise!Next
    <2>3. CASE pc[a] = "rescue"
      BY <1>1, <1>2, <2>1, <2>3 DEF Promise!vars, Shown
    <2> QED BY <1>1, <2>2, <2>3
  <1> QED BY <1>4, <1>5

(* A write of the ledger raises. *)
LEMMA RaisesPromise ==
  ASSUME IInv, IInv', NEW a \in Accounts, WriteRaises(a)
  PROVE  [Promise!Next]_(Promise!vars)
  <1>1. CASE pc[a] = "apply"
    <2>c. PICK c \in Jobs : c = cur[a]
      BY <1>1 DEF IInv, ChildOK, JobsOf, Phases, Running
    <2>1. /\ UNCHANGED <<rows, posts, cur>> /\ pc'[a] = "rescue"
          /\ lost' = [lost EXCEPT ![c] = @ + 1]
          /\ \A b \in Accounts \ {a} : pc'[b] = pc[b] /\ cur'[b] = cur[b]
      BY <2>c, <1>1 DEF WriteRaises, IInv, TypeOK
    <2>2. Executing' = Executing \ {c} /\ c \in Executing
      BY <2>c, <1>1, <2>1, ExecutingMoves DEF Running
    <2>3. lost' = [j \in Jobs |-> IF j \in {c} THEN lost[j] + 1 ELSE lost[j]]
      BY <2>1 DEF IInv, TypeOK, RowsOK
    <2>4. Promise!Lose({c}, {c})
      BY <2>1, <2>2, <2>3 DEF Promise!Lose
    <2> QED BY <2>2, <2>4 DEF Promise!Next
  <1>2. CASE pc[a] # "apply"
    <2>1. /\ UNCHANGED <<rows, posts, lost>> /\ pc[a] \in {"rescue", "finally"}
          /\ pc'[a] \in {"finally", "next"}
          /\ \A b \in Accounts \ {a} : pc'[b] = pc[b] /\ cur'[b] = cur[b]
      BY <1>2 DEF WriteRaises, BackToBatch, IInv, TypeOK
    <2>2. Executing' = Executing
      BY <2>1, ExecutingMoves DEF Running
    <2> QED BY <2>1, <2>2 DEF Promise!vars
  <1> QED BY <1>1, <1>2

(* A row that both writes have failed to reach is given back.                *)
LEMMA FinallyPromise ==
  ASSUME IInv, IInv', NEW a \in Accounts, NEW wait \in RetryWaits, Finally(a, wait)
  PROVE  [Promise!Next]_(Promise!vars)
  <1>c. PICK c \in Jobs : c = cur[a] /\ Account[c] = a
    BY DEF IInv, ChildOK, JobsOf, Phases, Running, Finally
  <1>1. /\ UNCHANGED <<posts, lost>> /\ pc[a] = "finally" /\ pc'[a] = "next"
        /\ \A b \in Accounts \ {a} : pc'[b] = pc[b] /\ cur'[b] = cur[b]
    BY DEF Finally, BackToBatch, IInv, TypeOK
  <1>2. Executing' = Executing /\ ~Busy(c) /\ c \notin Executing
    BY <1>c, <1>1, ExecutingMoves, ExecutingIsBusy DEF Running, Busy
  <1>3. CASE rows[c].status = "publishing"
    <2>1. rows' = [rows EXCEPT ![c] = Requeued(rows[c], wait)]
      BY <1>c, <1>3 DEF Finally
    <2>2. rows \in [Jobs -> Rows] /\ rows[c] \in Rows /\ wait \in Nat
      BY PublishAssumption DEF IInv, TypeOK, RowsOK
    <2>3. Shown' = [Shown EXCEPT ![c] = "pending"]
      BY <2>1, <2>2, RequeuedRow, OneRow, ShownOne
    <2>4. ~Owes(c)
      BY <1>2, <1>3, OwesNothing DEF Open, Noted
    <2>5. Shown' = [j \in Jobs |-> IF j \in {c} THEN "pending" ELSE Shown[j]]
      BY <2>3 DEF Shown
    <2>6. Promise!GiveBack({c}, "pending")
      BY <1>1, <1>2, <1>3, <2>4, <2>5 DEF Promise!GiveBack, Promise!Owes, Owes, Shown
    <2> QED BY <2>6 DEF Promise!Next
  <1>4. CASE rows[c].status # "publishing"
    <2>1. rows' = rows
      BY <1>c, <1>4 DEF Finally
    <2> QED BY <1>1, <1>2, <2>1 DEF Promise!vars
  <1> QED BY <1>3, <1>4

(* Reports stay true. *)
LEMMA ReportsKept ==
  ASSUME IInv, IInv', ReportsOK, [Next]_vars
  PROVE  ReportsOK'
  <1>1. ASSUME NEW j \in cancels' PROVE rows'[j].status # "none"
    <2>1. j \in Jobs /\ (j \in cancels \/ rows[j].status = "pending")
      <3>1. cancels' = cancels \/ \E i \in Jobs : CancelRead(i) \/ CancelWrite(i)
        BY DEF Next, vars, rowVars, Rest, Create, Patch, Time, Tick, Midnight, Recover, ListDue,
               RestartSupervisor, Spawn, Skip, KillChild, WriteRaises, ChildStep, Load, Exit,
               GatePass, GateDeny, Claim, LoseClaim, Post, Return, Apply, Finally
      <3>2. cancels' \in SUBSET Jobs
        BY DEF IInv, TypeOK, RowsOK
      <3> QED BY <3>1, <3>2 DEF CancelRead, CancelWrite
    <2>2. rows[j].status # "none"
      BY <2>1 DEF ReportsOK
    <2> QED BY <2>1, <2>2, StatusSteps DEF StatusStep
  <1>2. ASSUME NEW a \in Accounts,
               pc'[a] = "posted" \/ (pc'[a] = "apply" /\ verdict'[a] = "ok")
        PROVE  posts'[cur'[a]] > 0
    <2> DEFINE Goal == posts'[cur'[a]] > 0
               Still == /\ UNCHANGED posts
                        /\ pc'[a] = pc[a] /\ cur'[a] = cur[a] /\ verdict'[a] = verdict[a]
    <2>0. Still => Goal
      BY <1>2 DEF ReportsOK
    <2>1. CASE UNCHANGED vars \/ Rest \/ Time \/ Recover \/ ListDue
      BY <2>0, <2>1 DEF vars, Rest, Time, Recover, ListDue, Create, Patch, CancelRead, CancelWrite,
                        Tick, Midnight, rowVars, childVars
    <2>2. ASSUME NEW S \in SUBSET Accounts, Gone(S), UNCHANGED posts PROVE Goal
      BY <1>2, <2>0, <2>2 DEF Gone
    <2>3. ASSUME NEW b \in Accounts, Unseen(b) PROVE Goal
      <3>1. UNCHANGED posts /\ \A d \in Accounts \ {b} : /\ pc'[d] = pc[d] /\ cur'[d] = cur[d]
                                                         /\ verdict'[d] = verdict[d]
        BY <2>3 DEF Unseen, Spawn, Load, Exit, GatePass, LoseClaim, GateDeny, BackToBatch, rowVars,
                    IInv, TypeOK
      <3>2. a # b
        BY <1>2, <2>3 DEF Unseen, Spawn, MaySpawn, Live, Load, Exit, GatePass, LoseClaim, GateDeny,
                          BackToBatch, IInv, TypeOK
      <3> QED BY <2>0, <3>1, <3>2
    <2>4. ASSUME NEW b \in Accounts,
                 \/ Claim(b) \/ WriteRaises(b)
                 \/ \E wait \in RetryWaits : Apply(b, wait) \/ Finally(b, wait)
          PROVE  Goal
      <3>1. UNCHANGED posts /\ \A d \in Accounts \ {b} : /\ pc'[d] = pc[d] /\ cur'[d] = cur[d]
                                                         /\ verdict'[d] = verdict[d]
        BY <2>4 DEF Claim, WriteRaises, Apply, Finally, BackToBatch, IInv, TypeOK
      <3>2. pc'[b] \in {"run", "rescue", "finally", "next"}
        BY <2>4 DEF Claim, WriteRaises, Apply, Finally, BackToBatch, IInv, TypeOK
      <3> QED BY <1>2, <2>0, <3>1, <3>2
    <2>5. ASSUME NEW b \in Accounts, Post(b) PROVE Goal
      <3>1. /\ posts \in [Jobs -> Nat] /\ cur[b] \in Jobs /\ posts' = [posts EXCEPT ![cur[b]] = @ + 1]
            /\ \A d \in Accounts \ {b} : pc'[d] = pc[d] /\ verdict'[d] = verdict[d]
            /\ UNCHANGED cur
        BY <2>5 DEF Post, IInv, TypeOK, RowsOK, ChildOK, JobsOf, Phases, Running
      <3>2. \A j \in Jobs : posts'[j] >= posts[j] /\ posts[j] \in Nat
        BY <3>1
      <3>3. CASE a = b
        BY <3>1, <3>3
      <3>4. CASE a # b
        <4>1. cur[a] \in Jobs
          BY <1>2, <3>1, <3>4 DEF IInv, ChildOK, JobsOf, Phases, Running
        <4>2. posts[cur[a]] > 0
          BY <1>2, <3>1, <3>4 DEF ReportsOK
        <4> QED BY <3>1, <3>2, <4>1, <4>2
      <3> QED BY <3>3, <3>4
    <2>6. ASSUME NEW b \in Accounts, NEW v \in {"ok", "fail", "dead"}, Return(b, v) PROVE Goal
      <3>1. /\ UNCHANGED <<posts, cur>>
            /\ \A d \in Accounts \ {b} : pc'[d] = pc[d] /\ verdict'[d] = verdict[d]
            /\ pc'[b] = "apply" /\ verdict'[b] = v
        BY <2>6 DEF Return, IInv, TypeOK
      <3>2. CASE a = b
        BY <1>2, <2>6, <3>1, <3>2 DEF Return, ReportsOK
      <3>3. CASE a # b
        BY <2>0, <3>1, <3>3
      <3> QED BY <3>2, <3>3
    <2>7. ASSUME RestartSupervisor PROVE Goal
      BY <2>2, <2>7 DEF RestartSupervisor
    <2>8. ASSUME NEW b \in Accounts, KillChild(b) \/ Skip(b) PROVE Goal
      BY <2>0, <2>2, <2>8 DEF KillChild, Skip, rowVars, childVars
    <2>9. ASSUME NEW b \in Accounts, ChildStep(b) PROVE Goal
      BY <2>3, <2>4, <2>5, <2>6, <2>9 DEF ChildStep, Unseen
    <2>10. ASSUME NEW b \in Accounts, NEW ids \in SUBSET Jobs, Spawn(b, ids) PROVE Goal
      BY <2>3, <2>10 DEF Unseen
    <2>11. ASSUME NEW b \in Accounts, WriteRaises(b) PROVE Goal
      BY <2>4, <2>11
    <2> HIDE DEF Still
    <2> QED BY <2>1, <2>7, <2>8, <2>9, <2>10, <2>11 DEF Next
  <1> QED BY <1>1, <1>2 DEF ReportsOK

(* Every step of the deployment is one of the promise, or none.              *)
LEMMA PromiseSteps ==
  ASSUME IInv, IInv', ReportsOK, [Next]_vars
  PROVE  [Promise!Next]_(Promise!vars)
  <1>1. CASE UNCHANGED vars
    BY <1>1 DEF vars, rowVars, childVars, Promise!vars, Executing
  <1>2. CASE ListDue
    BY <1>2 DEF ListDue, rowVars, childVars, Promise!vars, Executing
  <1>3. CASE RestartSupervisor
    BY <1>3, GonePromise DEF RestartSupervisor
  <1>4. ASSUME NEW a \in Accounts, KillChild(a) PROVE Promise!Next
    BY <1>4, GonePromise DEF KillChild
  <1>5. ASSUME NEW a \in Accounts, Skip(a) PROVE UNCHANGED Promise!vars
    BY <1>5 DEF Skip, rowVars, childVars, Promise!vars, Executing
  <1> QED BY <1>1, <1>2, <1>3, <1>4, <1>5, DriftPromise, UnseenPromise, ClaimPromise, PostPromise,
             ReturnPromise, ApplyPromise, RaisesPromise, FinallyPromise DEF Next, ChildStep, Unseen

(* The split deployment keeps the promise of the publish_jobs table: no job   *)
(* is published without an execution, and no execution puts a note up while   *)
(* an earlier one is unaccounted for, whatever is killed, recovered, canceled *)
(* or fails to be written.                                                   *)
THEOREM WorkerKeepsPromise == Spec => KeepsPublishPromise
  <1>1. Init => ReportsOK /\ Promise!Init
    BY DEF Init, RowsInit, ReportsOK, Promise!Init, Executing, Running
  <1>2. IInv /\ IInv' /\ ReportsOK /\ [Next]_vars => ReportsOK' /\ [Promise!Next]_(Promise!vars)
    BY ReportsKept, PromiseSteps
  <1> QED BY <1>1, <1>2, Invariant, PTL DEF Spec, KeepsPublishPromise, Promise!Spec
=============================================================================
