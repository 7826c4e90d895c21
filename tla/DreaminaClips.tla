---------------------------- MODULE DreaminaClips ----------------------------
(***************************************************************************)
(* Paid video clips: the REST handlers that insert and revive rows           *)
(* (http/dreamina_rest.py), the scheduler that submits and polls them and    *)
(* the reaper of their files (services/dreamina.py).  A row stands for one   *)
(* (operator, client_ref); the handlers run in another process than the      *)
(* scheduler and await between reading a row and writing it.                 *)
(*                                                                         *)
(*   row[c]    status, touched (submitted_at is set), sid (submit_id is set), *)
(*             url (video_url is set)                                        *)
(*   files[c]  what the clip's directory holds                              *)
(*   over[c]   the deadline of the row's stage has passed: 3 * timeout since  *)
(*             submitted_at, expires_at, or the TTL since finished_at         *)
(*   req[r]    a request: its step, the rows it found revivable, those it     *)
(*             found missing, those whose references it has fetched          *)
(*   loop      the scheduler: its step, its clip, the CLI's answer, its list  *)
(*   remote[c] what Dreamina has made of the task named by submit_id          *)
(*   tasks[c]  history: tasks that Dreamina accepted, each paid for           *)
(*   stale[c]  history: revivals written over a row that was not revivable    *)
(***************************************************************************)
EXTENDS Naturals, FiniteSets, FiniteSetsExt, DreaminaForms

CONSTANTS Clips,      \* rows, in the order of their ids
          Requests,   \* submissions
          Shots,      \* request -> its rows
          Batches,    \* requests to the batch endpoint
          Budget,     \* request -> max_credits, a shot costing 1
          MaxKills,   \* bound: kills of the worker
          MaxFaults,  \* bound: busy locks, failed writes, answers without a file
          Null

ASSUME ClipsAssumption ==
  /\ Clips \subseteq Nat /\ IsFiniteSet(Clips) /\ Null \notin Clips
  /\ Batches \subseteq Requests
  /\ Shots \in [Requests -> SUBSET Clips]
  /\ Budget \in [Requests -> Nat]
  /\ MaxKills \in Nat /\ MaxFaults \in Nat

VARIABLES row, files, over, req, loop, remote, tasks, stale, kills, faults

rowVars == <<row, files, over>>
vars == <<row, files, over, req, loop, remote, tasks, stale, kills, faults>>

InFlight == {"submitted", "querying"}
Replies == {"none", "busy", "refused", "taken", "unknown", "working", "good", "bad", "fileless"}
Ends == {"done", "error"}
NoRow == [status |-> "none", touched |-> FALSE, sid |-> FALSE, url |-> FALSE]
Started == [at |-> "heal", clip |-> Null, answer |-> "none", list |-> {}]
NoRequest == [at |-> "idle", found |-> {}, missing |-> {}, fetched |-> {}]

Init ==
  /\ row = [c \in Clips |-> NoRow]
  /\ files = [c \in Clips |-> {}] /\ over = [c \in Clips |-> FALSE]
  /\ req = [r \in Requests |-> NoRequest]
  /\ loop = Started
  /\ remote = [c \in Clips |-> "none"]
  /\ tasks = [c \in Clips |-> 0] /\ stale = [c \in Clips |-> 0]
  /\ kills = 0 /\ faults = 0

Fault == faults < MaxFaults /\ faults' = faults + 1

(***************************************************************************)
(* REST handlers                                                           *)
(***************************************************************************)

(* The CLI was never started for this row. *)
Revivable(c) == row[c].status = "error" /\ ~row[c].sid /\ ~row[c].touched

(* _guard_max_credits: what would be submitted fits the batch's budget.      *)
WithinBudget(r, chargeable) == r \in Batches => Cardinality(chargeable) <= Budget[r]

(* What a handler does after its replayed rows: the login and credit gates    *)
(* open or refuse the new ones.                                             *)
Onward(missing) == IF missing = {} THEN {"end"} ELSE {"insert", "end"}

(* One lookup per shot, before every gate; then the budget. *)
Look(r) ==
  LET found == {c \in Shots[r] : Revivable(c)}
      missing == {c \in Shots[r] : row[c].status = "none"}
  IN
  /\ req[r].at = "idle"
  /\ \E at \in IF ~WithinBudget(r, found \cup missing) THEN {"end"}
               ELSE IF found # {} THEN {"fetch"} ELSE Onward(missing) :
       req' = [req EXCEPT ![r] = [at |-> at, found |-> found, missing |-> missing,
                                  fetched |-> {}]]
  /\ UNCHANGED <<rowVars, loop, remote, tasks, stale, kills, faults>>

(* Downloads and copies of references: any of them may fail. *)
Materialized(asked) == SUBSET asked

(* _materialize for the rows to be revived, into their directories. *)
Fetch(r) ==
  /\ req[r].at = "fetch"
  /\ \E fetched \in Materialized(req[r].found) :
       /\ req' = [req EXCEPT ![r].at = "revive", ![r].fetched = fetched]
       /\ files' = [c \in Clips |-> IF c \in fetched THEN files[c] \cup {"refs"} ELSE files[c]]
  /\ UNCHANGED <<row, over, loop, remote, tasks, stale, kills, faults>>

(* _apply_revive and the commit: UPDATE ... WHERE id, whatever the row is by   *)
(* now; columns the handler did not change keep their values.  A download     *)
(* that failed leaves the status alone and sets finished_at.                 *)
Revive(r) ==
  LET q == req[r] IN
  /\ q.at = "revive"
  /\ row' = [c \in Clips |-> IF c \in q.fetched THEN [row[c] EXCEPT !.status = "queued"] ELSE row[c]]
  /\ over' = [c \in Clips |-> over[c] /\ c \notin q.found]
  /\ stale' = [c \in Clips |->
                 IF c \in q.fetched /\ row[c].status # "queued" /\ ~Revivable(c)
                 THEN stale[c] + 1 ELSE stale[c]]
  /\ \E at \in Onward(q.missing) : req' = [req EXCEPT ![r].at = at]
  /\ UNCHANGED <<files, loop, remote, tasks, kills, faults>>

(* What becomes of a shot whose references cannot be had. *)
Unfetched(r) == IF r \in Batches THEN "error" ELSE "none"

(* _insert_clip after downloading the references: the unique key keeps a row  *)
(* that is there by now; a failed download is refused, or, in a batch, an     *)
(* error row.                                                                *)
Insert(r, c) ==
  /\ req[r].at = "insert" /\ c \in req[r].missing
  /\ IF row[c].status # "none" THEN UNCHANGED rowVars
     ELSE \/ /\ row' = [row EXCEPT ![c].status = "queued"]
             /\ files' = [files EXCEPT ![c] = {"refs"}]
             /\ UNCHANGED over
          \/ /\ row' = [row EXCEPT ![c].status = Unfetched(r)]
             /\ UNCHANGED <<files, over>>
  /\ req' = [req EXCEPT ![r].missing = @ \ {c},
                        ![r].at = IF @ = "insert" /\ req[r].missing = {c} THEN "end" ELSE @]
  /\ UNCHANGED <<loop, remote, tasks, stale, kills, faults>>

(* A frame is cut out of a finished video into the same directory. *)
Frame(c) ==
  /\ row[c].status = "done" /\ row[c].url /\ "video" \in files[c]
  /\ files' = [files EXCEPT ![c] = @ \cup {"frame"}]
  /\ UNCHANGED <<row, over, req, loop, remote, tasks, stale, kills, faults>>

(***************************************************************************)
(* The scheduler                                                           *)
(***************************************************************************)

Verdict(c, status) == row' = [row EXCEPT ![c].status = status]

(* Rows caught in the middle of a submission end "unknown": all of them when   *)
(* the process starts, in every round those whose deadline has passed.       *)
(* (Mutant: they are left as they are.)                                      *)
GiveUpNever_m(S) == row
GiveUp(S) == [c \in Clips |-> IF c \in S THEN [row[c] EXCEPT !.status = "error"] ELSE row[c]]

Residue == {c \in Clips : row[c].status = "submitting"}

Heal ==
  /\ loop.at = "heal"
  /\ row' = GiveUp(Residue)
  /\ over' = [c \in Clips |-> over[c] /\ c \notin Residue]
  /\ loop' = [loop EXCEPT !.at = "sweep"]
  /\ UNCHANGED <<files, req, remote, tasks, stale, kills, faults>>

(* A round begins, after the start or the rest that ends a round. *)
Sweep ==
  LET late == {c \in Residue : over[c]} IN
  /\ loop.at = "sweep" \/ (loop.at = "poll" /\ loop.list = {})
  /\ row' = GiveUp(late)
  /\ over' = [c \in Clips |-> over[c] /\ c \notin late]
  /\ loop' = [loop EXCEPT !.at = "submit", !.list = {c \in Clips : row'[c].status = "queued"}]
  /\ UNCHANGED <<files, req, remote, tasks, stale, kills, faults>>

IsNext(c) == c \in loop.list /\ c = Min(loop.list)

(* The claim: UPDATE ... WHERE status = queued, with submitted_at.            *)
(* (Mutant: submitted_at is set by a successful submission only.)            *)
ClaimedLater_m(c) == [row[c] EXCEPT !.status = "submitting"]
Claimed(c) == [row[c] EXCEPT !.status = "submitting", !.touched = TRUE]
Claim(c) ==
  /\ loop.at = "submit" /\ IsNext(c)
  /\ IF row[c].status = "queued"
     THEN /\ row' = [row EXCEPT ![c] = Claimed(c)]
          /\ over' = [over EXCEPT ![c] = FALSE]
          /\ loop' = [loop EXCEPT !.at = "call", !.clip = c, !.list = @ \ {c}]
     ELSE /\ loop' = [loop EXCEPT !.list = @ \ {c}]
          /\ UNCHANGED <<row, over>>
  /\ UNCHANGED <<files, req, remote, tasks, stale, kills, faults>>

(* What the CLI answers, and whether Dreamina took the task: the lock was      *)
(* busy, a refusal, a submit_id, or (timeout, signal, no id in the answer)    *)
(* nobody knows.                                                             *)
Answers == {<<"busy", 0>>, <<"refused", 0>>, <<"taken", 1>>, <<"unknown", 0>>, <<"unknown", 1>>}

Call ==
  /\ loop.at = "call"
  /\ \E a \in Answers :
       /\ IF a[1] = "busy" THEN Fault ELSE UNCHANGED faults
       /\ tasks' = [tasks EXCEPT ![loop.clip] = @ + a[2]]
       /\ remote' = IF a[1] = "taken" THEN [remote EXCEPT ![loop.clip] = "working"] ELSE remote
       /\ loop' = [loop EXCEPT !.at = "record", !.answer = a[1]]
  /\ UNCHANGED <<rowVars, req, stale, kills>>

(* The status by answer. *)
StatusFor(answer) ==
  CASE answer = "busy" -> "queued" [] answer = "taken" -> "submitted" [] OTHER -> "error"

(* The second UPDATE, WHERE status = submitting; it may raise. *)
Record ==
  LET c == loop.clip IN
  /\ loop.at = "record"
  /\ \/ /\ IF row[c].status = "submitting"
           THEN /\ row' = [row EXCEPT ![c].status = StatusFor(loop.answer),
                                      ![c].sid = @ \/ loop.answer = "taken"]
                /\ over' = [over EXCEPT ![c] = FALSE]
           ELSE UNCHANGED <<row, over>>
        /\ UNCHANGED faults
     \/ Fault /\ UNCHANGED <<row, over>>
  /\ loop' = [loop EXCEPT !.at = "submit", !.clip = Null, !.answer = "none"]
  /\ UNCHANGED <<files, req, remote, tasks, stale, kills>>

EndSubmit ==
  /\ loop.at = "submit" /\ loop.list = {}
  /\ loop' = [loop EXCEPT !.at = "poll", !.list = {c \in Clips : row[c].status \in InFlight}]
  /\ UNCHANGED <<rowVars, req, remote, tasks, stale, kills, faults>>

(* The query: nothing (busy, unreadable, no file yet), or what became of it.  *)
Query(c) ==
  /\ loop.at = "poll" /\ IsNext(c)
  /\ IF row[c].status \in InFlight /\ row[c].sid
     THEN \/ loop' = [loop EXCEPT !.at = "settle", !.clip = c, !.list = @ \ {c},
                                  !.answer = remote[c]]
             /\ UNCHANGED faults
          \/ /\ Fault
             /\ loop' = [loop EXCEPT !.at = "settle", !.clip = c, !.list = @ \ {c},
                                     !.answer = IF remote[c] = "good" THEN "fileless" ELSE "none"]
     ELSE loop' = [loop EXCEPT !.list = @ \ {c}] /\ UNCHANGED faults
  /\ UNCHANGED <<rowVars, req, remote, tasks, stale, kills>>

(* The status by what the query said. *)
Outcome(answer) ==
  CASE answer = "good" -> "done" [] answer = "bad" -> "error"
    [] answer = "working" -> "querying" [] OTHER -> "same"

Settle ==
  LET c == loop.clip
      status == Outcome(loop.answer)
  IN
  /\ loop.at = "settle"
  /\ IF row[c].status \in InFlight /\ status # "same"
     THEN /\ row' = [row EXCEPT ![c].status = status, ![c].url = (status = "done")]
          /\ files' = [files EXCEPT ![c] = IF loop.answer = "good" THEN @ \cup {"video"} ELSE @]
          /\ over' = [over EXCEPT ![c] = FALSE]
     ELSE UNCHANGED rowVars
  /\ loop' = [loop EXCEPT !.at = "poll", !.clip = Null, !.answer = "none"]
  /\ UNCHANGED <<req, remote, tasks, stale, kills, faults>>

(* The worker is stopped or dies between any two steps and starts again. *)
Kill ==
  /\ kills < MaxKills /\ kills' = kills + 1
  /\ loop' = Started
  /\ UNCHANGED <<rowVars, req, remote, tasks, stale, faults>>

(* reap_clips_once: products that expired, directories of old errors.        *)
Reaped(c) == [row[c] EXCEPT !.url = FALSE]
Reap ==
  LET expired == {c \in Clips : row[c].status = "done" /\ row[c].url /\ over[c]}
      old == {c \in Clips : row[c].status = "error" /\ over[c]}
  IN
  /\ \E c \in expired \cup old : files[c] # {}
  /\ row' = [c \in Clips |-> IF c \in expired THEN Reaped(c) ELSE row[c]]
  /\ files' = [c \in Clips |-> IF c \in expired \cup old THEN {} ELSE files[c]]
  /\ UNCHANGED <<over, req, loop, remote, tasks, stale, kills, faults>>

(***************************************************************************)
(* The environment                                                         *)
(***************************************************************************)

Render(c) ==
  /\ remote[c] = "working"
  /\ \E end \in {"good", "bad"} : remote' = [remote EXCEPT ![c] = end]
  /\ UNCHANGED <<rowVars, req, loop, tasks, stale, kills, faults>>

Time(c) ==
  /\ ~over[c] /\ row[c].status \in Ends \cup {"submitting"}
  /\ over' = [over EXCEPT ![c] = TRUE]
  /\ UNCHANGED <<row, files, req, loop, remote, tasks, stale, kills, faults>>

Handler(r) == Look(r) \/ Fetch(r) \/ Revive(r) \/ \E c \in Clips : Insert(r, c)
LoopStep ==
  \/ Heal \/ Sweep \/ Call \/ Record \/ EndSubmit \/ Settle
  \/ \E c \in Clips : Claim(c) \/ Query(c)

Next ==
  \/ \E r \in Requests : Handler(r)
  \/ LoopStep \/ Kill \/ Reap
  \/ \E c \in Clips : Frame(c) \/ Render(c) \/ Time(c)

Spec == Init /\ [][Next]_vars

(* The loop runs on, every CLI call has a timeout, Dreamina finishes what it   *)
(* took, time passes.                                                       *)
FairSpec == Spec /\ WF_vars(LoopStep) /\ \A c \in Clips : WF_vars(Render(c)) /\ WF_vars(Time(c))

(***************************************************************************)
(* Properties                                                              *)
(***************************************************************************)

TypeOK ==
  /\ row \in [Clips -> [status: {"none", "queued", "submitting"} \cup InFlight \cup Ends,
                        touched: BOOLEAN, sid: BOOLEAN, url: BOOLEAN]]
  /\ files \in [Clips -> SUBSET {"refs", "video", "frame"}]
  /\ over \in [Clips -> BOOLEAN]
  /\ req \in [Requests -> [at: {"idle", "fetch", "revive", "insert", "end"}, found: SUBSET Clips,
                           missing: SUBSET Clips, fetched: SUBSET Clips]]
  /\ \A r \in Requests :
       req[r].found \cup req[r].missing \subseteq Shots[r] /\ req[r].fetched \subseteq req[r].found
  /\ loop \in [at: {"heal", "sweep", "submit", "call", "record", "poll", "settle"},
               clip: Clips \cup {Null}, answer: Replies, list: SUBSET Clips]
  /\ (loop.clip # Null) <=> loop.at \in {"call", "record", "settle"}
  /\ remote \in [Clips -> {"none", "working", "good", "bad"}]
  /\ tasks \in [Clips -> Nat] /\ stale \in [Clips -> Nat]
  /\ kills \in 0..MaxKills /\ faults \in 0..MaxFaults

(* A clip is paid for once, whatever the CLI answers, wherever the worker      *)
(* dies and however often the request is replayed, but for revivals written   *)
(* over a row that another replay had already revived and the scheduler taken; *)
(* and no replay can take a row that Dreamina was paid for, for one that cost  *)
(* nothing.                                                                  *)
PaidOncePerRevival ==
  \A c \in Clips : tasks[c] <= 1 + stale[c] /\ (tasks[c] > 0 => ~Revivable(c))

(* The forms do not depend on the state: they are examined in the first one. *)
FormsHold == row = [c \in Clips |-> NoRow] /\ loop = Started /\ kills = 0 => NothingDropped

(* Nobody waits for ever on a clip: what is queued, half submitted or in       *)
(* flight ends with a verdict.  (There are finitely many requests.)          *)
EveryClipSettles == []<>(\A c \in Clips : row[c].status \in Ends \cup {"none"})
=============================================================================
