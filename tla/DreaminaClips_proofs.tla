------------------------ MODULE DreaminaClips_proofs ------------------------
(***************************************************************************)
(* Proofs about DreaminaClips and VideoJobs, for any rows, requests, jobs and  *)
(* bounds.                                                                 *)
(*                                                                         *)
(* Paying once is not inductive by itself: a call that is under way and a  *)
(* place in the queue are payments to come.  PaidInv counts them, and      *)
(* TouchInv says why a replay never takes a row that was paid for, for one *)
(* that cost nothing.                                                      *)
(*                                                                         *)
(* That films are what was planned rests on FilmInv: which files of a job are  *)
(* final after each of its stages, and what a stage that was cut off may have  *)
(* left behind.                                                            *)
(***************************************************************************)
EXTENDS DreaminaClips, VideoJobs, FiniteSetTheorems, SequenceTheorems, WellFoundedInduction,
        TLAPS

Rows == [status: {"none", "queued", "submitting"} \cup InFlight \cup Ends,
         touched: BOOLEAN, sid: BOOLEAN, url: BOOLEAN]
Loops == [at: {"heal", "sweep", "submit", "call", "record", "poll", "settle"},
          clip: Clips \cup {Null}, answer: Replies, list: SUBSET Clips]
Asks == [at: {"idle", "fetch", "revive", "insert", "end"}, found: SUBSET Clips,
         missing: SUBSET Clips, fetched: SUBSET Clips]

(* The scheduler is calling the CLI for c; c may be claimed again: it is new, *)
(* queued, or about to go back to the queue because the lock was busy.         *)
Calling(c) == loop.at = "call" /\ loop.clip = c
Claimable(c) ==
  \/ row[c].status \in {"none", "queued"}
  \/ /\ loop.at = "record" /\ loop.clip = c /\ loop.answer = "busy"
     /\ row[c].status = "submitting"

(* Each call and each place in the queue is covered: the first by the row      *)
(* itself, any other by a revival that was counted.                          *)
PaidInv ==
  \A c \in Clips :
    /\ tasks[c] <= 1 + stale[c]
    /\ Calling(c) \/ Claimable(c) => tasks[c] <= stale[c]
    /\ Calling(c) /\ Claimable(c) => tasks[c] + 1 <= stale[c]

(* What was ever given to the CLI carries submitted_at.                      *)
TouchInv ==
  /\ \A c \in Clips : ~row[c].touched => tasks[c] = 0
  /\ loop.at \in {"call", "record"} => row[loop.clip].touched

IInv == TypeOK /\ PaidInv /\ TouchInv

(***************************************************************************)
(* Types                                                                   *)
(***************************************************************************)

(* What the scheduler and the handlers write into a row leaves a row. *)
LEMMA RowWrites ==
  ASSUME NEW r \in Rows
  PROVE  /\ \A s \in {"queued", "submitting", "submitted", "querying", "done", "error"} :
              /\ [r EXCEPT !.status = s] \in Rows
              /\ [r EXCEPT !.status = s].touched = r.touched
              /\ [r EXCEPT !.status = s].status = s
         /\ \A u \in BOOLEAN : [r EXCEPT !.url = u] \in Rows /\ [r EXCEPT !.url = u].touched = r.touched
                               /\ [r EXCEPT !.url = u].status = r.status
         /\ \A u \in BOOLEAN : [r EXCEPT !.sid = u] \in Rows /\ [r EXCEPT !.sid = u].touched = r.touched
                               /\ [r EXCEPT !.sid = u].status = r.status
         /\ [r EXCEPT !.touched = TRUE] \in Rows /\ [r EXCEPT !.touched = TRUE].touched = TRUE
         /\ [r EXCEPT !.touched = TRUE].status = r.status
  BY DEF Rows, InFlight, Ends

(* A request's record, field by field. *)
Asking(at, found, missing, fetched) ==
  [at |-> at, found |-> found, missing |-> missing, fetched |-> fetched]

LEMMA AskWrites ==
  ASSUME NEW q \in Asks, NEW at
  PROVE  /\ [q EXCEPT !.at = at] = Asking(at, q.found, q.missing, q.fetched)
         /\ \A f : [q EXCEPT !.at = at, !.fetched = f] = Asking(at, q.found, q.missing, f)
         /\ \A m : [q EXCEPT !.missing = m, !.at = at] = Asking(at, q.found, m, q.fetched)
<1> SUFFICES ASSUME NEW m, NEW f
             PROVE  /\ [q EXCEPT !.at = at] = Asking(at, q.found, q.missing, q.fetched)
                    /\ [q EXCEPT !.at = at, !.fetched = f] = Asking(at, q.found, q.missing, f)
                    /\ [q EXCEPT !.missing = m, !.at = at] = Asking(at, q.found, m, q.fetched)
  OBVIOUS
<1> DEFINE parts == q = [at |-> q.at, found |-> q.found, missing |-> q.missing, fetched |-> q.fetched]
<1>0. parts
  BY DEF Asks
<1>1. [q EXCEPT !.at = at] = Asking(at, q.found, q.missing, q.fetched)
  BY <1>0 DEF Asks, Asking
<1>2. ASSUME NEW p, NEW a1, NEW a2, NEW a3, NEW a4, p = Asking(a1, a2, a3, a4)
      PROVE  /\ [p EXCEPT !.at = at] = Asking(at, a2, a3, a4)
             /\ [p EXCEPT !.fetched = f] = Asking(a1, a2, a3, f)
             /\ [p EXCEPT !.missing = m] = Asking(a1, a2, m, a4)
  <2>1. [p EXCEPT !.at = at] = Asking(at, a2, a3, a4)
    BY <1>2 DEF Asking
  <2>2. [p EXCEPT !.fetched = f] = Asking(a1, a2, a3, f)
    BY <1>2 DEF Asking
  <2>3. [p EXCEPT !.missing = m] = Asking(a1, a2, m, a4)
    BY <1>2 DEF Asking
  <2> QED BY <2>1, <2>2, <2>3
<1>3. q = Asking(q.at, q.found, q.missing, q.fetched)
  BY <1>0 DEF Asking
<1>4. [q EXCEPT !.at = at, !.fetched = f] = Asking(at, q.found, q.missing, f)
  <2> DEFINE p == [q EXCEPT !.at = at]
  <2>1. p = Asking(at, q.found, q.missing, q.fetched)
    BY <1>1
  <2>2. [p EXCEPT !.fetched = f] = Asking(at, q.found, q.missing, f)
    <3> HIDE DEF p
    <3> QED BY <1>2, <2>1
  <2> QED BY <2>2, Zenon
<1>5. [q EXCEPT !.missing = m, !.at = at] = Asking(at, q.found, m, q.fetched)
  <2> DEFINE p == [q EXCEPT !.missing = m]
  <2>1. p = Asking(q.at, q.found, m, q.fetched)
    BY <1>2, <1>3
  <2>2. [p EXCEPT !.at = at] = Asking(at, q.found, m, q.fetched)
    <3> HIDE DEF p
    <3> QED BY <1>2, <2>1
  <2> QED BY <2>2, Zenon
<1> QED BY <1>1, <1>4, <1>5

(* The requests as TypeOK has them, and a step of one of them. *)
AsksOK ==
  /\ req \in [Requests -> Asks]
  /\ \A r \in Requests :
       req[r].found \cup req[r].missing \subseteq Shots[r] /\ req[r].fetched \subseteq req[r].found

LEMMA AskStep ==
  ASSUME AsksOK, NEW r \in Requests,
         NEW at \in {"idle", "fetch", "revive", "insert", "end"}, NEW found \in SUBSET Shots[r],
         NEW missing \in SUBSET Shots[r], NEW fetched \in SUBSET found,
         req' = [req EXCEPT ![r] = Asking(at, found, missing, fetched)]
  PROVE  AsksOK'
<1>1. Shots[r] \subseteq Clips
  BY ClipsAssumption
<1>2. Asking(at, found, missing, fetched) \in Asks
  BY <1>1 DEF Asks, Asking
<1>3. /\ Asking(at, found, missing, fetched).found = found
      /\ Asking(at, found, missing, fetched).missing = missing
      /\ Asking(at, found, missing, fetched).fetched = fetched
  BY DEF Asking
<1>4. /\ req' \in [Requests -> Asks] /\ req'[r] = Asking(at, found, missing, fetched)
      /\ \A x \in Requests \ {r} : req'[x] = req[x]
  BY <1>2 DEF AsksOK
<1> QED BY <1>3, <1>4 DEF AsksOK

LEMMA TypeParts ==
  /\ TypeOK <=> /\ row \in [Clips -> Rows] /\ AsksOK /\ loop \in Loops
                /\ files \in [Clips -> SUBSET {"refs", "video", "frame"}]
                /\ over \in [Clips -> BOOLEAN]
                /\ (loop.clip # Null) <=> loop.at \in {"call", "record", "settle"}
                /\ remote \in [Clips -> {"none", "working", "good", "bad"}]
                /\ tasks \in [Clips -> Nat] /\ stale \in [Clips -> Nat]
                /\ kills \in 0..MaxKills /\ faults \in 0..MaxFaults
  BY DEF TypeOK, AsksOK, Asks, Rows, Loops

(* The handlers' steps keep the types. *)
LEMMA HandlerTypes ==
  ASSUME TypeOK, NEW r \in Requests, Handler(r)
  PROVE  TypeOK'
<1>0. /\ row \in [Clips -> Rows] /\ AsksOK /\ files \in [Clips -> SUBSET {"refs", "video", "frame"}]
      /\ over \in [Clips -> BOOLEAN] /\ stale \in [Clips -> Nat] /\ req[r] \in Asks
      /\ req \in [Requests -> Asks]
      /\ req[r].found \in SUBSET Shots[r] /\ req[r].missing \in SUBSET Shots[r]
      /\ req[r].fetched \in SUBSET req[r].found
  BY TypeParts DEF AsksOK
<1>1. ASSUME row' \in [Clips -> Rows], files' \in [Clips -> SUBSET {"refs", "video", "frame"}],
             over' \in [Clips -> BOOLEAN], stale' \in [Clips -> Nat], AsksOK',
             UNCHANGED <<loop, remote, tasks, kills, faults>>
      PROVE  TypeOK'
  BY <1>1, TypeParts DEF TypeOK, AsksOK, Asks, Rows, Loops
<1>2. CASE Look(r)
  <2> DEFINE found == {c \in Shots[r] : Revivable(c)}
             missing == {c \in Shots[r] : row[c].status = "none"}
  <2>1. PICK at \in {"end", "fetch", "insert"} :
          req' = [req EXCEPT ![r] = Asking(at, found, missing, {})]
    BY <1>2 DEF Look, Onward, Asking
  <2>2. AsksOK'
    BY <1>0, <2>1, AskStep
  <2> QED BY <1>0, <1>1, <1>2, <2>2 DEF Look, rowVars
<1>3. CASE Fetch(r)
  <2>1. PICK fetched \in SUBSET req[r].found :
          /\ req' = [req EXCEPT ![r].at = "revive", ![r].fetched = fetched]
          /\ files' = [c \in Clips |-> IF c \in fetched THEN files[c] \cup {"refs"} ELSE files[c]]
    BY <1>3 DEF Fetch, Materialized
  <2>2. req' = [req EXCEPT ![r] = Asking("revive", req[r].found, req[r].missing, fetched)]
    <3>1. \A at, f : [req[r] EXCEPT !.at = at, !.fetched = f]
                       = Asking(at, req[r].found, req[r].missing, f)
      BY <1>0, AskWrites, Zenon
    <3> QED BY <1>0, <2>1, <3>1
  <2>3. AsksOK'
    <3>1. fetched \in SUBSET req[r].found
      BY <2>1
    <3> QED BY <1>0, <2>2, <3>1, AskStep
  <2>4. files' \in [Clips -> SUBSET {"refs", "video", "frame"}]
    BY <1>0, <2>1
  <2> QED BY <1>0, <1>1, <1>3, <2>3, <2>4 DEF Fetch, Materialized, rowVars
<1>4. CASE Revive(r)
  <2>1. PICK at \in {"end", "insert"} : req' = [req EXCEPT ![r].at = at]
    BY <1>4 DEF Revive, Onward
  <2>2. req' = [req EXCEPT ![r] = Asking(at, req[r].found, req[r].missing, req[r].fetched)]
    BY <1>0, <2>1, AskWrites
  <2>3. AsksOK'
    BY <1>0, <2>2, AskStep
  <2>4. row' \in [Clips -> Rows]
    <3>1. row' = [c \in Clips |-> IF c \in req[r].fetched
                                  THEN [row[c] EXCEPT !.status = "queued"] ELSE row[c]]
      BY <1>4 DEF Revive
    <3> QED BY <1>0, <3>1, RowWrites
  <2>5. over' \in [Clips -> BOOLEAN] /\ stale' \in [Clips -> Nat]
    BY <1>0, <1>4 DEF Revive
  <2> QED BY <1>0, <1>1, <1>4, <2>3, <2>4, <2>5 DEF Revive
<1>5. ASSUME NEW c \in Clips, Insert(r, c) PROVE TypeOK'
  <2>1. PICK at \in {"insert", "end"} :
          req' = [req EXCEPT ![r].missing = req[r].missing \ {c}, ![r].at = at]
    <3>1. req' = [req EXCEPT ![r].missing = req[r].missing \ {c},
                             ![r].at = IF req[r].missing = {c} THEN "end" ELSE "insert"]
      BY <1>0, <1>5 DEF Insert, Unfetched, Asks
    <3> QED BY <3>1
  <2>2. req' = [req EXCEPT ![r] = Asking(at, req[r].found, req[r].missing \ {c}, req[r].fetched)]
    <3>1. [req[r] EXCEPT !.missing = req[r].missing \ {c}, !.at = at]
            = Asking(at, req[r].found, req[r].missing \ {c}, req[r].fetched)
      BY <1>0, AskWrites
    <3> QED BY <1>0, <2>1, <3>1
  <2>3. AsksOK'
    <3>1. PICK missing \in SUBSET Shots[r] : missing = req[r].missing \ {c}
      BY <1>0
    <3>2. req' = [req EXCEPT ![r] = Asking(at, req[r].found, missing, req[r].fetched)]
      BY <2>2, <3>1
    <3> QED BY <1>0, <3>2, AskStep
  <2>4. row' \in [Clips -> Rows]
    <3>1. row[c].status = "none" => [row[c] EXCEPT !.status = "none"] = row[c]
      BY <1>0 DEF Rows
    <3>2. PICK s \in {"none", "queued", "error"} :
            \/ row' = row
            \/ s # "none" /\ row' = [row EXCEPT ![c] = [row[c] EXCEPT !.status = s]]
      BY <1>0, <1>5, <3>1 DEF Insert, Unfetched, rowVars
    <3>3. CASE row' = row
      BY <1>0, <3>3
    <3>4. CASE s # "none" /\ row' = [row EXCEPT ![c] = [row[c] EXCEPT !.status = s]]
      <4>1. [row[c] EXCEPT !.status = s] \in Rows
        BY <1>0, <3>4, RowWrites
      <4> QED BY <1>0, <3>4, <4>1
    <3> QED BY <3>2, <3>3, <3>4
  <2>5. files' \in [Clips -> SUBSET {"refs", "video", "frame"}]
    BY <1>0, <1>5 DEF Insert, Unfetched, rowVars
  <2> QED BY <1>0, <1>1, <1>5, <2>3, <2>4, <2>5 DEF Insert, Unfetched, rowVars
<1> QED BY <1>2, <1>3, <1>4, <1>5 DEF Handler

(* The scheduler's steps, its restarts and the reaper keep the types. *)
LEMMA LoopTypes ==
  ASSUME TypeOK, LoopStep \/ Kill \/ Reap
  PROVE  TypeOK'
<1>0. /\ row \in [Clips -> Rows] /\ loop \in Loops
      /\ files \in [Clips -> SUBSET {"refs", "video", "frame"}] /\ over \in [Clips -> BOOLEAN]
      /\ (loop.clip # Null) <=> loop.at \in {"call", "record", "settle"}
      /\ remote \in [Clips -> {"none", "working", "good", "bad"}] /\ tasks \in [Clips -> Nat]
      /\ kills \in 0..MaxKills /\ faults \in 0..MaxFaults /\ MaxKills \in Nat /\ MaxFaults \in Nat
      /\ Null \notin Clips
  BY TypeParts, ClipsAssumption
<1>1. ASSUME row' \in [Clips -> Rows], files' \in [Clips -> SUBSET {"refs", "video", "frame"}],
             over' \in [Clips -> BOOLEAN], loop' \in Loops,
             (loop'.clip # Null) <=> loop'.at \in {"call", "record", "settle"},
             remote' \in [Clips -> {"none", "working", "good", "bad"}], tasks' \in [Clips -> Nat],
             kills' \in 0..MaxKills, faults' \in 0..MaxFaults, UNCHANGED <<req, stale>>
      PROVE  TypeOK'
  BY <1>1, TypeParts DEF TypeOK, AsksOK, Asks, Rows, Loops
<1>2. ASSUME NEW S \in SUBSET Clips PROVE GiveUp(S) \in [Clips -> Rows]
  <2>1. ASSUME NEW c \in Clips PROVE [row[c] EXCEPT !.status = "error"] \in Rows
    <3>1. row[c] \in Rows
      BY <1>0
    <3> QED BY <3>1, RowWrites
  <2> QED BY <1>0, <2>1 DEF GiveUp
<1>3. CASE Heal
  <2>1. row' \in [Clips -> Rows]
    BY <1>2, <1>3 DEF Heal, Residue
  <2>2. over' \in [Clips -> BOOLEAN]
    BY <1>0, <1>3 DEF Heal
  <2>3. loop' \in Loops /\ ((loop'.clip # Null) <=> loop'.at \in {"call", "record", "settle"})
    BY <1>0, <1>3 DEF Heal, Loops
  <2> QED BY <1>0, <1>1, <1>3, <2>1, <2>2, <2>3 DEF Heal
<1>4. CASE Sweep
  <2>1. row' \in [Clips -> Rows]
    BY <1>2, <1>4 DEF Sweep, Residue
  <2>2. over' \in [Clips -> BOOLEAN]
    BY <1>0, <1>4 DEF Sweep
  <2>3. loop' \in Loops /\ ((loop'.clip # Null) <=> loop'.at \in {"call", "record", "settle"})
    BY <1>0, <1>4 DEF Sweep, Loops
  <2> QED BY <1>0, <1>1, <1>4, <2>1, <2>2, <2>3 DEF Sweep
<1>5. CASE Call
  <2>1. PICK a \in Answers :
          /\ IF a[1] = "busy" THEN Fault ELSE UNCHANGED faults
          /\ tasks' = [tasks EXCEPT ![loop.clip] = @ + a[2]]
          /\ remote' = IF a[1] = "taken" THEN [remote EXCEPT ![loop.clip] = "working"] ELSE remote
          /\ loop' = [loop EXCEPT !.at = "record", !.answer = a[1]]
    BY <1>5 DEF Call
  <2>2. a[1] \in Replies /\ a[2] \in Nat
    BY DEF Answers, Replies
  <2>3. faults' \in 0..MaxFaults
    BY <1>0, <2>1 DEF Fault
  <2>4. remote' \in [Clips -> {"none", "working", "good", "bad"}]
    BY <1>0, <2>1
  <2>6. tasks' \in [Clips -> Nat]
    <3>1. loop.clip \in Clips
      BY <1>0, <1>5 DEF Call, Loops
    <3>2. tasks[loop.clip] + a[2] \in Nat
      BY <1>0, <2>2, <3>1
    <3>3. tasks' = [tasks EXCEPT ![loop.clip] = tasks[loop.clip] + a[2]]
      BY <2>1
    <3> HIDE <2>1, <2>2
    <3> QED BY <1>0, <3>2, <3>3
  <2>5. loop' \in Loops /\ ((loop'.clip # Null) <=> loop'.at \in {"call", "record", "settle"})
    <3>1. loop.at = "call"
      BY <1>5 DEF Call
    <3> QED BY <1>0, <2>1, <2>2, <3>1 DEF Loops
  <2> QED BY <1>0, <1>1, <1>5, <2>3, <2>4, <2>5, <2>6 DEF Call, rowVars
<1>6. CASE Record
  <2>1. loop' = [loop EXCEPT !.at = "submit", !.clip = Null, !.answer = "none"]
    BY <1>6 DEF Record
  <2>2. loop' \in Loops /\ ((loop'.clip # Null) <=> loop'.at \in {"call", "record", "settle"})
    BY <1>0, <2>1 DEF Loops, Replies
  <2>3. faults' \in 0..MaxFaults
    BY <1>0, <1>6 DEF Record, Fault
  <2>4. loop.clip \in Clips
    BY <1>0, <1>6 DEF Record, Loops
  <2>5. row' \in [Clips -> Rows]
    <3>1. \/ row' = row
          \/ row' = [row EXCEPT ![loop.clip] =
                       [[row[loop.clip] EXCEPT !.status = StatusFor(loop.answer)]
                          EXCEPT !.sid = row[loop.clip].sid \/ loop.answer = "taken"]]
      BY <1>0, <1>6, <2>4 DEF Record
    <3>2. [row[loop.clip] EXCEPT !.status = StatusFor(loop.answer)] \in Rows
      <4>1. StatusFor(loop.answer) \in {"queued", "submitted", "error"}
        BY DEF StatusFor
      <4> QED BY <1>0, <2>4, <4>1, RowWrites
    <3>3. ASSUME NEW q \in Rows, NEW u \in BOOLEAN PROVE [q EXCEPT !.sid = u] \in Rows
      BY RowWrites
    <3>4. (row[loop.clip].sid \/ loop.answer = "taken") \in BOOLEAN
      OBVIOUS
    <3>5. [[row[loop.clip] EXCEPT !.status = StatusFor(loop.answer)]
             EXCEPT !.sid = row[loop.clip].sid \/ loop.answer = "taken"] \in Rows
      BY <3>2, <3>3, <3>4, Zenon
    <3> QED BY <1>0, <2>4, <3>1, <3>5
  <2>6. over' \in [Clips -> BOOLEAN]
    BY <1>0, <1>6 DEF Record
  <2> QED BY <1>0, <1>1, <1>6, <2>2, <2>3, <2>5, <2>6 DEF Record
<1>7. CASE EndSubmit
  <2>1. loop' \in Loops /\ ((loop'.clip # Null) <=> loop'.at \in {"call", "record", "settle"})
    BY <1>0, <1>7 DEF EndSubmit, Loops
  <2> QED BY <1>0, <1>1, <1>7, <2>1 DEF EndSubmit, rowVars
<1>8. CASE Settle
  <2>1. loop' = [loop EXCEPT !.at = "poll", !.clip = Null, !.answer = "none"]
    BY <1>8 DEF Settle
  <2>2. loop' \in Loops /\ ((loop'.clip # Null) <=> loop'.at \in {"call", "record", "settle"})
    BY <1>0, <2>1 DEF Loops, Replies
  <2>3. loop.clip \in Clips
    BY <1>0, <1>8 DEF Settle, Loops
  <2>4. row' \in [Clips -> Rows]
    <3>1. PICK s \in {"done", "error", "querying"} :
            \/ row' = row
            \/ row' = [row EXCEPT ![loop.clip] =
                         [[row[loop.clip] EXCEPT !.status = s] EXCEPT !.url = (s = "done")]]
      BY <1>0, <1>8, <2>3 DEF Settle, Outcome, rowVars
    <3>2. [row[loop.clip] EXCEPT !.status = s] \in Rows
      BY <1>0, <2>3, RowWrites
    <3>3. ASSUME NEW q \in Rows, NEW u \in BOOLEAN PROVE [q EXCEPT !.url = u] \in Rows
      BY RowWrites
    <3>4. [[row[loop.clip] EXCEPT !.status = s] EXCEPT !.url = (s = "done")] \in Rows
      BY <3>2, <3>3, Zenon
    <3> QED BY <1>0, <2>3, <3>1, <3>4
  <2>5. over' \in [Clips -> BOOLEAN]
    BY <1>0, <1>8 DEF Settle, rowVars
  <2>6. files' \in [Clips -> SUBSET {"refs", "video", "frame"}]
    BY <1>0, <1>8 DEF Settle, rowVars
  <2> QED BY <1>0, <1>1, <1>8, <2>2, <2>4, <2>5, <2>6 DEF Settle
<1>9. ASSUME NEW c \in Clips, Claim(c) PROVE TypeOK'
  <2>1. row' \in [Clips -> Rows] /\ over' \in [Clips -> BOOLEAN]
    <3>1. Claimed(c) \in Rows
      <4>1. [row[c] EXCEPT !.status = "submitting"] \in Rows
        BY <1>0, RowWrites
      <4>2. ASSUME NEW q \in Rows PROVE [q EXCEPT !.touched = TRUE] \in Rows
        BY RowWrites
      <4> QED BY <4>1, <4>2, Zenon DEF Claimed
    <3>2. \/ row' = row /\ over' = over
          \/ row' = [row EXCEPT ![c] = Claimed(c)] /\ over' = [over EXCEPT ![c] = FALSE]
      BY <1>9 DEF Claim
    <3> QED BY <1>0, <3>1, <3>2
  <2>2. loop' \in Loops /\ ((loop'.clip # Null) <=> loop'.at \in {"call", "record", "settle"})
    <3>1. CASE row[c].status = "queued"
      <4>1. loop' = [loop EXCEPT !.at = "call", !.clip = c, !.list = loop.list \ {c}]
        BY <1>9, <3>1 DEF Claim
      <4> QED BY <1>0, <4>1 DEF Loops
    <3>2. CASE row[c].status # "queued"
      <4>1. loop' = [loop EXCEPT !.list = loop.list \ {c}]
        BY <1>9, <3>2 DEF Claim
      <4> QED BY <1>0, <4>1 DEF Loops
    <3> QED BY <3>1, <3>2
  <2> QED BY <1>0, <1>1, <1>9, <2>1, <2>2 DEF Claim
<1>10. ASSUME NEW c \in Clips, Query(c) PROVE TypeOK'
  <2>1. loop' \in Loops /\ ((loop'.clip # Null) <=> loop'.at \in {"call", "record", "settle"})
    <3>1. remote[c] \in Replies /\ {"fileless", "none"} \subseteq Replies
      BY <1>0 DEF Replies
    <3>2. \/ \E answer \in Replies :
               loop' = [loop EXCEPT !.at = "settle", !.clip = c, !.list = loop.list \ {c},
                                    !.answer = answer]
          \/ loop' = [loop EXCEPT !.list = loop.list \ {c}] /\ loop.at = "poll"
      BY <1>10, <3>1 DEF Query
    <3>3. ASSUME NEW answer \in Replies,
                 loop' = [loop EXCEPT !.at = "settle", !.clip = c, !.list = loop.list \ {c},
                                      !.answer = answer]
          PROVE  loop' \in Loops /\ ((loop'.clip # Null) <=> loop'.at \in {"call", "record", "settle"})
      BY <1>0, <3>3 DEF Loops
    <3>4. CASE loop' = [loop EXCEPT !.list = loop.list \ {c}] /\ loop.at = "poll"
      BY <1>0, <3>4 DEF Loops
    <3> QED BY <3>2, <3>3, <3>4
  <2>2. faults' \in 0..MaxFaults
    BY <1>0, <1>10 DEF Query, Fault
  <2> QED BY <1>0, <1>1, <1>10, <2>1, <2>2 DEF Query, rowVars
<1>11. CASE Kill
  <2>1. loop' \in Loops /\ ((loop'.clip # Null) <=> loop'.at \in {"call", "record", "settle"})
    BY <1>11 DEF Kill, Started, Loops, Replies
  <2>2. kills' \in 0..MaxKills
    BY <1>0, <1>11 DEF Kill
  <2> QED BY <1>0, <1>1, <1>11, <2>1, <2>2 DEF Kill, rowVars
<1>12. CASE Reap
  <2>1. \A c \in Clips : Reaped(c) \in Rows
    BY <1>0, RowWrites DEF Reaped
  <2>2. row' \in [Clips -> Rows]
    BY <1>0, <1>12, <2>1 DEF Reap
  <2>3. files' \in [Clips -> SUBSET {"refs", "video", "frame"}]
    BY <1>0, <1>12 DEF Reap
  <2> QED BY <1>0, <1>1, <1>12, <2>2, <2>3 DEF Reap
<1> QED BY <1>3, <1>4, <1>5, <1>6, <1>7, <1>8, <1>9, <1>10, <1>11, <1>12 DEF LoopStep

(* So do finished renderings, the clock and the cutting of frames. *)
LEMMA OutsideTypes ==
  ASSUME TypeOK, NEW c \in Clips, Frame(c) \/ Render(c) \/ Time(c)
  PROVE  TypeOK'
<1>0. /\ files \in [Clips -> SUBSET {"refs", "video", "frame"}] /\ over \in [Clips -> BOOLEAN]
      /\ remote \in [Clips -> {"none", "working", "good", "bad"}]
  BY TypeParts
<1>1. ASSUME files' \in [Clips -> SUBSET {"refs", "video", "frame"}], over' \in [Clips -> BOOLEAN],
             remote' \in [Clips -> {"none", "working", "good", "bad"}],
             UNCHANGED <<row, req, loop, tasks, stale, kills, faults>>
      PROVE  TypeOK'
  BY <1>1, TypeParts DEF TypeOK, AsksOK, Asks, Rows, Loops
<1>2. CASE Frame(c)
  BY <1>0, <1>1, <1>2 DEF Frame
<1>3. CASE Render(c)
  BY <1>0, <1>1, <1>3 DEF Render, rowVars
<1>4. CASE Time(c)
  BY <1>0, <1>1, <1>4 DEF Time
<1> QED BY <1>2, <1>3, <1>4

LEMMA TypeStep ==
  ASSUME TypeOK, [Next]_vars
  PROVE  TypeOK'
<1>1. CASE UNCHANGED vars
  BY <1>1 DEF vars, TypeOK
<1> QED BY <1>1, HandlerTypes, LoopTypes, OutsideTypes DEF Next

(***************************************************************************)
(* Paying                                                                  *)
(***************************************************************************)

(* A step that opens no call and no place in the queue, pays nothing and     *)
(* clears no submitted_at.                                                 *)
LEMMA Unpaid ==
  ASSUME PaidInv, TouchInv, UNCHANGED <<tasks, stale>>,
         \A c \in Clips : (row'[c].status \in {"none", "queued"} => Claimable(c))
                          /\ (row[c].touched => row'[c].touched)
                          /\ (row'[c].status = "submitting" => row[c].status = "submitting"),
         loop'.at \in {"call", "record"} => UNCHANGED loop /\ loop.clip \in Clips
  PROVE  PaidInv' /\ TouchInv'
<1>1. ASSUME NEW c \in Clips
      PROVE  (Calling(c)' => Calling(c)) /\ (Claimable(c)' => Claimable(c))
  BY DEF Calling, Claimable
<1>2. PaidInv'
  BY <1>1 DEF PaidInv
<1>3. TouchInv'
  BY DEF TouchInv
<1> QED BY <1>2, <1>3

(* A status written into a row. *)
LEMMA StatusOf ==
  ASSUME row \in [Clips -> Rows], NEW c \in Clips,
         NEW s \in {"queued", "submitting", "submitted", "querying", "done", "error"}
  PROVE  /\ [row[c] EXCEPT !.status = s].status = s
         /\ [row[c] EXCEPT !.status = s].touched = row[c].touched
<1>1. row[c] \in Rows
  OBVIOUS
<1> QED BY <1>1, RowWrites

(* The handlers. *)
LEMMA HandlerPays ==
  ASSUME TypeOK, PaidInv, TouchInv, NEW r \in Requests, Handler(r)
  PROVE  PaidInv' /\ TouchInv'
<1>0. /\ row \in [Clips -> Rows] /\ loop \in Loops
      /\ (loop.clip # Null) <=> loop.at \in {"call", "record", "settle"}
      /\ tasks \in [Clips -> Nat] /\ stale \in [Clips -> Nat]
  BY TypeParts
<1>1. loop.at \in {"call", "record"} => loop.clip \in Clips
  BY <1>0 DEF Loops
<1>2. CASE Look(r) \/ Fetch(r)
  <2>1. UNCHANGED <<row, loop, tasks, stale>>
    BY <1>2 DEF Look, Fetch, Materialized, rowVars
  <2> QED BY <1>1, <2>1, Unpaid DEF Claimable
<1>3. CASE Revive(r)
  <2> DEFINE fetched == req[r].fetched
  <2>1. /\ \A c \in fetched \cap Clips : row'[c] = [row[c] EXCEPT !.status = "queued"]
        /\ \A c \in Clips \ fetched : row'[c] = row[c]
        /\ \A c \in Clips : stale'[c] = IF c \in fetched /\ row[c].status # "queued" /\ ~Revivable(c)
                                        THEN stale[c] + 1 ELSE stale[c]
        /\ UNCHANGED <<loop, tasks>>
    BY <1>3 DEF Revive
  <2>2. \A c \in fetched \cap Clips : row'[c].status = "queued" /\ row'[c].touched = row[c].touched
    <3>1. \A c \in Clips : /\ [row[c] EXCEPT !.status = "queued"].status = "queued"
                          /\ [row[c] EXCEPT !.status = "queued"].touched = row[c].touched
      BY <1>0, StatusOf
    <3> QED BY <2>1, <3>1, Zenon
  <2>3. TouchInv'
    BY <1>1, <2>1, <2>2 DEF TouchInv
  <2>4. ASSUME NEW c \in Clips
        PROVE  /\ tasks'[c] <= 1 + stale'[c]
               /\ Calling(c)' \/ Claimable(c)' => tasks'[c] <= stale'[c]
               /\ Calling(c)' /\ Claimable(c)' => tasks'[c] + 1 <= stale'[c]
    <3>0. tasks[c] \in Nat /\ stale[c] \in Nat /\ tasks'[c] = tasks[c] /\ (Calling(c)' <=> Calling(c))
      BY <1>0, <2>1 DEF Calling
    <3>1. CASE c \notin fetched \/ row[c].status = "queued"
      <4>1. stale'[c] = stale[c]
        BY <2>1, <3>1
      <4>2. Claimable(c)' => Claimable(c)
        BY <2>1, <2>2, <3>1 DEF Claimable
      <4> QED BY <3>0, <4>1, <4>2 DEF PaidInv
    <3>2. CASE c \in fetched /\ row[c].status # "queued" /\ Revivable(c)
      <4>1. stale'[c] = stale[c] /\ tasks[c] = 0
        BY <2>1, <3>2 DEF TouchInv, Revivable
      <4>2. ~Calling(c)
        BY <3>2 DEF TouchInv, Revivable, Calling
      <4> QED BY <3>0, <4>1, <4>2
    <3>3. CASE c \in fetched /\ row[c].status # "queued" /\ ~Revivable(c)
      <4>1. stale'[c] = stale[c] + 1 /\ tasks[c] <= 1 + stale[c] /\ (Calling(c) => tasks[c] <= stale[c])
        BY <2>1, <3>3 DEF PaidInv
      <4> QED BY <3>0, <4>1
    <3> QED BY <3>1, <3>2, <3>3
  <2>5. PaidInv'
    BY <2>4 DEF PaidInv
  <2> QED BY <2>3, <2>5
<1>4. ASSUME NEW c \in Clips, Insert(r, c) PROVE PaidInv' /\ TouchInv'
  <2>1. PICK s \in {"none", "queued", "error"} :
          \/ row' = row
          \/ row[c].status = "none" /\ row' = [row EXCEPT ![c] = [row[c] EXCEPT !.status = s]]
    BY <1>0, <1>4 DEF Insert, Unfetched, rowVars
  <2>2. UNCHANGED <<loop, tasks, stale>>
    BY <1>4 DEF Insert, Unfetched
  <2>3. [row[c] EXCEPT !.status = s].status = s /\ [row[c] EXCEPT !.status = s].touched = row[c].touched
    BY <1>0 DEF Rows
  <2>4. \A x \in Clips : x # c \/ row' = row => row'[x] = row[x]
    BY <1>0, <2>1
  <2>5. row' # row => row[c].status = "none" /\ row'[c].status = s /\ row'[c].touched = row[c].touched
    BY <1>0, <2>1, <2>3
  <2> QED BY <1>1, <2>2, <2>4, <2>5, Unpaid DEF Claimable
<1> QED BY <1>2, <1>3, <1>4 DEF Handler

(* The scheduler, its restarts and the reaper. *)
LEMMA LoopPays ==
  ASSUME TypeOK, PaidInv, TouchInv, LoopStep \/ Kill \/ Reap
  PROVE  PaidInv' /\ TouchInv'
<1>0. /\ row \in [Clips -> Rows] /\ loop \in Loops
      /\ (loop.clip # Null) <=> loop.at \in {"call", "record", "settle"}
      /\ tasks \in [Clips -> Nat] /\ stale \in [Clips -> Nat]
  BY TypeParts
<1>1. loop.at \in {"call", "record", "settle"} => loop.clip \in Clips
  BY <1>0 DEF Loops
<1>2. ASSUME NEW S \in SUBSET Clips, row' = GiveUp(S), NEW c \in Clips
      PROVE  /\ row'[c].touched = row[c].touched
             /\ row'[c].status = row[c].status \/ row'[c].status = "error"
  BY <1>0, <1>2, StatusOf DEF GiveUp
<1>3. CASE Heal
  <2>1. row' = GiveUp(Residue) /\ UNCHANGED <<tasks, stale>> /\ loop'.at = "sweep"
    BY <1>0, <1>3 DEF Heal, Loops
  <2>2. Residue \subseteq Clips
    BY DEF Residue
  <2> QED BY <1>2, <2>1, <2>2, Unpaid DEF Claimable
<1>4. CASE Sweep
  <2>1. PICK late \in SUBSET Clips :
          row' = GiveUp(late) /\ UNCHANGED <<tasks, stale>> /\ loop'.at = "submit"
    BY <1>0, <1>4 DEF Sweep, Loops, Residue
  <2> QED BY <1>2, <2>1, Unpaid DEF Claimable
<1>5. CASE Call
  <2>1. PICK a \in Answers : /\ tasks' = [tasks EXCEPT ![loop.clip] = @ + a[2]]
                             /\ loop' = [loop EXCEPT !.at = "record", !.answer = a[1]]
    BY <1>5 DEF Call
  <2>2. loop.at = "call" /\ loop.clip \in Clips /\ UNCHANGED <<row, stale>>
    BY <1>1, <1>5 DEF Call, rowVars
  <2>3. a[2] \in {0, 1} /\ (a[1] = "busy" => a[2] = 0)
    BY DEF Answers
  <2>4. tasks'[loop.clip] = tasks[loop.clip] + a[2] /\ \A c \in Clips \ {loop.clip} : tasks'[c] = tasks[c]
    BY <1>0, <2>1, <2>2
  <2>5. loop'.at = "record" /\ loop'.clip = loop.clip /\ loop'.answer = a[1]
    BY <1>0, <2>1 DEF Loops
  <2>6. PaidInv'
    <3>1. ASSUME NEW c \in Clips
          PROVE  /\ tasks'[c] <= 1 + stale'[c]
                 /\ Calling(c)' \/ Claimable(c)' => tasks'[c] <= stale'[c]
                 /\ Calling(c)' /\ Claimable(c)' => tasks'[c] + 1 <= stale'[c]
      <4>0. tasks[c] \in Nat /\ stale[c] \in Nat /\ stale'[c] = stale[c] /\ ~Calling(c)'
        BY <1>0, <2>2, <2>5 DEF Calling
      <4>1. CASE c # loop.clip
        <5>1. tasks'[c] = tasks[c] /\ (Claimable(c)' => Claimable(c))
          BY <2>2, <2>4, <2>5, <4>1 DEF Claimable
        <5> QED BY <4>0, <5>1 DEF PaidInv
      <4>2. CASE c = loop.clip
        <5>1. Calling(c) /\ tasks[c] <= stale[c] /\ tasks'[c] = tasks[c] + a[2]
          BY <2>2, <2>4, <4>2 DEF Calling, PaidInv
        <5>2. CASE row[c].status \in {"none", "queued"}
          <6>1. tasks[c] + 1 <= stale[c]
            BY <5>1, <5>2 DEF PaidInv, Claimable
          <6> QED BY <2>3, <4>0, <5>1, <6>1
        <5>3. CASE row[c].status \notin {"none", "queued"}
          <6>1. Claimable(c)' => a[2] = 0
            BY <2>2, <2>3, <2>5, <5>3 DEF Claimable
          <6> QED BY <2>3, <4>0, <5>1, <6>1
        <5> QED BY <5>2, <5>3
      <4> QED BY <4>1, <4>2
    <3> QED BY <3>1 DEF PaidInv
  <2>7. TouchInv'
    BY <2>2, <2>4, <2>5 DEF TouchInv
  <2> QED BY <2>6, <2>7
<1>6. CASE Record
  <2>1. UNCHANGED <<tasks, stale>> /\ loop'.at = "submit" /\ loop.at = "record" /\ loop.clip \in Clips
    BY <1>0, <1>1, <1>6 DEF Record, Loops
  <2>2. \/ row' = row
        \/ /\ row[loop.clip].status = "submitting"
           /\ row' = [row EXCEPT ![loop.clip] =
                        [[row[loop.clip] EXCEPT !.status = StatusFor(loop.answer)]
                           EXCEPT !.sid = row[loop.clip].sid \/ loop.answer = "taken"]]
    BY <1>0, <1>6, <2>1 DEF Record
  <2>3. CASE row' = row
    BY <2>1, <2>3, Unpaid DEF Claimable
  <2>4. CASE row' # row
    <3>1. StatusFor(loop.answer) \in {"queued", "submitted", "error"}
          /\ (StatusFor(loop.answer) = "queued" => loop.answer = "busy")
      BY DEF StatusFor
    <3>2. PICK q \in Rows : q = [row[loop.clip] EXCEPT !.status = StatusFor(loop.answer)]
      BY <1>0, <2>1, <3>1, RowWrites
    <3>3. q.status = StatusFor(loop.answer) /\ q.touched = row[loop.clip].touched
      BY <1>0, <2>1, <3>1, <3>2, StatusOf
    <3>4. PICK u \in BOOLEAN : u = (row[loop.clip].sid \/ loop.answer = "taken")
      OBVIOUS
    <3>5. row' = [row EXCEPT ![loop.clip] = [q EXCEPT !.sid = u]] /\ row[loop.clip].status = "submitting"
      BY <2>2, <2>4, <3>2, <3>4
    <3>6. [q EXCEPT !.sid = u].status = q.status /\ [q EXCEPT !.sid = u].touched = q.touched
      BY RowWrites
    <3>7. /\ row'[loop.clip].status = StatusFor(loop.answer)
          /\ row'[loop.clip].touched = row[loop.clip].touched
          /\ \A c \in Clips \ {loop.clip} : row'[c] = row[c]
      BY <1>0, <2>1, <3>3, <3>5, <3>6
    <3> QED BY <2>1, <3>1, <3>5, <3>7, Unpaid DEF Claimable
  <2> QED BY <2>3, <2>4
<1>7. CASE EndSubmit
  <2>1. UNCHANGED <<row, tasks, stale>> /\ loop'.at = "poll"
    BY <1>0, <1>7 DEF EndSubmit, Loops, rowVars
  <2> QED BY <2>1, Unpaid DEF Claimable
<1>8. CASE Settle
  <2>1. UNCHANGED <<tasks, stale>> /\ loop'.at = "poll" /\ loop.clip \in Clips
    BY <1>0, <1>1, <1>8 DEF Settle, Loops
  <2>2. PICK s \in {"done", "error", "querying"} :
          \/ row' = row
          \/ row' = [row EXCEPT ![loop.clip] =
                       [[row[loop.clip] EXCEPT !.status = s] EXCEPT !.url = (s = "done")]]
    BY <1>0, <1>8, <2>1 DEF Settle, Outcome, rowVars
  <2>3. CASE row' = row
    BY <2>1, <2>3, Unpaid DEF Claimable
  <2>4. CASE row' # row
    <3>1. PICK q \in Rows : q = [row[loop.clip] EXCEPT !.status = s]
      BY <1>0, <2>1, RowWrites
    <3>2. q.status = s /\ q.touched = row[loop.clip].touched
      BY <1>0, <2>1, <3>1, StatusOf
    <3>3. PICK u \in BOOLEAN : u = (s = "done")
      OBVIOUS
    <3>4. row' = [row EXCEPT ![loop.clip] = [q EXCEPT !.url = u]]
      BY <2>2, <2>4, <3>1, <3>3
    <3>5. [q EXCEPT !.url = u].status = q.status /\ [q EXCEPT !.url = u].touched = q.touched
      BY RowWrites
    <3>6. /\ row'[loop.clip].status = s /\ row'[loop.clip].touched = row[loop.clip].touched
          /\ \A c \in Clips \ {loop.clip} : row'[c] = row[c]
      BY <1>0, <2>1, <3>2, <3>4, <3>5
    <3> QED BY <2>1, <3>6, Unpaid DEF Claimable
  <2> QED BY <2>3, <2>4
<1>9. ASSUME NEW c \in Clips, Claim(c) PROVE PaidInv' /\ TouchInv'
  <2>1. CASE row[c].status = "queued"
    <3>1. /\ row' = [row EXCEPT ![c] = Claimed(c)] /\ UNCHANGED <<tasks, stale>>
          /\ loop'.at = "call" /\ loop'.clip = c
      BY <1>0, <1>9, <2>1 DEF Claim, Loops
    <3>2. PICK q \in Rows : q = [row[c] EXCEPT !.status = "submitting"]
      BY <1>0, RowWrites
    <3>3. q.status = "submitting"
      BY <1>0, <3>2, StatusOf
    <3>4. Claimed(c) = [q EXCEPT !.touched = TRUE]
      BY <3>2 DEF Claimed
    <3>5. Claimed(c).status = "submitting" /\ Claimed(c).touched
      BY <3>3, <3>4, RowWrites
    <3>6. row'[c] = Claimed(c) /\ \A x \in Clips \ {c} : row'[x] = row[x]
      BY <1>0, <3>1
    <3>7. TouchInv'
      BY <3>1, <3>5, <3>6 DEF TouchInv
    <3>8. ASSUME NEW x \in Clips
          PROVE  /\ x = c => Claimable(x) /\ ~Claimable(x)'
                 /\ x # c => ~Calling(x)' /\ (Claimable(x)' => Claimable(x))
      BY <2>1, <3>1, <3>5, <3>6 DEF Claimable, Calling
    <3>9. PaidInv'
      BY <3>1, <3>8 DEF PaidInv
    <3> QED BY <3>7, <3>9
  <2>2. CASE row[c].status # "queued"
    <3>1. UNCHANGED <<row, tasks, stale>> /\ loop'.at = "submit"
      BY <1>0, <1>9, <2>2 DEF Claim, Loops
    <3> QED BY <3>1, Unpaid DEF Claimable
  <2> QED BY <2>1, <2>2
<1>10. ASSUME NEW c \in Clips, Query(c) PROVE PaidInv' /\ TouchInv'
  <2>1. UNCHANGED <<row, tasks, stale>> /\ loop'.at \in {"settle", "poll"}
    BY <1>0, <1>10 DEF Query, Loops, rowVars
  <2> QED BY <2>1, Unpaid DEF Claimable
<1>11. CASE Kill
  <2>1. UNCHANGED <<row, tasks, stale>> /\ loop'.at = "heal"
    BY <1>11 DEF Kill, Started, rowVars
  <2> QED BY <2>1, Unpaid DEF Claimable
<1>12. CASE Reap
  <2>1. UNCHANGED <<loop, tasks, stale>>
    BY <1>12 DEF Reap
  <2>2. ASSUME NEW c \in Clips PROVE row'[c].status = row[c].status /\ row'[c].touched = row[c].touched
    <3>1. row'[c] = row[c] \/ row'[c] = [row[c] EXCEPT !.url = FALSE]
      BY <1>12 DEF Reap, Reaped
    <3>2. /\ [row[c] EXCEPT !.url = FALSE].status = row[c].status
          /\ [row[c] EXCEPT !.url = FALSE].touched = row[c].touched
      <4>1. row[c] \in Rows
        BY <1>0
      <4> QED BY <4>1, RowWrites
    <3> QED BY <3>1, <3>2, Zenon
  <2> QED BY <1>1, <2>1, <2>2, Unpaid DEF Claimable
<1> QED BY <1>3, <1>4, <1>5, <1>6, <1>7, <1>8, <1>9, <1>10, <1>11, <1>12 DEF LoopStep

(***************************************************************************)
(* The results                                                             *)
(***************************************************************************)

(* The inductive invariant holds at first and is kept by every step. *)
LEMMA Initially == Init => IInv
<1> SUFFICES ASSUME Init PROVE IInv
  OBVIOUS
<1>1. TypeOK
  <2>1. NoRow \in Rows /\ NoRequest \in Asks /\ Started \in Loops
    BY DEF NoRow, NoRequest, Started, Rows, Asks, Loops, Replies
  <2>2. row \in [Clips -> Rows] /\ loop \in Loops
    BY <2>1 DEF Init
  <2>3. AsksOK
    <3>1. req \in [Requests -> Asks]
      BY <2>1 DEF Init
    <3>2. \A r \in Requests : req[r].found = {} /\ req[r].missing = {} /\ req[r].fetched = {}
      BY DEF Init, NoRequest
    <3> QED BY <3>1, <3>2 DEF AsksOK
  <2>4. (loop.clip # Null) <=> loop.at \in {"call", "record", "settle"}
    BY DEF Init, Started
  <2>5. /\ files \in [Clips -> SUBSET {"refs", "video", "frame"}]
        /\ over \in [Clips -> BOOLEAN]
        /\ remote \in [Clips -> {"none", "working", "good", "bad"}]
        /\ tasks \in [Clips -> Nat] /\ stale \in [Clips -> Nat]
        /\ kills \in 0..MaxKills /\ faults \in 0..MaxFaults
    BY ClipsAssumption DEF Init
  <2> QED BY <2>2, <2>3, <2>4, <2>5, TypeParts
<1>2. PaidInv
  BY DEF Init, PaidInv, Calling, Started
<1>3. TouchInv
  BY DEF Init, TouchInv, Started
<1> QED BY <1>1, <1>2, <1>3 DEF IInv

LEMMA Inductive == IInv /\ [Next]_vars => IInv'
<1> SUFFICES ASSUME IInv, [Next]_vars PROVE IInv'
  OBVIOUS
<1>1. TypeOK'
  BY TypeStep DEF IInv
<1>2. PaidInv' /\ TouchInv'
  <2>1. CASE UNCHANGED vars
    BY <2>1 DEF vars, IInv, PaidInv, TouchInv, Calling, Claimable
  <2>2. ASSUME NEW c \in Clips, Frame(c) \/ Render(c) \/ Time(c) PROVE PaidInv' /\ TouchInv'
    <3>1. UNCHANGED <<row, loop, tasks, stale>>
      BY <2>2 DEF Frame, Render, Time, rowVars
    <3> QED BY <3>1 DEF IInv, PaidInv, TouchInv, Calling, Claimable
  <2> QED BY <2>1, <2>2, HandlerPays, LoopPays DEF IInv, Next
<1> QED BY <1>1, <1>2 DEF IInv

(* The inductive invariant holds throughout: see its parts above. *)
THEOREM Invariant == Spec => []IInv
BY Initially, Inductive, PTL DEF Spec

(* Rows, requests and the scheduler's place stay what they may be, for any     *)
(* rows, requests, budgets and bounds (dreamina_rest.py, dreamina.py).        *)
THEOREM ClipTypes == Spec => []TypeOK
<1>1. IInv => TypeOK
  BY DEF IInv
<1> QED BY <1>1, Invariant, PTL

(* However replays, restarts and the CLI's answers interleave, a clip is paid  *)
(* for at most once more than it was revived over a row that had gone on, and *)
(* a row that was paid for is never revivable (services/dreamina.py's claim   *)
(* and the revival of dreamina_rest.py).                                     *)
THEOREM PaidOnce == Spec => []PaidOncePerRevival
<1>1. IInv => PaidOncePerRevival
  <2> SUFFICES ASSUME IInv, NEW c \in Clips
               PROVE  tasks[c] <= 1 + stale[c] /\ (tasks[c] > 0 => ~Revivable(c))
    BY DEF PaidOncePerRevival
  <2> QED BY DEF IInv, PaidInv, TouchInv, Revivable
<1> QED BY <1>1, Invariant, PTL

(***************************************************************************)
(* Forms                                                                   *)
(***************************************************************************)

Pictures(f) == {"image", "first_image", "last_image"} \cap f.fields

(* How many of the three picture fields a form has. *)
LEMMA PictureCount ==
  ASSUME NEW f \in Forms
  PROVE  /\ Pictures(f) = {} => Cardinality(Pictures(f)) = 0
         /\ Pictures(f) = {"image"} => Cardinality(Pictures(f)) = 1
         /\ Pictures(f) = {"first_image", "last_image"} => Cardinality(Pictures(f)) = 2
<1>1. Cardinality({}) = 0 /\ Cardinality({"image"}) = 1
  BY FS_EmptySet, FS_Singleton
<1>2. Cardinality({"first_image", "last_image"}) = 2
  <2>1. IsFiniteSet({"first_image"}) /\ Cardinality({"first_image"}) = 1
    BY FS_Singleton
  <2>2. {"first_image", "last_image"} = {"first_image"} \cup {"last_image"} /\ "last_image" \notin {"first_image"}
    OBVIOUS
  <2> QED BY <2>1, <2>2, FS_AddElement
<1> QED BY <1>1, <1>2

(* Every form the REST checks let through reaches the CLI whole: by operation, the
   checks leave no field that the argument list does not carry. *)
LEMMA NothingIsDropped == NothingDropped
<1> SUFFICES ASSUME NEW f \in Forms, Valid(f)
             PROVE  LET args == SubmitArgs(f) IN
                      /\ f.fields \subseteq args.carried
                      /\ args.pictures = f.images + Cardinality(Pictures(f))
                      /\ args.pictures = RefSpecs(f)
                      /\ args.segments = f.segments /\ args.seconds = f.seconds
  BY DEF NothingDropped, Pictures
<1>0. /\ f.operation \in Operations /\ f.fields \subseteq Flags /\ f.images \in 0..3
      /\ f.segments \in 0..2 /\ f.seconds \in 0..2
  BY DEF Forms
<1>a. /\ RequiredFields(f) /\ MediaMatrix(f) /\ Multiframe(f)
  BY DEF Valid
<1>1. CASE f.operation = "text2video"
  <2>1. Pictures(f) = {} /\ f.images = 0 /\ "videos" \notin f.fields /\ "audios" \notin f.fields
    BY <1>1, <1>a DEF MediaMatrix, Pictures, Has
  <2> QED BY <2>1, <1>0, <1>1, <1>a, PictureCount DEF SubmitArgs, RefSpecs, Multiframe, Flags, Has, Pictures
<1>2. CASE f.operation = "image2video"
  <2>1. Pictures(f) = {"image"} /\ f.images = 0 /\ f.fields \cap {"videos", "audios", "ratio"} = {}
    BY <1>0, <1>2, <1>a DEF MediaMatrix, Pictures, Has
  <2> QED BY <2>1, <1>0, <1>2, <1>a, PictureCount DEF SubmitArgs, RefSpecs, Multiframe, Flags, Has, Pictures
<1>3. CASE f.operation = "frames2video"
  <2>1. Pictures(f) = {"first_image", "last_image"} /\ f.images = 0 /\ f.fields \cap {"videos", "audios", "ratio"} = {}
    BY <1>0, <1>3, <1>a DEF MediaMatrix, Pictures, Has
  <2> QED BY <2>1, <1>0, <1>3, <1>a, PictureCount DEF SubmitArgs, RefSpecs, Multiframe, Flags, Has, Pictures
<1>4. CASE f.operation = "multimodal2video"
  <2>1. f.fields \cap {"first_image", "last_image"} = {} /\ ("image" \in f.fields => f.images = 0)
    BY <1>0, <1>4, <1>a DEF MediaMatrix, Has
  <2>2. Pictures(f) = IF "image" \in f.fields THEN {"image"} ELSE {}
    BY <2>1 DEF Pictures
  <2> QED BY <2>1, <2>2, <1>0, <1>4, <1>a, PictureCount DEF SubmitArgs, RefSpecs, Multiframe, Flags, Has
<1>5. CASE f.operation = "multiframe2video"
  <2>1. /\ f.fields \cap {"first_image", "last_image", "image", "videos", "audios", "ratio", "model"} = {}
        /\ f.images >= 2
    BY <1>5, <1>a DEF MediaMatrix, Multiframe, Has
  <2>2. Pictures(f) = {}
    BY <2>1 DEF Pictures
  <2>3. f.segments # 0 => ~Has(f, "prompt") /\ ~Has(f, "duration")
    BY <1>0, <1>5, <1>a DEF Multiframe, Segments
  <2>4. f.segments = 0 => f.seconds = 0
    BY <1>0, <1>5, <1>a DEF Multiframe
  <2> QED BY <2>1, <2>2, <2>3, <2>4, <1>0, <1>5, PictureCount DEF SubmitArgs, MultiframeArgs, RefSpecs, Flags, Has
<1> QED BY <1>0, <1>1, <1>2, <1>3, <1>4, <1>5 DEF Operations

(* Whatever fields a form has, within its reduced bounds, a request that passes the     *)
(* checks of dreamina_rest.py hands them all to the CLI (services/dreamina.py).         *)
THEOREM FormsReachTheCLI == Spec => []FormsHold
<1>1. FormsHold
  BY NothingIsDropped DEF FormsHold
<1> QED BY <1>1, PTL

(***************************************************************************)
(* Video jobs                                                              *)
(***************************************************************************)

Stages == {"download", "analyze", "transcript", "resegment", "translate", "rewrite", "dub",
           "storyboard", "render", "compose", "mux", "deliver"}
Scripts == {Covered(first, second) : first \in Plans, second \in Plans \cup {<<>>}} \cup {<<>>}
Columns == [status: {"none", "queued", "running", "completed", "failed", "gone"},
            mode: {"none", "remake", "transport"}, done: SUBSET Stages,
            beat: {"null", "fresh", "stale"}, retries: Nat, parent: Jobs \cup {0}, plan: Scripts]
Hands == [job: Jobs, at: {"row", "work", "half", "made", "end"}, stage: Stages]
PastShape(p) ==
  p \in [lost: Nat, troubled: BOOLEAN, basis: {p.basis}, was: {p.was}, is: {p.is}]
AskShape(a) ==
  a \in [at: {"none", "spawn", "inherit", "mark", "queue"}, of: Jobs \cup {0},
         child: Jobs \cup {0}, plan: Scripts, basis: {a.basis}]

(* Rows, the worker's hand, the request for a revision and the history are such. *)
VideoTypes ==
  /\ job \in [Jobs -> Columns]
  /\ hand \in Hands \cup {Idle}
  /\ past = [j \in Jobs |-> past[j]] /\ \A j \in Jobs : PastShape(past[j])
  /\ AskShape(ask)
  /\ ask.at = "spawn" => ask.of \in Jobs
  /\ ask.at \in {"inherit", "mark", "queue"} => ask.of \in Jobs /\ ask.child \in Jobs

(* A running job that nobody holds has lost its worker since it was last taken. *)
Orphaned(j) == job[j].status = "running" /\ job[j].beat # "null" /\ hand.job # j
OrphansAreLosses == \A j \in Jobs : Orphaned(j) => job[j].retries + 1 <= past[j].lost

LossInv == VideoTypes /\ RetriesAreLosses /\ OrphansAreLosses

LEMMA ColumnWrites ==
  ASSUME NEW r \in Columns
  PROVE  /\ \A s \in {"queued", "running", "completed", "failed", "gone"} :
              /\ [r EXCEPT !.status = s] \in Columns /\ [r EXCEPT !.status = s].status = s
              /\ [r EXCEPT !.status = s].retries = r.retries /\ [r EXCEPT !.status = s].beat = r.beat
         /\ [r EXCEPT !.beat = "stale"] \in Columns /\ [r EXCEPT !.beat = "stale"].status = r.status
         /\ [r EXCEPT !.beat = "stale"].retries = r.retries
         /\ [r EXCEPT !.done = Inherited] \in Columns /\ [r EXCEPT !.done = Inherited].status = r.status
         /\ [r EXCEPT !.done = Inherited].retries = r.retries
         /\ [r EXCEPT !.done = Inherited].beat = r.beat
         /\ Reset(r) \in Columns /\ Reset(r).status = "queued" /\ Reset(r).retries = r.retries
         /\ TakenUp(r) \in Columns /\ TakenUp(r).status = "running" /\ TakenUp(r).retries = r.retries
         /\ [Reset(r) EXCEPT !.retries = r.retries + 1] \in Columns
         /\ [Reset(r) EXCEPT !.retries = r.retries + 1].status = "queued"
         /\ [Reset(r) EXCEPT !.retries = r.retries + 1].retries = r.retries + 1
         /\ \A s \in Stages : LET new == [r EXCEPT !.done = r.done \cup {s}, !.beat = "fresh"] IN
              new \in Columns /\ new.status = r.status /\ new.retries = r.retries
<1>1. \A s \in Stages : LET new == [r EXCEPT !.done = r.done \cup {s}, !.beat = "fresh"] IN
              new \in Columns /\ new.status = r.status /\ new.retries = r.retries
  BY DEF Columns
<1>2. /\ \A s \in {"queued", "running", "completed", "failed", "gone"} :
              /\ [r EXCEPT !.status = s] \in Columns /\ [r EXCEPT !.status = s].status = s
              /\ [r EXCEPT !.status = s].retries = r.retries /\ [r EXCEPT !.status = s].beat = r.beat
         /\ [r EXCEPT !.beat = "stale"] \in Columns /\ [r EXCEPT !.beat = "stale"].status = r.status
         /\ [r EXCEPT !.beat = "stale"].retries = r.retries
         /\ [r EXCEPT !.done = Inherited] \in Columns /\ [r EXCEPT !.done = Inherited].status = r.status
         /\ [r EXCEPT !.done = Inherited].retries = r.retries
         /\ [r EXCEPT !.done = Inherited].beat = r.beat
  BY DEF Columns, Inherited, Stages
<1>3. Reset(r) \in Columns /\ Reset(r).status = "queued" /\ Reset(r).retries = r.retries
  BY DEF Columns, Reset
<1>4. TakenUp(r) \in Columns /\ TakenUp(r).status = "running" /\ TakenUp(r).retries = r.retries
  BY DEF Columns, TakenUp
<1>5. LET q == Reset(r) IN [q EXCEPT !.retries = r.retries + 1] \in Columns
       /\ [q EXCEPT !.retries = r.retries + 1].status = "queued"
       /\ [q EXCEPT !.retries = r.retries + 1].retries = r.retries + 1
  <2> DEFINE q == Reset(r)
  <2>1. q \in Columns /\ q.status = "queued" /\ r.retries \in Nat
    BY <1>3 DEF Columns
  <2> HIDE DEF q
  <2>2. [q EXCEPT !.retries = r.retries + 1] \in Columns
       /\ [q EXCEPT !.retries = r.retries + 1].status = "queued"
       /\ [q EXCEPT !.retries = r.retries + 1].retries = r.retries + 1
    BY <2>1 DEF Columns
  <2> QED BY <2>2 DEF q
<1> QED BY <1>1, <1>2, <1>3, <1>4, <1>5

LEMMA NewColumns ==
  /\ NoJob \in Columns /\ NoJob.retries = 0
  /\ \A mode \in {"remake", "transport"} :
       LET r == [NoJob EXCEPT !.status = "queued", !.mode = mode] IN
       r \in Columns /\ r.status = "queued" /\ r.retries = 0
  /\ \A parent \in Jobs, plan \in Scripts :
       LET r == Newborn(parent, plan) IN
       r \in Columns /\ r.status = "running" /\ r.beat = "null" /\ r.retries = 0
<1>1. NoJob \in Columns /\ NoJob.retries = 0 /\ NoJob.beat = "null"
  BY DEF Columns, NoJob, Scripts
<1> HIDE DEF NoJob
<1>2. \A mode \in {"remake", "transport"} :
       LET r == [NoJob EXCEPT !.status = "queued", !.mode = mode] IN
       r \in Columns /\ r.status = "queued" /\ r.retries = 0
  BY <1>1 DEF Columns
<1>3. \A parent \in Jobs, plan \in Scripts :
       LET r == Newborn(parent, plan) IN
       r \in Columns /\ r.status = "running" /\ r.beat = "null" /\ r.retries = 0
  BY <1>1 DEF Columns, Newborn
<1> QED BY <1>1, <1>2, <1>3

LEMMA PastWrites ==
  ASSUME NEW p, PastShape(p)
  PROVE  /\ PastShape([p EXCEPT !.lost = @ + 1]) /\ [p EXCEPT !.lost = @ + 1].lost = p.lost + 1
         /\ PastShape([p EXCEPT !.troubled = TRUE]) /\ [p EXCEPT !.troubled = TRUE].lost = p.lost
<1>1. PastShape([p EXCEPT !.lost = @ + 1]) /\ [p EXCEPT !.lost = @ + 1].lost = p.lost + 1
  BY DEF PastShape
<1>2. PastShape([p EXCEPT !.troubled = TRUE]) /\ [p EXCEPT !.troubled = TRUE].lost = p.lost
  BY DEF PastShape
<1> QED BY <1>1, <1>2

LEMMA Least ==
  ASSUME NEW S, S \subseteq Nat, S # {}
  PROVE  \E n \in S : \A m \in S : n <= m
<1>1. PICK n \in S : \A m \in S : ~(<<m, n>> \in OpToRel(<, Nat))
  BY NatLessThanWellFounded, WFMin
<1>2. \A m \in S : ~(m < n)
  BY <1>1 DEF OpToRel
<1> QED BY <1>2

LEMMA NextStage == ASSUME NEW r \in Columns PROVE FirstIncomplete(r) \in Stages
<1> DEFINE order == Order(r.mode)
           open == {i \in DOMAIN order : order[i] \notin r.done}
<1>1. order \in Seq(Stages) /\ Len(order) > 0 /\ Last(order) \in Stages
  <2>1. CASE r.mode = "remake"
    <3>1. order = <<"download", "analyze", "transcript", "resegment", "translate", "rewrite", "dub",
         "storyboard", "render", "compose", "deliver">>
      BY <2>1 DEF Order
    <3> QED BY <3>1 DEF Stages, Last
  <2>2. CASE r.mode # "remake"
    <3>1. order = <<"download", "transcript", "resegment", "translate", "dub", "mux", "deliver">>
      BY <2>2 DEF Order
    <3> QED BY <3>1 DEF Stages, Last
  <2> QED BY <2>1, <2>2
<1>2. CASE open = {}
  BY <1>1, <1>2 DEF FirstIncomplete
<1>3. CASE open # {}
  <2>1. \E i \in open : \A k \in open : i <= k
    <3>1. DOMAIN order = 1..7 \/ DOMAIN order = 1..11
      BY DEF Order
    <3> HIDE DEF order
    <3>2. open \subseteq 1..11
      BY <3>1
    <3> HIDE DEF open
    <3>3. open \subseteq Nat /\ \A i \in open, k \in open : ~(k < i) => i <= k
      BY <3>2
    <3> QED BY <1>3, <3>3, Least
  <2>2. (CHOOSE i \in open : \A k \in open : i <= k) \in DOMAIN order
    BY <2>1
  <2> QED BY <1>1, <1>3, <2>2 DEF FirstIncomplete
<1> QED BY <1>2, <1>3

LEMMA NewIdIsUnborn == Unborn # {} => NewId \in Unborn
<1> SUFFICES ASSUME Unborn # {} PROVE \E j \in Unborn : \A k \in Unborn : j <= k
  BY DEF NewId
<1>1. Unborn \subseteq Nat
  BY DEF Unborn, Jobs
<1> QED BY <1>1, Least

(* One row is written. *)
LEMMA OneRowStep ==
  ASSUME LossInv, NEW j \in Jobs, NEW r \in Columns, job' = [job EXCEPT ![j] = r],
         UNCHANGED <<past, hand>>, AskShape(ask)',
         (ask.at = "spawn" => ask.of \in Jobs)',
         (ask.at \in {"inherit", "mark", "queue"} => ask.of \in Jobs /\ ask.child \in Jobs)',
         r.retries <= past[j].lost,
         r.status = "running" /\ r.beat # "null" /\ hand.job # j => r.retries + 1 <= past[j].lost
  PROVE  LossInv'
<1>0. job \in [Jobs -> Columns]
  BY DEF LossInv, VideoTypes
<1>1. VideoTypes'
  BY <1>0 DEF LossInv, VideoTypes, PastShape
<1>2. \A k \in Jobs : job'[k] = IF k = j THEN r ELSE job[k]
  BY <1>0
<1>3. RetriesAreLosses'
  BY <1>2 DEF LossInv, RetriesAreLosses
<1>4. OrphansAreLosses'
  BY <1>2 DEF LossInv, OrphansAreLosses, Orphaned
<1> QED BY <1>1, <1>3, <1>4 DEF LossInv

(* The hand goes on with its job, whose row it may write, or lets it go once it no  *)
(* longer runs.                                                             *)
LEMMA HandStep ==
  ASSUME LossInv, NEW j \in Jobs, NEW r \in Columns, job' = [job EXCEPT ![j] = r],
         r.retries = job[j].retries, UNCHANGED <<past, ask>>,
         \/ hand' \in Hands /\ hand'.job = j /\ hand.job \in {0, j}
         \/ hand' = Idle /\ hand.job = j /\ r.status # "running"
  PROVE  LossInv'
<1>0. job \in [Jobs -> Columns]
  BY DEF LossInv, VideoTypes
<1>1. VideoTypes'
  BY <1>0 DEF LossInv, VideoTypes, PastShape, AskShape
<1>2. \A k \in Jobs : job'[k] = IF k = j THEN r ELSE job[k]
  BY <1>0
<1>3. RetriesAreLosses'
  BY <1>2 DEF LossInv, RetriesAreLosses
<1>4. OrphansAreLosses'
  <2> SUFFICES ASSUME NEW k \in Jobs, Orphaned(k)' PROVE job'[k].retries + 1 <= past[k].lost
    BY DEF OrphansAreLosses
  <2>1. k # 0
    BY DEF Jobs
  <2>2. k # j
    BY <1>2 DEF Orphaned
  <2>3. Orphaned(k)
    BY <1>2, <2>1, <2>2 DEF Orphaned
  <2> QED BY <1>2, <2>2, <2>3 DEF LossInv, OrphansAreLosses
<1> QED BY <1>1, <1>3, <1>4 DEF LossInv

(* What the requests and the clocks write. *)
LEMMA RequestsStep ==
  ASSUME LossInv
  PROVE  /\ \A mode \in {"remake", "transport"} : Create(mode) => LossInv'
         /\ \A j \in Jobs : Retry(j) \/ DeleteRow(j) \/ Lapse(j) \/ Recover(j) => LossInv'
<1>0. job \in [Jobs -> Columns] /\ \A j \in Jobs : PastShape(past[j]) /\ past[j].lost \in Nat
  BY DEF LossInv, VideoTypes, PastShape
<1>a. UNCHANGED ask =>
        /\ AskShape(ask)'
        /\ (ask.at = "spawn" => ask.of \in Jobs)'
        /\ (ask.at \in {"inherit", "mark", "queue"} => ask.of \in Jobs /\ ask.child \in Jobs)'
  BY DEF LossInv, VideoTypes, AskShape
<1>1. ASSUME NEW mode \in {"remake", "transport"}, Create(mode) PROVE LossInv'
  <2> DEFINE r == [NoJob EXCEPT !.status = "queued", !.mode = mode]
  <2>1. NewId \in Jobs
    BY <1>1, NewIdIsUnborn DEF Create, Unborn
  <2>2. r \in Columns /\ r.status = "queued" /\ r.retries = 0
    BY NewColumns
  <2>3. job' = [job EXCEPT ![NewId] = r] /\ UNCHANGED <<past, hand, ask>>
    BY <1>1 DEF Create
  <2> HIDE DEF r
  <2>4. r.retries <= past[NewId].lost
    BY <1>0, <2>1, <2>2
  <2> QED BY <1>a, <2>1, <2>2, <2>3, <2>4, OneRowStep
<1>2. ASSUME NEW j \in Jobs PROVE Retry(j) \/ DeleteRow(j) \/ Lapse(j) \/ Recover(j) => LossInv'
  <2>1. job[j] \in Columns /\ job[j].retries \in Nat /\ past[j].lost \in Nat /\ job[j].retries <= past[j].lost
    BY <1>0 DEF RetriesAreLosses, LossInv, Columns
  <2>2. CASE Retry(j)
    <3>1. job' = [job EXCEPT ![j] = Reset(job[j])] /\ UNCHANGED <<past, hand, ask>>
      BY <2>2 DEF Retry
    <3> QED BY <1>a, <2>1, <3>1, OneRowStep, ColumnWrites
  <2>3. CASE DeleteRow(j)
    <3>1. job' = [job EXCEPT ![j] = [job[j] EXCEPT !.status = "gone"]] /\ UNCHANGED <<past, hand, ask>>
      BY <2>3 DEF DeleteRow
    <3> QED BY <1>a, <2>1, <3>1, ColumnWrites, OneRowStep
  <2>4. CASE Lapse(j)
    <3>1. job' = [job EXCEPT ![j] = [job[j] EXCEPT !.beat = "stale"]] /\ UNCHANGED <<past, hand, ask>>
      BY <2>4 DEF Lapse
    <3>2. hand.job # j => job[j].retries + 1 <= past[j].lost
      BY <2>4 DEF Lapse, Orphaned, LossInv, OrphansAreLosses
    <3> QED BY <1>a, <2>1, <3>1, <3>2, ColumnWrites, OneRowStep
  <2>5. CASE Recover(j)
    <3>1. Orphaned(j)
      BY <2>5 DEF Recover, Stale, Orphaned
    <3>2. job[j].retries + 1 <= past[j].lost /\ UNCHANGED <<past, hand, ask>>
      BY <2>5, <3>1 DEF OrphansAreLosses, LossInv, Recover
    <3>3. CASE job[j].retries >= MaxRetries
      <4>1. job' = [job EXCEPT ![j] = [job[j] EXCEPT !.status = "failed"]]
        BY <2>5, <3>3 DEF Recover
      <4> QED BY <1>a, <2>1, <3>2, <4>1, ColumnWrites, OneRowStep
    <3>4. CASE ~(job[j].retries >= MaxRetries)
      <4>3. job' = [job EXCEPT ![j] = [Reset(job[j]) EXCEPT !.retries = job[j].retries + 1]]
        BY <2>5, <3>4, Zenon DEF Recover
      <4> DEFINE r == [Reset(job[j]) EXCEPT !.retries = job[j].retries + 1]
      <4>4. r \in Columns /\ r.status = "queued" /\ r.retries = job[j].retries + 1
        BY <2>1, ColumnWrites
      <4>5. job' = [job EXCEPT ![j] = r]
        BY <4>3
      <4> HIDE DEF r
      <4> QED BY <1>a, <2>1, <3>2, <4>4, <4>5, OneRowStep
    <3> QED BY <3>3, <3>4
  <2> QED BY <2>2, <2>3, <2>4, <2>5
<1> QED BY <1>1, <1>2

(* A revision: asked for, born, given its parent's files, queued; or given up. *)
LEMMA RevisionStep ==
  ASSUME LossInv
  PROVE  (\E j \in Jobs : Revise(j)) \/ Api \/ ApiDies => LossInv'
<1>0. /\ job \in [Jobs -> Columns] /\ AskShape(ask)
      /\ \A j \in Jobs : PastShape(past[j]) /\ past[j].lost \in Nat
      /\ \A j \in Jobs : job[j].retries <= past[j].lost
      /\ past = [j \in Jobs |-> past[j]]
  BY DEF LossInv, VideoTypes, PastShape, RetriesAreLosses
<1>a. /\ AskShape(NoAsk) /\ NoAsk.at = "none"
  BY DEF AskShape, NoAsk, Scripts
<1>b. \A s \in {"inherit", "mark", "queue"} : LET a == [ask EXCEPT !.at = s] IN
        AskShape(a) /\ a.at = s /\ a.of = ask.of /\ a.child = ask.child
  BY <1>0 DEF AskShape
\* Nothing but the request moves.
<1>c. ASSUME UNCHANGED <<job, past, hand>>, AskShape(ask)', (ask.at = "spawn" => ask.of \in Jobs)',
             (ask.at \in {"inherit", "mark", "queue"} => ask.of \in Jobs /\ ask.child \in Jobs)'
      PROVE  LossInv'
  BY <1>c DEF LossInv, VideoTypes, PastShape, RetriesAreLosses, OrphansAreLosses, Orphaned
<1>1. ASSUME NEW j \in Jobs, Revise(j) PROVE LossInv'
  <2>1. PICK first \in Plans, second \in Plans \cup {<<>>} :
          ask' = [NoAsk EXCEPT !.at = "spawn", !.of = j, !.plan = Covered(first, second),
                               !.basis = disk[j].rewritten]
    BY <1>1 DEF Revise
  <2>2. Covered(first, second) \in Scripts
    BY DEF Scripts
  <2>3. AskShape(ask)' /\ ask'.at = "spawn" /\ ask'.of = j
    BY <2>1, <2>2 DEF AskShape, NoAsk
  <2> QED BY <1>1, <1>c, <2>3 DEF Revise
<1>2. CASE Spawn
  <2> DEFINE r == Newborn(ask.of, ask.plan)
  <2>1. NewId \in Jobs /\ ask.of \in Jobs /\ ask.plan \in Scripts /\ ask.at = "spawn"
    BY <1>0, <1>2, NewIdIsUnborn DEF Spawn, Unborn, LossInv, VideoTypes, AskShape
  <2>2. r \in Columns /\ r.status = "running" /\ r.beat = "null" /\ r.retries = 0
    BY <2>1, NewColumns
  <2>3. job' = [job EXCEPT ![NewId] = r] /\ UNCHANGED hand
    BY <1>2 DEF Spawn
  <2>4. \A k \in Jobs : job'[k] = IF k = NewId THEN r ELSE job[k]
    BY <1>0, <2>1, <2>3
  <2>5. job' \in [Jobs -> Columns]
    BY <1>0, <2>1, <2>2, <2>3
  <2> HIDE DEF r
  <2> DEFINE p == [Born EXCEPT !.basis = ask.basis, !.was = past[ask.of].is,
                               !.is = Overridden(ask.plan, past[ask.of].is)]
  <2>6. PastShape(p) /\ p.lost = 0
    BY DEF PastShape, Born
  <2>7. past' = [past EXCEPT ![NewId] = p]
    BY <1>2 DEF Spawn
  <2> HIDE DEF p
  <2>8. past' = [k \in Jobs |-> past'[k]] /\ \A k \in Jobs : past'[k] = IF k = NewId THEN p ELSE past[k]
    BY <1>0, <2>1, <2>7
  <2>9. \A k \in Jobs : PastShape(past'[k])
    BY <1>0, <2>6, <2>8
  <2>10. AskShape(ask') /\ ask'.at = "inherit" /\ ask'.of \in Jobs /\ ask'.child \in Jobs
    BY <1>0, <1>2, <2>1 DEF Spawn, AskShape
  <2>11. VideoTypes'
    BY <2>3, <2>5, <2>8, <2>9, <2>10 DEF LossInv, VideoTypes, PastShape, AskShape
  <2>12. RetriesAreLosses'
    BY <1>0, <2>2, <2>4, <2>6, <2>8 DEF RetriesAreLosses
  <2>13. OrphansAreLosses'
    BY <2>2, <2>3, <2>4, <2>8 DEF LossInv, OrphansAreLosses, Orphaned
  <2> QED BY <2>11, <2>12, <2>13 DEF LossInv
<1>3. CASE Inherit
  <2>1. ask' = NoAsk \/ ask' = [ask EXCEPT !.at = "mark"]
    BY <1>3 DEF Inherit
  <2>2. ask.of \in Jobs /\ ask.child \in Jobs
    BY <1>3 DEF Inherit, LossInv, VideoTypes
  <2> QED BY <1>3, <1>a, <1>b, <1>c, <2>1, <2>2 DEF Inherit
<1>4. CASE Mark
  <2>1. ask.of \in Jobs /\ ask.child \in Jobs
    BY <1>4 DEF Mark, LossInv, VideoTypes
  <2>2. CASE job[ask.child].status = "gone"
    BY <1>4, <1>a, <1>c, <2>2 DEF Mark
  <2>3. CASE job[ask.child].status # "gone"
    <3>1. /\ job' = [job EXCEPT ![ask.child] = [job[ask.child] EXCEPT !.done = Inherited]]
          /\ ask' = [ask EXCEPT !.at = "queue"] /\ UNCHANGED <<past, hand>>
      BY <1>4, <2>3 DEF Mark
    <3>2. hand.job # ask.child /\ job[ask.child].status = "running" /\ job[ask.child].beat # "null"
            => job[ask.child].retries + 1 <= past[ask.child].lost
      BY <2>1 DEF LossInv, OrphansAreLosses, Orphaned
    <3>3. /\ AskShape(ask)' /\ (ask.at = "spawn" => ask.of \in Jobs)'
          /\ (ask.at \in {"inherit", "mark", "queue"} => ask.of \in Jobs /\ ask.child \in Jobs)'
      BY <1>b, <2>1, <3>1
    <3> DEFINE r == [job[ask.child] EXCEPT !.done = Inherited]
    <3>4. r \in Columns /\ r.status = job[ask.child].status /\ r.retries = job[ask.child].retries
          /\ r.beat = job[ask.child].beat
      BY <1>0, <2>1, ColumnWrites
    <3>5. job' = [job EXCEPT ![ask.child] = r]
      BY <3>1
    <3> HIDE DEF r
    <3> QED BY <1>0, <2>1, <3>1, <3>2, <3>3, <3>4, <3>5, OneRowStep
  <2> QED BY <2>2, <2>3
<1>5. CASE Requeue
  <2>1. ask.of \in Jobs /\ ask.child \in Jobs
    BY <1>5 DEF Requeue, LossInv, VideoTypes
  <2>2. CASE job[ask.child].status = "gone"
    <3>1. UNCHANGED job
      BY <1>0, <1>5, <2>2 DEF Requeue
    <3> QED BY <1>5, <1>a, <1>c, <3>1 DEF Requeue
  <2>3. CASE job[ask.child].status # "gone"
    <3>1. job' = [job EXCEPT ![ask.child] = Reset(job[ask.child])] /\ ask' = NoAsk
          /\ UNCHANGED <<past, hand>>
      BY <1>5, <2>3 DEF Requeue
    <3>3. /\ AskShape(ask)' /\ (ask.at = "spawn" => ask.of \in Jobs)'
          /\ (ask.at \in {"inherit", "mark", "queue"} => ask.of \in Jobs /\ ask.child \in Jobs)'
      BY <1>a, <3>1
    <3>4. Reset(job[ask.child]) \in Columns /\ Reset(job[ask.child]).status = "queued"
          /\ Reset(job[ask.child]).retries = job[ask.child].retries
      BY <1>0, <2>1, ColumnWrites
    <3> QED BY <1>0, <2>1, <3>1, <3>3, <3>4, OneRowStep
  <2> QED BY <2>2, <2>3
<1>6. CASE ApiDies
  BY <1>6, <1>a, <1>c DEF ApiDies
<1> QED BY <1>1, <1>2, <1>3, <1>4, <1>5, <1>6 DEF Api

LEMMA DeletionStep == ASSUME LossInv, NEW j \in Jobs, DeleteFiles(j) PROVE LossInv'
<1>1. /\ past' = [past EXCEPT ![j] = [past[j] EXCEPT !.troubled = TRUE]]
      /\ UNCHANGED <<job, hand, ask>>
  BY DEF DeleteFiles
<1>2. PastShape([past[j] EXCEPT !.troubled = TRUE])
      /\ [past[j] EXCEPT !.troubled = TRUE].lost = past[j].lost
  BY PastWrites DEF LossInv, VideoTypes
<1>3. past' = [k \in Jobs |-> past'[k]] /\ \A k \in Jobs : PastShape(past'[k]) /\ past'[k].lost = past[k].lost
  BY <1>1, <1>2 DEF LossInv, VideoTypes
<1> QED BY <1>1, <1>3 DEF LossInv, VideoTypes, AskShape, RetriesAreLosses, OrphansAreLosses, Orphaned

LEMMA WorkerStep == ASSUME LossInv PROVE Worker \/ WorkerDies => LossInv'
<1>0. /\ job \in [Jobs -> Columns] /\ hand \in Hands \cup {Idle}
      /\ \A j \in Jobs : PastShape(past[j]) /\ past[j].lost \in Nat
      /\ \A j \in Jobs : job[j].retries <= past[j].lost
      /\ past = [j \in Jobs |-> past[j]]
  BY DEF LossInv, VideoTypes, PastShape, RetriesAreLosses
<1>a. ASSUME hand.at # "idle"
      PROVE  /\ hand \in Hands /\ hand.job \in Jobs /\ job[hand.job] \in Columns
             /\ \A s \in {"work", "half", "made", "end"} :
                  [hand EXCEPT !.at = s] \in Hands /\ [hand EXCEPT !.at = s].job = hand.job
             /\ job = [job EXCEPT ![hand.job] = job[hand.job]]
  BY <1>0, <1>a DEF Idle, Hands
<1>1. ASSUME NEW j \in Jobs, Take(j) PROVE LossInv'
  <2>1. TakenUp(job[j]) \in Columns /\ TakenUp(job[j]).retries = job[j].retries
    BY <1>0, ColumnWrites
  <2>2. FirstIncomplete(job[j]) \in Stages
    BY <1>0, NextStage
  <2>3. hand' \in Hands /\ hand'.job = j /\ hand.job = 0
    BY <1>1, <2>2 DEF Take, Hands, Idle
  <2> QED BY <1>1, <2>1, <2>3, HandStep DEF Take
<1>2. CASE Enter
  <2>1. hand.at # "idle" /\ UNCHANGED <<past, ask>>
    BY <1>2 DEF Enter, At
  <2>2. CASE job[hand.job].status \in Terminal \cup {"gone"}
    <3>1. hand' = Idle /\ UNCHANGED job
      BY <1>2, <2>2 DEF Enter, Mine, Lets
    <3>2. job' = [job EXCEPT ![hand.job] = job[hand.job]]
      BY <1>a, <2>1, <3>1
    <3>3. job[hand.job].status # "running"
      BY <2>2 DEF Terminal
    <3> QED BY <1>a, <2>1, <3>1, <3>2, <3>3, HandStep
  <2>3. CASE ~(job[hand.job].status \in Terminal \cup {"gone"})
    <3>1. hand' = [hand EXCEPT !.at = "work"] /\ job' = [job EXCEPT ![hand.job] = TakenUp(job[hand.job])]
      BY <1>2, <2>3 DEF Enter, Mine, Goes, TakenUp
    <3>2. TakenUp(job[hand.job]) \in Columns /\ TakenUp(job[hand.job]).retries = job[hand.job].retries
      BY <1>a, <2>1, ColumnWrites
    <3>3. hand' \in Hands /\ hand'.job = hand.job
      BY <1>a, <2>1, <3>1
    <3> QED BY <1>a, <2>1, <3>1, <3>2, <3>3, HandStep
  <2> QED BY <2>2, <2>3
<1>3. CASE Begin \/ Complete
  <2>1. hand.at # "idle" /\ UNCHANGED <<job, past, ask>> /\ hand' \in {[hand EXCEPT !.at = "half"], [hand EXCEPT !.at = "made"]}
    BY <1>3 DEF Begin, Complete, At, Goes
  <2>2. job' = [job EXCEPT ![hand.job] = job[hand.job]]
    BY <1>a, <2>1
  <2>3. hand' \in Hands /\ hand'.job = hand.job
    BY <1>a, <2>1
  <2> QED BY <1>a, <2>1, <2>2, <2>3, HandStep
<1>4. CASE Raise
  <2>1. hand.at # "idle" /\ hand' = Idle /\ UNCHANGED ask
    BY <1>4 DEF Raise, At, Fails, Lets
  <2> DEFINE s == IF job[hand.job].status = "gone" THEN "gone" ELSE "failed"
             r == [job[hand.job] EXCEPT !.status = s]
  <2>2. job' = [job EXCEPT ![hand.job] = r]
    BY <1>4 DEF Raise, Fails
  <2>a. s \in {"gone", "failed"}
    OBVIOUS
  <2> HIDE DEF s
  <2>3. r \in Columns /\ r.status # "running" /\ r.retries = job[hand.job].retries
    <3> DEFINE old == job[hand.job]
    <3>1. old \in Columns
      BY <1>a, <2>1
    <3> HIDE DEF old
    <3>2. LET new == [old EXCEPT !.status = s] IN
            new \in Columns /\ new.status # "running" /\ new.retries = old.retries
      BY <2>a, <3>1 DEF Columns
    <3> QED BY <3>2 DEF old
  <2>4. CASE UNCHANGED past
    <3> HIDE DEF r
    <3> QED BY <1>a, <2>1, <2>2, <2>3, <2>4, HandStep
  <2>5. CASE past' = [past EXCEPT ![hand.job] = [past[hand.job] EXCEPT !.troubled = TRUE]]
    <3> HIDE DEF r
    <3>1. hand.job \in Jobs /\ PastShape([past[hand.job] EXCEPT !.troubled = TRUE])
          /\ [past[hand.job] EXCEPT !.troubled = TRUE].lost = past[hand.job].lost
      BY <1>0, <1>a, <2>1, PastWrites
    <3>2. past' = [k \in Jobs |-> past'[k]]
          /\ \A k \in Jobs : PastShape(past'[k]) /\ past'[k].lost = past[k].lost
      BY <1>0, <2>5, <3>1
    <3>3. \A k \in Jobs : job'[k] = IF k = hand.job THEN r ELSE job[k]
      BY <1>0, <2>2
    <3>4. VideoTypes'
      BY <1>0, <1>a, <2>1, <2>2, <2>3, <3>2 DEF LossInv, VideoTypes, AskShape
    <3>5. RetriesAreLosses'
      BY <1>0, <2>3, <3>2, <3>3 DEF RetriesAreLosses
    <3>6. OrphansAreLosses'
      BY <2>1, <2>3, <3>2, <3>3 DEF LossInv, OrphansAreLosses, Orphaned
    <3> QED BY <3>4, <3>5, <3>6 DEF LossInv
  <2> QED BY <1>4, <2>4, <2>5 DEF Raise
<1>5. CASE Done
  <2>1. hand.at # "idle" /\ UNCHANGED <<past, ask>>
    BY <1>5 DEF Done, At
  <2>2. CASE job[hand.job].status = "gone"
    <3>1. hand' = Idle /\ UNCHANGED job
      BY <1>5, <2>2 DEF Done, Mine, Lets
    <3>2. job' = [job EXCEPT ![hand.job] = job[hand.job]]
      BY <1>a, <2>1, <3>1
    <3> QED BY <1>a, <2>1, <2>2, <3>1, <3>2, HandStep
  <2>3. CASE job[hand.job].status # "gone"
    <3> DEFINE r == [job[hand.job] EXCEPT !.done = job[hand.job].done \cup {hand.stage}, !.beat = "fresh"]
    <3>1. job' = [job EXCEPT ![hand.job] = r]
          /\ (hand' = [hand EXCEPT !.at = "end"] \/ hand' = [hand EXCEPT !.at = "row", !.stage = FirstIncomplete(r)])
      BY <1>5, <2>3 DEF Done, Mine, Goes
    <3>2. r \in Columns /\ r.retries = job[hand.job].retries
      <4> DEFINE old == job[hand.job]
      <4>1. old \in Columns /\ hand.stage \in Stages
        BY <1>a, <2>1 DEF Hands
      <4> HIDE DEF old
      <4>2. LET new == [old EXCEPT !.done = old.done \cup {hand.stage}, !.beat = "fresh"] IN
              new \in Columns /\ new.retries = old.retries
        BY <4>1 DEF Columns
      <4> QED BY <4>2 DEF old
    <3> HIDE DEF r
    <3>3. FirstIncomplete(r) \in Stages
      BY <3>2, NextStage
    <3>4. hand' \in Hands /\ hand'.job = hand.job
      BY <1>a, <2>1, <3>1, <3>3 DEF Hands
    <3> QED BY <1>a, <2>1, <3>1, <3>2, <3>4, HandStep
  <2> QED BY <2>2, <2>3
<1>6. CASE Finish
  <2>1. hand.at # "idle" /\ hand' = Idle /\ UNCHANGED <<past, ask>>
    BY <1>6 DEF Finish, At, Lets
  <2> DEFINE s == IF job[hand.job].status = "gone" THEN "gone" ELSE "completed"
             r == [job[hand.job] EXCEPT !.status = s]
  <2>2. job' = [job EXCEPT ![hand.job] = r]
    BY <1>6 DEF Finish
  <2>a. s \in {"gone", "completed"}
    OBVIOUS
  <2> HIDE DEF s
  <2>3. r \in Columns /\ r.status # "running" /\ r.retries = job[hand.job].retries
    <3> DEFINE old == job[hand.job]
    <3>1. old \in Columns
      BY <1>a, <2>1
    <3> HIDE DEF old
    <3>2. LET new == [old EXCEPT !.status = s] IN
            new \in Columns /\ new.status # "running" /\ new.retries = old.retries
      BY <2>a, <3>1 DEF Columns
    <3> QED BY <3>2 DEF old
  <2> HIDE DEF r
  <2> QED BY <1>a, <2>1, <2>2, <2>3, HandStep
<1>7. CASE WorkerDies
  <2>1. hand.at # "idle" /\ hand' = Idle /\ UNCHANGED <<job, ask>>
        /\ past' = [past EXCEPT ![hand.job] = [past[hand.job] EXCEPT !.lost = past[hand.job].lost + 1]]
    BY <1>0, <1>7 DEF WorkerDies, Lets, Hands
  <2>2. hand.job \in Jobs /\ PastShape([past[hand.job] EXCEPT !.lost = past[hand.job].lost + 1])
        /\ [past[hand.job] EXCEPT !.lost = past[hand.job].lost + 1].lost = past[hand.job].lost + 1
    BY <1>0, <1>a, <2>1, PastWrites
  <2>3. past' = [k \in Jobs |-> past'[k]] /\ \A k \in Jobs : PastShape(past'[k])
    BY <1>0, <2>1, <2>2
  <2>4. \A k \in Jobs : past'[k].lost = IF k = hand.job THEN past[k].lost + 1 ELSE past[k].lost
    BY <1>0, <2>1, <2>2
  <2>5. VideoTypes'
    BY <2>1, <2>3 DEF LossInv, VideoTypes, AskShape
  <2>6. \A k \in Jobs : job[k].retries \in Nat
    BY <1>0 DEF Columns
  <2>7. RetriesAreLosses'
    BY <1>0, <2>1, <2>4, <2>6 DEF RetriesAreLosses
  <2>8. OrphansAreLosses'
    BY <1>0, <2>1, <2>4, <2>6 DEF LossInv, OrphansAreLosses, Orphaned
  <2> QED BY <2>5, <2>7, <2>8 DEF LossInv
<1> QED BY <1>1, <1>2, <1>3, <1>4, <1>5, <1>6, <1>7 DEF Worker

LEMMA VideoBegins == VideoInit => LossInv
<1> SUFFICES ASSUME VideoInit PROVE LossInv
  OBVIOUS
<1> DEFINE old(used) == [NoJob EXCEPT !.status = "completed", !.mode = "remake", !.beat = "fresh",
                           !.done = {Order("remake")[i] : i \in DOMAIN Order("remake")}, !.retries = used]
           was(is, used) == [Born EXCEPT !.is = is, !.lost = used]
<1>1. {Order("remake")[i] : i \in DOMAIN Order("remake")} \subseteq Stages
  BY DEF Order, Stages
<1>2. NoJob \in Columns /\ NoJob.retries = 0 /\ NoJob.status = "none"
  BY NewColumns DEF NoJob
<1>3. \A used \in Nat : old(used) \in Columns /\ old(used).retries = used /\ old(used).status = "completed"
  <2> HIDE DEF NoJob
  <2> QED BY <1>1, <1>2 DEF Columns
<1>4. PICK plan \in Plans \cup {<<>>}, used \in 0..MaxRetries :
        LET set == IF plan = <<>> THEN {} ELSE {Overridden(plan, NoOverrides)}
        IN /\ job = [j \in Jobs |-> IF j = 1 THEN old(used) ELSE NoJob]
           /\ past = [j \in Jobs |-> IF j = 1 THEN was(Overrides(set), used) ELSE Born]
  BY Zenon DEF VideoInit
<1> DEFINE is == Overrides(IF plan = <<>> THEN {} ELSE {Overridden(plan, NoOverrides)})
<1>5. /\ job = [j \in Jobs |-> IF j = 1 THEN old(used) ELSE NoJob]
      /\ past = [j \in Jobs |-> IF j = 1 THEN was(is, used) ELSE Born]
  BY <1>4
<1>6. used \in Nat
  <2>1. MaxRetries \in Nat /\ used \in 0..MaxRetries
    BY VideoGiven
  <2> QED BY <2>1
<1>7. /\ PastShape(Born) /\ Born.lost = 0
      /\ PastShape(was(is, used)) /\ was(is, used).lost = used
  <2> HIDE DEF is
  <2> QED BY <1>6 DEF PastShape, Born
<1> HIDE DEF old, was, is
<1>8. job \in [Jobs -> Columns] /\ \A j \in Jobs : job[j].status # "running"
  <2> HIDE DEF NoJob
  <2> QED BY <1>2, <1>3, <1>5, <1>6
<1>9. /\ past = [j \in Jobs |-> past[j]] /\ \A j \in Jobs : PastShape(past[j])
      /\ \A j \in Jobs : job[j].retries <= past[j].lost
  <2> HIDE DEF NoJob, Born
  <2>1. past = [j \in Jobs |-> past[j]]
    BY <1>5
  <2>2. \A j \in Jobs : PastShape(past[j])
    BY <1>5, <1>7
  <2>3. \A j \in Jobs : job[j].retries <= past[j].lost
    BY <1>2, <1>3, <1>5, <1>6, <1>7
  <2> QED BY <2>1, <2>2, <2>3
<1>10. AskShape(ask) /\ ask.at = "none" /\ hand = Idle
  <2>1. ask = NoAsk /\ hand = Idle
    BY DEF VideoInit
  <2>2. AskShape(NoAsk) /\ NoAsk.at = "none"
    BY DEF AskShape, NoAsk, Scripts
  <2> QED BY <2>1, <2>2
<1> QED BY <1>8, <1>9, <1>10
        DEF LossInv, VideoTypes, RetriesAreLosses, OrphansAreLosses, Orphaned

LEMMA VideoGoesOn == LossInv /\ [VideoNext]_videoVars => LossInv'
<1> SUFFICES ASSUME LossInv, [VideoNext]_videoVars PROVE LossInv'
  OBVIOUS
<1>1. CASE UNCHANGED videoVars
  BY <1>1 DEF videoVars, LossInv, VideoTypes, PastShape, AskShape, RetriesAreLosses, OrphansAreLosses, Orphaned
<1>2. CASE VideoNext
  BY <1>2, RequestsStep, RevisionStep, DeletionStep, WorkerStep DEF VideoNext
<1> QED BY <1>1, <1>2

(* The columns of a row, the worker's hand and a request for a revision stay what   *)
(* they may be, for any numbers of jobs, recoveries and troubles.                  *)
THEOREM VideoTypesHold == VideoSpec => []VideoTypes
<1>1. LossInv => VideoTypes
  BY DEF LossInv
<1> QED BY <1>1, VideoBegins, VideoGoesOn, PTL DEF VideoSpec

(* Every recovery of a job answers a loss of its worker, however requests, stages,   *)
(* heartbeats and crashes interleave: a job that runs without being held has lost one   *)
(* more worker than it has recoveries (recover_stale of video/scheduler.py).          *)
THEOREM RecoveriesAreEarned == VideoSpec => []RetriesAreLosses
<1>1. LossInv => RetriesAreLosses
  BY DEF LossInv
<1> QED BY <1>1, VideoBegins, VideoGoesOn, PTL DEF VideoSpec

(***************************************************************************)
(* The films of video jobs                                                 *)
(***************************************************************************)

(* What is written of a line is enough for its place on the original axis. *)
LineLike(line) ==
  /\ line \in [zh: {line.zh}, quiet: {line.quiet}, start: {line.start}, orig: {line.orig}]
  /\ Origin(line) # 0
SomeLines(lines) ==
  \E n \in Nat : lines = [i \in 1..n |-> lines[i]] /\ \A i \in 1..n : LineLike(lines[i])

LEMMA LineWrites ==
  ASSUME NEW line, LineLike(line), NEW x
  PROVE  /\ LineLike([line EXCEPT !.zh = x]) /\ [line EXCEPT !.zh = x].zh = x
         /\ LineLike([line EXCEPT !.quiet = x])
         /\ LineLike([line EXCEPT !.quiet = FALSE])
         /\ LineLike(Inserted(line, x))
<1>1. LineLike([line EXCEPT !.zh = x]) /\ [line EXCEPT !.zh = x].zh = x
  BY DEF LineLike, Origin
<1>2. LineLike([line EXCEPT !.quiet = x])
  BY DEF LineLike, Origin
<1>3. LineLike([line EXCEPT !.quiet = FALSE])
  BY DEF LineLike, Origin
<1>4. LineLike(Inserted(line, x))
  BY DEF LineLike, Origin, Inserted
<1> QED BY <1>1, <1>2, <1>3, <1>4

LEMMA LinesAreSequences ==
  ASSUME NEW lines, SomeLines(lines)
  PROVE  /\ Len(lines) \in Nat /\ DOMAIN lines = 1..Len(lines)
         /\ lines = [i \in 1..Len(lines) |-> lines[i]]
         /\ \A i \in DOMAIN lines : LineLike(lines[i])
         /\ lines = <<>> <=> Len(lines) = 0
<1>1. PICK n \in Nat : lines = [i \in 1..n |-> lines[i]] /\ \A i \in 1..n : LineLike(lines[i])
  BY DEF SomeLines
<1>2. DOMAIN lines = 1..n /\ Len(lines) = n
  <2> DEFINE fun == [i \in 1..n |-> lines[i]]
  <2>1. DOMAIN fun = 1..n /\ fun \in Seq({lines[i] : i \in 1..n}) /\ lines = fun
    BY <1>1
  <2> HIDE DEF fun
  <2> QED BY <2>1
<1>3. lines = <<>> <=> n = 0
  BY <1>1, <1>2
<1> QED BY <1>1, <1>2, <1>3

(* The new axis keeps what a line says and where it was, and the axis made of it is *)
(* the same.                                                                *)
LEMMA RetimedLine ==
  ASSUME NEW lines, SomeLines(lines), NEW i \in DOMAIN lines
  PROVE  LET new == Retimed(lines)[i] IN
         /\ LineLike(new) /\ Origin(new) = Origin(lines[i]) /\ new.orig = Origin(lines[i])
         /\ new.quiet = lines[i].quiet /\ new.zh = lines[i].zh
<1> DEFINE Before == {k \in DOMAIN lines :
             /\ ~lines[k].quiet
             /\ \/ Origin(lines[k]) < Origin(lines[i])
                \/ Origin(lines[k]) = Origin(lines[i]) /\ k < i}
           at == IF lines[i].quiet THEN lines[i].start ELSE Origin(lines[i]) + Cardinality(Before)
           new == [lines[i] EXCEPT !.orig = Origin(lines[i]), !.start = at]
<1>1. Retimed(lines)[i] = new
  BY DEF Retimed
<1>2. LineLike(lines[i])
  BY LinesAreSequences
<1> HIDE DEF at
<1> DEFINE line == lines[i]
<1> HIDE DEF line
<1>3. LET n == [line EXCEPT !.orig = Origin(line), !.start = at] IN
      LineLike(line) => /\ LineLike(n) /\ Origin(n) = Origin(line) /\ n.orig = Origin(line)
                        /\ n.quiet = line.quiet /\ n.zh = line.zh
  BY DEF LineLike, Origin
<1> QED BY <1>1, <1>2, <1>3 DEF line

LEMMA RetimedAgain ==
  ASSUME NEW lines, SomeLines(lines)
  PROVE  /\ SomeLines(Retimed(lines)) /\ Retimed(Retimed(lines)) = Retimed(lines)
         /\ DOMAIN Retimed(lines) = DOMAIN lines
         /\ Retimed(lines) = <<>> <=> lines = <<>>
<1> DEFINE once == Retimed(lines)
           Sooner(of, i) == {k \in DOMAIN of :
             /\ ~of[k].quiet
             /\ \/ Origin(of[k]) < Origin(of[i])
                \/ Origin(of[k]) = Origin(of[i]) /\ k < i}
           New(of, i) == [of[i] EXCEPT !.orig = Origin(of[i]),
                            !.start = IF of[i].quiet THEN of[i].start
                                      ELSE Origin(of[i]) + Cardinality(Sooner(of, i))]
<1>1. DOMAIN lines = 1..Len(lines) /\ Len(lines) \in Nat
  BY LinesAreSequences
<1>2. once = [i \in DOMAIN lines |-> New(lines, i)] /\ Retimed(once) = [i \in DOMAIN once |-> New(once, i)]
  BY DEF Retimed
<1>3. DOMAIN once = DOMAIN lines /\ once = [i \in 1..Len(lines) |-> once[i]]
  BY <1>1, <1>2
<1>4. \A i \in DOMAIN lines : LineLike(once[i]) /\ Origin(once[i]) = Origin(lines[i])
                              /\ once[i].orig = Origin(lines[i]) /\ once[i].quiet = lines[i].quiet
  BY RetimedLine
<1>5. SomeLines(once)
  BY <1>1, <1>3, <1>4 DEF SomeLines
<1>6. \A i \in DOMAIN lines : Sooner(once, i) = Sooner(lines, i)
  BY <1>3, <1>4
<1>7. \A i \in DOMAIN lines : once[i].quiet \/ once[i].start = Origin(lines[i]) + Cardinality(Sooner(lines, i))
  <2> SUFFICES ASSUME NEW i \in DOMAIN lines, ~once[i].quiet
               PROVE  once[i].start = Origin(lines[i]) + Cardinality(Sooner(lines, i))
    OBVIOUS
  <2>1. ~lines[i].quiet /\ once[i] = New(lines, i) /\ LineLike(lines[i])
    BY <1>2, <1>4, LinesAreSequences
  <2> DEFINE at == Origin(lines[i]) + Cardinality(Sooner(lines, i))
             line == lines[i]
  <2>2. New(lines, i) = [line EXCEPT !.orig = Origin(line), !.start = at]
    BY <2>1
  <2> HIDE DEF at, line
  <2>3. [line EXCEPT !.orig = Origin(line), !.start = at].start = at
    BY <2>1 DEF LineLike, line
  <2> QED BY <2>1, <2>2, <2>3 DEF at
<1>8. \A i \in DOMAIN lines : New(once, i) = once[i]
  <2> SUFFICES ASSUME NEW i \in DOMAIN lines PROVE New(once, i) = once[i]
    OBVIOUS
  <2> DEFINE at == IF once[i].quiet THEN once[i].start ELSE Origin(once[i]) + Cardinality(Sooner(once, i))
             line == once[i]
  <2>1. at = once[i].start
    BY <1>4, <1>6, <1>7
  <2>2. New(once, i) = [line EXCEPT !.orig = Origin(line), !.start = at]
    OBVIOUS
  <2>3. LineLike(line) /\ line.orig = Origin(line) /\ line.start = at
    BY <1>4, <2>1
  <2> HIDE DEF at, line
  <2>4. [line EXCEPT !.orig = Origin(line), !.start = at] = line
    BY <2>3 DEF LineLike
  <2> QED BY <2>2, <2>4 DEF line
<1>9. Retimed(once) = [i \in DOMAIN lines |-> once[i]]
  <2>1. Retimed(once) = [i \in DOMAIN once |-> New(once, i)]
    BY <1>2
  <2> HIDE DEF once, New
  <2> QED BY <1>3, <1>8, <2>1
<1>10. Retimed(once) = once
  BY <1>1, <1>3, <1>9
<1>11. once = <<>> <=> lines = <<>>
  <2>1. Len(once) = Len(lines)
    BY <1>1, <1>3, <1>5, LinesAreSequences
  <2> QED BY <1>5, <2>1, LinesAreSequences
<1> QED BY <1>3, <1>5, <1>10, <1>11

(* Pairs of numbers are in one order, and InOrder takes each of them at its place.    *)
LEMMA InOrderIsOnto ==
  ASSUME NEW P, IsFiniteSet(P), P \subseteq Nat \X Nat
  PROVE  /\ Cardinality(P) \in Nat /\ DOMAIN InOrder(P) = 1..Cardinality(P)
         /\ \A n \in 1..Cardinality(P) : InOrder(P)[n] \in P
<1> DEFINE Upto(p) == {r \in P : NotAfter(r, p)}
           rank == [p \in P |-> Cardinality(Upto(p))]
<1>1. Cardinality(P) \in Nat
  BY FS_CardinalityType
<1>2. \A p \in P : p \in Upto(p) /\ IsFiniteSet(Upto(p)) /\ Cardinality(Upto(p)) \in 1..Cardinality(P)
  <2> SUFFICES ASSUME NEW p \in P
               PROVE  p \in Upto(p) /\ IsFiniteSet(Upto(p)) /\ Cardinality(Upto(p)) \in 1..Cardinality(P)
    OBVIOUS
  <2>1. p \in Upto(p)
    BY DEF NotAfter
  <2>2. Upto(p) \in SUBSET P
    OBVIOUS
  <2>3. IsFiniteSet(Upto(p)) /\ Cardinality(Upto(p)) <= Cardinality(P)
    BY <2>2, FS_Subset
  <2>4. Cardinality(Upto(p)) \in Nat /\ Cardinality(Upto(p)) # 0
    BY <2>1, <2>3, FS_CardinalityType, FS_EmptySet
  <2> QED BY <1>1, <2>1, <2>3, <2>4
<1>3. \A p \in P, q \in P : p # q => rank[p] # rank[q]
  <2> SUFFICES ASSUME NEW p \in P, NEW q \in P, p # q, rank[p] = rank[q], NotAfter(p, q)
               PROVE  FALSE
    <3>1. \A p \in P, q \in P : NotAfter(p, q) \/ NotAfter(q, p)
      BY DEF NotAfter
    <3> QED BY <3>1
  <2>1. ~NotAfter(q, p)
    BY DEF NotAfter
  <2>2. Upto(p) \in SUBSET Upto(q)
    BY DEF NotAfter
  <2>3. Cardinality(Upto(p)) = Cardinality(Upto(q))
    OBVIOUS
  <2>4. Upto(p) = Upto(q)
    BY <1>2, <2>2, <2>3, FS_Subset
  <2> QED BY <1>2, <2>1, <2>4
<1>4. rank \in Injection(P, 1..Cardinality(P))
  BY <1>2, <1>3 DEF Injection, IsInjective
<1>5. IsFiniteSet(1..Cardinality(P)) /\ Cardinality(1..Cardinality(P)) = Cardinality(P)
  BY <1>1, FS_Interval
<1>6. rank \in Surjection(P, 1..Cardinality(P))
  BY <1>4, <1>5, FS_Injection
<1>7. \A n \in 1..Cardinality(P) : \E p \in P : Cardinality(Upto(p)) = n
  BY <1>6 DEF Surjection
<1> QED BY <1>1, <1>7 DEF InOrder

(* A list of so many edits. *)
Listed(plan) == \E n \in Nat : DOMAIN plan = 1..n

LEMMA ScriptsAreLists == ASSUME NEW plan \in Scripts PROVE Listed(plan)
<1>1. \A p \in Plans : Len(p) \in Nat /\ DOMAIN p = 1..Len(p) /\ p \in Seq({p[i] : i \in DOMAIN p})
  BY PlansAreLists
<1>2. Listed(<<>>)
  <2>1. DOMAIN <<>> = 1..0
    OBVIOUS
  <2> QED BY <2>1 DEF Listed
<1>3. ASSUME NEW first \in Plans, NEW second \in Plans \cup {<<>>} PROVE Listed(Covered(first, second))
  <2>1. PICK m \in Nat : DOMAIN second = 1..m
    BY <1>1, <1>2 DEF Listed
  <2> DEFINE P == LeftOut(first, second)
             more == InOrder(P)
             tail == [n \in DOMAIN more |-> second[more[n][1]]]
  <2>2. P \subseteq Nat \X Nat /\ P \subseteq (1..m) \X {0}
    BY <2>1 DEF LeftOut
  <2>a. IsFiniteSet(1..m)
    BY FS_Interval
  <2>b. IsFiniteSet({0})
    BY FS_Singleton
  <2>3. IsFiniteSet((1..m) \X {0})
    BY <2>a, <2>b, FS_Product
  <2>4. IsFiniteSet(P)
    BY <2>2, <2>3, FS_Subset
  <2>5. Cardinality(P) \in Nat /\ DOMAIN more = 1..Cardinality(P)
    BY <2>2, <2>4, InOrderIsOnto
  <2> HIDE DEF P, more
  <2>6. tail \in Seq({tail[n] : n \in DOMAIN tail}) /\ Len(tail) = Cardinality(P)
    BY <2>5
  <2> HIDE DEF tail
  <2>7. DOMAIN (first \o tail) = 1..Len(first) + Len(tail)
    BY <1>1, <2>6
  <2>8. Listed(first \o tail)
    BY <1>1, <2>5, <2>6, <2>7 DEF Listed
  <2> QED BY <2>8 DEF Covered, tail, more, P
<1> QED BY <1>2, <1>3 DEF Scripts

LEMMA EditedLines ==
  ASSUME NEW plan, Listed(plan), NEW lines, SomeLines(lines)
  PROVE  SomeLines(Edited(plan, lines))
<1> DEFINE P == Pieces(plan, lines)
           places == InOrder(P)
<1>1. PICK m \in Nat : DOMAIN plan = 1..m
  BY DEF Listed
<1>2. Len(lines) \in Nat /\ DOMAIN lines = 1..Len(lines)
  BY LinesAreSequences
<1>3. P \subseteq Nat \X Nat /\ P \subseteq (1..Len(lines)) \X (0..m)
  BY <1>1, <1>2 DEF Pieces
<1>a. IsFiniteSet(1..Len(lines)) /\ IsFiniteSet(0..m)
  BY <1>1, <1>2, FS_Interval
<1>4. IsFiniteSet((1..Len(lines)) \X (0..m))
  BY <1>a, FS_Product
<1>5. IsFiniteSet(P)
  BY <1>3, <1>4, FS_Subset
<1>6. /\ Cardinality(P) \in Nat /\ DOMAIN places = 1..Cardinality(P)
      /\ \A n \in 1..Cardinality(P) : places[n] \in P
  BY <1>3, <1>5, InOrderIsOnto
<1>7. \A p \in P : LineLike(Piece(plan, lines, p))
  <2> SUFFICES ASSUME NEW p \in P PROVE LineLike(Piece(plan, lines, p))
    OBVIOUS
  <2> DEFINE line == lines[p[1]]
             new == OpsAt(plan, "edit", p[1])
             text == plan[CHOOSE k \in new : \A k2 \in new : k2 <= k].text
             ins == plan[p[2]].text
  <2>1. LineLike(line)
    BY <1>2, <1>3, LinesAreSequences
  <2>2. Piece(plan, lines, p) = CASE p[2] # 0 -> Inserted(line, ins)
       [] p[2] = 0 /\ new = {} -> line
       [] OTHER -> [line EXCEPT !.zh = text]
    BY Zenon DEF Piece
  <2> HIDE DEF line, new, text, ins
  <2>3. Piece(plan, lines, p) \in {line, Inserted(line, ins), [line EXCEPT !.zh = text]}
    BY <2>2
  <2>4. LineLike(Inserted(line, ins)) /\ LineLike([line EXCEPT !.zh = text])
    BY <2>1, LineWrites
  <2> QED BY <2>1, <2>3, <2>4
<1>8. Edited(plan, lines) = [n \in 1..Cardinality(P) |-> Piece(plan, lines, places[n])]
  BY <1>6 DEF Edited
<1> HIDE DEF P, places
<1>9. Edited(plan, lines) = [n \in 1..Cardinality(P) |-> Edited(plan, lines)[n]]
      /\ \A n \in 1..Cardinality(P) : LineLike(Edited(plan, lines)[n])
  BY <1>6, <1>7, <1>8
<1> QED BY <1>6, <1>9 DEF SomeLines

(* One line is written. *)
LEMMA LineChange ==
  ASSUME NEW lines, SomeLines(lines), NEW i \in DOMAIN lines, NEW new, LineLike(new)
  PROVE  LET more == [lines EXCEPT ![i] = new] IN
         SomeLines(more) /\ DOMAIN more = DOMAIN lines /\ Len(more) = Len(lines)
<1> DEFINE more == [lines EXCEPT ![i] = new]
<1>1. Len(lines) \in Nat /\ DOMAIN lines = 1..Len(lines) /\ lines = [k \in 1..Len(lines) |-> lines[k]]
      /\ \A k \in DOMAIN lines : LineLike(lines[k])
  BY LinesAreSequences
<1>2. more = [k \in 1..Len(lines) |-> more[k]] /\ \A k \in DOMAIN lines : more[k] = IF k = i THEN new ELSE lines[k]
  BY <1>1
<1> HIDE DEF more
<1>3. SomeLines(more)
  BY <1>1, <1>2 DEF SomeLines
<1>4. DOMAIN more = DOMAIN lines
  BY <1>1, <1>2
<1>5. Len(more) = Len(lines)
  BY <1>1, <1>3, <1>4, LinesAreSequences
<1> QED BY <1>3, <1>4, <1>5 DEF more

LEMMA ClosedLines ==
  ASSUME NEW plan, NEW lines, SomeLines(lines), NEW set
  PROVE  LET closed == Closed(plan, lines, set) IN
         SomeLines(closed) /\ Len(closed) = Len(lines)
<1> DEFINE new == {k \in DOMAIN plan : plan[k].type = "closing"}
           text == plan[CHOOSE k \in new : \A m \in new : k <= m].text
           closed == Closed(plan, lines, set)
<1>1. closed = lines \/ (lines # <<>> /\ closed = [lines EXCEPT ![Len(lines)].zh = text])
  BY Zenon DEF Closed
<1>2. ASSUME lines # <<>>, closed = [lines EXCEPT ![Len(lines)].zh = text]
      PROVE  SomeLines(closed) /\ Len(closed) = Len(lines)
  <2>1. Len(lines) \in DOMAIN lines /\ LineLike(lines[Len(lines)])
    BY <1>2, LinesAreSequences
  <2> DEFINE line == [lines[Len(lines)] EXCEPT !.zh = text]
  <2>2. closed = [lines EXCEPT ![Len(lines)] = line]
    BY <1>2
  <2>3. LineLike(line)
    BY <2>1, LineWrites
  <2> HIDE DEF line, closed, text
  <2> QED BY <2>1, <2>2, <2>3, LineChange
<1> QED BY <1>1, <1>2

LEMMA RevisedLines ==
  ASSUME NEW plan \in Scripts, NEW lines, SomeLines(lines), NEW set
  PROVE  SomeLines(Revised(plan, lines, set))
BY ScriptsAreLists, EditedLines, ClosedLines DEF Revised

LEMMA RewrittenLines ==
  ASSUME NEW lines, SomeLines(lines), lines # <<>>, NEW facts, NEW words,
         NEW more \in Rewrites(lines, facts, words)
  PROVE  SomeLines(more) /\ more # <<>>
<1> DEFINE said == [i \in DOMAIN lines |-> [lines[i] EXCEPT !.zh = words[i]]]
<1>1. Len(lines) \in Nat \ {0} /\ DOMAIN lines = 1..Len(lines)
      /\ \A i \in DOMAIN lines : LineLike(lines[i])
  BY LinesAreSequences
<1>2. SomeLines(said) /\ Len(said) = Len(lines)
  <2>1. said = [i \in 1..Len(lines) |-> said[i]] /\ \A i \in 1..Len(lines) : LineLike(said[i])
    BY <1>1, LineWrites
  <2>2. DOMAIN said = 1..Len(lines)
    BY <1>1
  <2> HIDE DEF said
  <2>3. SomeLines(said)
    BY <1>1, <2>1 DEF SomeLines
  <2> QED BY <1>1, <2>2, <2>3, LinesAreSequences
<1> HIDE DEF said
<1>3. SomeLines(AppendClosing(said)) /\ Len(AppendClosing(said)) = Len(lines) + 1
  <2> DEFINE last == Inserted(said[Len(said)], CLOSING_LINE)
             all == Append(said, last)
             n == Len(lines) + 1
  <2>a. LineLike(said[Len(said)])
    BY <1>1, <1>2, LinesAreSequences
  <2>1. LineLike(last)
    BY <2>a, LineWrites
  <2> HIDE DEF last
  <2> DEFINE These == {said[i] : i \in DOMAIN said} \cup {last}
  <2>2. said \in Seq(These) /\ last \in These
    BY <1>2, LinesAreSequences
  <2> HIDE DEF These
  <2>b. /\ all \in Seq(These) /\ Len(all) = Len(said) + 1
        /\ \A i \in 1..Len(said) : all[i] = said[i]
        /\ all[Len(said) + 1] = last
    BY <2>2, AppendProperties
  <2> HIDE DEF all
  <2>3. /\ Len(all) = n /\ DOMAIN all = 1..n
        /\ \A i \in 1..n : all[i] = IF i = n THEN last ELSE said[i]
        /\ all = [i \in 1..n |-> all[i]]
    BY <1>1, <1>2, <2>b
  <2>4. n \in Nat /\ \A i \in 1..n : LineLike(all[i])
    BY <1>1, <1>2, <2>1, <2>3, LinesAreSequences
  <2>5. SomeLines(all)
    BY <2>3, <2>4 DEF SomeLines
  <2> QED BY <2>3, <2>5 DEF AppendClosing, all, last, Inserted
<1>4. ASSUME NEW some, SomeLines(some), some # <<>>
      PROVE  LET anchored == AnchorClosing(MarkNoDub(some, facts)) IN
             SomeLines(anchored) /\ anchored # <<>>
  <2> DEFINE marked == MarkNoDub(some, facts)
             closing == marked[Len(marked)]
             anchored == AnchorClosing(marked)
  <2>1. Len(some) \in Nat \ {0} /\ DOMAIN some = 1..Len(some) /\ \A i \in DOMAIN some : LineLike(some[i])
    BY <1>4, LinesAreSequences
  <2>2. /\ DOMAIN marked = 1..Len(some) /\ marked = [i \in 1..Len(some) |-> marked[i]]
        /\ \A i \in DOMAIN some : LineLike(marked[i])
    BY <2>1, LineWrites DEF MarkNoDub
  <2> HIDE DEF marked
  <2>3. SomeLines(marked)
    BY <2>1, <2>2 DEF SomeLines
  <2>4. Len(marked) = Len(some) /\ marked # <<>>
    BY <2>1, <2>2, <2>3, LinesAreSequences
  <2>5. anchored = marked \/ anchored = [marked EXCEPT ![Len(marked)] = [closing EXCEPT !.quiet = FALSE]]
    BY DEF AnchorClosing
  <2>6. LineLike([closing EXCEPT !.quiet = FALSE]) /\ Len(marked) \in DOMAIN marked
    <3>1. LineLike(closing) /\ Len(marked) \in DOMAIN marked
      BY <2>1, <2>2, <2>4
    <3> HIDE DEF closing
    <3> QED BY <3>1, LineWrites
  <2> DEFINE new == [closing EXCEPT !.quiet = FALSE]
  <2>b. anchored = marked \/ anchored = [marked EXCEPT ![Len(marked)] = new]
    BY <2>5
  <2>c. LineLike(new)
    BY <2>6
  <2> HIDE DEF anchored, closing, new
  <2>7. SomeLines(anchored) /\ Len(anchored) = Len(marked)
    BY <2>3, <2>6, <2>b, <2>c, LineChange
  <2> QED BY <2>1, <2>4, <2>7, LinesAreSequences DEF anchored, marked
<1>5. said # <<>> /\ AppendClosing(said) # <<>>
  BY <1>1, <1>2, <1>3, LinesAreSequences
<1> QED BY <1>2, <1>3, <1>4, <1>5 DEF Rewrites, said

(* A clip says the text that it is named by, or that of its place. *)
Voices(mode, tts) ==
  \A v \in tts :
    IF mode = "remake" THEN \E i, z : v = [name |-> <<i, z>>, says |-> z]
    ELSE \E i \in DOMAIN Source : v = [name |-> <<i>>, says |-> Source[i].zh]
Voiced(mode, lines, tts) ==
  \A i \in Aloud(lines) : \E v \in tts : v.name = ClipName(mode, i, lines[i])

(* The film of given lines, each spoken in its own place. *)
Planned(lines, set) ==
  [track |-> [i \in Aloud(lines) |-> [says |-> lines[i].zh, at |-> lines[i].start]],
   titles |-> Spoken(lines), over |-> set]

(* A film that is only dubbed has the lines of the source. *)
SourceText(lines) == DOMAIN lines = DOMAIN Source /\ \A i \in DOMAIN lines : lines[i].zh = Source[i].zh

LEMMA VoicesSay ==
  ASSUME NEW mode, NEW tts, Voices(mode, tts), NEW lines, Voiced(mode, lines, tts),
         mode = "remake" \/ SourceText(lines), NEW i \in Aloud(lines)
  PROVE  Said(ClipName(mode, i, lines[i]), tts) = lines[i].zh
<1> DEFINE name == ClipName(mode, i, lines[i])
           c == CHOOSE c \in tts : c.name = name
<1>1. c \in tts /\ c.name = name
  BY DEF Voiced
<1>2. Said(name, tts) = c.says
  BY DEF Said
<1> HIDE DEF c
<1>3. CASE mode = "remake"
  <2>1. PICK k, z : c = [name |-> <<k, z>>, says |-> z]
    BY <1>1, <1>3 DEF Voices
  <2>2. name = <<i, lines[i].zh>> /\ c.name = <<k, z>> /\ c.says = z
    BY <1>3, <2>1 DEF ClipName
  <2> HIDE DEF name
  <2>3. z = lines[i].zh
    BY <1>1, <2>2
  <2> QED BY <1>2, <2>2, <2>3 DEF name
<1>4. CASE mode # "remake"
  <2>1. PICK k \in DOMAIN Source : c = [name |-> <<k>>, says |-> Source[k].zh]
    BY <1>1, <1>4 DEF Voices
  <2>2. name = <<i>> /\ c.name = <<k>> /\ c.says = Source[k].zh
    BY <1>4, <2>1 DEF ClipName
  <2> HIDE DEF name
  <2>3. k = i
    BY <1>1, <2>2
  <2>4. lines[i].zh = Source[i].zh
    BY <1>4 DEF SourceText, Aloud
  <2> QED BY <1>2, <2>2, <2>3, <2>4 DEF name
<1> QED BY <1>3, <1>4

(* The film that is put together from the clips is the one that was planned. *)
LEMMA FilmIsPlanned ==
  ASSUME NEW mode, NEW tts, Voices(mode, tts), NEW lines, Voiced(mode, lines, tts),
         mode = "remake" \/ SourceText(lines), NEW set
  PROVE  Film(lines, ClipNames(mode, lines), tts, set) = Planned(lines, set)
<1> DEFINE clips == ClipNames(mode, lines)
<1>1. \A i \in Aloud(lines) : clips[i] = ClipName(mode, i, lines[i])
  BY DEF ClipNames, Aloud
<1>2. \A i \in Aloud(lines) : Said(clips[i], tts) = lines[i].zh
  BY <1>1, VoicesSay
<1> HIDE DEF clips
<1>3. Track(lines, clips, tts) = [i \in Aloud(lines) |-> [says |-> lines[i].zh, at |-> lines[i].start]]
  BY <1>2 DEF Track
<1> QED BY <1>3 DEF Film, Planned, clips

LEMMA SynthesisVoices ==
  ASSUME NEW mode, NEW tts, Voices(mode, tts), NEW lines, mode = "remake" \/ SourceText(lines)
  PROVE  LET more == Synthesized(mode, lines, tts) IN
         tts \subseteq more /\ Voices(mode, more) /\ Voiced(mode, lines, more)
<1> DEFINE more == Synthesized(mode, lines, tts)
           clip(i) == [name |-> ClipName(mode, i, lines[i]), says |-> lines[i].zh]
           new == {k \in DOMAIN lines : /\ ~lines[k].quiet
                                        /\ \A c \in tts : c.name # ClipName(mode, k, lines[k])}
<1>1. more = tts \cup {clip(i) : i \in new}
  BY DEF Synthesized
<1>2. tts \subseteq more
  BY <1>1
<1>3. Voiced(mode, lines, more)
  <2> SUFFICES ASSUME NEW i \in Aloud(lines) PROVE \E v \in more : v.name = ClipName(mode, i, lines[i])
    BY DEF Voiced
  <2>1. CASE i \in new
    <3>1. clip(i) \in more /\ clip(i).name = ClipName(mode, i, lines[i])
      BY <1>1, <2>1
    <3> QED BY <3>1
  <2>2. CASE i \notin new
    <3>1. \E c \in tts : c.name = ClipName(mode, i, lines[i])
      BY <2>2 DEF Aloud
    <3> HIDE DEF more
    <3> QED BY <1>2, <3>1
  <2> QED BY <2>1, <2>2
<1>4. \A i \in new : IF mode = "remake" THEN \E k, z : clip(i) = [name |-> <<k, z>>, says |-> z]
                     ELSE \E k \in DOMAIN Source : clip(i) = [name |-> <<k>>, says |-> Source[k].zh]
  <2> SUFFICES ASSUME NEW i \in new
               PROVE  IF mode = "remake" THEN \E k, z : clip(i) = [name |-> <<k, z>>, says |-> z]
                      ELSE \E k \in DOMAIN Source : clip(i) = [name |-> <<k>>, says |-> Source[k].zh]
    OBVIOUS
  <2>1. CASE mode = "remake"
    <3>1. clip(i) = [name |-> <<i, lines[i].zh>>, says |-> lines[i].zh]
      BY <2>1 DEF ClipName
    <3> HIDE DEF clip
    <3> QED BY <2>1, <3>1
  <2>2. CASE mode # "remake"
    <3>1. clip(i) = [name |-> <<i>>, says |-> Source[i].zh] /\ i \in DOMAIN Source
      BY <2>2 DEF ClipName, SourceText
    <3> HIDE DEF clip
    <3> QED BY <2>2, <3>1
  <2> QED BY <2>1, <2>2
<1>5. Voices(mode, more)
  <2> SUFFICES ASSUME NEW v \in more
      PROVE  IF mode = "remake" THEN \E i, z : v = [name |-> <<i, z>>, says |-> z]
             ELSE \E i \in DOMAIN Source : v = [name |-> <<i>>, says |-> Source[i].zh]
    BY DEF Voices
  <2>1. CASE v \in tts
    BY <2>1 DEF Voices
  <2>2. CASE v \notin tts
    <3>1. PICK i \in new : v = clip(i)
      BY <1>1, <2>2
    <3> HIDE DEF clip, new
    <3> QED BY <1>4, <3>1
  <2> QED BY <2>1, <2>2
<1> QED BY <1>2, <1>3, <1>5

(* The clips of lines stay theirs on the new axis. *)
LEMMA RetimedVoices ==
  ASSUME NEW mode, NEW lines, SomeLines(lines), NEW tts
  PROVE  /\ ClipNames(mode, Retimed(lines)) = ClipNames(mode, lines)
         /\ Voiced(mode, lines, tts) => Voiced(mode, Retimed(lines), tts)
         /\ SourceText(lines) => SourceText(Retimed(lines))
<1> DEFINE new == Retimed(lines)
<1>1. DOMAIN new = DOMAIN lines /\ \A i \in DOMAIN lines : new[i].zh = lines[i].zh /\ new[i].quiet = lines[i].quiet
  BY RetimedAgain, RetimedLine
<1> HIDE DEF new
<1>2. \A i \in DOMAIN lines : ClipName(mode, i, new[i]) = ClipName(mode, i, lines[i])
  BY <1>1 DEF ClipName
<1>3. ClipNames(mode, new) = ClipNames(mode, lines)
  BY <1>1, <1>2 DEF ClipNames
<1>4. Aloud(new) = Aloud(lines)
  BY <1>1 DEF Aloud
<1>5. Voiced(mode, lines, tts) => Voiced(mode, new, tts)
  BY <1>2, <1>4 DEF Voiced, Aloud
<1>6. SourceText(lines) => SourceText(new)
  BY <1>1 DEF SourceText
<1> QED BY <1>3, <1>5, <1>6 DEF new

LEMMA SourceLines ==
  /\ SomeLines(Source) /\ Source # <<>> /\ SomeLines(<<>>) /\ <<>> = Retimed(<<>>)
  /\ \A lines \in {Source, Retimed(Source)} : SomeLines(lines) /\ SourceText(lines) /\ Retimed(lines) = Retimed(Source)
<1>1. SomeLines(<<>>)
  <2>1. <<>> = [i \in 1..0 |-> <<>>[i]]
    OBVIOUS
  <2> QED BY <2>1 DEF SomeLines
<1>2. SomeLines(Source) /\ Source # <<>>
  <2>1. Source = [i \in 1..2 |-> Source[i]] /\ Source[1] = Line("one", 1) /\ Source[2] = Line("two", 3)
    BY DEF Source
  <2>2. LineLike(Line("one", 1)) /\ LineLike(Line("two", 3))
    BY DEF LineLike, Line, Origin
  <2> HIDE DEF Source, Line
  <2>3. \A i \in 1..2 : LineLike(Source[i])
    BY <2>1, <2>2
  <2>4. SomeLines(Source)
    BY <2>1, <2>3 DEF SomeLines
  <2>5. Source # <<>>
    BY DEF Source
  <2> QED BY <2>4, <2>5
<1>3. <<>> = Retimed(<<>>)
  BY <1>1, RetimedAgain
<1>4. SourceText(Source)
  BY DEF SourceText
<1> QED BY <1>1, <1>2, <1>3, <1>4, RetimedAgain, RetimedVoices

(* A record of files, and one that differs from another in some of them only. *)
FileShape(d) ==
  d \in [video: {d.video}, facts: {d.facts}, segments: {d.segments}, translated: {d.translated},
         rewritten: {d.rewritten}, base: {d.base}, seed: {d.seed}, over: {d.over}, tts: {d.tts},
         clips: {d.clips}, board: {d.board}, scenes: {d.scenes}, muxed: {d.muxed},
         final: {d.final}, subs: {d.subs}]

Fields == {"video", "facts", "segments", "translated", "rewritten", "base", "seed", "over", "tts",
           "clips", "board", "scenes", "muxed", "final", "subs"}
Same(e, d, fields) == FileShape(e) /\ \A f \in Fields \ fields : e[f] = d[f]

Edit(r, p) == Revised(r.plan, p.basis, p.was)
Want(r, d, p) == Retimed(IF r.parent = 0 THEN Lines(r, d) ELSE Edit(r, p))

AllDone(r) == \A i \in DOMAIN Order(r.mode) : Order(r.mode)[i] \in r.done
TextStage(r) == IF r.mode = "remake" THEN "rewrite" ELSE "translate"

(* What a row and the history say of each other. *)
RowSo(r, d, p) ==
  /\ FileShape(d)
  /\ r.status = "none" => r = NoJob /\ d = Empty /\ p = Born
  /\ r.status # "none" => r.mode \in {"remake", "transport"}
  /\ r.status = "completed" \/ "deliver" \in r.done => AllDone(r)
  /\ r.parent # 0 => r.mode = "remake" /\ SomeLines(p.basis) /\ p.is = Overridden(r.plan, p.was)
  /\ r.mode = "transport" => p.is = NoOverrides

(* The lines of each file, and those that a revision starts from. *)
LinesSo(r, d, p) ==
  /\ d.segments \in {<<>>, Source} /\ d.translated \in {<<>>, Source, Retimed(Source)}
  /\ r.mode = "remake" => d.translated \in {<<>>, Source}
  /\ SomeLines(d.rewritten)
  /\ r.mode # "remake" => d.rewritten = <<>> /\ d.board = {} /\ d.scenes = {}
  /\ r.parent # 0 =>
       \/ d.base = p.basis /\ d.base # <<>> /\ Overrides(d.seed) = p.was
       \/ d.base = <<>> /\ d.rewritten = <<>>
  /\ r.parent # 0 /\ "rewrite" \in r.done /\ d.rewritten # <<>> =>
       d.rewritten \in {Edit(r, p), Retimed(Edit(r, p))}

OversSo(r, d, p) ==
  /\ "rewrite" \in r.done /\ d.rewritten # <<>> => Overrides(d.over) = p.is
  /\ r.parent = 0 /\ "rewrite" \notin r.done => d.over = {} /\ p.is = NoOverrides
  /\ d.board \in {{}, {p.is}} /\ d.scenes \in {{}, {p.is}}

VoicesSo(r, d) ==
  /\ Voices(r.mode, d.tts)
  /\ d.clips # <<>> => /\ d.clips = ClipNames(r.mode, Lines(r, d))
                       /\ Voiced(r.mode, Lines(r, d), d.tts)

(* Files that are there were made of lines that are final. *)
StagesSo(r, d, p) ==
  /\ TextStage(r) \notin r.done =>
       d.clips = <<>> /\ d.board = {} /\ d.scenes = {} /\ d.muxed = {} /\ d.final = {}
  /\ d.board # {} => d.clips # <<>> /\ d.rewritten = Want(r, d, p)
  /\ r.mode # "remake" /\ d.clips # <<>> => d.translated = Want(r, d, p)
  /\ d.muxed # {} \/ d.final # {} => Lines(r, d) = Want(r, d, p)
  /\ d.muxed \in {{}, {Planned(Want(r, d, p), p.is)}}
  /\ d.final \in {{}, {Planned(Want(r, d, p), p.is)}}
  /\ "deliver" \in r.done => d.muxed = {} /\ (d.final # {} => d.subs = Spoken(Want(r, d, p)))

JobSo(r, d, p) ==
  RowSo(r, d, p) /\ LinesSo(r, d, p) /\ OversSo(r, d, p) /\ VoicesSo(r, d) /\ StagesSo(r, d, p)
JobsSo ==
  /\ disk = [j \in Jobs |-> disk[j]]
  /\ \A j \in Jobs : JobSo(job[j], disk[j], past[j])

(* How far the stage at hand is. *)
HalfSo(stage, r, d, p) ==
  /\ stage # "deliver" => Ready(stage, r, d)
  /\ stage = "rewrite" /\ r.parent # 0 => d.rewritten = Edit(r, p)
  /\ stage = "dub" => Voiced(r.mode, Lines(r, d), d.tts)
  /\ stage = "storyboard" => d.rewritten = Want(r, d, p)
  /\ stage = "deliver" => d.muxed = {} /\ d.final # {}
MadeSo(stage, r, d, p) ==
  /\ stage = "rewrite" /\ r.parent # 0 => d.rewritten = Edit(r, p) /\ Overrides(d.over) = p.is
  /\ stage = "deliver" => d.muxed = {} /\ d.final # {} /\ d.subs = Spoken(Want(r, d, p))
Held(h, r, d, p) ==
  /\ r.status \in {"running", "gone"} /\ r.beat # "null"
  /\ h.at # "end" => h.stage = FirstIncomplete(r)
  /\ h.at = "half" => HalfSo(h.stage, r, d, p)
  /\ h.at = "made" => MadeSo(h.stage, r, d, p)
  /\ h.at = "end" => AllDone(r)
HandSo == hand # Idle => Held(hand, job[hand.job], disk[hand.job], past[hand.job])

(* A revision is of a finished film, whose files stay or are all deleted; its child is *)
(* nobody else's until it is queued.                                           *)
Revising(a, r, d, p) ==
  /\ AllDone(r) /\ r.mode = "remake" /\ SomeLines(a.basis) /\ a.basis # <<>>
  /\ d.video # "none" => d.rewritten = a.basis /\ Overrides(d.over) = p.is
Waiting(r) ==
  r.status \in {"running", "gone"} /\ r.beat = "null" /\ r.parent # 0 /\ r.done \subseteq Inherited
AskSo ==
  /\ ask.at \in {"spawn", "inherit"} => Revising(ask, job[ask.of], disk[ask.of], past[ask.of])
  /\ ask.at \in {"inherit", "mark", "queue"} => Waiting(job[ask.child]) /\ ask.child # ask.of
  /\ ask.at = "inherit" =>
       /\ disk[ask.child] = Empty
       /\ past[ask.child].basis = ask.basis /\ past[ask.child].was = past[ask.of].is

(* The row of a job whose files are deleted was made. *)
DyingSo == \A j \in Jobs : j \in dying => job[j].status # "none"

FilmInv == JobsSo /\ HandSo /\ AskSo /\ DyingSo

(* What the state of a job hangs on, of its row and of its history. *)
Alike(q, r) == q.mode = r.mode /\ q.done = r.done /\ q.parent = r.parent /\ q.plan = r.plan
Recorded(q, p) == q.basis = p.basis /\ q.was = p.was /\ q.is = p.is

LEMMA AlikeTexts ==
  ASSUME NEW r, NEW d, NEW p, NEW q, NEW o, Alike(q, r), Recorded(o, p)
  PROVE  /\ Edit(q, o) = Edit(r, p) /\ Lines(q, d) = Lines(r, d) /\ Want(q, d, o) = Want(r, d, p)
         /\ AllDone(q) <=> AllDone(r)
         /\ TextStage(q) = TextStage(r) /\ FirstIncomplete(q) = FirstIncomplete(r)
         /\ \A stage : Ready(stage, q, d) <=> Ready(stage, r, d)
<1>1. Edit(q, o) = Edit(r, p)
  BY DEF Alike, Recorded, Edit
<1>2. Lines(q, d) = Lines(r, d)
  BY DEF Alike, Lines
<1>3. Want(q, d, o) = Want(r, d, p)
  BY <1>1, <1>2 DEF Alike, Want
<1>4. (AllDone(q) <=> AllDone(r)) /\ TextStage(q) = TextStage(r) /\ FirstIncomplete(q) = FirstIncomplete(r)
  BY DEF Alike, AllDone, TextStage, FirstIncomplete
<1>5. \A stage : Ready(stage, q, d) <=> Ready(stage, r, d)
  <2>1. q.parent = r.parent
    BY DEF Alike
  <2> QED BY <1>2, <2>1, Zenon DEF Ready
<1> QED BY <1>1, <1>2, <1>3, <1>4, <1>5

LEMMA AlikeJobs ==
  ASSUME NEW r, NEW d, NEW p, JobSo(r, d, p), r.status # "none",
         NEW q, NEW o, Alike(q, r), Recorded(o, p),
         q.status # "none", q.status = "completed" => AllDone(r)
  PROVE  JobSo(q, d, o)
<1>1. /\ Edit(q, o) = Edit(r, p) /\ Lines(q, d) = Lines(r, d) /\ Want(q, d, o) = Want(r, d, p)
      /\ AllDone(q) <=> AllDone(r)
      /\ TextStage(q) = TextStage(r)
  BY AlikeTexts
<1>2. RowSo(q, d, o)
  BY <1>1 DEF JobSo, RowSo, Alike, Recorded
<1>3. LinesSo(q, d, o)
  BY <1>1 DEF JobSo, LinesSo, Alike, Recorded
<1>4. OversSo(q, d, o)
  BY DEF JobSo, OversSo, Alike, Recorded
<1>5. VoicesSo(q, d)
  BY <1>1 DEF JobSo, VoicesSo, Alike
<1>6. StagesSo(q, d, o)
  BY <1>1 DEF JobSo, StagesSo, Alike, Recorded
<1> QED BY <1>2, <1>3, <1>4, <1>5, <1>6 DEF JobSo

LEMMA AlikeHeld ==
  ASSUME NEW h, NEW r, NEW d, NEW p, Held(h, r, d, p),
         NEW q, NEW o, Alike(q, r), Recorded(o, p), q.status \in {"running", "gone"}, q.beat # "null"
  PROVE  Held(h, q, d, o)
<1>1. /\ Edit(q, o) = Edit(r, p) /\ Lines(q, d) = Lines(r, d) /\ Want(q, d, o) = Want(r, d, p)
      /\ AllDone(q) <=> AllDone(r)
      /\ FirstIncomplete(q) = FirstIncomplete(r)
  BY AlikeTexts
<1>a. \A stage : Ready(stage, q, d) <=> Ready(stage, r, d)
  BY AlikeTexts, Zenon
<1>2. HalfSo(h.stage, r, d, p) => HalfSo(h.stage, q, d, o)
  BY <1>1, <1>a DEF HalfSo, Alike
<1>3. MadeSo(h.stage, r, d, p) => MadeSo(h.stage, q, d, o)
  BY <1>1 DEF MadeSo, Alike, Recorded
<1> QED BY <1>1, <1>2, <1>3 DEF Held

(* Files that are all deleted are as good as none. *)
LEMMA EmptyFiles ==
  ASSUME NEW r, NEW p, RowSo(r, Empty, p), r.parent = 0 /\ "rewrite" \notin r.done => p.is = NoOverrides
  PROVE  JobSo(r, Empty, p)
<1>1. /\ Empty.segments = <<>> /\ Empty.translated = <<>> /\ Empty.rewritten = <<>> /\ Empty.base = <<>>
      /\ Empty.over = {} /\ Empty.tts = {} /\ Empty.clips = <<>> /\ Empty.board = {}
      /\ Empty.scenes = {} /\ Empty.muxed = {} /\ Empty.final = {}
  BY DEF Empty
<1> HIDE DEF Empty
<1>2. LinesSo(r, Empty, p)
  BY <1>1, SourceLines DEF LinesSo
<1>3. OversSo(r, Empty, p)
  BY <1>1 DEF OversSo
<1>4. VoicesSo(r, Empty)
  BY <1>1 DEF VoicesSo, Voices
<1>5. StagesSo(r, Empty, p)
  BY <1>1 DEF StagesSo
<1> QED BY <1>2, <1>3, <1>4, <1>5 DEF JobSo

LEMMA EmptyShape == FileShape(Empty) /\ Empty.video = "none"
  BY DEF FileShape, Empty

Dubbing == {"dub", "storyboard", "render", "compose", "mux", "deliver"}

(* The stage at hand is the first one that is not done, or, of a job that is all done, *)
(* the last one.                                                            *)
LEMMA StageOrder ==
  ASSUME NEW r \in Columns, r.mode \in {"remake", "transport"}
  PROVE  LET s == FirstIncomplete(r) IN
         /\ s \in Stages
         /\ r.mode = "remake" => s # "mux"
         /\ r.mode = "transport" => s \notin {"analyze", "rewrite", "storyboard", "render", "compose"}
         /\ AllDone(r) => s = "deliver" /\ "deliver" \in r.done /\ TextStage(r) \in r.done
         /\ s # "deliver" => s \notin r.done
         /\ s \in Dubbing => TextStage(r) \in r.done
         /\ s = "deliver" => \A i \in DOMAIN Order(r.mode) : Order(r.mode)[i] \in r.done \cup {"deliver"}
<1> DEFINE order == Order(r.mode)
           open == {i \in DOMAIN order : order[i] \notin r.done}
           s == FirstIncomplete(r)
<1>1. ASSUME DOMAIN order \subseteq Nat, open # {}
      PROVE  \E k \in open : s = order[k] /\ \A i \in open : k <= i
  <2>1. PICK k \in open : \A i \in open : k <= i
    BY <1>1, Least
  <2>2. PICK c \in open : c = (CHOOSE i \in open : \A m \in open : i <= m) /\ \A m \in open : c <= m
    BY <2>1
  <2> QED BY <1>1, <2>2 DEF FirstIncomplete
<1>2. CASE r.mode = "remake"
  <2>1. order = <<"download", "analyze", "transcript", "resegment", "translate", "rewrite", "dub",
               "storyboard", "render", "compose", "deliver">>
    BY <1>2 DEF Order
  <2> HIDE DEF order
  <2>2. /\ DOMAIN order = 1..11 /\ order[6] = "rewrite" /\ order[11] = "deliver"
        /\ \A i \in 1..11 :
             /\ order[i] \in Stages
             /\ order[i] # "mux"
             /\ order[i] \in Dubbing => i > 6
             /\ order[i] = "deliver" => i = 11
    BY <2>1 DEF Stages, Dubbing
  <2>3. TextStage(r) = "rewrite"
    BY <1>2 DEF TextStage
  <2>4. CASE open = {}
    <3>1. s = order[11]
      BY <2>1, <2>4 DEF FirstIncomplete, Last, order
    <3>2. \A i \in 1..11 : order[i] \in r.done
      BY <2>2, <2>4
    <3> QED BY <1>2, <2>2, <2>3, <3>1, <3>2 DEF order
  <2>5. CASE open # {}
    <3>1. PICK k \in open : s = order[k] /\ \A i \in open : k <= i
      BY <1>1, <2>2, <2>5 DEF order
    <3>2. k \in 1..11 /\ order[k] \notin r.done /\ \A i \in 1..11 : i < k => order[i] \in r.done
      BY <2>2, <3>1
    <3>3. ~AllDone(r)
      BY <2>2, <3>2 DEF AllDone, order
    <3>4. s \in Dubbing => TextStage(r) \in r.done
      BY <2>2, <2>3, <3>1, <3>2
    <3>5. s = "deliver" => \A i \in 1..11 : order[i] \in r.done \cup {"deliver"}
      <4>1. s = "deliver" => k = 11
        BY <2>2, <3>1, <3>2
      <4>2. \A i \in 1..11 : i < 11 \/ order[i] = "deliver"
        BY <2>2
      <4> QED BY <3>2, <4>1, <4>2
    <3> QED BY <1>2, <2>2, <3>1, <3>2, <3>3, <3>4, <3>5 DEF order
  <2> QED BY <2>4, <2>5
<1>3. CASE r.mode = "transport"
  <2>1. order = <<"download", "transcript", "resegment", "translate", "dub", "mux", "deliver">>
    BY <1>3 DEF Order
  <2> HIDE DEF order
  <2>2. /\ DOMAIN order = 1..7 /\ order[4] = "translate" /\ order[7] = "deliver"
        /\ \A i \in 1..7 :
             /\ order[i] \in Stages
             /\ order[i] \notin {"analyze", "rewrite", "storyboard", "render", "compose"}
             /\ order[i] \in Dubbing => i > 4
             /\ order[i] = "deliver" => i = 7
    BY <2>1 DEF Stages, Dubbing
  <2>3. TextStage(r) = "translate"
    BY <1>3 DEF TextStage
  <2>4. CASE open = {}
    <3>1. s = order[7]
      BY <2>1, <2>4 DEF FirstIncomplete, Last, order
    <3>2. \A i \in 1..7 : order[i] \in r.done
      BY <2>2, <2>4
    <3> QED BY <1>3, <2>2, <2>3, <3>1, <3>2 DEF order
  <2>5. CASE open # {}
    <3>1. PICK k \in open : s = order[k] /\ \A i \in open : k <= i
      BY <1>1, <2>2, <2>5 DEF order
    <3>2. k \in 1..7 /\ order[k] \notin r.done /\ \A i \in 1..7 : i < k => order[i] \in r.done
      BY <2>2, <3>1
    <3>3. ~AllDone(r)
      BY <2>2, <3>2 DEF AllDone, order
    <3>4. s \in Dubbing => TextStage(r) \in r.done
      BY <2>2, <2>3, <3>1, <3>2
    <3>5. s = "deliver" => \A i \in 1..7 : order[i] \in r.done \cup {"deliver"}
      <4>1. s = "deliver" => k = 7
        BY <2>2, <3>1, <3>2
      <4>2. \A i \in 1..7 : i < 7 \/ order[i] = "deliver"
        BY <2>2
      <4> QED BY <3>2, <4>1, <4>2
    <3> QED BY <1>3, <2>2, <3>1, <3>2, <3>3, <3>4, <3>5 DEF order
  <2> QED BY <2>4, <2>5
<1> QED BY <1>2, <1>3

(* One job is written. *)
LEMMA OneJobStep ==
  ASSUME JobsSo, NEW j \in Jobs, disk' = [k \in Jobs |-> disk'[k]],
         \A k \in Jobs \ {j} : job'[k] = job[k] /\ disk'[k] = disk[k] /\ past'[k] = past[k],
         JobSo(job'[j], disk'[j], past'[j])
  PROVE  JobsSo'
BY DEF JobsSo

(* A row is written, and with it the history, as far as the state of its job does not  *)
(* hang on them.                                                            *)
LEMMA RowStep ==
  ASSUME VideoTypes, FilmInv, NEW j \in Jobs, UNCHANGED disk,
         \A k \in Jobs \ {j} : job'[k] = job[k] /\ past'[k] = past[k],
         Alike(job'[j], job[j]), Recorded(past'[j], past[j]),
         job[j].status # "none", job'[j].status # "none",
         job'[j].status = "completed" => AllDone(job[j])
  PROVE  /\ JobsSo' /\ (dying' \subseteq dying => DyingSo')
         /\ /\ UNCHANGED ask
            /\ ask.at \in {"inherit", "mark", "queue"} /\ j = ask.child => Waiting(job'[j])
            => AskSo'
         /\ /\ UNCHANGED hand
            /\ j = hand.job => job'[j].status \in {"running", "gone"} /\ job'[j].beat # "null"
            => HandSo'
<1>1. \A k \in Jobs : Alike(job'[k], job[k]) /\ Recorded(past'[k], past[k])
  BY DEF Alike, Recorded
<1>2. JobsSo'
  <2>1. JobSo(job[j], disk[j], past[j])
    BY DEF FilmInv, JobsSo
  <2>2. JobSo(job'[j], disk'[j], past'[j])
    BY <1>1, <2>1, AlikeJobs
  <2>3. disk' = [k \in Jobs |-> disk'[k]]
    BY DEF FilmInv, JobsSo
  <2> QED BY <2>2, <2>3, OneJobStep DEF FilmInv
<1>3. ASSUME UNCHANGED ask, ask.at \in {"inherit", "mark", "queue"} /\ j = ask.child => Waiting(job'[j])
      PROVE  AskSo'
  <2>1. ask.at \in {"spawn", "inherit"} =>
          Revising(ask, job'[ask.of], disk[ask.of], past'[ask.of]) /\ past'[ask.of].is = past[ask.of].is
    <3> SUFFICES ASSUME ask.at \in {"spawn", "inherit"}
                 PROVE  Revising(ask, job'[ask.of], disk[ask.of], past'[ask.of]) /\ past'[ask.of].is = past[ask.of].is
      OBVIOUS
    <3>1. ask.of \in Jobs /\ Revising(ask, job[ask.of], disk[ask.of], past[ask.of])
      BY DEF VideoTypes, FilmInv, AskSo
    <3>2. Alike(job'[ask.of], job[ask.of]) /\ Recorded(past'[ask.of], past[ask.of])
      BY <1>1, <3>1
    <3>3. AllDone(job'[ask.of]) <=> AllDone(job[ask.of])
      BY <3>2, AlikeTexts
    <3> QED BY <3>1, <3>2, <3>3 DEF Revising, Alike, Recorded
  <2>2. ask.at \in {"inherit", "mark", "queue"} => Waiting(job'[ask.child]) /\ ask.child # ask.of
    BY <1>3 DEF VideoTypes, FilmInv, AskSo
  <2>3. ask.at = "inherit" => /\ disk[ask.child] = Empty
                              /\ past'[ask.child].basis = ask.basis /\ past'[ask.child].was = past'[ask.of].is
    BY <1>1, <2>1 DEF VideoTypes, FilmInv, AskSo, Recorded
  <2> QED BY <1>3, <2>1, <2>2, <2>3 DEF AskSo
<1>4. ASSUME UNCHANGED hand,
             j = hand.job => job'[j].status \in {"running", "gone"} /\ job'[j].beat # "null"
      PROVE  HandSo'
  <2> SUFFICES ASSUME hand # Idle
               PROVE  Held(hand, job'[hand.job], disk[hand.job], past'[hand.job])
    BY <1>4 DEF HandSo
  <2>1. hand.job \in Jobs /\ Held(hand, job[hand.job], disk[hand.job], past[hand.job])
    BY DEF VideoTypes, Hands, FilmInv, HandSo
  <2>2. job'[hand.job].status \in {"running", "gone"} /\ job'[hand.job].beat # "null"
    BY <1>4, <2>1 DEF Held
  <2> QED BY <1>1, <2>1, <2>2, AlikeHeld
<1>5. dying' \subseteq dying => DyingSo'
  BY DEF FilmInv, DyingSo
<1> QED BY <1>2, <1>3, <1>4, <1>5

LEMMA RowEdits ==
  ASSUME NEW r \in Columns
  PROVE  /\ \A s \in {"queued", "running", "completed", "failed", "gone"} :
              LET q == [r EXCEPT !.status = s] IN Alike(q, r) /\ q.status = s /\ q.beat = r.beat
         /\ LET q == [r EXCEPT !.beat = "stale"] IN
              Alike(q, r) /\ q.status = r.status /\ q.beat = "stale"
         /\ Alike(Reset(r), r) /\ Reset(r).status = "queued"
         /\ Alike(TakenUp(r), r) /\ TakenUp(r).status = "running" /\ TakenUp(r).beat = "fresh"
         /\ LET q == [Reset(r) EXCEPT !.retries = r.retries + 1] IN
              Alike(q, r) /\ q.status = "queued"
<1>1. \A s \in {"queued", "running", "completed", "failed", "gone"} :
              LET q == [r EXCEPT !.status = s] IN Alike(q, r) /\ q.status = s /\ q.beat = r.beat
  BY DEF Columns, Alike
<1>2. LET q == [r EXCEPT !.beat = "stale"] IN
              Alike(q, r) /\ q.status = r.status /\ q.beat = "stale"
  BY DEF Columns, Alike
<1>3. Alike(Reset(r), r) /\ Reset(r).status = "queued" /\ Reset(r) \in Columns
  BY DEF Columns, Alike, Reset
<1>4. Alike(TakenUp(r), r) /\ TakenUp(r).status = "running" /\ TakenUp(r).beat = "fresh"
  BY DEF Columns, Alike, TakenUp
<1>5. LET q == [Reset(r) EXCEPT !.retries = r.retries + 1] IN Alike(q, r) /\ q.status = "queued"
  <2> DEFINE o == Reset(r)
  <2>1. o \in Columns /\ Alike(o, r) /\ o.status = "queued"
    BY <1>3
  <2> HIDE DEF o
  <2>2. LET q == [o EXCEPT !.retries = r.retries + 1] IN Alike(q, r) /\ q.status = "queued"
    BY <2>1 DEF Columns, Alike
  <2> QED BY <2>2 DEF o
<1> QED BY <1>1, <1>2, <1>3, <1>4, <1>5

(* The rows that requests and clocks write. *)
LEMMA RowRequests ==
  ASSUME VideoTypes, FilmInv, NEW j \in Jobs
  PROVE  Retry(j) \/ DeleteRow(j) \/ Lapse(j) \/ Recover(j) => FilmInv'
<1>0. job \in [Jobs -> Columns] /\ job[j] \in Columns
  BY DEF VideoTypes
<1>a. hand # Idle => job[hand.job].status \in {"running", "gone"} /\ job[hand.job].beat # "null"
  BY DEF FilmInv, HandSo, Held
<1>b. hand.job = j => hand # Idle
  BY DEF Idle, Jobs
<1>c. ask.at \in {"inherit", "mark", "queue"} => Waiting(job[ask.child])
  BY DEF FilmInv, AskSo
<1>d. job[j].status = "none" => job[j].beat = "null"
  BY DEF FilmInv, JobsSo, JobSo, RowSo, NoJob
<1>1. ASSUME NEW q, job' = [job EXCEPT ![j] = q], Alike(q, job[j]), q.status # "none", job[j].status # "none",
             q.status = "completed" => job[j].status = "completed",
             j = hand.job => q.status \in {"running", "gone"} /\ q.beat # "null",
             ask.at \in {"inherit", "mark", "queue"} /\ j = ask.child => Waiting(q),
             UNCHANGED <<disk, hand, ask, past>>, dying' \subseteq dying
      PROVE  FilmInv'
  <2>1. job'[j] = q /\ \A k \in Jobs \ {j} : job'[k] = job[k]
    BY <1>0, <1>1
  <2>2. Recorded(past'[j], past[j]) /\ \A k \in Jobs : past'[k] = past[k]
    BY <1>1 DEF Recorded
  <2>3. job[j].status = "completed" => AllDone(job[j])
    BY DEF FilmInv, JobsSo, JobSo, RowSo
  <2> QED BY <1>1, <2>1, <2>2, <2>3, RowStep DEF FilmInv
<1>2. CASE Retry(j)
  <2>1. job' = [job EXCEPT ![j] = Reset(job[j])] /\ UNCHANGED <<disk, hand, ask, past>> /\ dying' \subseteq dying
        /\ job[j].status \in {"completed", "failed"}
    BY <1>2 DEF Retry, Terminal
  <2>2. j # hand.job /\ (ask.at \in {"inherit", "mark", "queue"} => j # ask.child)
    BY <1>a, <1>b, <1>c, <2>1 DEF Waiting
  <2> QED BY <1>0, <1>1, <2>1, <2>2, RowEdits
<1>3. CASE DeleteRow(j)
  <2> DEFINE q == [job[j] EXCEPT !.status = "gone"]
  <2>1. job' = [job EXCEPT ![j] = q] /\ UNCHANGED <<disk, hand, ask, past>> /\ dying' \subseteq dying
    BY <1>3 DEF DeleteRow
  <2>2. Alike(q, job[j]) /\ q.status = "gone" /\ q.beat = job[j].beat
    BY <1>0, RowEdits
  <2> HIDE DEF q
  <2>3. job[j].status # "none"
    BY <1>3 DEF DeleteRow, FilmInv, DyingSo
  <2> QED BY <1>1, <1>a, <1>b, <1>c, <2>1, <2>2, <2>3 DEF Waiting, Alike
<1>4. CASE Lapse(j)
  <2> DEFINE q == [job[j] EXCEPT !.beat = "stale"]
  <2>1. job' = [job EXCEPT ![j] = q] /\ UNCHANGED <<disk, hand, ask, past>> /\ dying' \subseteq dying
        /\ job[j].status = "running" /\ job[j].beat = "fresh"
    BY <1>4 DEF Lapse
  <2>2. Alike(q, job[j]) /\ q.status = "running" /\ q.beat = "stale"
    BY <1>0, <2>1, RowEdits
  <2>3. ask.at \in {"inherit", "mark", "queue"} => j # ask.child
    BY <1>c, <2>1 DEF Waiting
  <2> HIDE DEF q
  <2> QED BY <1>1, <2>1, <2>2, <2>3
<1>5. CASE Recover(j)
  <2> DEFINE q == IF job[j].retries >= MaxRetries THEN [job[j] EXCEPT !.status = "failed"]
                  ELSE [Reset(job[j]) EXCEPT !.retries = job[j].retries + 1]
  <2>1. job' = [job EXCEPT ![j] = q] /\ UNCHANGED <<disk, hand, ask, past>> /\ dying' \subseteq dying
        /\ job[j].status = "running" /\ job[j].beat = "stale" /\ hand.job # j
    BY <1>5 DEF Recover, Stale
  <2>2. Alike(q, job[j]) /\ q.status \in {"failed", "queued"}
    BY <1>0, RowEdits
  <2>3. ask.at \in {"inherit", "mark", "queue"} => j # ask.child
    BY <1>c, <2>1 DEF Waiting
  <2> HIDE DEF q
  <2> QED BY <1>1, <2>1, <2>2, <2>3
<1> QED BY <1>2, <1>3, <1>4, <1>5

(* What the worker and the request hold is theirs while others are written. *)
LEMMA OthersKept ==
  ASSUME VideoTypes, FilmInv, NEW j \in Jobs,
         \A k \in Jobs \ {j} : job'[k] = job[k] /\ disk'[k] = disk[k] /\ past'[k] = past[k]
  PROVE  /\ UNCHANGED hand /\ j # hand.job => HandSo'
         /\ /\ UNCHANGED ask
            /\ ask.at \in {"spawn", "inherit"} => j # ask.of
            /\ ask.at \in {"inherit", "mark", "queue"} => j # ask.child
            => AskSo'
<1>1. ASSUME UNCHANGED hand, j # hand.job PROVE HandSo'
  <2>1. hand # Idle => hand.job \in Jobs
    BY DEF VideoTypes, Hands
  <2> QED BY <1>1, <2>1 DEF FilmInv, HandSo
<1>2. ASSUME UNCHANGED ask, ask.at \in {"spawn", "inherit"} => j # ask.of,
             ask.at \in {"inherit", "mark", "queue"} => j # ask.child
      PROVE  AskSo'
  <2>1. ask.at \in {"spawn", "inherit"} => ask.of \in Jobs
    BY DEF VideoTypes
  <2>2. ask.at \in {"inherit", "mark", "queue"} => ask.child \in Jobs
    BY DEF VideoTypes
  <2> QED BY <1>2, <2>1, <2>2 DEF FilmInv, AskSo
<1> QED BY <1>1, <1>2

LEMMA HandIsBusy ==
  ASSUME VideoTypes, FilmInv
  PROVE  /\ 0 \notin Jobs
         /\ hand.job \in Jobs =>
              /\ hand # Idle /\ hand \in Hands
              /\ job[hand.job].status \in {"running", "gone"} /\ job[hand.job].beat # "null"
         /\ hand # Idle => hand.job \in Jobs
         /\ ask.at \in {"inherit", "mark", "queue"} => ask.child \in Jobs /\ ask.child # hand.job
<1>1. 0 \notin Jobs
  BY DEF Jobs
<1>2. hand # Idle => hand \in Hands /\ hand.job \in Jobs
  BY DEF VideoTypes, Hands
<1>3. hand.job \in Jobs => hand # Idle
  BY <1>1 DEF Idle
<1>4. hand # Idle => job[hand.job].status \in {"running", "gone"} /\ job[hand.job].beat # "null"
  BY DEF FilmInv, HandSo, Held
<1>5. ask.at \in {"inherit", "mark", "queue"} => ask.child \in Jobs /\ job[ask.child].beat = "null"
  BY DEF VideoTypes, FilmInv, AskSo, Waiting
<1> QED BY <1>1, <1>2, <1>3, <1>4, <1>5

LEMMA Unbegun ==
  ASSUME VideoTypes, FilmInv, Unborn # {}
  PROVE  /\ NewId \in Jobs /\ job[NewId] = NoJob /\ disk[NewId] = Empty /\ past[NewId] = Born
         /\ NewId # hand.job
         /\ ask.at \in {"spawn", "inherit"} => NewId # ask.of
         /\ ask.at \in {"inherit", "mark", "queue"} => NewId # ask.child
<1>1. NewId \in Jobs /\ job[NewId].status = "none"
  BY NewIdIsUnborn DEF Unborn
<1>2. job[NewId] = NoJob /\ disk[NewId] = Empty /\ past[NewId] = Born
  BY <1>1 DEF FilmInv, JobsSo, JobSo, RowSo
<1>3. NewId # hand.job
  BY <1>1, HandIsBusy
<1>4. ~AllDone(NoJob)
  <2>1. Order(NoJob.mode) = <<"download", "transcript", "resegment", "translate", "dub", "mux", "deliver">>
        /\ NoJob.done = {}
    BY DEF NoJob, Order
  <2> HIDE DEF NoJob
  <2>2. 1 \in DOMAIN Order(NoJob.mode)
    BY <2>1
  <2> QED BY <2>1, <2>2 DEF AllDone
<1>5. ask.at \in {"spawn", "inherit"} => AllDone(job[ask.of])
  BY DEF FilmInv, AskSo, Revising
<1>6. ask.at \in {"inherit", "mark", "queue"} => job[ask.child].status # "none"
  BY DEF FilmInv, AskSo, Waiting
<1> QED BY <1>1, <1>2, <1>3, <1>4, <1>5, <1>6

LEMMA CreateStep ==
  ASSUME VideoTypes, FilmInv, NEW mode \in {"remake", "transport"}, Create(mode) PROVE FilmInv'
<1> DEFINE r == [NoJob EXCEPT !.status = "queued", !.mode = mode]
<1>1. /\ NewId \in Jobs /\ job[NewId] = NoJob /\ disk[NewId] = Empty /\ past[NewId] = Born
      /\ NewId # hand.job
      /\ ask.at \in {"spawn", "inherit"} => NewId # ask.of
      /\ ask.at \in {"inherit", "mark", "queue"} => NewId # ask.child
  BY Unbegun DEF Create
<1>2. job' = [job EXCEPT ![NewId] = r] /\ UNCHANGED <<disk, hand, ask, dying, past>>
  BY DEF Create
<1>3. /\ r.status = "queued" /\ r.mode = mode /\ r.parent = 0 /\ r.done = {}
      /\ Born.is = NoOverrides
  BY DEF NoJob, Born
<1> HIDE DEF r
<1>4. job'[NewId] = r /\ \A k \in Jobs \ {NewId} : job'[k] = job[k] /\ disk'[k] = disk[k] /\ past'[k] = past[k]
  BY <1>1, <1>2 DEF VideoTypes
<1>5. JobSo(r, Empty, Born)
  <2>1. RowSo(r, Empty, Born)
    BY <1>3, EmptyShape DEF RowSo
  <2> QED BY <1>3, <2>1, EmptyFiles
<1>6. JobsSo'
  <2>1. disk' = [k \in Jobs |-> disk'[k]]
    BY <1>2 DEF FilmInv, JobsSo
  <2> QED BY <1>1, <1>2, <1>4, <1>5, <2>1, OneJobStep DEF FilmInv
<1>7. HandSo' /\ AskSo'
  BY <1>1, <1>2, <1>4, OthersKept
<1>8. DyingSo'
  BY <1>2, <1>3, <1>4 DEF FilmInv, DyingSo
<1> QED BY <1>6, <1>7, <1>8 DEF FilmInv

LEMMA DeleteFilesStep ==
  ASSUME VideoTypes, FilmInv, NEW j \in Jobs, DeleteFiles(j) PROVE FilmInv'
<1> DEFINE p == [past[j] EXCEPT !.troubled = TRUE]
<1>1. /\ disk' = [disk EXCEPT ![j] = Empty] /\ dying' = dying \cup {j}
      /\ past' = [past EXCEPT ![j] = p] /\ UNCHANGED <<job, hand, ask>>
  BY DEF DeleteFiles
<1>2. Recorded(p, past[j])
  BY DEF VideoTypes, PastShape, Recorded
<1> HIDE DEF p
<1>3. /\ disk'[j] = Empty /\ past'[j] = p
      /\ \A k \in Jobs \ {j} : job'[k] = job[k] /\ disk'[k] = disk[k] /\ past'[k] = past[k]
      /\ disk' = [k \in Jobs |-> disk'[k]]
  BY <1>1 DEF VideoTypes, FilmInv, JobsSo
<1>4. job[j].status # "none" /\ j # hand.job
  <2>1. job[j].status \in {"queued", "completed", "failed"} \/ (job[j].beat = "null" /\ job[j].status = "running")
    BY DEF DeleteFiles, Deletable, Terminal
  <2> QED BY <2>1, HandIsBusy
<1>5. JobSo(job[j], Empty, p)
  <2>1. JobSo(job[j], disk[j], past[j])
    BY DEF FilmInv, JobsSo
  <2>2. RowSo(job[j], Empty, p)
    BY <1>2, <1>4, <2>1, EmptyShape DEF JobSo, RowSo, Recorded
  <2>3. job[j].parent = 0 /\ "rewrite" \notin job[j].done => p.is = NoOverrides
    BY <1>2, <2>1 DEF JobSo, OversSo, Recorded
  <2> QED BY <2>2, <2>3, EmptyFiles
<1>6. JobsSo'
  BY <1>1, <1>3, <1>5, OneJobStep DEF FilmInv
<1>7. HandSo'
  BY <1>1, <1>3, <1>4, OthersKept
<1>8. AskSo'
  <2>1. ask.at \in {"spawn", "inherit"} => Revising(ask, job[ask.of], disk'[ask.of], past'[ask.of])
                                         /\ past'[ask.of].is = past[ask.of].is
    <3> SUFFICES ASSUME ask.at \in {"spawn", "inherit"}
                 PROVE  Revising(ask, job[ask.of], disk'[ask.of], past'[ask.of]) /\ past'[ask.of].is = past[ask.of].is
      OBVIOUS
    <3>1. ask.of \in Jobs /\ Revising(ask, job[ask.of], disk[ask.of], past[ask.of])
      BY DEF VideoTypes, FilmInv, AskSo
    <3>2. CASE ask.of # j
      BY <1>3, <3>1, <3>2
    <3>3. CASE ask.of = j
      BY <1>2, <1>3, <3>1, <3>3, EmptyShape DEF Revising, Recorded
    <3> QED BY <3>2, <3>3
  <2>2. ask.at = "inherit" => /\ disk'[ask.child] = Empty /\ past'[ask.child].basis = ask.basis
                              /\ past'[ask.child].was = past[ask.of].is
    <3> SUFFICES ASSUME ask.at = "inherit"
                 PROVE  /\ disk'[ask.child] = Empty /\ past'[ask.child].basis = ask.basis
                        /\ past'[ask.child].was = past[ask.of].is
      OBVIOUS
    <3>1. ask.child \in Jobs /\ disk[ask.child] = Empty /\ past[ask.child].basis = ask.basis
          /\ past[ask.child].was = past[ask.of].is
      BY DEF VideoTypes, FilmInv, AskSo
    <3>2. Recorded(past'[ask.child], past[ask.child]) /\ disk'[ask.child] = Empty
      BY <1>2, <1>3, <3>1 DEF Recorded
    <3> QED BY <3>1, <3>2 DEF Recorded
  <2> QED BY <1>1, <2>1, <2>2 DEF FilmInv, AskSo
<1>9. DyingSo'
  BY <1>1, <1>4 DEF FilmInv, DyingSo
<1> QED BY <1>6, <1>7, <1>8, <1>9 DEF FilmInv

LEMMA ReviseStep ==
  ASSUME VideoTypes, FilmInv, NEW j \in Jobs, Revise(j) PROVE FilmInv'
<1>1. PICK plan : ask' = [NoAsk EXCEPT !.at = "spawn", !.of = j, !.plan = plan, !.basis = disk[j].rewritten]
  BY DEF Revise
<1>2. ask'.at = "spawn" /\ ask'.of = j /\ ask'.basis = disk[j].rewritten
  BY <1>1 DEF NoAsk
<1>3. /\ UNCHANGED <<job, disk, hand, dying, past>> /\ job[j].mode = "remake" /\ job[j].status = "completed"
      /\ disk[j].rewritten # <<>>
  BY DEF Revise
<1>4. JobSo(job[j], disk[j], past[j]) /\ job[j] \in Columns
  BY DEF FilmInv, JobsSo, VideoTypes
<1>5. AllDone(job[j]) /\ SomeLines(disk[j].rewritten)
  BY <1>3, <1>4 DEF JobSo, RowSo, LinesSo
<1>6. "rewrite" \in job[j].done
  BY <1>3, <1>4, <1>5, StageOrder DEF TextStage
<1>7. Overrides(disk[j].over) = past[j].is
  BY <1>3, <1>4, <1>6 DEF JobSo, OversSo
<1>8. AskSo'
  BY <1>2, <1>3, <1>5, <1>7 DEF AskSo, Revising
<1> QED BY <1>3, <1>8 DEF FilmInv, JobsSo, HandSo, DyingSo

LEMMA SpawnStep == ASSUME VideoTypes, FilmInv, Spawn PROVE FilmInv'
<1> DEFINE r == Newborn(ask.of, ask.plan)
           p == [Born EXCEPT !.basis = ask.basis, !.was = past[ask.of].is,
                             !.is = Overridden(ask.plan, past[ask.of].is)]
<1>1. /\ NewId \in Jobs /\ job[NewId] = NoJob /\ disk[NewId] = Empty /\ past[NewId] = Born
      /\ NewId # hand.job /\ NewId # ask.of
  BY Unbegun DEF Spawn
<1>2. /\ job' = [job EXCEPT ![NewId] = r] /\ past' = [past EXCEPT ![NewId] = p]
      /\ ask' = [ask EXCEPT !.at = "inherit", !.child = NewId]
      /\ UNCHANGED <<disk, hand, dying>> /\ ask.at = "spawn"
  BY DEF Spawn
<1>3. ask.of \in Jobs /\ Revising(ask, job[ask.of], disk[ask.of], past[ask.of]) /\ AskShape(ask)
  BY <1>2 DEF VideoTypes, FilmInv, AskSo
<1>4. /\ r.status = "running" /\ r.beat = "null" /\ r.mode = "remake" /\ r.parent = ask.of
      /\ r.plan = ask.plan /\ r.done = {} /\ r.parent # 0
  BY <1>3 DEF Newborn, NoJob, Jobs
<1> HIDE DEF r
<1>5. p.basis = ask.basis /\ p.was = past[ask.of].is /\ p.is = Overridden(ask.plan, past[ask.of].is)
  BY DEF Born
<1> HIDE DEF p
<1>6. /\ job'[NewId] = r /\ disk'[NewId] = Empty /\ past'[NewId] = p
      /\ \A k \in Jobs \ {NewId} : job'[k] = job[k] /\ disk'[k] = disk[k] /\ past'[k] = past[k]
      /\ disk' = [k \in Jobs |-> disk'[k]]
  BY <1>1, <1>2 DEF VideoTypes, FilmInv, JobsSo
<1>7. JobSo(r, Empty, p)
  <2>1. RowSo(r, Empty, p)
    BY <1>3, <1>4, <1>5, EmptyShape DEF RowSo, Revising
  <2> QED BY <1>4, <2>1, EmptyFiles
<1>8. JobsSo'
  BY <1>1, <1>6, <1>7, OneJobStep DEF FilmInv
<1>9. HandSo'
  BY <1>1, <1>2, <1>6, OthersKept
<1>10. AskSo'
  <2>1. ask'.at = "inherit" /\ ask'.child = NewId /\ ask'.of = ask.of /\ ask'.basis = ask.basis
    BY <1>2, <1>3 DEF AskShape
  <2>2. Revising(ask', job'[ask.of], disk'[ask.of], past'[ask.of])
    BY <1>1, <1>3, <1>6, <2>1 DEF Revising
  <2>3. Waiting(r)
    BY <1>4 DEF Waiting
  <2>4. past'[ask.of] = past[ask.of]
    BY <1>1, <1>3, <1>6
  <2> QED BY <1>1, <1>5, <1>6, <2>1, <2>2, <2>3, <2>4 DEF AskSo
<1>11. DyingSo'
  BY <1>2, <1>4, <1>6 DEF FilmInv, DyingSo
<1> QED BY <1>8, <1>9, <1>10, <1>11 DEF FilmInv

LEMMA HeirFiles ==
  ASSUME NEW d
  PROVE  LET h == Heir(d) IN
         /\ FileShape(h) /\ h.segments = <<>> /\ h.translated = d.translated /\ h.rewritten = d.rewritten
         /\ h.base = d.rewritten /\ h.seed = d.over /\ h.tts = d.tts /\ h.over = {} /\ h.clips = <<>>
         /\ h.board = {} /\ h.scenes = {} /\ h.muxed = {} /\ h.final = {}
BY DEF Heir, Empty, FileShape

LEMMA InheritStep == ASSUME VideoTypes, FilmInv, Inherit PROVE FilmInv'
<1> DEFINE d == Heir(disk[ask.of])
           c == ask.child
<1>1. c \in Jobs /\ ask.of \in Jobs /\ c # ask.of /\ c # hand.job /\ ask.at = "inherit" /\ AskShape(ask)
  BY HandIsBusy DEF Inherit, VideoTypes, FilmInv, AskSo
<1>2. /\ Revising(ask, job[ask.of], disk[ask.of], past[ask.of]) /\ Waiting(job[c]) /\ disk[c] = Empty
      /\ past[c].basis = ask.basis /\ past[c].was = past[ask.of].is
  BY <1>1 DEF FilmInv, AskSo
<1>3. CASE disk[ask.of].video = "none"
  <2>1. ask' = NoAsk /\ UNCHANGED <<job, disk, hand, dying, past>>
    BY <1>3 DEF Inherit
  <2>2. NoAsk.at = "none"
    BY DEF NoAsk
  <2> QED BY <2>1, <2>2 DEF FilmInv, JobsSo, HandSo, DyingSo, AskSo
<1>4. CASE disk[ask.of].video # "none"
  <2>1. disk' = [disk EXCEPT ![c] = d] /\ ask' = [ask EXCEPT !.at = "mark"] /\ UNCHANGED <<job, hand, dying, past>>
    BY <1>4 DEF Inherit
  <2>2. /\ FileShape(d) /\ d.segments = <<>> /\ d.translated = disk[ask.of].translated
        /\ d.rewritten = disk[ask.of].rewritten
        /\ d.base = disk[ask.of].rewritten /\ d.seed = disk[ask.of].over /\ d.tts = disk[ask.of].tts
        /\ d.over = {} /\ d.clips = <<>>
        /\ d.board = {} /\ d.scenes = {} /\ d.muxed = {} /\ d.final = {}
    BY HeirFiles
  <2> HIDE DEF d
  <2>3. /\ disk'[c] = d /\ disk' = [k \in Jobs |-> disk'[k]]
        /\ \A k \in Jobs \ {c} : job'[k] = job[k] /\ disk'[k] = disk[k] /\ past'[k] = past[k]
    BY <1>1, <2>1 DEF FilmInv, JobsSo
  <2>4. d.rewritten = ask.basis /\ Overrides(d.seed) = past[ask.of].is /\ ask.basis # <<>> /\ SomeLines(ask.basis)
    BY <1>2, <1>4, <2>2 DEF Revising
  <2>5. JobSo(job[ask.of], disk[ask.of], past[ask.of]) /\ job[ask.of].mode = "remake"
    BY <1>1, <1>2 DEF FilmInv, JobsSo, Revising
  <2>6. JobSo(job[c], Empty, past[c]) /\ job[c].parent # 0 /\ job[c].done \subseteq Inherited
        /\ job[c].status \in {"running", "gone"}
    BY <1>1, <1>2 DEF FilmInv, JobsSo, Waiting
  <2>7. job[c].mode = "remake" /\ "rewrite" \notin job[c].done /\ "deliver" \notin job[c].done
    BY <2>6 DEF JobSo, RowSo, Inherited
  <2>8. JobSo(job[c], d, past[c])
    <3>1. RowSo(job[c], d, past[c])
      BY <2>2, <2>6 DEF JobSo, RowSo
    <3>2. LinesSo(job[c], d, past[c])
      BY <1>2, <2>2, <2>4, <2>5, <2>7 DEF JobSo, LinesSo
    <3>3. OversSo(job[c], d, past[c])
      BY <2>2, <2>6, <2>7 DEF OversSo
    <3>4. VoicesSo(job[c], d)
      BY <2>2, <2>5, <2>7 DEF JobSo, VoicesSo
    <3>5. StagesSo(job[c], d, past[c])
      BY <2>2, <2>7 DEF StagesSo
    <3> QED BY <3>1, <3>2, <3>3, <3>4, <3>5 DEF JobSo
  <2>9. JobsSo'
    BY <1>1, <2>1, <2>3, <2>8, OneJobStep DEF FilmInv
  <2>10. HandSo'
    BY <1>1, <2>1, <2>3, OthersKept
  <2>11. AskSo'
    <3>1. ask'.at = "mark" /\ ask'.child = c /\ ask'.of = ask.of
      BY <1>1, <2>1 DEF AskShape
    <3> QED BY <1>1, <1>2, <2>1, <3>1 DEF AskSo
  <2> QED BY <2>1, <2>9, <2>10, <2>11 DEF FilmInv, DyingSo
<1> QED BY <1>3, <1>4

LEMMA MarkStep == ASSUME VideoTypes, FilmInv, Mark PROVE FilmInv'
<1> DEFINE c == ask.child
           r == [job[c] EXCEPT !.done = Inherited]
<1>1. c \in Jobs /\ c # ask.of /\ c # hand.job /\ ask.at = "mark" /\ AskShape(ask) /\ Waiting(job[c])
  BY HandIsBusy DEF Mark, VideoTypes, FilmInv, AskSo
<1>2. CASE job[c].status = "gone"
  <2>1. ask' = NoAsk /\ UNCHANGED <<job, disk, hand, dying, past>>
    BY <1>2 DEF Mark
  <2>2. NoAsk.at = "none"
    BY DEF NoAsk
  <2> QED BY <2>1, <2>2 DEF FilmInv, JobsSo, HandSo, DyingSo, AskSo
<1>3. CASE job[c].status # "gone"
  <2>1. job' = [job EXCEPT ![c] = r] /\ ask' = [ask EXCEPT !.at = "queue"] /\ UNCHANGED <<disk, hand, dying, past>>
    BY <1>3 DEF Mark
  <2> DEFINE o == job[c]
  <2>2. o \in Columns /\ r = [o EXCEPT !.done = Inherited]
    BY <1>1 DEF VideoTypes
  <2> HIDE DEF o, r
  <2>3. /\ r.done = Inherited /\ r.status = o.status /\ r.beat = o.beat /\ r.mode = o.mode
        /\ r.parent = o.parent /\ r.plan = o.plan
    BY <2>2 DEF Columns
  <2>4. JobSo(o, disk[c], past[c]) /\ o.parent # 0 /\ o.done \subseteq Inherited /\ o.status = "running"
        /\ o.beat = "null"
    BY <1>1, <1>3 DEF FilmInv, JobsSo, Waiting, o
  <2>5. o.mode = "remake" /\ {"rewrite", "deliver"} \cap o.done = {} /\ {"rewrite", "deliver"} \cap r.done = {}
    BY <2>3, <2>4 DEF JobSo, RowSo, Inherited
  <2>6. JobSo(r, disk[c], past[c])
    <3>a. Lines(r, disk[c]) = Lines(o, disk[c]) /\ Want(r, disk[c], past[c]) = Want(o, disk[c], past[c])
          /\ TextStage(r) = "rewrite" /\ TextStage(o) = "rewrite"
      BY <2>3, <2>5 DEF Lines, Want, Edit, TextStage
    <3>1. RowSo(r, disk[c], past[c])
      BY <2>3, <2>4, <2>5 DEF JobSo, RowSo
    <3>2. LinesSo(r, disk[c], past[c])
      BY <2>3, <2>4, <2>5 DEF JobSo, LinesSo
    <3>3. OversSo(r, disk[c], past[c])
      BY <2>3, <2>4, <2>5 DEF JobSo, OversSo
    <3>4. VoicesSo(r, disk[c])
      BY <2>3, <2>4, <3>a DEF JobSo, VoicesSo
    <3>5. StagesSo(r, disk[c], past[c])
      BY <2>3, <2>4, <2>5, <3>a DEF JobSo, StagesSo
    <3> QED BY <3>1, <3>2, <3>3, <3>4, <3>5 DEF JobSo
  <2>7. /\ job'[c] = r /\ disk' = [k \in Jobs |-> disk'[k]]
        /\ \A k \in Jobs \ {c} : job'[k] = job[k] /\ disk'[k] = disk[k] /\ past'[k] = past[k]
    BY <1>1, <2>1 DEF VideoTypes, FilmInv, JobsSo
  <2>8. JobsSo'
    BY <1>1, <2>1, <2>6, <2>7, OneJobStep DEF FilmInv
  <2>9. HandSo'
    BY <1>1, <2>1, <2>7, OthersKept
  <2>10. AskSo'
    <3>1. ask'.at = "queue" /\ ask'.child = c /\ ask'.of = ask.of
      BY <1>1, <2>1 DEF AskShape
    <3>2. Waiting(r)
      BY <2>3, <2>4 DEF Waiting
    <3> QED BY <1>1, <2>7, <3>1, <3>2 DEF AskSo
  <2>11. DyingSo'
    BY <1>1, <2>1, <2>3, <2>4, <2>7 DEF FilmInv, DyingSo
  <2> QED BY <2>8, <2>9, <2>10, <2>11 DEF FilmInv
<1> QED BY <1>2, <1>3

LEMMA RequeueStep == ASSUME VideoTypes, FilmInv, Requeue \/ ApiDies PROVE FilmInv'
<1> DEFINE c == ask.child
<1>0. NoAsk.at = "none"
  BY DEF NoAsk
<1>1. CASE ApiDies \/ (Requeue /\ job[c].status = "gone")
  <2>1. job' = job
    BY <1>1, HandIsBusy DEF ApiDies, Requeue, VideoTypes
  <2>2. ask' = NoAsk /\ UNCHANGED <<disk, hand, past>> /\ dying' \subseteq dying
    BY <1>1 DEF ApiDies, Requeue
  <2> QED BY <1>0, <2>1, <2>2 DEF FilmInv, JobsSo, HandSo, DyingSo, AskSo
<1>2. CASE Requeue /\ job[c].status # "gone"
  <2>1. c \in Jobs /\ c # hand.job /\ Waiting(job[c]) /\ job[c] \in Columns
    BY <1>2, HandIsBusy DEF Requeue, VideoTypes, FilmInv, AskSo
  <2>2. job' = [job EXCEPT ![c] = Reset(job[c])] /\ ask' = NoAsk /\ UNCHANGED <<disk, hand, dying, past>>
    BY <1>2 DEF Requeue
  <2>3. job'[c] = Reset(job[c]) /\ \A k \in Jobs \ {c} : job'[k] = job[k] /\ past'[k] = past[k]
    BY <2>1, <2>2 DEF VideoTypes
  <2>4. Alike(job'[c], job[c]) /\ Recorded(past'[c], past[c]) /\ job'[c].status = "queued"
    <3>1. Alike(Reset(job[c]), job[c]) /\ Reset(job[c]).status = "queued"
      BY <2>1, RowEdits
    <3>2. Recorded(past'[c], past[c])
      BY <2>2 DEF Recorded
    <3> QED BY <2>3, <3>1, <3>2
  <2>5. job[c].status # "none"
    BY <2>1 DEF Waiting
  <2>6. JobsSo' /\ DyingSo' /\ HandSo'
    BY <2>1, <2>2, <2>3, <2>4, <2>5, RowStep
  <2> QED BY <1>0, <2>2, <2>6 DEF FilmInv, AskSo
<1> QED BY <1>1, <1>2

LEMMA TakeStep == ASSUME VideoTypes, FilmInv, NEW j \in Jobs, Take(j) PROVE FilmInv'
<1>1. /\ job' = [job EXCEPT ![j] = TakenUp(job[j])] /\ job[j].status = "queued" /\ job[j] \in Columns
      /\ hand' = [job |-> j, at |-> "row", stage |-> FirstIncomplete(job[j])]
      /\ UNCHANGED <<disk, ask, dying, past>>
  BY DEF Take, VideoTypes
<1>2. job'[j] = TakenUp(job[j]) /\ \A k \in Jobs \ {j} : job'[k] = job[k] /\ past'[k] = past[k]
  BY <1>1 DEF VideoTypes
<1>3. Alike(job'[j], job[j]) /\ job'[j].status = "running" /\ job'[j].beat = "fresh"
  <2>1. Alike(TakenUp(job[j]), job[j]) /\ TakenUp(job[j]).status = "running" /\ TakenUp(job[j]).beat = "fresh"
    BY <1>1, RowEdits
  <2> QED BY <1>2, <2>1
<1>4. Recorded(past'[j], past[j])
  BY <1>1 DEF Recorded
<1>5. ask.at \in {"inherit", "mark", "queue"} => j # ask.child
  BY <1>1 DEF FilmInv, AskSo, Waiting
<1>6. JobsSo' /\ DyingSo' /\ AskSo'
  BY <1>1, <1>2, <1>3, <1>4, <1>5, RowStep
<1>7. HandSo'
  <2>1. hand'.job = j /\ hand'.at = "row" /\ hand'.stage = FirstIncomplete(job[j])
    BY <1>1
  <2>2. FirstIncomplete(job'[j]) = FirstIncomplete(job[j])
    BY <1>3, <1>4, AlikeTexts
  <2>3. Held(hand', job'[j], disk'[j], past'[j])
    BY <1>3, <2>1, <2>2 DEF Held
  <2> QED BY <2>1, <2>3 DEF HandSo
<1> QED BY <1>6, <1>7 DEF FilmInv

(* The hand lets its job go, whose row and history it has written. *)
LEMMA LetGoStep ==
  ASSUME VideoTypes, FilmInv, hand # Idle, hand' = Idle, UNCHANGED <<disk, ask, dying>>,
         NEW s \in {"running", "failed", "completed", "gone", "queued"},
         s = "completed" => AllDone(job[hand.job]),
         job' = [job EXCEPT ![hand.job].status = s],
         \/ UNCHANGED past
         \/ past' = [past EXCEPT ![hand.job].troubled = TRUE]
         \/ past' = [past EXCEPT ![hand.job].lost = @ + 1]
  PROVE  FilmInv'
<1> DEFINE j == hand.job
           q == [job[j] EXCEPT !.status = s]
<1>1. j \in Jobs /\ job[j] \in Columns /\ job[j].status \in {"running", "gone"}
  BY HandIsBusy DEF VideoTypes
<1>2. job' = [job EXCEPT ![j] = q]
  OBVIOUS
<1>3. Alike(q, job[j]) /\ q.status = s
  <2> DEFINE old == job[j]
  <2>1. old \in Columns
    BY <1>1
  <2> HIDE DEF old
  <2>2. LET new == [old EXCEPT !.status = s] IN Alike(new, old) /\ new.status = s
    BY <2>1 DEF Columns, Alike
  <2> QED BY <2>2 DEF old
<1> HIDE DEF q
<1>4. job'[j] = q /\ \A k \in Jobs \ {j} : job'[k] = job[k] /\ past'[k] = past[k]
  BY <1>1, <1>2 DEF VideoTypes
<1>5. Recorded(past'[j], past[j])
  <2> DEFINE p == past[j]
  <2>1. PastShape(p)
    BY <1>1 DEF VideoTypes
  <2>2. past'[j] \in {p, [p EXCEPT !.troubled = TRUE], [p EXCEPT !.lost = @ + 1]}
    BY <1>1 DEF VideoTypes
  <2> HIDE DEF p
  <2>3. Recorded(p, p) /\ Recorded([p EXCEPT !.troubled = TRUE], p) /\ Recorded([p EXCEPT !.lost = @ + 1], p)
    BY <2>1 DEF PastShape, Recorded
  <2> QED BY <2>2, <2>3 DEF p
<1>6. ask.at \in {"inherit", "mark", "queue"} => j # ask.child
  BY HandIsBusy
<1> HIDE DEF j
<1>7. JobsSo' /\ DyingSo' /\ AskSo'
  BY <1>1, <1>3, <1>4, <1>5, <1>6, RowStep DEF j
<1> QED BY <1>7 DEF FilmInv, HandSo

LEMMA RaiseStep == ASSUME VideoTypes, FilmInv, Raise \/ Finish \/ WorkerDies PROVE FilmInv'
<1>1. hand # Idle /\ hand' = Idle /\ UNCHANGED <<disk, ask, dying>>
  BY DEF Raise, Finish, WorkerDies, Lets, Fails, At, Idle
<1>2. hand.job \in Jobs /\ job[hand.job] \in Columns /\ job[hand.job].status \in {"running", "gone"}
  BY <1>1, HandIsBusy DEF VideoTypes
<1>3. job' \in {[job EXCEPT ![hand.job].status = s] : s \in {"running", "gone"}} \/ ~WorkerDies
  <2> DEFINE s == job[hand.job].status
  <2>1. job = [job EXCEPT ![hand.job].status = s]
    <3> DEFINE r == job[hand.job]
    <3>1. r = [r EXCEPT !.status = s]
      BY <1>2 DEF Columns
    <3>2. [job EXCEPT ![hand.job] = r] = job
      BY <1>2 DEF VideoTypes
    <3> QED BY <3>1, <3>2
  <2> HIDE DEF s
  <2>2. WorkerDies => job' = [job EXCEPT ![hand.job].status = s]
    BY <2>1 DEF WorkerDies
  <2> QED BY <1>2, <2>2 DEF s
<1>4. CASE WorkerDies
  <2>1. PICK s \in {"running", "gone"} : job' = [job EXCEPT ![hand.job].status = s]
    BY <1>3, <1>4
  <2>2. past' = [past EXCEPT ![hand.job].lost = @ + 1]
    BY <1>4 DEF WorkerDies
  <2> QED BY <1>1, <2>1, <2>2, LetGoStep
<1>5. CASE Raise
  <2>1. PICK s \in {"gone", "failed"} : job' = [job EXCEPT ![hand.job].status = s]
    BY <1>5 DEF Raise, Fails
  <2>2. UNCHANGED past \/ past' = [past EXCEPT ![hand.job].troubled = TRUE]
    BY <1>5 DEF Raise
  <2> QED BY <1>1, <2>1, <2>2, LetGoStep
<1>6. CASE Finish
  <2>1. PICK s \in {"gone", "completed"} : job' = [job EXCEPT ![hand.job].status = s]
    BY <1>6 DEF Finish
  <2>2. UNCHANGED past /\ AllDone(job[hand.job])
    BY <1>1, <1>6 DEF Finish, At, FilmInv, HandSo, Held
  <2> QED BY <1>1, <2>1, <2>2, LetGoStep
<1> QED BY <1>4, <1>5, <1>6

LEMMA EnterStep == ASSUME VideoTypes, FilmInv, Enter PROVE FilmInv'
<1> DEFINE j == hand.job
<1>1. hand # Idle /\ hand.at = "row" /\ UNCHANGED <<disk, ask, dying, past>>
  BY DEF Enter, At, Idle
<1>2. j \in Jobs /\ job[j] \in Columns /\ job[j].status \in {"running", "gone"} /\ hand \in Hands
      /\ Held(hand, job[j], disk[j], past[j])
  BY <1>1, HandIsBusy DEF VideoTypes, FilmInv, HandSo
<1>3. CASE job[j].status \in Terminal \cup {"gone"}
  <2>1. hand' = Idle /\ UNCHANGED job
    BY <1>3 DEF Enter, Mine, Lets
  <2> QED BY <1>1, <2>1 DEF FilmInv, JobsSo, HandSo, DyingSo, AskSo
<1>4. CASE job[j].status \notin Terminal \cup {"gone"}
  <2>1. hand' = [hand EXCEPT !.at = "work"] /\ job' = [job EXCEPT ![j] = TakenUp(job[j])]
    BY <1>4 DEF Enter, Mine, Goes, TakenUp
  <2>2. job'[j] = TakenUp(job[j]) /\ \A k \in Jobs \ {j} : job'[k] = job[k] /\ past'[k] = past[k]
    BY <1>1, <1>2, <2>1 DEF VideoTypes
  <2>3. Alike(job'[j], job[j]) /\ job'[j].status = "running" /\ job'[j].beat = "fresh"
    <3>1. Alike(TakenUp(job[j]), job[j]) /\ TakenUp(job[j]).status = "running" /\ TakenUp(job[j]).beat = "fresh"
      BY <1>2, RowEdits
    <3> QED BY <2>2, <3>1
  <2>4. Recorded(past'[j], past[j])
    BY <1>1 DEF Recorded
  <2>5. ask.at \in {"inherit", "mark", "queue"} => j # ask.child
    BY HandIsBusy
  <2>6. JobsSo' /\ DyingSo' /\ AskSo'
    BY <1>1, <1>2, <2>2, <2>3, <2>4, <2>5, RowStep
  <2>7. HandSo'
    <3>1. hand'.job = j /\ hand'.at = "work" /\ hand'.stage = hand.stage
      BY <1>2, <2>1 DEF Hands
    <3>2. FirstIncomplete(job'[j]) = FirstIncomplete(job[j])
      BY <2>3, <2>4, AlikeTexts
    <3>3. Held(hand', job'[j], disk'[j], past'[j])
      BY <1>1, <1>2, <2>3, <3>1, <3>2 DEF Held
    <3> QED BY <3>1, <3>3 DEF HandSo
  <2> QED BY <2>6, <2>7 DEF FilmInv
<1> QED BY <1>3, <1>4

(* A stage that is done is one more reason to trust its files. *)
LEMMA StageDone ==
  ASSUME NEW r \in Columns, NEW d, NEW p, JobSo(r, d, p), r.status = "running",
         NEW s, s = FirstIncomplete(r), MadeSo(s, r, d, p),
         NEW q, q.mode = r.mode, q.parent = r.parent, q.plan = r.plan, q.status = "running",
         q.done = r.done \cup {s}
  PROVE  JobSo(q, d, p) /\ (s = "deliver" => AllDone(q))
<1>1. r.mode \in {"remake", "transport"}
  BY DEF JobSo, RowSo
<1>2. /\ Lines(q, d) = Lines(r, d) /\ Edit(q, p) = Edit(r, p) /\ Want(q, d, p) = Want(r, d, p)
      /\ TextStage(q) = TextStage(r) /\ Order(q.mode) = Order(r.mode)
  BY DEF Lines, Edit, Want, TextStage
<1>3. s = "deliver" => AllDone(q)
  BY <1>1, <1>2, StageOrder DEF AllDone
<1>4. AllDone(r) => AllDone(q)
  BY <1>2 DEF AllDone
<1>5. RowSo(q, d, p)
  BY <1>3, <1>4 DEF JobSo, RowSo
<1>6. s = "rewrite" => r.mode = "remake" /\ s \notin r.done
  BY <1>1, StageOrder
<1>7. LinesSo(q, d, p)
  BY <1>2, <1>6 DEF JobSo, LinesSo, MadeSo
<1>8. OversSo(q, d, p)
  <2>1. s = "rewrite" /\ r.parent = 0 => Overrides(d.over) = p.is
    BY <1>6 DEF JobSo, OversSo, Overrides
  <2> QED BY <1>6, <2>1 DEF JobSo, OversSo, MadeSo
<1>9. VoicesSo(q, d)
  BY <1>2 DEF JobSo, VoicesSo
<1>10. StagesSo(q, d, p)
  BY <1>2 DEF JobSo, StagesSo, MadeSo
<1> QED BY <1>3, <1>5, <1>7, <1>8, <1>9, <1>10 DEF JobSo

LEMMA DoneStep == ASSUME VideoTypes, FilmInv, Done PROVE FilmInv'
<1> DEFINE j == hand.job
<1>1. hand # Idle /\ hand.at = "made" /\ UNCHANGED <<disk, ask, dying, past>>
  BY DEF Done, At, Idle
<1>2. /\ j \in Jobs /\ job[j] \in Columns /\ job[j].status \in {"running", "gone"} /\ hand \in Hands
      /\ hand.stage = FirstIncomplete(job[j]) /\ MadeSo(hand.stage, job[j], disk[j], past[j])
      /\ JobSo(job[j], disk[j], past[j])
  BY <1>1, HandIsBusy DEF VideoTypes, FilmInv, HandSo, JobsSo, Held
<1>3. CASE job[j].status = "gone"
  <2>1. hand' = Idle /\ UNCHANGED job
    BY <1>3 DEF Done, Mine, Lets
  <2> QED BY <1>1, <2>1 DEF FilmInv, JobsSo, HandSo, DyingSo, AskSo
<1>4. CASE job[j].status # "gone"
  <2> DEFINE old == job[j]
             q == [old EXCEPT !.done = old.done \cup {hand.stage}, !.beat = "fresh"]
  <2>1. /\ job' = [job EXCEPT ![j] = q]
        /\ IF hand.stage = "deliver" THEN hand' = [hand EXCEPT !.at = "end"]
           ELSE hand' = [hand EXCEPT !.at = "row", !.stage = FirstIncomplete(q)]
    BY <1>4 DEF Done, Mine, Goes
  <2>2. old \in Columns /\ old.status = "running"
    BY <1>2, <1>4
  <2> HIDE DEF old
  <2>3. /\ q.mode = old.mode /\ q.parent = old.parent /\ q.plan = old.plan /\ q.status = "running"
        /\ q.beat = "fresh" /\ q.done = old.done \cup {hand.stage}
    BY <2>2 DEF Columns
  <2> HIDE DEF q
  <2>4. JobSo(q, disk[j], past[j]) /\ (hand.stage = "deliver" => AllDone(q))
    BY <1>2, <2>2, <2>3, StageDone DEF old
  <2>5. /\ job'[j] = q /\ disk' = [k \in Jobs |-> disk'[k]]
        /\ \A k \in Jobs \ {j} : job'[k] = job[k] /\ disk'[k] = disk[k] /\ past'[k] = past[k]
    BY <1>1, <1>2, <2>1 DEF VideoTypes, FilmInv, JobsSo
  <2>6. JobsSo'
    BY <1>1, <1>2, <2>4, <2>5, OneJobStep DEF FilmInv
  <2>7. DyingSo'
    BY <1>1, <2>3, <2>5 DEF FilmInv, DyingSo
  <2>8. AskSo'
    <3>1. ask.at \in {"spawn", "inherit"} => Revising(ask, job'[ask.of], disk[ask.of], past[ask.of])
      <4> SUFFICES ASSUME ask.at \in {"spawn", "inherit"}
                   PROVE  Revising(ask, job'[ask.of], disk[ask.of], past[ask.of])
        OBVIOUS
      <4>1. ask.of \in Jobs /\ Revising(ask, job[ask.of], disk[ask.of], past[ask.of])
        BY DEF VideoTypes, FilmInv, AskSo
      <4>2. CASE ask.of # j
        BY <2>5, <4>1, <4>2
      <4>3. CASE ask.of = j
        <5>1. AllDone(old) => AllDone(q)
          BY <2>3 DEF AllDone
        <5> QED BY <2>3, <2>5, <4>1, <4>3, <5>1 DEF Revising, old
      <4> QED BY <4>2, <4>3
    <3>2. ask.at \in {"inherit", "mark", "queue"} => ask.child \in Jobs /\ ask.child # j
      BY HandIsBusy
    <3> QED BY <1>1, <2>5, <3>1, <3>2 DEF FilmInv, AskSo
  <2>9. HandSo'
    <3>1. hand'.job = j /\ (hand'.at = "end" \/ (hand'.at = "row" /\ hand'.stage = FirstIncomplete(q)))
          /\ (hand'.at = "end" => hand.stage = "deliver")
      BY <1>2, <2>1 DEF Hands
    <3>2. Held(hand', q, disk'[j], past'[j])
      BY <2>3, <2>4, <3>1 DEF Held
    <3> QED BY <2>5, <3>1, <3>2 DEF HandSo
  <2> QED BY <2>6, <2>7, <2>8, <2>9 DEF FilmInv
<1> QED BY <1>3, <1>4

LEMMA ReadyFiles ==
  ASSUME NEW s, NEW r, NEW d
  PROVE  /\ s = "translate" => (Ready(s, r, d) <=> d.segments # <<>>)
         /\ s = "rewrite" => (Ready(s, r, d) <=> IF r.parent # 0 THEN d.base # <<>> \/ d.rewritten # <<>>
                                                 ELSE d.translated # <<>> /\ d.facts # "none")
         /\ s = "dub" => (Ready(s, r, d) <=> Lines(r, d) # <<>>)
         /\ s = "storyboard" => (Ready(s, r, d) <=> d.rewritten # <<>> /\ d.facts # "none" /\ d.clips # <<>>)
         /\ s = "render" => (Ready(s, r, d) <=> d.board # {})
         /\ s = "compose" => (Ready(s, r, d) <=> d.board # {} /\ d.scenes # {} /\ d.rewritten # <<>>)
         /\ s = "mux" => (Ready(s, r, d) <=> d.translated # <<>> /\ d.video # "none" /\ d.clips # <<>>)
         /\ s = "deliver" => (Ready(s, r, d) <=> Lines(r, d) # <<>> /\ d.muxed # {})
<1>1. s = "translate" => (Ready(s, r, d) <=> d.segments # <<>>)
  BY Zenon DEF Ready
<1>2. s = "rewrite" => (Ready(s, r, d) <=> IF r.parent # 0 THEN d.base # <<>> \/ d.rewritten # <<>>
                                                 ELSE d.translated # <<>> /\ d.facts # "none")
  BY Zenon DEF Ready
<1>3. s = "dub" => (Ready(s, r, d) <=> Lines(r, d) # <<>>)
  BY Zenon DEF Ready
<1>4. s = "storyboard" => (Ready(s, r, d) <=> d.rewritten # <<>> /\ d.facts # "none" /\ d.clips # <<>>)
  BY Zenon DEF Ready
<1>5. s = "render" => (Ready(s, r, d) <=> d.board # {})
  BY Zenon DEF Ready
<1>6. s = "compose" => (Ready(s, r, d) <=> d.board # {} /\ d.scenes # {} /\ d.rewritten # <<>>)
  BY Zenon DEF Ready
<1>7. s = "mux" => (Ready(s, r, d) <=> d.translated # <<>> /\ d.video # "none" /\ d.clips # <<>>)
  BY Zenon DEF Ready
<1>8. s = "deliver" => (Ready(s, r, d) <=> Lines(r, d) # <<>> /\ d.muxed # {})
  BY Zenon DEF Ready
<1> QED BY <1>1, <1>2, <1>3, <1>4, <1>5, <1>6, <1>7, <1>8

(* A stage at hand of a job that is sound. *)
AtStage(s, r, d, p) ==
  /\ r \in Columns /\ r.status # "none" /\ JobSo(r, d, p) /\ s = FirstIncomplete(r)

LEMMA StageFacts ==
  ASSUME NEW s, NEW r, NEW d, NEW p, AtStage(s, r, d, p)
  PROVE  /\ FileShape(d) /\ r.mode \in {"remake", "transport"} /\ (r.parent # 0 => r.mode = "remake")
         /\ SomeLines(Lines(r, d)) /\ SomeLines(d.rewritten) /\ SomeLines(d.translated)
         /\ r.mode = "remake" \/ Lines(r, d) = <<>> \/ SourceText(Lines(r, d))
         /\ Retimed(Want(r, d, p)) = Want(r, d, p)
         /\ r.parent # 0 => SomeLines(Edit(r, p))
         /\ s \in {"analyze", "rewrite", "storyboard", "render", "compose"} => r.mode = "remake"
         /\ s = "mux" => r.mode = "transport"
         /\ s # "deliver" => s \notin r.done /\ "deliver" \notin r.done
         /\ s \in Dubbing => TextStage(r) \in r.done
<1>0. r \in Columns /\ r.status # "none" /\ JobSo(r, d, p) /\ s = FirstIncomplete(r)
  BY DEF AtStage
<1>1. FileShape(d) /\ r.mode \in {"remake", "transport"} /\ (r.parent # 0 => r.mode = "remake")
  BY <1>0 DEF JobSo, RowSo
<1>2. SomeLines(d.rewritten) /\ SomeLines(d.translated)
  BY <1>0, SourceLines DEF JobSo, LinesSo
<1>3. SomeLines(Lines(r, d)) /\ (r.mode = "remake" \/ Lines(r, d) = <<>> \/ SourceText(Lines(r, d)))
  BY <1>0, <1>1, <1>2, SourceLines DEF JobSo, LinesSo, Lines
<1>4. r.parent # 0 => SomeLines(Edit(r, p))
  <2>1. r.plan \in Scripts
    BY <1>0 DEF Columns
  <2> QED BY <1>0, <2>1, RevisedLines DEF JobSo, RowSo, Edit
<1>5. Retimed(Want(r, d, p)) = Want(r, d, p)
  BY <1>3, <1>4, RetimedAgain DEF Want
<1>6. AllDone(r) => s = "deliver"
  BY <1>0, <1>1, StageOrder
<1>7. "deliver" \in r.done => AllDone(r)
  BY <1>0 DEF JobSo, RowSo
<1>8. /\ s \in {"analyze", "rewrite", "storyboard", "render", "compose"} => r.mode = "remake"
      /\ s = "mux" => r.mode = "transport"
      /\ s # "deliver" => s \notin r.done /\ "deliver" \notin r.done
      /\ s \in Dubbing => TextStage(r) \in r.done
  BY <1>0, <1>1, <1>6, <1>7, StageOrder
<1> QED BY <1>1, <1>2, <1>3, <1>4, <1>5, <1>8

(* The first half of the stages that write two files. *)
LEMMA DubBegins ==
  ASSUME NEW r, NEW d, NEW p, AtStage("dub", r, d, p), Ready("dub", r, d)
  PROVE  JobSo(r, Begun("dub", r, d), p) /\ HalfSo("dub", r, Begun("dub", r, d), p)
<1> DEFINE tts == Synthesized(r.mode, Lines(r, d), d.tts)
           e == [d EXCEPT !.tts = tts]
<1>b. Begun("dub", r, d) = e
  BY Zenon DEF Begun
<1>0. JobSo(r, d, p) /\ Lines(r, d) # <<>>
  BY ReadyFiles DEF AtStage
<1>1. /\ FileShape(d) /\ (r.mode = "remake" \/ SourceText(Lines(r, d)))
  BY <1>0, StageFacts
<1>2. /\ d.tts \subseteq tts /\ Voices(r.mode, tts) /\ Voiced(r.mode, Lines(r, d), tts)
  BY <1>0, <1>1, SynthesisVoices DEF JobSo, VoicesSo
<1> HIDE DEF tts
<1>3. Same(e, d, {"tts"}) /\ e.tts = tts
  BY <1>1 DEF FileShape, Same, Fields
<1> HIDE DEF e
<1>4. /\ FileShape(e) /\ e.segments = d.segments /\ e.translated = d.translated /\ e.rewritten = d.rewritten
      /\ e.base = d.base /\ e.seed = d.seed /\ e.over = d.over /\ e.clips = d.clips /\ e.board = d.board
      /\ e.scenes = d.scenes /\ e.muxed = d.muxed /\ e.final = d.final /\ e.subs = d.subs
  BY <1>3 DEF Same, Fields
<1>5. Lines(r, e) = Lines(r, d) /\ Want(r, e, p) = Want(r, d, p)
  BY <1>4 DEF Lines, Want
<1>6. JobSo(r, e, p)
  <2>1. RowSo(r, e, p)
    BY <1>0, <1>4 DEF AtStage, JobSo, RowSo
  <2>2. LinesSo(r, e, p) /\ OversSo(r, e, p)
    BY <1>0, <1>4 DEF JobSo, LinesSo, OversSo
  <2>3. VoicesSo(r, e)
    BY <1>0, <1>2, <1>3, <1>4, <1>5 DEF JobSo, VoicesSo
  <2>4. StagesSo(r, e, p)
    BY <1>0, <1>4, <1>5 DEF JobSo, StagesSo
  <2> QED BY <2>1, <2>2, <2>3, <2>4 DEF JobSo
<1>7. HalfSo("dub", r, e, p)
  BY <1>0, <1>2, <1>3, <1>5, ReadyFiles DEF HalfSo
<1> QED BY <1>b, <1>6, <1>7

LEMMA StoryboardBegins ==
  ASSUME NEW r, NEW d, NEW p, AtStage("storyboard", r, d, p), Ready("storyboard", r, d)
  PROVE  JobSo(r, Begun("storyboard", r, d), p) /\ HalfSo("storyboard", r, Begun("storyboard", r, d), p)
<1> DEFINE lines == Retimed(d.rewritten)
           e == [d EXCEPT !.rewritten = lines]
<1>b. Begun("storyboard", r, d) = e
  BY Zenon DEF Begun
<1>0. JobSo(r, d, p) /\ d.rewritten # <<>> /\ d.facts # "none" /\ d.clips # <<>>
  BY ReadyFiles DEF AtStage
<1>1. /\ FileShape(d) /\ r.mode = "remake" /\ SomeLines(d.rewritten) /\ (r.parent # 0 => SomeLines(Edit(r, p)))
      /\ "rewrite" \in r.done
  BY StageFacts DEF Dubbing, TextStage
<1>2. SomeLines(lines) /\ Retimed(lines) = lines /\ lines # <<>>
  BY <1>0, <1>1, RetimedAgain
<1>a. ClipNames(r.mode, lines) = ClipNames(r.mode, d.rewritten)
      /\ (Voiced(r.mode, d.rewritten, d.tts) => Voiced(r.mode, lines, d.tts))
  BY <1>1, RetimedVoices
<1>3. lines = Want(r, d, p) /\ (r.parent # 0 => lines = Retimed(Edit(r, p)))
  <2>1. r.parent # 0 => d.rewritten \in {Edit(r, p), Retimed(Edit(r, p))}
    BY <1>0, <1>1 DEF JobSo, LinesSo
  <2>2. r.parent # 0 => lines = Retimed(Edit(r, p))
    BY <1>1, <2>1, RetimedAgain
  <2> QED BY <1>1, <2>2 DEF Want, Lines
<1> HIDE DEF lines
<1>4. Same(e, d, {"rewritten"}) /\ e.rewritten = lines
  BY <1>1 DEF FileShape, Same, Fields
<1> HIDE DEF e
<1>5. /\ FileShape(e) /\ e.segments = d.segments /\ e.translated = d.translated /\ e.facts = d.facts
      /\ e.base = d.base /\ e.seed = d.seed /\ e.over = d.over /\ e.clips = d.clips /\ e.board = d.board
      /\ e.scenes = d.scenes /\ e.muxed = d.muxed /\ e.final = d.final /\ e.subs = d.subs /\ e.tts = d.tts
  BY <1>4 DEF Same, Fields
<1>6. Lines(r, e) = lines /\ Want(r, e, p) = lines /\ Lines(r, d) = d.rewritten
  BY <1>1, <1>2, <1>3, <1>4 DEF Lines, Want
<1>7. JobSo(r, e, p)
  <2>1. RowSo(r, e, p)
    BY <1>0, <1>5 DEF AtStage, JobSo, RowSo
  <2>2. LinesSo(r, e, p)
    BY <1>0, <1>1, <1>2, <1>3, <1>4, <1>5 DEF JobSo, LinesSo
  <2>3. OversSo(r, e, p)
    BY <1>0, <1>1, <1>5 DEF JobSo, OversSo
  <2>4. VoicesSo(r, e)
    BY <1>0, <1>a, <1>5, <1>6 DEF JobSo, VoicesSo
  <2>5. StagesSo(r, e, p)
    BY <1>0, <1>3, <1>4, <1>5, <1>6 DEF JobSo, StagesSo
  <2> QED BY <2>1, <2>2, <2>3, <2>4, <2>5 DEF JobSo
<1>8. HalfSo("storyboard", r, e, p)
  BY <1>0, <1>2, <1>4, <1>5, <1>6, ReadyFiles DEF HalfSo
<1> QED BY <1>b, <1>7, <1>8

LEMMA RewriteBegins ==
  ASSUME NEW r, NEW d, NEW p, AtStage("rewrite", r, d, p), Ready("rewrite", r, d), r.parent # 0
  PROVE  JobSo(r, Begun("rewrite", r, d), p) /\ HalfSo("rewrite", r, Begun("rewrite", r, d), p)
<1> DEFINE lines == Revision(r, d)
           e == [d EXCEPT !.rewritten = lines]
<1>b. Begun("rewrite", r, d) = e
  BY Zenon DEF Begun
<1>0. JobSo(r, d, p) /\ (d.base # <<>> \/ d.rewritten # <<>>)
  BY ReadyFiles DEF AtStage
<1>1. /\ FileShape(d) /\ r.mode = "remake" /\ SomeLines(Edit(r, p)) /\ "rewrite" \notin r.done
      /\ "deliver" \notin r.done
  BY StageFacts
<1>2. d.base = p.basis /\ d.base # <<>> /\ Overrides(d.seed) = p.was
  BY <1>0 DEF JobSo, LinesSo
<1>3. lines = Edit(r, p)
  BY <1>2 DEF Revision, Base, Edit
<1> HIDE DEF lines
<1>4. Same(e, d, {"rewritten"}) /\ e.rewritten = lines
  BY <1>1 DEF FileShape, Same, Fields
<1> HIDE DEF e
<1>5. /\ FileShape(e) /\ e.segments = d.segments /\ e.translated = d.translated
      /\ e.base = d.base /\ e.seed = d.seed /\ e.over = d.over /\ e.clips = d.clips /\ e.board = d.board
      /\ e.scenes = d.scenes /\ e.muxed = d.muxed /\ e.final = d.final /\ e.tts = d.tts
  BY <1>4 DEF Same, Fields
<1>6. /\ d.clips = <<>> /\ d.board = {} /\ d.scenes = {} /\ d.muxed = {} /\ d.final = {}
  BY <1>0, <1>1 DEF JobSo, StagesSo, TextStage
<1>7. JobSo(r, e, p)
  <2>1. RowSo(r, e, p)
    BY <1>0, <1>5 DEF AtStage, JobSo, RowSo
  <2>2. LinesSo(r, e, p)
    BY <1>0, <1>1, <1>2, <1>3, <1>4, <1>5 DEF JobSo, LinesSo
  <2>3. OversSo(r, e, p)
    BY <1>1, <1>5, <1>6 DEF OversSo
  <2>4. VoicesSo(r, e)
    BY <1>0, <1>5, <1>6 DEF JobSo, VoicesSo
  <2>5. StagesSo(r, e, p)
    BY <1>1, <1>5, <1>6 DEF StagesSo
  <2> QED BY <2>1, <2>2, <2>3, <2>4, <2>5 DEF JobSo
<1>8. HalfSo("rewrite", r, e, p)
  BY <1>2, <1>3, <1>4, <1>5, ReadyFiles DEF HalfSo
<1> QED BY <1>b, <1>7, <1>8

LEMMA DeliverBegins ==
  ASSUME NEW r, NEW d, NEW p, AtStage("deliver", r, d, p), Ready("deliver", r, d)
  PROVE  LET e == Begun("deliver", r, d) IN
         /\ JobSo(r, e, p) /\ HalfSo("deliver", r, e, p)
         /\ e.video = d.video /\ e.rewritten = d.rewritten /\ e.over = d.over
<1> DEFINE e == [d EXCEPT !.final = d.muxed, !.muxed = {}]
<1>b. Begun("deliver", r, d) = e
  BY Zenon DEF Begun
<1>0. JobSo(r, d, p) /\ d.muxed # {}
  BY ReadyFiles DEF AtStage
<1>1. FileShape(d) /\ TextStage(r) \in r.done
  BY StageFacts DEF Dubbing
<1>2. "deliver" \notin r.done
  BY <1>0 DEF JobSo, StagesSo
<1>4. Same(e, d, {"final", "muxed"}) /\ e.final = d.muxed /\ e.muxed = {}
  BY <1>1 DEF FileShape, Same, Fields
<1> HIDE DEF e
<1>5. /\ FileShape(e) /\ e.video = d.video /\ e.segments = d.segments /\ e.translated = d.translated
      /\ e.rewritten = d.rewritten
      /\ e.base = d.base /\ e.seed = d.seed /\ e.over = d.over /\ e.clips = d.clips /\ e.board = d.board
      /\ e.scenes = d.scenes /\ e.tts = d.tts /\ e.subs = d.subs
  BY <1>4 DEF Same, Fields
<1>6. Lines(r, e) = Lines(r, d) /\ Want(r, e, p) = Want(r, d, p)
  BY <1>5 DEF Lines, Want
<1>7. JobSo(r, e, p)
  <2>1. RowSo(r, e, p)
    BY <1>0, <1>5 DEF AtStage, JobSo, RowSo
  <2>2. LinesSo(r, e, p) /\ OversSo(r, e, p)
    BY <1>0, <1>5 DEF JobSo, LinesSo, OversSo
  <2>4. VoicesSo(r, e)
    BY <1>0, <1>5, <1>6 DEF JobSo, VoicesSo
  <2>5. StagesSo(r, e, p)
    BY <1>0, <1>1, <1>2, <1>4, <1>5, <1>6 DEF JobSo, StagesSo
  <2> QED BY <2>1, <2>2, <2>4, <2>5 DEF JobSo
<1>8. HalfSo("deliver", r, e, p)
  BY <1>0, <1>4 DEF HalfSo
<1> QED BY <1>b, <1>5, <1>7, <1>8

LEMMA StageBegins ==
  ASSUME NEW s, NEW r, NEW d, NEW p, AtStage(s, r, d, p), Ready(s, r, d)
  PROVE  LET e == Begun(s, r, d) IN
         /\ JobSo(r, e, p) /\ HalfSo(s, r, e, p)
         /\ s = "deliver" => e.video = d.video /\ e.rewritten = d.rewritten /\ e.over = d.over
<1>1. CASE s \in {"dub", "storyboard", "deliver"} \/ (s = "rewrite" /\ r.parent # 0)
  BY <1>1, DubBegins, StoryboardBegins, RewriteBegins, DeliverBegins
<1>2. CASE ~(s \in {"dub", "storyboard", "deliver"} \/ (s = "rewrite" /\ r.parent # 0))
  <2>1. Begun(s, r, d) = d
    BY <1>2, Zenon DEF Begun
  <2>2. JobSo(r, d, p)
    BY DEF AtStage
  <2>3. HalfSo(s, r, d, p)
    BY <1>2 DEF HalfSo
  <2> QED BY <1>2, <2>1, <2>2, <2>3
<1> QED BY <1>1, <1>2

(* Files that the properties do not tell apart are written, or read lines once more. *)
LEMMA SourcesEnd ==
  ASSUME NEW s, NEW r, NEW d, NEW p, AtStage(s, r, d, p), NEW e,
         \/ \E x : e = [d EXCEPT !.video = x]
         \/ \E x : e = [d EXCEPT !.facts = x]
         \/ e = [d EXCEPT !.segments = Source]
  PROVE  JobSo(r, e, p)
<1>0. JobSo(r, d, p) /\ FileShape(d)
  BY StageFacts DEF AtStage
<1>1. /\ FileShape(e) /\ e.translated = d.translated /\ e.rewritten = d.rewritten
      /\ e.base = d.base /\ e.seed = d.seed /\ e.over = d.over /\ e.clips = d.clips /\ e.board = d.board
      /\ e.scenes = d.scenes /\ e.muxed = d.muxed /\ e.final = d.final /\ e.subs = d.subs /\ e.tts = d.tts
      /\ e.segments \in {d.segments, Source}
  <2>1. ASSUME NEW x, e = [d EXCEPT !.video = x] PROVE Same(e, d, {"video"})
    BY <1>0, <2>1 DEF FileShape, Same, Fields
  <2>2. ASSUME NEW x, e = [d EXCEPT !.facts = x] PROVE Same(e, d, {"facts"})
    BY <1>0, <2>2 DEF FileShape, Same, Fields
  <2>3. ASSUME e = [d EXCEPT !.segments = Source] PROVE Same(e, d, {"segments"}) /\ e.segments = Source
    <3> DEFINE src == Source
    <3> HIDE DEF src
    <3>1. e = [d EXCEPT !.segments = src]
      BY <2>3 DEF src
    <3>2. Same(e, d, {"segments"}) /\ e.segments = src
      BY <1>0, <3>1 DEF FileShape, Same, Fields
    <3> QED BY <3>2 DEF src
  <2> QED BY <2>1, <2>2, <2>3 DEF Same, Fields
<1>2. Lines(r, e) = Lines(r, d) /\ Want(r, e, p) = Want(r, d, p)
  BY <1>1 DEF Lines, Want
<1>3. RowSo(r, e, p)
  BY <1>0, <1>1 DEF AtStage, JobSo, RowSo
<1>4. LinesSo(r, e, p) /\ OversSo(r, e, p)
  BY <1>0, <1>1 DEF JobSo, LinesSo, OversSo
<1>5. VoicesSo(r, e)
  BY <1>0, <1>1, <1>2 DEF JobSo, VoicesSo
<1>6. StagesSo(r, e, p)
  BY <1>0, <1>1, <1>2 DEF JobSo, StagesSo
<1> QED BY <1>3, <1>4, <1>5, <1>6 DEF JobSo

LEMMA TranslateEnds ==
  ASSUME NEW r, NEW d, NEW p, AtStage("translate", r, d, p), HalfSo("translate", r, d, p),
         NEW e \in Ended("translate", r, d)
  PROVE  JobSo(r, e, p)
<1>0. JobSo(r, d, p) /\ FileShape(d) /\ "translate" \notin r.done /\ d.segments # <<>>
  BY StageFacts, ReadyFiles DEF AtStage, HalfSo
<1>1. d.segments = Source
  BY <1>0 DEF JobSo, LinesSo
<1>2. Ended("translate", r, d) = {[d EXCEPT !.translated = d.segments]}
  BY Zenon DEF Ended
<1>3. Same(e, d, {"translated"}) /\ e.translated = d.segments
  BY <1>0, <1>2 DEF FileShape, Same, Fields
<1>4. /\ FileShape(e) /\ e.segments = d.segments /\ e.rewritten = d.rewritten
      /\ e.base = d.base /\ e.seed = d.seed /\ e.over = d.over /\ e.clips = d.clips /\ e.board = d.board
      /\ e.scenes = d.scenes /\ e.muxed = d.muxed /\ e.final = d.final /\ e.subs = d.subs /\ e.tts = d.tts
  BY <1>3 DEF Same, Fields
<1>5. RowSo(r, e, p)
  BY <1>0, <1>4 DEF AtStage, JobSo, RowSo
<1>6. LinesSo(r, e, p) /\ OversSo(r, e, p)
  BY <1>0, <1>1, <1>3, <1>4 DEF JobSo, LinesSo, OversSo
<1>7. CASE r.mode = "remake"
  <2>1. Lines(r, e) = Lines(r, d) /\ Want(r, e, p) = Want(r, d, p)
    BY <1>4, <1>7 DEF Lines, Want
  <2>2. VoicesSo(r, e) /\ StagesSo(r, e, p)
    BY <1>0, <1>4, <1>7, <2>1 DEF JobSo, VoicesSo, StagesSo
  <2> QED BY <1>5, <1>6, <2>2 DEF JobSo
<1>8. CASE r.mode # "remake"
  <2>1. /\ d.clips = <<>> /\ d.board = {} /\ d.scenes = {} /\ d.muxed = {} /\ d.final = {}
    BY <1>0, <1>8 DEF JobSo, StagesSo, TextStage
  <2>2. VoicesSo(r, e) /\ StagesSo(r, e, p)
    BY <1>0, <1>4, <2>1 DEF JobSo, VoicesSo, StagesSo
  <2> QED BY <1>5, <1>6, <2>2 DEF JobSo
<1> QED BY <1>7, <1>8

LEMMA RewriteEnds ==
  ASSUME NEW r, NEW d, NEW p, AtStage("rewrite", r, d, p), HalfSo("rewrite", r, d, p),
         NEW e \in Ended("rewrite", r, d)
  PROVE  JobSo(r, e, p) /\ MadeSo("rewrite", r, e, p)
<1>0. /\ JobSo(r, d, p) /\ FileShape(d) /\ "rewrite" \notin r.done /\ "deliver" \notin r.done
      /\ r.mode = "remake" /\ SomeLines(d.translated) /\ SomeLines(d.rewritten)
  BY StageFacts DEF AtStage
<1>1. /\ d.clips = <<>> /\ d.board = {} /\ d.scenes = {} /\ d.muxed = {} /\ d.final = {}
  BY <1>0 DEF JobSo, StagesSo, TextStage
<1>2. ASSUME NEW f, FileShape(f), f.segments = d.segments, f.translated = d.translated,
             f.base = d.base, f.seed = d.seed, f.clips = d.clips, f.board = d.board, f.scenes = d.scenes,
             f.muxed = d.muxed, f.final = d.final, f.tts = d.tts,
             SomeLines(f.rewritten),
             r.parent # 0 => f.rewritten = d.rewritten,
             r.parent = 0 => f.over = d.over
      PROVE  JobSo(r, f, p)
  <2>1. RowSo(r, f, p)
    BY <1>0, <1>2 DEF AtStage, JobSo, RowSo
  <2>2. LinesSo(r, f, p)
    BY <1>0, <1>2 DEF JobSo, LinesSo
  <2>3. OversSo(r, f, p)
    BY <1>0, <1>2 DEF JobSo, OversSo
  <2>4. VoicesSo(r, f)
    BY <1>0, <1>1, <1>2 DEF JobSo, VoicesSo
  <2>5. StagesSo(r, f, p)
    BY <1>0, <1>1, <1>2 DEF StagesSo
  <2> QED BY <2>1, <2>2, <2>3, <2>4, <2>5 DEF JobSo
<1>3. CASE r.parent = 0
  <2>1. \E words \in Wording : \E lines \in Rewrites(d.translated, d.facts, words) :
          e = [d EXCEPT !.rewritten = lines]
    <3>1. Ended("rewrite", r, d) =
            {[d EXCEPT !.rewritten = lines] :
              lines \in UNION {Rewrites(d.translated, d.facts, words) : words \in Wording}}
      BY <1>3, Zenon DEF Ended
    <3>2. PICK lines \in UNION {Rewrites(d.translated, d.facts, words) : words \in Wording} :
            e = [d EXCEPT !.rewritten = lines]
      BY <3>1
    <3> QED BY <3>2
  <2>a. PICK words, lines : lines \in Rewrites(d.translated, d.facts, words) /\ e = [d EXCEPT !.rewritten = lines]
    BY <2>1
  <2>2. d.translated # <<>>
    BY <1>3, ReadyFiles DEF HalfSo
  <2>3. SomeLines(lines)
    BY <1>0, <2>a, <2>2, RewrittenLines
  <2>4. Same(e, d, {"rewritten"}) /\ e.rewritten = lines
    BY <1>0, <2>a DEF FileShape, Same, Fields
  <2>5. JobSo(r, e, p)
    BY <1>2, <1>3, <2>3, <2>4 DEF Same, Fields
  <2> QED BY <1>3, <2>5 DEF MadeSo
<1>4. CASE r.parent # 0
  <2> DEFINE set == {Overridden(r.plan, Overrides(d.seed))}
  <2>1. e = [d EXCEPT !.over = set]
    <3>1. Ended("rewrite", r, d) = {[d EXCEPT !.over = {Overridden(r.plan, Overrides(d.seed))}]}
      BY <1>4, Zenon DEF Ended
    <3> QED BY <3>1
  <2>2. Overrides(set) = Overridden(r.plan, Overrides(d.seed))
    BY DEF Overrides
  <2>3. d.base # <<>> \/ d.rewritten # <<>>
    BY <1>4, ReadyFiles DEF HalfSo
  <2>4. Overrides(d.seed) = p.was /\ p.is = Overridden(r.plan, p.was)
    BY <1>0, <1>4, <2>3 DEF JobSo, RowSo, LinesSo
  <2>5. Overrides(set) = p.is
    BY <2>2, <2>4
  <2> HIDE DEF set
  <2>6. Same(e, d, {"over"}) /\ e.over = set
    BY <1>0, <2>1 DEF FileShape, Same, Fields
  <2>7. JobSo(r, e, p)
    BY <1>0, <1>2, <1>4, <2>6 DEF Same, Fields
  <2>8. e.rewritten = Edit(r, p)
    BY <1>4, <2>6 DEF HalfSo, Same, Fields
  <2> QED BY <2>5, <2>6, <2>7, <2>8 DEF MadeSo
<1> QED BY <1>3, <1>4

LEMMA DubEnds ==
  ASSUME NEW r, NEW d, NEW p, AtStage("dub", r, d, p), HalfSo("dub", r, d, p), NEW e \in Ended("dub", r, d)
  PROVE  JobSo(r, e, p)
<1> DEFINE lines == Lines(r, d)
           text == IF r.mode = "remake" THEN d.translated ELSE Retimed(d.translated)
           names == ClipNames(r.mode, lines)
<1>0. /\ JobSo(r, d, p) /\ FileShape(d) /\ TextStage(r) \in r.done /\ SomeLines(lines)
      /\ r.mode \in {"remake", "transport"} /\ (r.parent # 0 => r.mode = "remake") /\ SomeLines(d.translated)
  BY StageFacts DEF AtStage, Dubbing
<1>1. lines # <<>> /\ Voiced(r.mode, lines, d.tts)
  BY ReadyFiles DEF HalfSo
<1>2. e = [d EXCEPT !.clips = names, !.translated = text]
  <2>1. Ended("dub", r, d) =
              {[d EXCEPT !.clips = ClipNames(r.mode, Lines(r, d)),
                         !.translated = IF r.mode = "remake" THEN d.translated ELSE Retimed(d.translated)]}
    BY Zenon DEF Ended
  <2> QED BY <2>1
<1>a. names # <<>>
  <2>1. DOMAIN names = DOMAIN lines /\ DOMAIN lines # {}
    BY <1>0, <1>1, LinesAreSequences DEF ClipNames
  <2> QED BY <2>1
<1>b. r.mode # "remake" => /\ Retimed(text) = text /\ text \in {<<>>, Source, Retimed(Source)}
                           /\ ClipNames(r.mode, text) = names /\ Voiced(r.mode, text, d.tts)
  <2> SUFFICES ASSUME r.mode # "remake"
               PROVE  /\ Retimed(text) = text /\ text \in {<<>>, Source, Retimed(Source)}
                      /\ ClipNames(r.mode, text) = names /\ Voiced(r.mode, text, d.tts)
    OBVIOUS
  <2>1. lines = d.translated /\ text = Retimed(lines)
    BY DEF Lines
  <2>2. Retimed(text) = text
    BY <1>0, <2>1, RetimedAgain
  <2>3. ClipNames(r.mode, text) = names /\ Voiced(r.mode, text, d.tts)
    BY <1>0, <1>1, <2>1, RetimedVoices
  <2>4. d.translated \in {<<>>, Source, Retimed(Source)}
    BY <1>0 DEF JobSo, LinesSo
  <2>5. text \in {<<>>, Source, Retimed(Source)}
    BY <2>1, <2>4, SourceLines
  <2> QED BY <2>2, <2>3, <2>5
<1>c. r.mode = "remake" => text = d.translated /\ lines = d.rewritten
  BY DEF Lines
<1>d. text \in {<<>>, Source, Retimed(Source)}
  BY <1>0, <1>b, <1>c DEF JobSo, LinesSo
<1>e. r.mode # "remake" => text = Retimed(lines)
  BY DEF Lines
<1> HIDE DEF lines, text, names
<1>3. Same(e, d, {"clips", "translated"}) /\ e.clips = names /\ e.translated = text
  BY <1>0, <1>2 DEF FileShape, Same, Fields
<1>4. /\ FileShape(e) /\ e.segments = d.segments /\ e.rewritten = d.rewritten
      /\ e.base = d.base /\ e.seed = d.seed /\ e.over = d.over /\ e.board = d.board
      /\ e.scenes = d.scenes /\ e.muxed = d.muxed /\ e.final = d.final /\ e.subs = d.subs /\ e.tts = d.tts
  BY <1>3 DEF Same, Fields
<1>5. RowSo(r, e, p)
  BY <1>0, <1>4 DEF AtStage, JobSo, RowSo
<1>6. LinesSo(r, e, p)
  BY <1>0, <1>c, <1>d, <1>3, <1>4 DEF JobSo, LinesSo
<1>7. OversSo(r, e, p)
  BY <1>0, <1>4 DEF JobSo, OversSo
<1>8. Lines(r, e) = IF r.mode = "remake" THEN lines ELSE text
  BY <1>c, <1>3, <1>4 DEF Lines
<1>9. VoicesSo(r, e)
  BY <1>0, <1>1, <1>b, <1>3, <1>4, <1>8 DEF JobSo, VoicesSo, names
<1>10. Want(r, e, p) = Want(r, d, p) /\ (r.mode # "remake" => Want(r, e, p) = text)
  BY <1>0, <1>b, <1>e, <1>8 DEF Want, lines
<1>11. StagesSo(r, e, p)
  <2>1. d.muxed # {} \/ d.final # {} => Lines(r, e) = Want(r, e, p)
    BY <1>0, <1>8, <1>10 DEF JobSo, StagesSo, lines
  <2> QED BY <1>0, <1>a, <1>3, <1>4, <1>10, <2>1 DEF JobSo, StagesSo
<1> QED BY <1>5, <1>6, <1>7, <1>9, <1>11 DEF JobSo

(* What the last stages write is made of final lines and of the overrides of the whole  *)
(* chain of revisions.                                                       *)
LEMMA FilmsEnd ==
  ASSUME NEW s \in {"storyboard", "render", "compose", "mux"}, NEW r, NEW d, NEW p,
         AtStage(s, r, d, p), HalfSo(s, r, d, p), NEW e \in Ended(s, r, d)
  PROVE  JobSo(r, e, p)
<1>0. /\ JobSo(r, d, p) /\ FileShape(d) /\ TextStage(r) \in r.done /\ "deliver" \notin r.done
      /\ r.mode \in {"remake", "transport"} /\ (s = "mux" <=> r.mode = "transport")
      /\ (r.mode = "remake" \/ Lines(r, d) = <<>> \/ SourceText(Lines(r, d)))
  BY StageFacts DEF AtStage, Dubbing
<1>a. Lines(r, d) = (IF r.mode = "remake" THEN d.rewritten ELSE d.translated)
  BY DEF Lines
<1>1. ASSUME NEW f, FileShape(f), f.segments = d.segments, f.translated = d.translated,
             f.rewritten = d.rewritten, f.base = d.base, f.seed = d.seed, f.over = d.over, f.tts = d.tts,
             f.clips = d.clips, f.final = d.final, f.subs = d.subs,
             f.board \in {d.board, {p.is}}, f.scenes \in {d.scenes, {p.is}},
             f.board # d.board => d.clips # <<>> /\ d.rewritten = Want(r, d, p),
             f.board # d.board \/ f.scenes # d.scenes => r.mode = "remake",
             f.muxed \in {d.muxed, {Planned(Want(r, d, p), p.is)}},
             f.muxed # d.muxed => Lines(r, d) = Want(r, d, p)
      PROVE  JobSo(r, f, p)
  <2>1. Lines(r, f) = Lines(r, d) /\ Want(r, f, p) = Want(r, d, p)
    BY <1>1 DEF Lines, Want
  <2>2. RowSo(r, f, p)
    BY <1>0, <1>1 DEF AtStage, JobSo, RowSo
  <2>3. LinesSo(r, f, p)
    BY <1>0, <1>1 DEF JobSo, LinesSo
  <2>4. OversSo(r, f, p)
    BY <1>0, <1>1 DEF JobSo, OversSo
  <2>5. VoicesSo(r, f)
    BY <1>0, <1>1, <2>1 DEF JobSo, VoicesSo
  <2>6. StagesSo(r, f, p)
    BY <1>0, <1>1, <2>1 DEF JobSo, StagesSo
  <2> QED BY <2>2, <2>3, <2>4, <2>5, <2>6 DEF JobSo
<1>2. CASE s = "storyboard"
  <2> DEFINE set == {Overrides(d.over)}
  <2>1. e = [d EXCEPT !.board = set]
    <3>1. Ended("storyboard", r, d) = {[d EXCEPT !.board = {Overrides(d.over)}]}
      BY Zenon DEF Ended
    <3> QED BY <1>2, <3>1
  <2>2. d.rewritten # <<>> /\ d.clips # <<>> /\ d.rewritten = Want(r, d, p)
    BY <1>2, ReadyFiles DEF HalfSo
  <2>3. set = {p.is}
    BY <1>0, <1>2, <2>2 DEF JobSo, OversSo, TextStage
  <2> HIDE DEF set
  <2>4. Same(e, d, {"board"}) /\ e.board = set
    BY <1>0, <2>1 DEF FileShape, Same, Fields
  <2> QED BY <1>0, <1>1, <1>2, <2>2, <2>3, <2>4 DEF Same, Fields
<1>3. CASE s = "render"
  <2>1. e = [d EXCEPT !.scenes = d.board]
    <3>1. Ended("render", r, d) = {[d EXCEPT !.scenes = d.board]}
      BY Zenon DEF Ended
    <3> QED BY <1>3, <3>1
  <2>2. d.board # {}
    BY <1>3, ReadyFiles DEF HalfSo
  <2>3. d.board = {p.is}
    BY <1>0, <2>2 DEF JobSo, OversSo
  <2>4. Same(e, d, {"scenes"}) /\ e.scenes = d.board
    BY <1>0, <2>1 DEF FileShape, Same, Fields
  <2> QED BY <1>0, <1>1, <1>3, <2>3, <2>4 DEF Same, Fields
<1>4. CASE s \in {"compose", "mux"}
  <2> DEFINE film == {Film(Lines(r, d), d.clips, d.tts, Overrides(d.scenes))}
  <2>1. e = [d EXCEPT !.muxed = film]
    <3>1. /\ s = "compose" => Ended(s, r, d) = {[d EXCEPT !.muxed = film]}
          /\ s = "mux" => Ended(s, r, d) = {[d EXCEPT !.muxed = film]}
      BY Zenon DEF Ended
    <3> QED BY <1>4, <3>1
  <2>2. /\ d.clips # <<>> /\ Lines(r, d) = Want(r, d, p) /\ Overrides(d.scenes) = p.is /\ Lines(r, d) # <<>>
    <3>1. CASE s = "compose"
      <4>1. d.board # {} /\ d.scenes # {} /\ d.rewritten # <<>>
        BY <3>1, ReadyFiles DEF HalfSo
      <4>2. d.clips # <<>> /\ d.rewritten = Want(r, d, p) /\ d.scenes = {p.is}
        BY <1>0, <4>1 DEF JobSo, StagesSo, OversSo
      <4> QED BY <1>0, <1>a, <3>1, <4>1, <4>2 DEF Overrides
    <3>2. CASE s = "mux"
      <4>1. d.translated # <<>> /\ d.clips # <<>>
        BY <3>2, ReadyFiles DEF HalfSo
      <4>2. d.translated = Want(r, d, p) /\ d.scenes = {} /\ p.is = NoOverrides
        BY <1>0, <3>2, <4>1 DEF JobSo, RowSo, LinesSo, StagesSo
      <4> QED BY <1>0, <1>a, <3>2, <4>1, <4>2 DEF Overrides
    <3> QED BY <1>4, <3>1, <3>2
  <2>3. d.clips = ClipNames(r.mode, Lines(r, d)) /\ Voiced(r.mode, Lines(r, d), d.tts) /\ Voices(r.mode, d.tts)
    BY <1>0, <2>2 DEF JobSo, VoicesSo
  <2>4. film = {Planned(Want(r, d, p), p.is)}
    <3>1. Film(Lines(r, d), d.clips, d.tts, p.is) = Planned(Lines(r, d), p.is)
      BY <1>0, <2>2, <2>3, FilmIsPlanned
    <3> QED BY <2>2, <3>1
  <2> HIDE DEF film
  <2>5. Same(e, d, {"muxed"}) /\ e.muxed = film
    BY <1>0, <2>1 DEF FileShape, Same, Fields
  <2> QED BY <1>0, <1>1, <2>2, <2>4, <2>5 DEF Same, Fields
<1> QED BY <1>2, <1>3, <1>4

LEMMA DeliverEnds ==
  ASSUME NEW r, NEW d, NEW p, AtStage("deliver", r, d, p), HalfSo("deliver", r, d, p),
         NEW e \in Ended("deliver", r, d)
  PROVE  /\ JobSo(r, e, p) /\ MadeSo("deliver", r, e, p)
         /\ e.video = d.video /\ e.rewritten = d.rewritten /\ e.over = d.over
<1> DEFINE subs == Spoken(Lines(r, d))
<1>0. /\ JobSo(r, d, p) /\ FileShape(d) /\ TextStage(r) \in r.done /\ d.muxed = {} /\ d.final # {}
  BY StageFacts DEF AtStage, Dubbing, HalfSo
<1>1. subs = Spoken(Want(r, d, p))
  BY <1>0 DEF JobSo, StagesSo
<1>2. e = [d EXCEPT !.subs = subs, !.scenes = {}]
  <2>1. Ended("deliver", r, d) = {[d EXCEPT !.subs = Spoken(Lines(r, d)), !.scenes = {}]}
    BY Zenon DEF Ended
  <2> QED BY <2>1
<1> HIDE DEF subs
<1>3. Same(e, d, {"subs", "scenes"}) /\ e.subs = subs /\ e.scenes = {}
  BY <1>0, <1>2 DEF FileShape, Same, Fields
<1>4. /\ FileShape(e) /\ e.video = d.video /\ e.segments = d.segments /\ e.translated = d.translated
      /\ e.rewritten = d.rewritten
      /\ e.base = d.base /\ e.seed = d.seed /\ e.over = d.over /\ e.clips = d.clips /\ e.board = d.board
      /\ e.muxed = d.muxed /\ e.tts = d.tts /\ e.final = d.final
  BY <1>3 DEF Same, Fields
<1>5. Lines(r, e) = Lines(r, d) /\ Want(r, e, p) = Want(r, d, p)
  BY <1>4 DEF Lines, Want
<1>6. JobSo(r, e, p)
  <2>1. RowSo(r, e, p)
    BY <1>0, <1>4 DEF AtStage, JobSo, RowSo
  <2>2. LinesSo(r, e, p)
    BY <1>0, <1>3, <1>4 DEF JobSo, LinesSo
  <2>3. OversSo(r, e, p)
    BY <1>0, <1>3, <1>4 DEF JobSo, OversSo
  <2>4. VoicesSo(r, e)
    BY <1>0, <1>4, <1>5 DEF JobSo, VoicesSo
  <2>5. StagesSo(r, e, p)
    BY <1>0, <1>1, <1>3, <1>4, <1>5 DEF JobSo, StagesSo
  <2> QED BY <2>1, <2>2, <2>3, <2>4, <2>5 DEF JobSo
<1>7. MadeSo("deliver", r, e, p)
  BY <1>0, <1>1, <1>3, <1>4, <1>5 DEF MadeSo
<1> QED BY <1>4, <1>6, <1>7

LEMMA StageEnds ==
  ASSUME NEW s, NEW r, NEW d, NEW p, AtStage(s, r, d, p), HalfSo(s, r, d, p), NEW e \in Ended(s, r, d)
  PROVE  /\ JobSo(r, e, p) /\ MadeSo(s, r, e, p)
         /\ s = "deliver" => e.video = d.video /\ e.rewritten = d.rewritten /\ e.over = d.over
<1>1. s \in Stages
  <2>1. r.mode \in {"remake", "transport"} /\ r \in Columns /\ s = FirstIncomplete(r)
    BY StageFacts DEF AtStage
  <2> QED BY <2>1, StageOrder
<1>2. CASE s = "download"
  <2>1. Ended("download", r, d) = {[d EXCEPT !.video = "source"]}
    BY Zenon DEF Ended
  <2> QED BY <1>2, <2>1, SourcesEnd DEF MadeSo
<1>3. CASE s = "analyze"
  <2>1. Ended("analyze", r, d) = {[d EXCEPT !.facts = f] : f \in {"plain", "notice"}}
    BY Zenon DEF Ended
  <2> QED BY <1>3, <2>1, SourcesEnd DEF MadeSo
<1>4. CASE s \in {"transcript", "resegment"}
  <2>1. /\ s = "transcript" => Ended(s, r, d) = {[d EXCEPT !.segments = Source]}
        /\ s = "resegment" => Ended(s, r, d) = {[d EXCEPT !.segments = Source]}
    BY Zenon DEF Ended
  <2>2. e = [d EXCEPT !.segments = Source]
    BY <1>4, <2>1
  <2> QED BY <1>4, <2>2, SourcesEnd DEF MadeSo
<1>5. CASE s \in {"translate", "rewrite", "dub", "deliver"}
  BY <1>5, TranslateEnds, RewriteEnds, DubEnds, DeliverEnds DEF MadeSo
<1>6. CASE s \in {"storyboard", "render", "compose", "mux"}
  BY <1>6, FilmsEnd DEF MadeSo
<1> QED BY <1>1, <1>2, <1>3, <1>4, <1>5, <1>6 DEF Stages

(* The files of the job at hand are written, half of what its stage writes at a time. *)
LEMMA FileStep ==
  ASSUME VideoTypes, FilmInv, hand # Idle, hand.at \in {"work", "half"}, NEW e, NEW at \in {"half", "made"},
         JobSo(job[hand.job], e, past[hand.job]),
         at = "half" => HalfSo(hand.stage, job[hand.job], e, past[hand.job]),
         at = "made" => MadeSo(hand.stage, job[hand.job], e, past[hand.job]),
         hand.stage = "deliver" =>
           /\ e.video = disk[hand.job].video /\ e.rewritten = disk[hand.job].rewritten
           /\ e.over = disk[hand.job].over,
         disk' = [disk EXCEPT ![hand.job] = e], hand' = [hand EXCEPT !.at = at],
         UNCHANGED <<job, ask, dying, past>>
  PROVE  FilmInv'
<1> DEFINE j == hand.job
<1>1. j \in Jobs /\ hand \in Hands /\ Held(hand, job[j], disk[j], past[j])
  BY HandIsBusy DEF FilmInv, HandSo
<1>2. /\ disk' = [k \in Jobs |-> disk'[k]] /\ disk'[j] = e
      /\ \A k \in Jobs \ {j} : job'[k] = job[k] /\ disk'[k] = disk[k] /\ past'[k] = past[k]
  <2>1. disk = [k \in Jobs |-> disk[k]]
    BY DEF FilmInv, JobsSo
  <2> QED BY <1>1, <2>1
<1>3. JobsSo'
  BY <1>1, <1>2, OneJobStep DEF FilmInv
<1>4. HandSo'
  <2>1. hand'.job = j /\ hand'.at = at /\ hand'.stage = hand.stage
    BY <1>1 DEF Hands
  <2>2. Held(hand', job[j], e, past[j])
    BY <1>1, <2>1 DEF Held
  <2> QED BY <1>2, <2>1, <2>2 DEF HandSo
<1>5. AskSo'
  <2>1. ask.at \in {"spawn", "inherit"} => Revising(ask, job[ask.of], disk'[ask.of], past[ask.of])
    <3> SUFFICES ASSUME ask.at \in {"spawn", "inherit"}
                 PROVE  Revising(ask, job[ask.of], disk'[ask.of], past[ask.of])
      OBVIOUS
    <3>1. ask.of \in Jobs /\ Revising(ask, job[ask.of], disk[ask.of], past[ask.of])
      BY DEF VideoTypes, FilmInv, AskSo
    <3>2. CASE ask.of # j
      BY <1>2, <3>1, <3>2
    <3>3. CASE ask.of = j
      <4>1. job[j] \in Columns /\ job[j].mode = "remake" /\ AllDone(job[j])
        BY <1>1, <3>1, <3>3 DEF VideoTypes, Revising
      <4>2. hand.stage = "deliver"
        BY <1>1, <4>1, StageOrder DEF Held
      <4> QED BY <1>2, <3>1, <3>3, <4>2 DEF Revising
    <3> QED BY <3>2, <3>3
  <2>2. ask.at \in {"inherit", "mark", "queue"} => ask.child \in Jobs /\ ask.child # j
    BY HandIsBusy
  <2> QED BY <1>2, <2>1, <2>2 DEF FilmInv, AskSo
<1> QED BY <1>3, <1>4, <1>5 DEF FilmInv, DyingSo

LEMMA FilesStep == ASSUME VideoTypes, FilmInv, Begin \/ Complete PROVE FilmInv'
<1> DEFINE j == hand.job
           r == job[j]
           d == disk[j]
           p == past[j]
<1>1. hand # Idle /\ hand.at \in {"work", "half"} /\ UNCHANGED <<job, ask, dying, past>>
  BY DEF Begin, Complete, At, Idle
<1>2. AtStage(hand.stage, r, d, p) /\ Held(hand, r, d, p)
  <2>1. j \in Jobs /\ Held(hand, r, d, p) /\ r \in Columns /\ JobSo(r, d, p)
    BY <1>1, HandIsBusy DEF FilmInv, HandSo, JobsSo, VideoTypes
  <2> QED BY <1>1, <2>1 DEF Held, AtStage
<1>3. CASE Begin
  <2> DEFINE e == Begun(hand.stage, r, d)
  <2>1. Ready(hand.stage, r, d) /\ disk' = [disk EXCEPT ![j] = e] /\ hand' = [hand EXCEPT !.at = "half"]
    BY <1>3, Zenon DEF Begin, Mine, Files, Goes
  <2>2. /\ JobSo(r, e, p) /\ HalfSo(hand.stage, r, e, p)
        /\ hand.stage = "deliver" => e.video = d.video /\ e.rewritten = d.rewritten /\ e.over = d.over
    BY <1>2, <2>1, StageBegins
  <2> HIDE DEF e
  <2> QED BY <1>1, <2>1, <2>2, FileStep
<1>4. CASE Complete
  <2>1. hand.at = "half" /\ hand' = [hand EXCEPT !.at = "made"]
    BY <1>4 DEF Complete, At, Goes
  <2>2. PICK e \in Ended(hand.stage, r, d) : disk' = [disk EXCEPT ![j] = e]
    BY <1>4 DEF Complete, Mine, Files
  <2>3. HalfSo(hand.stage, r, d, p)
    BY <1>2, <2>1 DEF Held
  <2>4. /\ JobSo(r, e, p) /\ MadeSo(hand.stage, r, e, p)
        /\ hand.stage = "deliver" => e.video = d.video /\ e.rewritten = d.rewritten /\ e.over = d.over
    BY <1>2, <2>3, StageEnds
  <2> QED BY <1>1, <2>1, <2>2, <2>4, FileStep
<1> QED BY <1>3, <1>4

LEMMA FilmBegins == VideoInit => FilmInv
<1> SUFFICES ASSUME VideoInit PROVE FilmInv
  OBVIOUS
<1>2. hand = Idle /\ ask = NoAsk /\ dying = {}
  BY DEF VideoInit
<1>3. PICK lines \in Rewrites(Source, "notice", Texts(Source)), plan \in Plans \cup {<<>>},
           used \in 0..MaxRetries :
         LET set == IF plan = <<>> THEN {} ELSE {Overridden(plan, NoOverrides)}
             film == Finished(Closed(plan, lines, NoOverrides), set)
         IN /\ job = [j \in Jobs |->
                 IF j = 1 THEN [NoJob EXCEPT !.status = "completed", !.mode = "remake", !.beat = "fresh",
                                  !.done = {Order("remake")[i] : i \in DOMAIN Order("remake")},
                                  !.retries = used]
                 ELSE NoJob]
            /\ disk = [j \in Jobs |-> IF j = 1 THEN film ELSE Empty]
            /\ past = [j \in Jobs |-> IF j = 1 THEN [Born EXCEPT !.is = Overrides(set), !.lost = used]
                                   ELSE Born]
  BY Zenon DEF VideoInit
<1> DEFINE old == [NoJob EXCEPT !.status = "completed", !.mode = "remake", !.beat = "fresh",
                     !.done = {Order("remake")[i] : i \in DOMAIN Order("remake")}, !.retries = used]
<1>1. /\ old.status = "completed" /\ old.mode = "remake" /\ old.parent = 0
      /\ old.done = {Order("remake")[i] : i \in DOMAIN Order("remake")}
  BY DEF NoJob
<1> DEFINE set == IF plan = <<>> THEN {} ELSE {Overridden(plan, NoOverrides)}
           made == Closed(plan, lines, NoOverrides)
           film == Finished(made, set)
           p == [Born EXCEPT !.is = Overrides(set), !.lost = used]
<1>4. job = [j \in Jobs |-> IF j = 1 THEN old ELSE NoJob] /\ disk = [j \in Jobs |-> IF j = 1 THEN film ELSE Empty] /\ past = [j \in Jobs |-> IF j = 1 THEN p ELSE Born]
  BY <1>3
<1>5. SomeLines(made) /\ Len(made) \in Nat \ {0}
  <2>1. SomeLines(lines) /\ lines # <<>>
    BY <1>3, SourceLines, RewrittenLines
  <2>2. SomeLines(made) /\ Len(made) = Len(lines)
    BY <2>1, ClosedLines
  <2> HIDE DEF made
  <2> QED BY <2>1, <2>2, LinesAreSequences
<1>6. p.is = Overrides(set) /\ Born.is = NoOverrides
  BY DEF Born
<1> HIDE DEF set, made, old, p
<1> DEFINE timed == Retimed(made)
           tts == Synthesized("remake", made, {})
           clips == ClipNames("remake", made)
           is == Overrides(set)
<1>7. /\ SomeLines(timed) /\ Retimed(timed) = timed /\ clips = ClipNames("remake", timed)
      /\ Voices("remake", tts) /\ Voiced("remake", timed, tts) /\ clips # <<>>
  <2>1. Voices("remake", {})
    BY DEF Voices
  <2>2. Voices("remake", tts) /\ Voiced("remake", made, tts)
    BY <2>1, SynthesisVoices
  <2>3. SomeLines(timed) /\ Retimed(timed) = timed
    BY <1>5, RetimedAgain
  <2>4. clips = ClipNames("remake", timed) /\ Voiced("remake", timed, tts)
    BY <1>5, <2>2, RetimedVoices
  <2>5. clips # <<>>
    <3>1. DOMAIN clips = 1..Len(made)
      BY <1>5, LinesAreSequences DEF ClipNames
    <3> QED BY <1>5, <3>1
  <2> QED BY <2>2, <2>3, <2>4, <2>5
<1>8. Film(timed, clips, tts, is) = Planned(timed, is)
  BY <1>7, FilmIsPlanned
<1> HIDE DEF timed, tts, clips, is
<1>9. film = [Empty EXCEPT !.video = "source", !.facts = "notice", !.segments = Source,
               !.translated = Source, !.rewritten = timed, !.over = set, !.tts = tts, !.clips = clips,
               !.board = {is}, !.final = {Film(timed, clips, tts, is)}, !.subs = Spoken(timed)]
  BY DEF Finished, timed, tts, clips, is
<1>10. /\ FileShape(film) /\ film.segments = Source /\ film.translated = Source /\ film.rewritten = timed
       /\ film.over = set /\ film.tts = tts /\ film.clips = clips /\ film.board = {is} /\ film.scenes = {}
       /\ film.muxed = {} /\ film.final = {Film(timed, clips, tts, is)} /\ film.subs = Spoken(timed)
  BY <1>9 DEF Empty, FileShape
<1> HIDE DEF film
<1>11. JobSo(old, film, p)
  <2>1. Lines(old, film) = timed /\ Want(old, film, p) = timed
    BY <1>1, <1>7, <1>10 DEF Lines, Want
  <2>2. AllDone(old) /\ TextStage(old) \in old.done
    BY <1>1 DEF AllDone, TextStage, Order
  <2>3. RowSo(old, film, p)
    BY <1>1, <1>10, <2>2 DEF RowSo
  <2>4. LinesSo(old, film, p)
    BY <1>1, <1>7, <1>10 DEF LinesSo
  <2>5. OversSo(old, film, p)
    BY <1>1, <1>6, <1>10, <2>2 DEF OversSo, is, TextStage
  <2>6. VoicesSo(old, film)
    BY <1>1, <1>7, <1>10, <2>1 DEF VoicesSo
  <2>7. StagesSo(old, film, p)
    BY <1>1, <1>6, <1>7, <1>8, <1>10, <2>1, <2>2 DEF StagesSo, is
  <2> QED BY <2>3, <2>4, <2>5, <2>6, <2>7 DEF JobSo
<1>12. JobSo(NoJob, Empty, Born)
  <2>1. NoJob.status = "none" /\ NoJob.parent = 0 /\ NoJob.done = {} /\ NoJob.mode = "none"
    BY DEF NoJob
  <2>2. RowSo(NoJob, Empty, Born)
    BY <1>6, <2>1, EmptyShape DEF RowSo
  <2> QED BY <1>6, <2>2, EmptyFiles
<1>13. JobsSo
  <2> HIDE DEF NoJob, Empty, Born
  <2> QED BY <1>2, <1>4, <1>11, <1>12 DEF JobsSo
<1>14. ask.at = "none"
  BY <1>2 DEF NoAsk
<1> QED BY <1>2, <1>13, <1>14 DEF FilmInv, HandSo, AskSo, DyingSo

LEMMA FilmGoesOn == VideoTypes /\ FilmInv /\ [VideoNext]_videoVars => FilmInv'
<1> SUFFICES ASSUME VideoTypes, FilmInv, [VideoNext]_videoVars PROVE FilmInv'
  OBVIOUS
<1>1. CASE UNCHANGED videoVars
  BY <1>1 DEF videoVars, FilmInv, JobsSo, HandSo, AskSo, DyingSo
<1>2. ASSUME NEW mode \in {"remake", "transport"}, Create(mode) PROVE FilmInv'
  BY <1>2, CreateStep
<1>3. ASSUME NEW j \in Jobs, Retry(j) \/ Revise(j) \/ DeleteFiles(j) \/ DeleteRow(j) \/ Lapse(j) \/ Recover(j)
      PROVE  FilmInv'
  BY <1>3, RowRequests, ReviseStep, DeleteFilesStep
<1>4. CASE Api \/ ApiDies
  BY <1>4, SpawnStep, InheritStep, MarkStep, RequeueStep DEF Api
<1>5. CASE Worker \/ WorkerDies
  BY <1>5, TakeStep, EnterStep, FilesStep, RaiseStep, DoneStep DEF Worker
<1> QED BY <1>1, <1>2, <1>3, <1>4, <1>5 DEF VideoNext

LEMMA DeliverIsLast ==
  ASSUME NEW mode \in {"remake", "transport"}
  PROVE  \E i \in DOMAIN Order(mode) : Order(mode)[i] = "deliver"
<1>1. CASE mode = "remake"
  <2>1. 11 \in DOMAIN Order(mode) /\ Order(mode)[11] = "deliver"
    BY <1>1 DEF Order
  <2> QED BY <2>1
<1>2. CASE mode = "transport"
  <2>1. 7 \in DOMAIN Order(mode) /\ Order(mode)[7] = "deliver"
    BY <1>2 DEF Order
  <2> QED BY <2>1
<1> QED BY <1>1, <1>2

LEMMA PlannedIsWanted == FilmInv => FilmsArePlanned
<1> SUFFICES ASSUME FilmInv, NEW j \in Jobs, job[j].status = "completed", disk[j].final # {}
    PROVE  LET lines == Spoken(Wanted(j)) IN
           /\ disk[j].subs = lines
           /\ disk[j].final =
                {[track |-> [i \in DOMAIN lines |-> [says |-> lines[i].zh, at |-> lines[i].start]],
                  titles |-> lines, over |-> past[j].is]}
  BY DEF FilmsArePlanned
<1> DEFINE want == Wanted(j)
           lines == Spoken(want)
<1>1. JobSo(job[j], disk[j], past[j])
  BY DEF FilmInv, JobsSo
<1>2. want = Want(job[j], disk[j], past[j])
  BY DEF Wanted, Want, Edit
<1>3. "deliver" \in job[j].done
  <2>1. AllDone(job[j]) /\ job[j].mode \in {"remake", "transport"}
    BY <1>1 DEF JobSo, RowSo
  <2>2. \E i \in DOMAIN Order(job[j].mode) : Order(job[j].mode)[i] = "deliver"
    BY <2>1, DeliverIsLast
  <2> QED BY <2>1, <2>2 DEF AllDone
<1>4. disk[j].subs = lines /\ disk[j].final = {Planned(want, past[j].is)}
  BY <1>1, <1>2, <1>3 DEF JobSo, StagesSo
<1> HIDE DEF want
<1>5. DOMAIN lines = Aloud(want) /\ \A i \in Aloud(want) : lines[i] = want[i]
  BY DEF Spoken
<1>6. [i \in DOMAIN lines |-> [says |-> lines[i].zh, at |-> lines[i].start]]
        = [i \in Aloud(want) |-> [says |-> want[i].zh, at |-> want[i].start]]
  BY <1>5
<1> QED BY <1>4, <1>6 DEF Planned, want

(* Every film that is delivered shows and says the lines that were planned, each once *)
(* and in its place, under the overrides of its whole chain of revisions, for any        *)
(* numbers of jobs, crashes, retries, deletions and revisions, and any edits             *)
(* (video/stages.py, pipeline/remake/revision.py).                                      *)
THEOREM FilmsAreMade == VideoSpec => []FilmsArePlanned
<1>1. LossInv => VideoTypes
  BY DEF LossInv
<1> QED BY <1>1, VideoBegins, VideoGoesOn, FilmBegins, FilmGoesOn, PlannedIsWanted, PTL DEF VideoSpec
=============================================================================
