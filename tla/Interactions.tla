---------------------------- MODULE Interactions ----------------------------
(***************************************************************************)
(* Likes and collects given by the accounts of the matrix to each other's     *)
(* notes: to a note just published (services/matrix_interact.py) and to notes  *)
(* of the past (services/interaction_backfill.py, ..._scheduler.py), through    *)
(* the same page script (browser/matrix_interact.py).  Every job of an account  *)
(* is executed by that account's child process, one at a time.                *)
(*                                                                         *)
(*   valid[a]   cookie_status = 'valid'                                      *)
(*   jobs[a]    the account's matrix_interact jobs, by created_at             *)
(*   rounds[a]  its queued interaction_backfill jobs                         *)
(*   sess[a]    what its child is doing                                      *)
(*   hook[n]    the hook that runs when note n has been published             *)
(*   merge[p]   _merge_or_enqueue, as called by a hook or a session p         *)
(*   ledger[a]  note_interactions of the actor, newest first                 *)
(*   given[a]   the truth: note -> actions that the platform shows            *)
(*   half       the half of the day                                          *)
(*   acted[a]   history: notes a backfill session opened today                *)
(*   unseen[a]  history: those of them that never reached the ledger          *)
(*   owed[n]    history: the accounts the hook set out to reach               *)
(*   handled[a] history: how often matrix jobs reported each note            *)
(*   dropped[a] history: notes given up with a report (wall, failed start,    *)
(*              dead child, failed write)                                    *)
(***************************************************************************)
EXTENDS Naturals, Sequences, FiniteSets, SequencesExt, FiniteSetsExt

CONSTANTS Actors,      \* valid accounts with cookies
          Notes,       \* numbered by the time of their publication
          Fresh,       \* those published during the run; the others are past
          Owner,       \* note -> the account that published it
          Actions,     \* what is given to a note: like, collect
          RoundLimit,  \* NOTE_INTERACTION_ROUND_LIMIT
          MatrixLimit, \* MATRIX_INTERACT_ROUND_LIMIT
          DailyLimit,  \* NOTE_INTERACTION_DAILY_LIMIT
          BreakerNotes,\* INTERACTION_ACTOR_BREAKER_N, in notes (two rows each)
          Quorum,      \* INTERACTION_NOTE_BREAKER_ACTORS
          Attempts,    \* _MERGE_ATTEMPTS
          MaxHalves,   \* bound: half days
          MaxRounds,   \* bound: backfill jobs enqueued
          MaxFaults,   \* bound: walls, failed starts, killed children, failed writes
          None

ASSUME InteractionsAssumption ==
  /\ IsFiniteSet(Actors) /\ Notes \subseteq Nat /\ IsFiniteSet(Notes)
  /\ Fresh \subseteq Notes /\ Actors \cap Notes = {}
  /\ None \notin Actors \cup Notes /\ None \notin {"matrix", "backfill"}
  /\ RoundLimit \in Nat \ {0} /\ MatrixLimit \in Nat \ {0} /\ DailyLimit \in Nat \ {0} /\ BreakerNotes \in Nat \ {0}
  /\ Quorum \in Nat \ {0} /\ Attempts \in Nat \ {0}
  /\ MaxHalves \in Nat /\ MaxRounds \in Nat /\ MaxFaults \in Nat

VARIABLES valid, jobs, rounds, sess, hook, merge, ledger, given, half, halves,
          acted, unseen, owed, handled, dropped, enqueued, faults

queueVars == <<jobs, rounds, enqueued>>
pageVars == <<ledger, given, acted, unseen>>
clock == <<half, halves>>
books == <<owed, handled, dropped>>
vars == <<valid, queueVars, sess, hook, merge, pageVars, clock, books, faults>>

Idle == [at |-> "idle", kind |-> None, job |-> 0, left |-> <<>>, rest |-> <<>>,
         got |-> <<>>, wall |-> FALSE]
NoMerge == [at |-> "none", account |-> None, notes |-> <<>>, job |-> 0, tries |-> 0]

Init ==
  /\ valid = [a \in Actors |-> TRUE]
  /\ jobs = [a \in Actors |-> <<>>] /\ rounds = [a \in Actors |-> 0]
  /\ sess = [a \in Actors |-> Idle]
  /\ hook = [n \in Notes |-> [at |-> IF n \in Fresh THEN "unpublished" ELSE "end", todo |-> {}]]
  /\ merge = [p \in Actors \cup Notes |-> NoMerge]
  /\ ledger = [a \in Actors |-> <<>>]
  /\ given = [a \in Actors |-> [n \in Notes |-> {}]]
  /\ half = 0 /\ halves = 0
  /\ acted = [a \in Actors |-> {}] /\ unseen = [a \in Actors |-> {}]
  /\ owed = [n \in Notes |-> {}]
  /\ handled = [a \in Actors |-> [n \in Notes |-> 0]] /\ dropped = [a \in Actors |-> {}]
  /\ enqueued = 0 /\ faults = 0

Fault == faults < MaxFaults /\ faults' = faults + 1

(***************************************************************************)
(* Merging notes into a queued job, or enqueueing one                        *)
(***************************************************************************)

Merging(p, a, notes) ==
  [merge EXCEPT ![p] = [at |-> "select", account |-> a, notes |-> notes, job |-> 0, tries |-> 0]]

(* SELECT the oldest queued job of the account. *)
Select(p) ==
  LET m == merge[p]
      queued == {j \in DOMAIN jobs[m.account] : jobs[m.account][j].status = "queued"}
  IN
  /\ m.at = "select"
  /\ IF queued = {} \/ m.tries = Attempts
     THEN merge' = [merge EXCEPT ![p].at = "insert"]
     ELSE \E j \in queued : /\ \A k \in queued : j <= k
                            /\ merge' = [merge EXCEPT ![p].at = "update", ![p].job = j]
  /\ UNCHANGED <<valid, queueVars, sess, hook, pageVars, clock, books, faults>>

(* UPDATE ... SET payload = json_insert(payload, ...) WHERE id AND status =     *)
(* 'queued'.  (Mutant: without the status.)                                  *)
Mergeable_m(job) == job.status \in {"queued", "running"}
Mergeable(job) == job.status = "queued"
Update(p) ==
  LET m == merge[p] IN
  /\ m.at = "update"
  /\ IF Mergeable(jobs[m.account][m.job])
     THEN /\ jobs' = [jobs EXCEPT ![m.account][m.job].notes = @ \o m.notes]
          /\ merge' = [merge EXCEPT ![p] = NoMerge]
     ELSE /\ merge' = [merge EXCEPT ![p].at = "select", ![p].tries = @ + 1]
          /\ UNCHANGED jobs
  /\ UNCHANGED <<valid, rounds, enqueued, sess, hook, pageVars, clock, books, faults>>

Insert(p) ==
  LET m == merge[p] IN
  /\ m.at = "insert"
  /\ jobs' = [jobs EXCEPT ![m.account] = Append(@, [status |-> "queued", notes |-> m.notes])]
  /\ merge' = [merge EXCEPT ![p] = NoMerge]
  /\ UNCHANGED <<valid, rounds, enqueued, sess, hook, pageVars, clock, books, faults>>

(***************************************************************************)
(* The hook of a publication                                               *)
(***************************************************************************)

(* Every valid account but the publisher is to be reached. *)
Publish(n) ==
  LET matrix == {a \in Actors : valid[a] /\ a # Owner[n]} IN
  /\ hook[n].at = "unpublished"
  /\ hook' = [hook EXCEPT ![n] = [at |-> "reach", todo |-> matrix]]
  /\ owed' = [owed EXCEPT ![n] = matrix]
  /\ UNCHANGED <<valid, queueVars, sess, merge, pageVars, clock, handled, dropped, faults>>

(* The accounts in the order of their ids. *)
Reach(n) ==
  /\ hook[n].at = "reach" /\ merge[n].at = "none"
  /\ IF hook[n].todo = {}
     THEN hook' = [hook EXCEPT ![n].at = "end"] /\ UNCHANGED merge
     ELSE LET a == CHOOSE x \in hook[n].todo : TRUE IN
          /\ hook' = [hook EXCEPT ![n].todo = @ \ {a}]
          /\ merge' = Merging(n, a, <<n>>)
  /\ UNCHANGED <<valid, queueVars, sess, pageVars, clock, books, faults>>

(* The publisher's child dies, or the database is locked: whom the hook had     *)
(* not reached it never will, the note counts as scheduled.                   *)
HookFails(n) ==
  LET missed == hook[n].todo \cup (IF merge[n].at = "none" THEN {} ELSE {merge[n].account}) IN
  /\ hook[n].at = "reach" /\ Fault
  /\ hook' = [hook EXCEPT ![n] = [at |-> "end", todo |-> {}]]
  /\ merge' = [merge EXCEPT ![n] = NoMerge]
  /\ dropped' = [a \in Actors |-> IF a \in missed THEN dropped[a] \cup {n} ELSE dropped[a]]
  /\ UNCHANGED <<valid, queueVars, sess, pageVars, clock, owed, handled>>

(***************************************************************************)
(* Planning a round of backfill                                            *)
(***************************************************************************)

RowsOf(a) == ToSet(ledger[a])
Today(row) == row.age = 0 \/ (row.age = 1 /\ half = 1)

(* _used_today: notes whose rows were written today. *)
UsedToday(a) == Cardinality({r.note : r \in {x \in RowsOf(a) : Today(x)}})

(* _note_state: both actions done, or tried within the cooldown of a day. *)
Settled(a, n) == \E r \in RowsOf(a) : r.note = n /\ (r.ok = Actions \/ r.age < 2)

(* _actor_breaker_state: nothing but errors in the last rows; half a day after  *)
(* the last of them the actor may probe.                                     *)
Breaker(a) ==
  IF \/ Len(ledger[a]) < BreakerNotes
     \/ \E i \in 1..BreakerNotes : ledger[a][i].ok # {} THEN "closed"
  ELSE IF ledger[a][1].age >= 1 THEN "probe" ELSE "open"

(* _suppressed_note_ids: reported missing by enough actors in good standing. *)
Suppressed(n) ==
  Quorum <= Cardinality({a \in Actors : valid[a] /\ Breaker(a) # "open"
                           /\ \E r \in RowsOf(a) : r.note = n /\ r.missing})

Eligible(a, owners) ==
  {n \in Notes : /\ hook[n].at # "unpublished" /\ Owner[n] \in owners /\ Owner[n] # a
                 /\ ~Suppressed(n) /\ ~Settled(a, n)}

(* Notes without any like or collect first, then the newest. *)
Covered(n) == \E a \in Actors : valid[a] /\ \E r \in RowsOf(a) : r.note = n /\ r.ok # {}
Before(m, n) == IF Covered(m) = Covered(n) THEN m > n ELSE ~Covered(m)
Ranked(S) ==
  CHOOSE seq \in [1..Cardinality(S) -> S] : \A i, j \in DOMAIN seq : i < j => Before(seq[i], seq[j])

(* How many of them: the round's limit, what is left of the day, one probe.    *)
(* (Mutant: what is left of the day is looked at for the first note only.)     *)
Take_m(a) == IF Breaker(a) = "probe" THEN 1 ELSE RoundLimit
Take(a) == IF Breaker(a) = "probe" THEN 1 ELSE Min({RoundLimit, DailyLimit - UsedToday(a)})

MayAct(a) == valid[a] /\ Breaker(a) # "open" /\ UsedToday(a) < DailyLimit

Plan(a, owners) ==
  IF MayAct(a) THEN LET ranked == Ranked(Eligible(a, owners))
                    IN [i \in 1..Min({Take(a), Cardinality(Eligible(a, owners))}) |-> ranked[i]]
  ELSE <<>>

AllOwners == {Owner[n] : n \in Notes}
InFlight(a) == rounds[a] > 0 \/ sess[a].kind = "backfill"

Enqueue(S) ==
  /\ S # {} /\ enqueued + Cardinality(S) <= MaxRounds
  /\ rounds' = [a \in Actors |-> IF a \in S THEN rounds[a] + 1 ELSE rounds[a]]
  /\ enqueued' = enqueued + Cardinality(S)
  /\ UNCHANGED <<valid, jobs, sess, hook, merge, pageVars, clock, books, faults>>

LeastUsed(S) == {a \in S : \A b \in S : UsedToday(a) <= UsedToday(b)}

(* A request of the administrator (start_backfill), whatever is in flight. *)
Ask(a) == Plan(a, AllOwners) # <<>> /\ Enqueue({a})

(* The scheduler's scan: one round at a time, by the actor used least. *)
Scan ==
  /\ ~\E a \in Actors : InFlight(a)
  /\ \E a \in LeastUsed({x \in Actors : Plan(x, AllOwners) # <<>>}) : Enqueue({a})

(* After a sync that found hand-made notes of an account. *)
AfterSync(owner) ==
  Enqueue({a \in Actors : a # owner /\ valid[a] /\ ~InFlight(a) /\ Plan(a, {owner}) # <<>>})

(***************************************************************************)
(* Sessions                                                                *)
(***************************************************************************)

(* A matrix job is claimed, with its payload; no browser, no round. *)
ClaimMatrix(a, j) ==
  LET notes == jobs[a][j].notes
      cut == Min({MatrixLimit, Len(notes)})
  IN
  /\ sess[a] = Idle /\ jobs[a][j].status = "queued"
  /\ \/ /\ jobs' = [jobs EXCEPT ![a][j].status = "running"]
        /\ sess' = [sess EXCEPT ![a] = [Idle EXCEPT !.at = "act", !.kind = "matrix", !.job = j,
                                        !.left = SubSeq(notes, 1, cut),
                                        !.rest = SubSeq(notes, cut + 1, Len(notes))]]
        /\ UNCHANGED <<dropped, faults>>
     \/ /\ Fault
        /\ jobs' = [jobs EXCEPT ![a][j].status = "ended"]
        /\ dropped' = [dropped EXCEPT ![a] = @ \cup ToSet(notes)]
        /\ UNCHANGED sess
  /\ UNCHANGED <<valid, rounds, enqueued, hook, merge, pageVars, clock, owed, handled>>

(* A round of backfill plans again when it is executed, before the lock. *)
ClaimRound(a) ==
  /\ sess[a] = Idle /\ rounds[a] > 0
  /\ rounds' = [rounds EXCEPT ![a] = @ - 1]
  /\ \E owners \in {{o} : o \in AllOwners} \cup {AllOwners} :
       LET targets == Plan(a, owners) IN
       sess' = [sess EXCEPT ![a] = IF targets = <<>> THEN Idle
                                   ELSE [Idle EXCEPT !.at = "act", !.kind = "backfill",
                                                     !.left = targets]]
  /\ UNCHANGED <<valid, jobs, enqueued, hook, merge, pageVars, clock, books, faults>>

(* One icon: what the platform shows afterwards and what is reported.  An icon  *)
(* that is lit is left alone; a click that shows no effect may have one.       *)
(* (Mutant: the icon is clicked without looking.)                            *)
Icon_m(lit) == {<<TRUE, TRUE>>, <<FALSE, lit>>, <<FALSE, ~lit>>}
Icon(lit) == IF lit THEN {<<TRUE, TRUE>>, <<FALSE, TRUE>>}
             ELSE {<<TRUE, TRUE>>, <<FALSE, TRUE>>, <<FALSE, FALSE>>}

Clicks(lit) == {icons \in [Actions -> BOOLEAN \X BOOLEAN] : \A x \in Actions : icons[x] \in Icon(x \in lit)}

Entry(n, ok, missing) == [note |-> n, ok |-> ok, missing |-> missing]

(* The card of the note is looked for on the publisher's profile, scrolled until *)
(* no more cards come.                                                       *)
NotFound(n) == Entry(n, {}, TRUE)

(* The profile shows no cards, the card cannot be clicked, the note does not     *)
(* open.                                                                     *)
NotOpened(n) == Entry(n, {}, FALSE)

(* interact_with_note: what the platform shows of a note afterwards, and what is   *)
(* reported of it.                                                           *)
Outcomes(n, lit) ==
  [shown : {lit}, entry : {NotFound(n), NotOpened(n)}] \cup
  {LET Those(i) == {x \in Actions : icons[x][i]}
   IN [shown |-> Those(2), entry |-> Entry(n, Those(1), FALSE)] : icons \in Clicks(lit)}

(* After each note the session looks whether it has landed on a wall.  One ends   *)
(* the session, and its note is not reported.                                 *)
Reported(s, entry) == [s EXCEPT !.left = Tail(@), !.got = Append(@, entry)]
Walled(s) == [s EXCEPT !.wall = TRUE, !.at = "end"]

Act(a) ==
  LET s == sess[a]
      n == Head(s.left)
      Noted(past) == IF s.kind = "backfill" THEN [past EXCEPT ![a] = @ \cup {n}] ELSE past
  IN
  /\ s.at = "act" /\ s.left # <<>>
  /\ \E o \in Outcomes(n, given[a][n]) :
       /\ given' = [given EXCEPT ![a][n] = o.shown]
       /\ \/ sess' = [sess EXCEPT ![a] = Reported(s, o.entry)] /\ UNCHANGED <<unseen, faults>>
          \/ sess' = [sess EXCEPT ![a] = Walled(s)] /\ unseen' = Noted(unseen) /\ Fault
  /\ acted' = Noted(acted)
  /\ UNCHANGED <<valid, queueVars, hook, merge, ledger, clock, books>>

(* The targets are done, or the round's time is up after the first of them. *)
EndSession(a) ==
  /\ sess[a].at = "act" /\ sess[a].got # <<>>
  /\ sess' = [sess EXCEPT ![a].at = "end"]
  /\ UNCHANGED <<valid, queueVars, hook, merge, pageVars, clock, books, faults>>

(* _handle_wall: the account is restricted until somebody sees to it. *)
Restricted(a) == [valid EXCEPT ![a] = @ /\ ~sess[a].wall]

NotesOf(results) == {results[i].note : i \in DOMAIN results}

(* _record_outcome: the rows of this actor and note are written over; a failed  *)
(* write is swallowed.                                                       *)
Rows(results) ==
  [i \in DOMAIN results |-> LET r == results[Len(results) + 1 - i]
                            IN [note |-> r.note, ok |-> r.ok, missing |-> r.missing, age |-> 0]]
Others(rows, notes) ==
  LET first[k \in 0..Len(rows)] ==
        IF k = 0 THEN <<>>
        ELSE IF rows[k].note \in notes THEN first[k - 1] ELSE Append(first[k - 1], rows[k])
  IN first[Len(rows)]
Recorded(a, results) == Rows(results) \o Others(ledger[a], NotesOf(results))

EndRound(a) ==
  LET s == sess[a] IN
  /\ s.at = "end" /\ s.kind = "backfill"
  /\ \/ ledger' = [ledger EXCEPT ![a] = Recorded(a, s.got)] /\ UNCHANGED <<unseen, faults>>
     \/ /\ s.got # <<>> /\ Fault /\ UNCHANGED ledger
        /\ unseen' = [unseen EXCEPT ![a] = @ \cup NotesOf(s.got)]
  /\ valid' = Restricted(a)
  /\ sess' = [sess EXCEPT ![a] = Idle]
  /\ UNCHANGED <<queueVars, hook, merge, given, acted, clock, books>>

(* What a matrix job leaves goes into another job, unless it hit a wall.       *)
LeftOver(s) == s.left \o s.rest

EndMatrix(a) ==
  LET s == sess[a] IN
  /\ s.at = "end" /\ s.kind = "matrix"
  /\ handled' = [handled EXCEPT ![a] = [n \in Notes |-> IF n \in NotesOf(s.got) THEN @[n] + 1 ELSE @[n]]]
  /\ valid' = Restricted(a)
  /\ dropped' = [dropped EXCEPT ![a] = IF s.wall THEN @ \cup ToSet(LeftOver(s)) ELSE @]
  /\ merge' = IF s.wall \/ LeftOver(s) = <<>> THEN merge ELSE Merging(a, a, LeftOver(s))
  /\ sess' = [sess EXCEPT ![a] = [Idle EXCEPT !.at = "carry", !.kind = "matrix", !.job = s.job]]
  /\ UNCHANGED <<queueVars, hook, pageVars, clock, owed, faults>>

(* The job is finished when its remainder is safe, or given up.  *)
Finish(a) ==
  LET s == sess[a] IN
  /\ s.at = "carry"
  /\ \/ merge[a].at = "none" /\ UNCHANGED <<merge, dropped, faults>>
     \/ /\ merge[a].at # "none" /\ Fault
        /\ merge' = [merge EXCEPT ![a] = NoMerge]
        /\ dropped' = [dropped EXCEPT ![a] = @ \cup ToSet(merge[a].notes)]
  /\ jobs' = [jobs EXCEPT ![a][s.job].status = "ended"]
  /\ sess' = [sess EXCEPT ![a] = Idle]
  /\ UNCHANGED <<valid, rounds, enqueued, hook, pageVars, clock, owed, handled>>

(* The child is killed: neither kind is executed again. *)
Kill(a) ==
  LET s == sess[a]
      lost == ToSet(s.left) \cup ToSet(s.rest) \cup NotesOf(s.got) \cup ToSet(merge[a].notes)
  IN
  /\ s # Idle /\ Fault
  /\ sess' = [sess EXCEPT ![a] = Idle] /\ merge' = [merge EXCEPT ![a] = NoMerge]
  /\ IF s.kind = "matrix"
     THEN /\ jobs' = [jobs EXCEPT ![a][s.job].status = "ended"]
          /\ dropped' = [dropped EXCEPT ![a] = @ \cup lost]
          /\ UNCHANGED unseen
     ELSE /\ unseen' = [unseen EXCEPT ![a] = @ \cup NotesOf(s.got)]
          /\ UNCHANGED <<jobs, dropped>>
  /\ UNCHANGED <<valid, rounds, enqueued, hook, ledger, given, acted, clock, owed, handled>>

(***************************************************************************)
(* The environment                                                         *)
(***************************************************************************)

(* kick_onboarding_chain: a round of its own for an account whose cookies are     *)
(* valid again, none being in flight.  It may fail, of which nobody hears.       *)
Welcome(a) ==
  /\ ~InFlight(a) /\ enqueued < MaxRounds
  /\ rounds' = [rounds EXCEPT ![a] = @ + 1] /\ enqueued' = enqueued + 1

(* The account passes a cookie check again. *)
Revalidate(a) ==
  /\ ~valid[a] /\ valid' = [valid EXCEPT ![a] = TRUE]
  /\ Welcome(a) \/ UNCHANGED <<rounds, enqueued>>
  /\ UNCHANGED <<jobs, sess, hook, merge, pageVars, clock, books, faults>>

(* Half a day passes; a new day begins after its second half. *)
HalfDay ==
  /\ halves < MaxHalves /\ halves' = halves + 1 /\ half' = 1 - half
  /\ ledger' = [a \in Actors |-> [i \in DOMAIN ledger[a] |->
                                   [ledger[a][i] EXCEPT !.age = Min({2, @ + 1})]]]
  /\ IF half = 1 THEN acted' = [a \in Actors |-> {}] /\ unseen' = [a \in Actors |-> {}]
     ELSE UNCHANGED <<acted, unseen>>
  /\ UNCHANGED <<valid, queueVars, sess, hook, merge, given, books, faults>>

Merger(p) == Select(p) \/ Update(p) \/ Insert(p)
Session(a) == Act(a) \/ EndSession(a) \/ EndRound(a) \/ EndMatrix(a) \/ Finish(a)
Claim(a) == ClaimRound(a) \/ \E j \in DOMAIN jobs[a] : ClaimMatrix(a, j)

Next ==
  \/ \E p \in Actors \cup Notes : Merger(p)
  \/ \E n \in Notes : Publish(n) \/ Reach(n) \/ HookFails(n)
  \/ \E a \in Actors : Ask(a) \/ Claim(a) \/ Session(a) \/ Kill(a) \/ Revalidate(a)
  \/ Scan \/ (\E owner \in AllOwners : AfterSync(owner)) \/ HalfDay

Spec == Init /\ [][Next]_vars

(***************************************************************************)
(* Properties                                                              *)
(***************************************************************************)

Result == [note : Notes, ok : SUBSET Actions, missing : BOOLEAN]
Row == [note : Notes, ok : SUBSET Actions, missing : BOOLEAN, age : 0..2]
Job == [status : {"queued", "running", "ended"}, notes : Seq(Notes)]
Sessions == [at : {"idle", "act", "end", "carry"}, kind : {None, "matrix", "backfill"}, job : Nat,
             left : Seq(Notes), rest : Seq(Notes), got : Seq(Result), wall : BOOLEAN]
Hooks == [at : {"unpublished", "reach", "end"}, todo : SUBSET Actors]
Merges == [at : {"none", "select", "update", "insert"}, account : Actors \cup {None},
           notes : Seq(Notes), job : Nat, tries : Nat]

TypeOK ==
  /\ valid \in [Actors -> BOOLEAN] /\ jobs \in [Actors -> Seq(Job)] /\ rounds \in [Actors -> Nat]
  /\ sess \in [Actors -> Sessions] /\ hook \in [Notes -> Hooks]
  /\ merge \in [Actors \cup Notes -> Merges]
  /\ ledger \in [Actors -> Seq(Row)] /\ given \in [Actors -> [Notes -> SUBSET Actions]]
  /\ half \in {0, 1} /\ halves \in 0..MaxHalves
  /\ acted \in [Actors -> SUBSET Notes] /\ unseen \in [Actors -> SUBSET Notes]
  /\ owed \in [Notes -> SUBSET Actors] /\ handled \in [Actors -> [Notes -> Nat]]
  /\ dropped \in [Actors -> SUBSET Notes]
  /\ enqueued \in 0..MaxRounds /\ faults \in 0..MaxFaults

(* The throttle holds, counted on what the sessions did and not on what the    *)
(* ledger says: no actor opens more notes of the past in a day than its limit, *)
(* but for those that a wall, a killed child or a failed write hid from the    *)
(* ledger.                                                                  *)
CapKept ==
  \A a \in Actors : Cardinality(acted[a]) <= DailyLimit + Cardinality(unseen[a])

(* Where a note is on its way to an account: a tag, whose it is, and a position. *)
Spots(seq, n) == {i \in DOMAIN seq : seq[i] = n}
Queued(a) == {j \in DOMAIN jobs[a] : jobs[a][j].status = "queued"}
Mergers(a) == {p \in Actors \cup Notes : merge[p].account = a}
InHook(a, n) == {<<"hook", n, 0>> : b \in hook[n].todo \cap {a}}
InMerge(p, n) == {"merge"} \X {p} \X Spots(merge[p].notes, n)
InJob(a, j, n) == {"job"} \X {j} \X Spots(jobs[a][j].notes, n)
InMerges(a, n) == UNION {InMerge(p, n) : p \in Mergers(a)}
InJobs(a, n) == UNION {InJob(a, j, n) : j \in Queued(a)}
InHand(a, n) ==
  LET s == sess[a] IN
  IF s.kind # "matrix" THEN {}
  ELSE ({"left"} \X {a} \X Spots(s.left, n)) \cup ({"rest"} \X {a} \X Spots(s.rest, n))
         \cup ({"got"} \X {a} \X {i \in DOMAIN s.got : s.got[i].note = n})
Handled(a, n) == {"handled"} \X {a} \X (1..handled[a][n])
Places(a, n) ==
  InHook(a, n) \cup InMerges(a, n) \cup InJobs(a, n) \cup InHand(a, n) \cup Handled(a, n)

(* Every publication reaches every account it was meant for exactly once, or   *)
(* is reported as given up: concurrent hooks, remainders and claims neither    *)
(* lose a note nor double it.                                               *)
EachNoteOnce ==
  \A n \in Notes : \A a \in Actors :
    IF a \in owed[n] /\ n \notin dropped[a] THEN Cardinality(Places(a, n)) = 1
    ELSE Cardinality(Places(a, n)) <= 1

(* What was given is never taken back, although a second click on the same     *)
(* icon does just that and reports of an earlier click may be wrong.          *)
NeverUndone == [][\A a \in Actors, n \in Notes : given[a][n] \subseteq given'[a][n]]_vars
=============================================================================
