---------------------------- MODULE NoteLedger ----------------------------
(***************************************************************************)
(* The ledger of an account's notes, published_notes.  A publication writes   *)
(* its row at once, without the note's id (record_published_note of          *)
(* services/note_ledger.py); synchronisations read the platform's list of     *)
(* notes (browser/creator_note_list.py) and tell which row is which note       *)
(* (sync_notes) by title and time alone.                                     *)
(*                                                                         *)
(*   day    the time, in steps longer than the narrow matching window          *)
(*   jobs   publish_jobs: status ("published" until its hooks have run, then    *)
(*          "over"), when it started, published_at (0: null)                    *)
(*   notes  what the platform has, the oldest first: by is the job that made     *)
(*          it (or Nobody), at its visible_time, dated whether the list shows  *)
(*          that time                                                           *)
(*   rows   published_notes: job is Nobody and note 0 where the column is null  *)
(*   sync   the synchronisation and the list it read, the newest note first        *)
(***************************************************************************)
EXTENDS Integers, Sequences, FiniteSets

CONSTANTS Jobs,       \* publish jobs of the account
          Nobody,     \* no job
          Title,      \* [Jobs -> titles]
          OtherTitle, \* titles of other people's notes, and edited ones
          Untitled,   \* the empty title, which the list may show
          LastDay,    \* bound: the last day
          Narrow,     \* MATCH_WINDOW_SECONDS
          Wide,       \* LEGACY_MATCH_WINDOW_SECONDS
          MaxNotes,   \* bound: notes ever made
          MaxUndated  \* bound: those whose time the list does not show

ASSUME NoteLedgerAssumption ==
  /\ Nobody \notin Jobs /\ LastDay \in Nat \ {0}
  /\ Narrow \in Nat /\ Wide \in Nat /\ Narrow <= Wide

VARIABLES day, jobs, notes, rows, sync
vars == <<day, jobs, notes, rows, sync>>

NoSync == [at |-> "none", list |-> <<>>]
Init ==
  /\ day = 1 /\ notes = <<>> /\ rows = <<>> /\ sync = NoSync
  /\ jobs = [j \in Jobs |-> [status |-> "pending", started |-> 0, published |-> 0]]

Made(by, title) ==
  {[by |-> by, title |-> title, at |-> day, dated |-> dated] :
     dated \in {d \in BOOLEAN : d \/ Cardinality({n \in DOMAIN notes : ~notes[n].dated}) < MaxUndated}}

(* The hooks that follow a publication run under the account's lock.                *)
Locked == \E j \in Jobs : jobs[j].status = "published"

(***************************************************************************)
(* The platform, and people                                                *)
(***************************************************************************)
(* A synchronisation that has its list neither looks at the clock again nor at new    *)
(* notes: nothing is lost by letting it store the list first.                        *)
Tick ==
  /\ sync.at = "none" /\ ~Locked /\ day < LastDay
  /\ day' = day + 1 /\ UNCHANGED <<jobs, notes, rows, sync>>
ByHand(title) ==
  /\ sync.at = "none" /\ Len(notes) < MaxNotes
  /\ \E note \in Made(Nobody, title) : notes' = Append(notes, note)
  /\ UNCHANGED <<day, jobs, rows, sync>>

(* A person gives a title to a note that has none.                                 *)
Entitle(n, title) ==
  /\ sync.at = "none" /\ notes[n].title = Untitled /\ notes' = [notes EXCEPT ![n].title = title]
  /\ UNCHANGED <<day, jobs, rows, sync>>

(***************************************************************************)
(* A publication and its two hooks                                         *)
(***************************************************************************)
(* A session makes a note.  It is published, or the session does not notice, or     *)
(* dies, and the job is tried again.                                             *)
Publish(j) ==
  /\ jobs[j].status = "pending" /\ ~Locked /\ Len(notes) < MaxNotes
  /\ \E note \in Made(j, Title[j]) : notes' = Append(notes, note)
  /\ \/ jobs' = [jobs EXCEPT ![j].status = "published", ![j].started = day]
     \/ UNCHANGED jobs
  /\ UNCHANGED <<day, rows, sync>>

Row(job, note, title, at, status) ==
  [job |-> job, note |-> note, title |-> title, at |-> at, status |-> status]
TakenLinked_m(rs) == {rs[r].job : r \in {s \in DOMAIN rs : rs[s].status = "linked"}}
Taken(rs) == {rs[r].job : r \in DOMAIN rs}

(* The row is written at once, unless the job has one: or the process is killed, or   *)
(* the insert fails, which no one hears of.                                        *)
Record(j) ==
  /\ jobs[j].status = "published" /\ jobs' = [jobs EXCEPT ![j].status = "over"]
  /\ rows' = IF j \in Taken(rows) THEN rows
             ELSE Append(rows, Row(j, 0, Title[j], day, "pending_id"))
  /\ UNCHANGED <<day, notes, sync>>
Forget(j) ==
  /\ jobs[j].status = "published" /\ jobs' = [jobs EXCEPT ![j].status = "over"]
  /\ UNCHANGED <<day, notes, rows, sync>>

(***************************************************************************)
(* A synchronisation                                                       *)
(***************************************************************************)
(* Asked for by the second hook, by a request or by the scheduler of               *)
(* note_ledger_sync_scheduler.py, it reads the pages of the list, under the account's   *)
(* lock.  A note may not be there yet or no more, and the later pages may be missing.    *)
NewestFirst(there) ==
  {ids \in [1..Cardinality(there) -> there] : \A k, l \in DOMAIN ids : k < l => ids[k] > ids[l]}
Fetch(there) ==
  /\ sync.at = "none" /\ ~Locked
  /\ \E ids \in NewestFirst(there) :
       sync' = [at |-> "fetched",
                list |-> [k \in DOMAIN ids |-> [id |-> ids[k], note |-> notes[ids[k]]]]]
  /\ UNCHANGED <<day, jobs, notes, rows>>

Near(a, b, window) == a - b \in (-window)..window

(* _pick_pending: the rows without a note that may be this one's.                  *)
CandidatesAnyTime_m(rs, note) ==
  {r \in DOMAIN rs : rs[r].note = 0 /\ rs[r].title = note.title /\ note.title # Untitled}
CandidatesDated_m(rs, note) ==
  {r \in DOMAIN rs : /\ rs[r].note = 0 /\ rs[r].title = note.title /\ note.title # Untitled
                     /\ note.dated /\ Near(rs[r].at, note.at, Narrow)}
Candidates(rs, note) ==
  {r \in DOMAIN rs : /\ rs[r].note = 0 /\ rs[r].title = note.title /\ note.title # Untitled
                     /\ note.dated => Near(rs[r].at, note.at, Narrow)}

(* A publication without a row that a note of this title may come from.  Any of      *)
(* them if the note's time is unknown; those within the narrow window if there are    *)
(* such, those within the wide one otherwise.                                     *)
JobTime(job) == IF job.published # 0 THEN job.published ELSE job.started
Within(js, candidates, note, window) == {j \in candidates : Near(JobTime(js[j]), note.at, window)}
Unclaimed(rs, js, title) ==
  {j \in Jobs : /\ js[j].status \in {"published", "over"} /\ Title[j] = title
                /\ j \notin Taken(rs)}
Origins(rs, js, title, note) ==
  LET all == Unclaimed(rs, js, title)
      tight == Within(js, all, note, Narrow)
  IN CASE title = Untitled -> {}
       [] ~note.dated -> all
       [] tight # {} -> tight
       [] OTHER -> Within(js, all, note, Wide)

Backfill(js, row) ==
  IF row.job # Nobody /\ js[row.job].published = 0 THEN [js EXCEPT ![row.job].published = row.at] ELSE js

(* _try_link_by_title                                                            *)
Linked(book, r, note) ==
  LET origins == Origins(book.rows, book.jobs, book.rows[r].title, note)
      job == CHOOSE j \in origins : TRUE
      row == [book.rows[r] EXCEPT !.job = job, !.status = "linked"]
  IN IF Cardinality(origins) = 1
     THEN [rows |-> [book.rows EXCEPT ![r] = row], jobs |-> Backfill(book.jobs, row)]
     ELSE book

Applied(row, entry) ==
  [row EXCEPT !.note = entry.id,
              !.title = IF entry.note.title # Untitled THEN entry.note.title ELSE @]

(* The three ways of sync_notes with a note of the list.                            *)
Refresh(book, r, entry) ==
  LET refreshed == [book EXCEPT !.rows[r] = Applied(@, entry)]
  IN IF book.rows[r].job = Nobody THEN Linked(refreshed, r, entry.note) ELSE refreshed
Adopt(book, r, entry) ==
  LET row == [Applied(book.rows[r], entry) EXCEPT !.status = "linked"]
  IN [rows |-> [book.rows EXCEPT ![r] = row], jobs |-> Backfill(book.jobs, row)]
Discover(book, entry) ==
  LET at == IF entry.note.dated THEN entry.note.at ELSE day
      row == Row(Nobody, entry.id, entry.note.title, at, "orphan")
  IN Linked([book EXCEPT !.rows = Append(@, row)], Len(book.rows) + 1, entry.note)

Entered(book, entry) ==
  LET known == {r \in DOMAIN book.rows : book.rows[r].note = entry.id}
      candidates == Candidates(book.rows, entry.note)
      The(rs) == CHOOSE r \in rs : TRUE
  IN CASE known # {} -> Refresh(book, The(known), entry)
       [] known = {} /\ Cardinality(candidates) = 1 -> Adopt(book, The(candidates), entry)
       [] known = {} /\ Cardinality(candidates) > 1 -> book
       [] OTHER -> Discover(book, entry)

(* The ledger after the first k notes of the list.                                    *)
Synced[k \in 0..Len(sync.list)] ==
  IF k = 0 THEN [rows |-> rows, jobs |-> jobs] ELSE Entered(Synced[k - 1], sync.list[k])

(* One transaction.  An empty list changes nothing: it is an error when the ledger    *)
(* has rows.                                                                     *)
Store ==
  /\ sync.at = "fetched" /\ sync' = NoSync
  /\ LET book == Synced[Len(sync.list)]
     IN rows' = book.rows /\ jobs' = book.jobs
  /\ UNCHANGED <<day, notes>>

(* No cookies, no answer, a crash: the ledger is as it was.                            *)
SyncFails == sync.at # "none" /\ sync' = NoSync /\ UNCHANGED <<day, jobs, notes, rows>>

Next ==
  \/ Tick \/ Store \/ SyncFails
  \/ \E there \in SUBSET (DOMAIN notes) : Fetch(there)
  \/ \E title \in OtherTitle : ByHand(title)
  \/ \E n \in DOMAIN notes, title \in OtherTitle \ {Untitled} : Entitle(n, title)
  \/ \E j \in Jobs : Publish(j) \/ Record(j) \/ Forget(j)

Spec == Init /\ [][Next]_vars

(***************************************************************************)
(* Properties                                                              *)
(***************************************************************************)
JobRow == [status : {"pending", "published", "over"}, started : 0..LastDay, published : 0..LastDay]
Titles == OtherTitle \cup {Untitled} \cup {Title[j] : j \in Jobs}
Note == [by : Jobs \cup {Nobody}, title : Titles, at : 1..LastDay, dated : BOOLEAN]
LedgerRow == [job : Jobs \cup {Nobody}, note : 0..Len(notes), title : Titles, at : 1..LastDay,
              status : {"pending_id", "linked", "orphan"}]
Entry == {[id |-> n, note |-> notes[n]] : n \in DOMAIN notes}
TypeOK ==
  /\ day \in 1..LastDay /\ jobs \in [Jobs -> JobRow]
  /\ notes \in Seq(Note) /\ rows \in Seq(LedgerRow)
  /\ sync.at \in {"none", "fetched"} /\ sync.list \in Seq(Entry)

(* The unique constraints on (account_id, note_id) and on source_publish_job_id,     *)
(* which would undo a whole synchronisation, are never met: a note has one row, a     *)
(* publication has one row, and a row has one of them at least.                       *)
OneRowEach ==
  \A r, s \in DOMAIN rows :
    /\ rows[r].job # Nobody \/ rows[r].note # 0
    /\ r # s /\ rows[r].job = rows[s].job => rows[r].job = Nobody
    /\ r # s /\ rows[r].note = rows[s].note => rows[r].note = 0

(* What a publication is said to have made, it made, or it is a note of another that   *)
(* came within a day of one it made.  MATCH_WINDOW_SECONDS and                       *)
(* LEGACY_MATCH_WINDOW_SECONDS speak of the times of rows and of jobs: this is about    *)
(* the notes.                                                                     *)
LinksNear ==
  \A r \in DOMAIN rows : rows[r].job # Nobody /\ rows[r].note # 0 /\ notes[rows[r].note].dated =>
    \E n \in DOMAIN notes : /\ notes[n].by = rows[r].job
                            /\ Near(notes[n].at, notes[rows[r].note].at, Wide)

Waits(r, title) == rows[r].note = 0 /\ rows[r].title = title
EntersList ==
  \A k \in DOMAIN sync.list :
    LET entry == sync.list[k]
        waiting == {r \in DOMAIN rows : Waits(r, entry.note.title)}
    IN /\ \/ \E r \in DOMAIN rows' : rows'[r].note = entry.id
          \/ Cardinality(waiting) > 1
       /\ \A r \in waiting :
            /\ waiting = {r} /\ rows[r].at = entry.note.at /\ entry.note.title # Untitled
            /\ \A s \in DOMAIN rows : rows[s].note # entry.id
            => rows'[r].note # 0

(* After a synchronisation every note of its list is in the ledger, unless two           *)
(* publications wait for a note of its title; and a row that waited for a note of its     *)
(* title and time that no row had, alone, waits no longer, unless that title is empty    *)
(* (the list shows it so, or the job was given none).                                  *)
ListIsEntered == [][sync.at = "fetched" /\ Store => EntersList]_vars
=============================================================================
