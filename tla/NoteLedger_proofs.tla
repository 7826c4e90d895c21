-------------------------- MODULE NoteLedger_proofs --------------------------
(***************************************************************************)
(* A note and a publication have one row each, links are near, and a          *)
(* synchronisation enters its list, for any number of publications, notes and *)
(* days.                                                                   *)
(*                                                                         *)
(* A synchronisation stores a whole list in one transaction, so the step is    *)
(* an induction over the list: what every entry keeps (BookOK), the           *)
(* transaction keeps.  Induction over the natural numbers is had from          *)
(* well-founded minima, in the form of a set closed under successors.          *)
(*                                                                         *)
(* At the end, the same for the others who act on those notes: the rounds    *)
(* that hold a managed account to its ceiling (Retention), and the tasks that *)
(* set who may see a note (NoteVisibility).                                  *)
(***************************************************************************)
EXTENDS NoteLedger, Retention, NoteVisibility, FiniteSetTheorems, WellFoundedInduction, TLAPS

Begun == {"published", "over"}

(* The ledger within a transaction, of the same shape as the stored one. *)
Book == [rows |-> rows, jobs |-> jobs]

(* A note and a publication have one row, as OneRowEach has it of the stored rows. *)
OneEach(rs) ==
  \A r, s \in DOMAIN rs :
    /\ rs[r].job # Nobody \/ rs[r].note # 0
    /\ r # s /\ rs[r].job = rs[s].job => rs[r].job = Nobody
    /\ r # s /\ rs[r].note = rs[s].note => rs[r].note = 0

(* The publication j made a note of this time. *)
MadeNear(j, at, window) == \E n \in DOMAIN notes : notes[n].by = j /\ Near(notes[n].at, at, window)
AllNear(rs) ==
  \A r \in DOMAIN rs : rs[r].job # Nobody /\ rs[r].note # 0 /\ notes[rs[r].note].dated =>
    MadeNear(rs[r].job, notes[rs[r].note].at, Wide)

(* A publication that has begun made a note when it started; its time is only filled *)
(* in for a publication with a row; rows are of publications that have begun; and a  *)
(* row that waits for its note bears the time its publication started.             *)
BegunMade(js) ==
  \A j \in Jobs : js[j].status \in Begun => MadeNear(j, js[j].started, 0)
FilledTaken(rs, js) == \A j \in Jobs : js[j].published # 0 => j \in Taken(rs)
RowsBegun(rs, js) == \A r \in DOMAIN rs : rs[r].job # Nobody => js[rs[r].job].status \in Begun
WaitsFromStart(rs, js) ==
  \A r \in DOMAIN rs : rs[r].note = 0 => rs[r].job # Nobody /\ rs[r].at = js[rs[r].job].started

BookOK(rs, js) ==
  /\ rs \in Seq(LedgerRow) /\ js \in [Jobs -> JobRow]
  /\ BegunMade(js) /\ FilledTaken(rs, js) /\ RowsBegun(rs, js) /\ WaitsFromStart(rs, js)
  /\ OneEach(rs) /\ AllNear(rs)

(* The inductive invariant. *)
IInv ==
  /\ TypeOK /\ BookOK(rows, jobs)
  /\ sync.at = "none" => sync.list = <<>>
  /\ \A j \in Jobs : jobs[j].status = "published" => jobs[j].started = day

USE NoteLedgerAssumption

(***************************************************************************)
(* Induction                                                               *)
(***************************************************************************)

(* Every set of natural numbers that has a member has a least one. *)
LEMMA Least ==
  ASSUME NEW T \in SUBSET Nat, NEW n \in T
  PROVE  \E m \in T : \A k \in T : m <= k
<1> DEFINE below == {0..(m - 1) : m \in T}
<1>1. IsWellFoundedOn(StrictSubsetOrdering(Nat), FiniteSubsetsOf(Nat))
  BY FS_StrictSubsetOrderingWellFounded
<1>2. \A m \in T : 0..(m - 1) \in FiniteSubsetsOf(Nat)
  BY FS_Interval DEF FiniteSubsetsOf
<1>3. below \subseteq FiniteSubsetsOf(Nat) /\ below # {}
  BY <1>2
<1>4. PICK x \in below : \A y \in below : <<y, x>> \notin StrictSubsetOrdering(Nat)
  BY <1>1, <1>3, WFMin
<1>5. PICK m \in T : x = 0..(m - 1)
  BY <1>4
<1>6. ASSUME NEW k \in T, k < m PROVE FALSE
  <2>1. 0..(k - 1) \subseteq 0..(m - 1) /\ k \in 0..(m - 1) /\ k \notin 0..(k - 1)
    BY <1>6
  <2>2. <<0..(k - 1), x>> \in StrictSubsetOrdering(Nat)
    BY <1>5, <2>1 DEF StrictSubsetOrdering
  <2> QED BY <1>4, <2>2
<1> QED BY <1>5, <1>6

(* What holds of 0, and up to n of the successor of what it holds of, holds up to n. *)
LEMMA UpTo ==
  ASSUME NEW n \in Nat, NEW S, 0 \in S, \A k \in 0..(n - 1) : k \in S => k + 1 \in S
  PROVE  \A k \in 0..n : k \in S
<1> DEFINE T == {k \in 0..n : k \notin S}
<1> SUFFICES ASSUME NEW k \in T PROVE FALSE
  OBVIOUS
<1>1. PICK m \in T : \A l \in T : m <= l
  <2>1. T \in SUBSET Nat
    OBVIOUS
  <2> HIDE DEF T
  <2> QED BY <2>1, Least
<1>2. m # 0 /\ m - 1 \in 0..(n - 1)
  BY <1>1
<1>3. m - 1 \in S
  BY <1>1, <1>2
<1>4. (m - 1) + 1 \in S
  BY <1>2, <1>3
<1> QED BY <1>1, <1>2, <1>4

(***************************************************************************)
(* Steps on a book                                                         *)
(***************************************************************************)

(* A row with a note is put in place of one it continues, or added. *)
PutOK(rs, js, r, row, new) ==
  /\ new \in Seq(LedgerRow) /\ DOMAIN new = DOMAIN rs \cup {r} /\ new[r] = row
  /\ \A s \in DOMAIN rs \ {r} : new[s] = rs[s]
  /\ row.note # 0
  /\ r \in DOMAIN rs /\ rs[r].job # Nobody => row.job = rs[r].job
  /\ row.job # Nobody => js[row.job].status \in Begun
  /\ \A s \in DOMAIN rs \ {r} : /\ rs[s].note # row.note
                                /\ rs[s].job = row.job => row.job = Nobody
  /\ row.job # Nobody /\ notes[row.note].dated =>
       MadeNear(row.job, notes[row.note].at, Wide)

(* The book stays in order. *)
LEMMA PutKeeps ==
  ASSUME NEW rs, NEW js, BookOK(rs, js), NEW r, NEW row, NEW new, PutOK(rs, js, r, row, new)
  PROVE  BookOK(new, js)
<1>0. r \in DOMAIN new
  BY DEF PutOK
<1> USE DEF BookOK, PutOK
<1>1. \A s \in DOMAIN new : s = r \/ s \in DOMAIN rs \ {r}
  OBVIOUS
<1>2. FilledTaken(new, js)
  <2> SUFFICES ASSUME NEW j \in Jobs, js[j].published # 0 PROVE \E s \in DOMAIN new : new[s].job = j
    BY Zenon DEF FilledTaken, Taken
  <2>1. PICK s \in DOMAIN rs : rs[s].job = j
    BY DEF FilledTaken, Taken
  <2> QED BY <2>1
<1>3. RowsBegun(new, js)
  BY <1>1 DEF RowsBegun
<1>4. WaitsFromStart(new, js)
  BY <1>1 DEF WaitsFromStart
<1>5. OneEach(new)
  BY <1>1 DEF OneEach
<1>6. AllNear(new)
  BY <1>1 DEF AllNear
<1> QED BY <1>2, <1>3, <1>4, <1>5, <1>6

(* A sequence of rows with one replaced. *)
LEMMA PutRow ==
  ASSUME NEW rs \in Seq(LedgerRow), NEW r \in DOMAIN rs, NEW row \in LedgerRow
  PROVE  LET new == [rs EXCEPT ![r] = row]
         IN /\ new \in Seq(LedgerRow) /\ DOMAIN new = DOMAIN rs \cup {r} /\ new[r] = row
            /\ \A s \in DOMAIN rs \ {r} : new[s] = rs[s]
<1> DEFINE new == [rs EXCEPT ![r] = row]
<1>1. new \in Seq(LedgerRow) /\ new[r] = row
  OBVIOUS
<1>2. DOMAIN new = DOMAIN rs
  OBVIOUS
<1>3. \A s \in DOMAIN rs \ {r} : new[s] = rs[s]
  OBVIOUS
<1> QED BY <1>1, <1>2, <1>3

(* The time filled in changes neither the status of a job nor when it started. *)
SameLives(js, ks) ==
  \A j \in Jobs : ks[j].status = js[j].status /\ ks[j].started = js[j].started

Keeps(js, book) ==
  /\ book = [rows |-> book.rows, jobs |-> book.jobs]
  /\ BookOK(book.rows, book.jobs) /\ SameLives(js, book.jobs)

LEMMA BackfillKeeps ==
  ASSUME NEW rs, NEW js, BookOK(rs, js), NEW r \in DOMAIN rs
  PROVE  BookOK(rs, Backfill(js, rs[r])) /\ SameLives(js, Backfill(js, rs[r]))
<1> DEFINE ks == Backfill(js, rs[r])
<1>0. rs[r] \in LedgerRow
  BY DEF BookOK
<1>1. /\ ks \in [Jobs -> JobRow] /\ SameLives(js, ks)
      /\ \A j \in Jobs : ks[j].published # 0 => js[j].published # 0 \/ j = rs[r].job
  <2>1. CASE rs[r].job # Nobody /\ js[rs[r].job].published = 0
    <3>1. rs[r].job \in Jobs /\ rs[r].at \in 0..LastDay
      BY <1>0, <2>1 DEF LedgerRow
    <3>2. ks = [js EXCEPT ![rs[r].job].published = rs[r].at]
      BY <2>1 DEF Backfill
    <3>3. js \in [Jobs -> JobRow] /\ js[rs[r].job] \in JobRow
      BY <3>1 DEF BookOK
    <3> HIDE DEF ks
    <3>4. ks \in [Jobs -> JobRow]
      BY <3>1, <3>2, <3>3 DEF JobRow
    <3>5. \A j \in Jobs : j # rs[r].job => ks[j] = js[j]
      BY <3>2, <3>3
    <3>6. ks[rs[r].job] = [js[rs[r].job] EXCEPT !.published = rs[r].at]
      BY <3>1, <3>2, <3>3
    <3>7. /\ ks[rs[r].job].status = js[rs[r].job].status
          /\ ks[rs[r].job].started = js[rs[r].job].started
      BY <3>3, <3>6 DEF JobRow
    <3> QED BY <3>4, <3>5, <3>7 DEF SameLives
  <2>2. CASE ~(rs[r].job # Nobody /\ js[rs[r].job].published = 0)
    BY <2>2 DEF Backfill, SameLives, BookOK
  <2> QED BY <2>1, <2>2
<1> HIDE DEF ks
<1>2. BegunMade(ks)
  BY <1>1 DEF BegunMade, BookOK, SameLives
<1>3. FilledTaken(rs, ks)
  BY <1>1 DEF FilledTaken, BookOK, Taken
<1>4. \A s \in DOMAIN rs : rs[s].job \in Jobs \cup {Nobody}
  <2>1. rs \in Seq(LedgerRow)
    BY DEF BookOK
  <2>2. \A row \in LedgerRow : row.job \in Jobs \cup {Nobody}
    BY DEF LedgerRow
  <2> QED BY <2>1, <2>2
<1>5. RowsBegun(rs, ks)
  BY <1>1, <1>4 DEF RowsBegun, BookOK, SameLives
<1>6. WaitsFromStart(rs, ks)
  BY <1>1, <1>4 DEF WaitsFromStart, BookOK, SameLives
<1>7. BookOK(rs, ks)
  BY <1>1, <1>2, <1>3, <1>5, <1>6 DEF BookOK
<1> QED BY <1>1, <1>7 DEF ks

(***************************************************************************)
(* The ways of a note of the list into a book                              *)
(***************************************************************************)

(* What is known of an entry: the note it stands for. *)
LEMMA EntryParts ==
  ASSUME notes \in Seq(Note), NEW entry \in Entry
  PROVE  /\ entry.id \in DOMAIN notes /\ entry.id # 0 /\ entry.id \in 0..Len(notes)
         /\ entry.note = notes[entry.id] /\ entry.note.title \in Titles
         /\ entry.note.at \in 1..LastDay /\ entry.note.dated \in BOOLEAN
<1>1. PICK n \in DOMAIN notes : entry = [id |-> n, note |-> notes[n]]
  BY DEF Entry
<1>2. notes[n] \in Note
  OBVIOUS
<1> QED BY <1>1, <1>2 DEF Note

(* What the fields of the platform change of a row. *)
LEMMA AppliedParts ==
  ASSUME notes \in Seq(Note), NEW entry \in Entry, NEW row \in LedgerRow
  PROVE  /\ Applied(row, entry) \in LedgerRow
         /\ Applied(row, entry).note = entry.id
         /\ Applied(row, entry).job = row.job /\ Applied(row, entry).at = row.at
BY EntryParts DEF Applied, LedgerRow

(* An origin of a note was started near it, and has no row. *)
LEMMA OriginsNear ==
  ASSUME notes \in Seq(Note), NEW rs, NEW js, BookOK(rs, js), NEW title, NEW entry \in Entry,
         NEW j \in Origins(rs, js, title, entry.note)
  PROVE  /\ j \in Jobs /\ js[j].status \in Begun /\ j \notin Taken(rs)
         /\ entry.note.dated => MadeNear(j, entry.note.at, Wide)
<1>1. /\ j \in Unclaimed(rs, js, title)
      /\ entry.note.dated => \/ Near(JobTime(js[j]), entry.note.at, Narrow)
                             \/ Near(JobTime(js[j]), entry.note.at, Wide)
  BY DEF Origins, Within
<1>2. j \in Jobs /\ js[j].status \in Begun /\ j \notin Taken(rs)
  BY <1>1 DEF Unclaimed, Begun
<1>3. ASSUME entry.note.dated PROVE MadeNear(j, entry.note.at, Wide)
  <2>1. js[j].published = 0
    BY <1>2 DEF BookOK, FilledTaken
  <2>2. JobTime(js[j]) = js[j].started
    BY <2>1 DEF JobTime
  <2>3. js[j].started \in 0..LastDay /\ entry.note.at \in 1..LastDay
    BY <1>2, EntryParts DEF BookOK, JobRow
  <2>4. Near(js[j].started, entry.note.at, Wide)
    BY <1>1, <1>3, <2>2, <2>3 DEF Near, NoteLedgerAssumption
  <2>5. PICK n \in DOMAIN notes : notes[n].by = j /\ Near(notes[n].at, js[j].started, 0)
    BY <1>2 DEF BookOK, BegunMade, MadeNear
  <2>6. notes[n].at \in 1..LastDay
    <3>1. notes[n] \in Note
      OBVIOUS
    <3> QED BY <3>1 DEF Note
  <2>7. notes[n].at = js[j].started
    BY <2>3, <2>5, <2>6 DEF Near
  <2> QED BY <2>4, <2>5, <2>7 DEF MadeNear
<1> QED BY <1>2, <1>3

(* A set with one member is not empty. *)
LEMMA OneIsSome ==
  ASSUME NEW T, Cardinality(T) = 1
  PROVE  T # {}
<1> SUFFICES ASSUME T = {} PROVE FALSE
  OBVIOUS
<1>1. Cardinality({}) = 0
  BY FS_EmptySet
<1> QED BY <1>1

(* A row that says whose note it has, and a book with that row. *)
LEMMA LinkedKeeps ==
  ASSUME notes \in Seq(Note), NEW rs, NEW js, BookOK(rs, js), NEW r \in DOMAIN rs,
         NEW entry \in Entry, rs[r].job = Nobody, rs[r].note = entry.id
  PROVE  LET book == Linked([rows |-> rs, jobs |-> js], r, entry.note)
         IN Keeps(js, book)
<1> DEFINE origins == Origins(rs, js, rs[r].title, entry.note)
           j == CHOOSE k \in origins : TRUE
           row == [rs[r] EXCEPT !.job = j, !.status = "linked"]
           new == [rs EXCEPT ![r] = row]
           book == Linked([rows |-> rs, jobs |-> js], r, entry.note)
<1> SUFFICES Keeps(js, book)
  OBVIOUS
<1>1. CASE Cardinality(origins) # 1
  <2>1. book = [rows |-> rs, jobs |-> js]
    BY <1>1 DEF Linked
  <2> HIDE DEF book
  <2> QED BY <2>1 DEF Keeps, SameLives
<1>2. CASE Cardinality(origins) = 1
  <2>1. book = [rows |-> new, jobs |-> Backfill(js, row)]
    BY <1>2 DEF Linked
  <2>2. j \in origins
    <3> HIDE DEF origins
    <3> QED BY <1>2, OneIsSome
  <2>3. /\ j \in Jobs /\ js[j].status \in Begun /\ j \notin Taken(rs)
        /\ entry.note.dated => MadeNear(j, entry.note.at, Wide)
    BY <2>2, OriginsNear
  <2>4. rs \in Seq(LedgerRow) /\ rs[r] \in LedgerRow
    BY DEF BookOK
  <2> HIDE DEF j
  <2>5. row \in LedgerRow /\ row.job = j /\ row.note = entry.id
    BY <2>3, <2>4 DEF LedgerRow
  <2> HIDE DEF row
  <2>6. /\ new \in Seq(LedgerRow) /\ DOMAIN new = DOMAIN rs \cup {r} /\ new[r] = row
        /\ \A s \in DOMAIN rs \ {r} : new[s] = rs[s]
    BY <2>4, <2>5, PutRow
  <2>7. \A s \in DOMAIN rs \ {r} : rs[s].note # row.note /\ rs[s].job # row.job
    BY <2>3, <2>5, EntryParts DEF BookOK, OneEach, Taken
  <2> HIDE DEF new
  <2>8. /\ row.note # 0 /\ js[row.job].status \in Begun
        /\ notes[row.note].dated => MadeNear(row.job, notes[row.note].at, Wide)
    BY <2>3, <2>5, EntryParts
  <2>9. BookOK(new, js)
    <3>1. PutOK(rs, js, r, row, new)
      BY <2>6, <2>7, <2>8 DEF PutOK
    <3> QED BY <3>1, PutKeeps
  <2>10. BookOK(new, Backfill(js, new[r])) /\ SameLives(js, Backfill(js, new[r]))
    BY <2>6, <2>9, BackfillKeeps
  <2> HIDE DEF book
  <2> QED BY <2>1, <2>6, <2>10 DEF Keeps
<1> QED BY <1>1, <1>2

(* A note the ledger knows. *)
LEMMA RefreshKeeps ==
  ASSUME notes \in Seq(Note), NEW rs, NEW js, BookOK(rs, js), NEW r \in DOMAIN rs,
         NEW entry \in Entry, rs[r].note = entry.id
  PROVE  LET book == Refresh([rows |-> rs, jobs |-> js], r, entry)
         IN Keeps(js, book)
<1> DEFINE row == Applied(rs[r], entry)
           new == [rs EXCEPT ![r] = row]
           book == Refresh([rows |-> rs, jobs |-> js], r, entry)
<1> SUFFICES Keeps(js, book)
  OBVIOUS
<1>1. rs \in Seq(LedgerRow) /\ rs[r] \in LedgerRow
  BY DEF BookOK
<1>2. row \in LedgerRow /\ row.note = entry.id /\ row.job = rs[r].job
  BY <1>1, AppliedParts
<1>3. book = IF rs[r].job = Nobody THEN Linked([rows |-> new, jobs |-> js], r, entry.note)
             ELSE [rows |-> new, jobs |-> js]
  BY DEF Refresh
<1> HIDE DEF row, book
<1>4. /\ new \in Seq(LedgerRow) /\ DOMAIN new = DOMAIN rs \cup {r} /\ new[r] = row
      /\ \A s \in DOMAIN rs \ {r} : new[s] = rs[s]
  BY <1>1, <1>2, PutRow
<1>5. /\ \A s \in DOMAIN rs \ {r} : rs[s].note # row.note
      /\ row.job # Nobody => \A s \in DOMAIN rs \ {r} : rs[s].job # row.job
  BY <1>2, EntryParts DEF BookOK, OneEach
<1>6. /\ row.note # 0 /\ (rs[r].job # Nobody => row.job = rs[r].job)
      /\ row.job # Nobody => js[row.job].status \in Begun
      /\ row.job # Nobody /\ notes[row.note].dated =>
           MadeNear(row.job, notes[row.note].at, Wide)
  BY <1>2, EntryParts DEF BookOK, RowsBegun, AllNear
<1> HIDE DEF new
<1>7. BookOK(new, js)
  <2>1. PutOK(rs, js, r, row, new)
    BY <1>4, <1>5, <1>6 DEF PutOK
  <2> QED BY <2>1, PutKeeps
<1>8. CASE rs[r].job = Nobody
  <2>1. r \in DOMAIN new /\ new[r].job = Nobody /\ new[r].note = entry.id
    BY <1>2, <1>4, <1>8
  <2> QED BY <1>3, <1>7, <1>8, <2>1, LinkedKeeps
<1>9. CASE rs[r].job # Nobody
  BY <1>3, <1>7, <1>9 DEF Keeps, SameLives
<1> QED BY <1>8, <1>9

(* A row that waits takes the note. *)
LEMMA AdoptKeeps ==
  ASSUME notes \in Seq(Note), NEW rs, NEW js, BookOK(rs, js), NEW entry \in Entry,
         \A s \in DOMAIN rs : rs[s].note # entry.id, NEW r \in Candidates(rs, entry.note)
  PROVE  LET book == Adopt([rows |-> rs, jobs |-> js], r, entry)
         IN Keeps(js, book)
<1> DEFINE applied == Applied(rs[r], entry)
           row == [applied EXCEPT !.status = "linked"]
           new == [rs EXCEPT ![r] = row]
           book == Adopt([rows |-> rs, jobs |-> js], r, entry)
<1>1. rs \in Seq(LedgerRow) /\ r \in DOMAIN rs /\ rs[r].note = 0
  BY DEF BookOK, Candidates
<1>2. rs[r] \in LedgerRow
  BY <1>1
<1>3. /\ applied \in LedgerRow /\ applied.note = entry.id
      /\ applied.job = rs[r].job /\ applied.at = rs[r].at
  BY <1>2, AppliedParts
<1>4. book = [rows |-> new, jobs |-> Backfill(js, row)]
  BY DEF Adopt
<1> SUFFICES Keeps(js, book)
  OBVIOUS
<1> HIDE DEF applied, book
<1>5. row \in LedgerRow /\ row.note = entry.id /\ row.job = rs[r].job
  BY <1>3 DEF LedgerRow
<1> HIDE DEF row
<1>6. /\ new \in Seq(LedgerRow) /\ DOMAIN new = DOMAIN rs \cup {r} /\ new[r] = row
      /\ \A s \in DOMAIN rs \ {r} : new[s] = rs[s]
  BY <1>1, <1>5, PutRow
<1> HIDE DEF new
<1>7. /\ row.note # 0 /\ (rs[r].job # Nobody => row.job = rs[r].job)
      /\ \A s \in DOMAIN rs \ {r} : rs[s].note # row.note
      /\ row.job # Nobody => \A s \in DOMAIN rs \ {r} : rs[s].job # row.job
      /\ row.job # Nobody => js[row.job].status \in Begun
  BY <1>1, <1>5, EntryParts DEF BookOK, OneEach, RowsBegun
<1>8. ASSUME row.job # Nobody, notes[row.note].dated
      PROVE  MadeNear(row.job, notes[row.note].at, Wide)
  <2> DEFINE j == rs[r].job
  <2>1. entry.note = notes[row.note] /\ entry.note.at \in 1..LastDay
    BY <1>5, EntryParts
  <2>2. j \in Jobs /\ rs[r].at \in 1..LastDay
    BY <1>2, <1>5, <1>8 DEF LedgerRow
  <2>3. rs[r].at = js[j].started /\ js[j].status \in Begun
    BY <1>1, <1>5, <1>8 DEF BookOK, WaitsFromStart, RowsBegun
  <2>4. Near(rs[r].at, entry.note.at, Narrow)
    BY <1>8, <2>1 DEF Candidates
  <2>5. PICK n \in DOMAIN notes : notes[n].by = j /\ Near(notes[n].at, js[j].started, 0)
    BY <2>2, <2>3 DEF BookOK, BegunMade, MadeNear
  <2>6. notes[n].at \in 1..LastDay
    <3>1. notes[n] \in Note
      OBVIOUS
    <3> QED BY <3>1 DEF Note
  <2>7. notes[n].at = rs[r].at
    BY <2>2, <2>3, <2>5, <2>6 DEF Near
  <2>8. Near(notes[n].at, entry.note.at, Wide)
    BY <2>1, <2>2, <2>4, <2>7 DEF Near, NoteLedgerAssumption
  <2> QED BY <1>5, <2>1, <2>5, <2>8 DEF MadeNear
<1>9. BookOK(new, js)
  <2>1. PutOK(rs, js, r, row, new)
    BY <1>6, <1>7, <1>8 DEF PutOK
  <2> QED BY <2>1, PutKeeps
<1>10. BookOK(new, Backfill(js, new[r])) /\ SameLives(js, Backfill(js, new[r]))
  BY <1>1, <1>6, <1>9, BackfillKeeps
<1> QED BY <1>4, <1>6, <1>10 DEF Keeps

(* A row is made for a note that none waits for. *)
LEMMA DiscoverKeeps ==
  ASSUME notes \in Seq(Note), day \in 1..LastDay, NEW rs, NEW js, BookOK(rs, js),
         NEW entry \in Entry, \A s \in DOMAIN rs : rs[s].note # entry.id
  PROVE  LET book == Discover([rows |-> rs, jobs |-> js], entry)
         IN Keeps(js, book)
<1> DEFINE at == IF entry.note.dated THEN entry.note.at ELSE day
           row == Row(Nobody, entry.id, entry.note.title, at, "orphan")
           new == Append(rs, row)
           r == Len(rs) + 1
           book == Discover([rows |-> rs, jobs |-> js], entry)
<1>1. rs \in Seq(LedgerRow)
  BY DEF BookOK
<1>2. row \in LedgerRow /\ row.note = entry.id /\ row.job = Nobody
  BY EntryParts DEF Row, LedgerRow
<1>3. book = Linked([rows |-> new, jobs |-> js], r, entry.note)
  <2> DEFINE b == [rows |-> rs, jobs |-> js]
  <2>1. [b EXCEPT !.rows = Append(@, row)] = [rows |-> new, jobs |-> js] /\ Len(b.rows) + 1 = r
    <3>1. b.rows = rs
      OBVIOUS
    <3>2. ASSUME NEW x PROVE [b EXCEPT !.rows = x] = [rows |-> x, jobs |-> js]
      OBVIOUS
    <3> HIDE DEF b
    <3> QED BY <3>1, <3>2
  <2>2. book = Linked([b EXCEPT !.rows = Append(@, row)], Len(b.rows) + 1, entry.note)
    BY Zenon DEF Discover
  <2> QED BY <2>1, <2>2
<1> SUFFICES Keeps(js, book)
  OBVIOUS
<1> HIDE DEF row, book
<1>4. /\ new \in Seq(LedgerRow) /\ new[r] = row
      /\ \A s \in DOMAIN rs \ {r} : new[s] = rs[s]
      /\ DOMAIN new = DOMAIN rs \cup {r} /\ r \notin DOMAIN rs
  BY <1>1, <1>2
<1> HIDE DEF new, r
<1>5. row.note # 0 /\ \A s \in DOMAIN rs \ {r} : rs[s].note # row.note
  BY <1>2, EntryParts
<1>6. BookOK(new, js)
  <2>1. PutOK(rs, js, r, row, new)
    BY <1>2, <1>4, <1>5 DEF PutOK
  <2> QED BY <2>1, PutKeeps
<1>7. r \in DOMAIN new /\ new[r].job = Nobody /\ new[r].note = entry.id
  BY <1>2, <1>4
<1> QED BY <1>3, <1>6, <1>7, LinkedKeeps

(* The step for one note of the list. *)
LEMMA EnteredKeeps ==
  ASSUME notes \in Seq(Note), day \in 1..LastDay, NEW rs, NEW js, BookOK(rs, js),
         NEW entry \in Entry
  PROVE  LET book == Entered([rows |-> rs, jobs |-> js], entry)
         IN Keeps(js, book)
<1> DEFINE b == [rows |-> rs, jobs |-> js]
           known == {r \in DOMAIN rs : rs[r].note = entry.id}
           candidates == Candidates(rs, entry.note)
           book == Entered(b, entry)
<1> SUFFICES Keeps(js, book)
  OBVIOUS
<1>1. CASE known # {}
  <2> DEFINE r == CHOOSE r \in known : TRUE
  <2>1. r \in DOMAIN rs /\ rs[r].note = entry.id
    BY <1>1
  <2>2. book = Refresh(b, r, entry)
    BY <1>1 DEF Entered
  <2> HIDE DEF r
  <2> QED BY <2>1, <2>2, RefreshKeeps
<1>2. CASE known = {} /\ Cardinality(candidates) = 1
  <2> DEFINE r == CHOOSE r \in candidates : TRUE
  <2>1. r \in candidates
    <3> HIDE DEF candidates
    <3> QED BY <1>2, OneIsSome
  <2>2. book = Adopt(b, r, entry)
    BY <1>2 DEF Entered
  <2>3. \A s \in DOMAIN rs : rs[s].note # entry.id
    BY <1>2
  <2> HIDE DEF r
  <2> QED BY <2>1, <2>2, <2>3, AdoptKeeps
<1>3. CASE known = {} /\ Cardinality(candidates) # 1
  <2>1. \A s \in DOMAIN rs : rs[s].note # entry.id
    BY <1>3
  <2>2. book = b \/ book = Discover(b, entry)
    BY <1>3 DEF Entered
  <2>3. CASE book = b
    <3> HIDE DEF book
    <3> QED BY <2>3 DEF Keeps, SameLives
  <2>4. CASE book = Discover(b, entry)
    BY <2>1, <2>4, DiscoverKeeps
  <2> QED BY <2>2, <2>3, <2>4
<1> QED BY <1>1, <1>2, <1>3

(***************************************************************************)
(* The whole list                                                          *)
(***************************************************************************)

(* There is a function that satisfies the recursion of Synced. *)
LEMMA SyncedExists ==
  ASSUME TypeOK
  PROVE  \E f : f = [k \in 0..Len(sync.list) |->
                    IF k = 0 THEN Book ELSE Entered(f[k - 1], sync.list[k])]
<1> DEFINE len == Len(sync.list)
           Good(g, n) == /\ g = [k \in 0..n |-> g[k]]
                         /\ g[0] = Book
                         /\ \A k \in 1..n : g[k] = Entered(g[k - 1], sync.list[k])
           S == {n \in 0..len : \E g : Good(g, n)}
<1>0. len \in Nat
  BY DEF TypeOK
<1> HIDE DEF len
<1>1. 0 \in S
  <2>1. Good([k \in 0..0 |-> Book], 0)
    OBVIOUS
  <2> HIDE DEF Good
  <2> QED BY <1>0, <2>1
<1>2. ASSUME NEW n \in 0..(len - 1), n \in S PROVE n + 1 \in S
  <2>1. PICK g : Good(g, n)
    BY <1>2
  <2> DEFINE h == [k \in 0..(n + 1) |->
                     IF k = n + 1 THEN Entered(g[n], sync.list[n + 1]) ELSE g[k]]
  <2>2. n \in Nat /\ n + 1 \in 0..len
    BY <1>0
  <2>3. h[n + 1] = Entered(g[n], sync.list[n + 1]) /\ \A k \in 0..n : h[k] = g[k]
    BY <2>2
  <2>4. h = [k \in 0..(n + 1) |-> h[k]]
    OBVIOUS
  <2> HIDE DEF h
  <2>5. ASSUME NEW k \in 1..(n + 1) PROVE h[k] = Entered(h[k - 1], sync.list[k])
    <3>1. CASE k = n + 1
      <4>1. h[k - 1] = g[n]
        BY <2>2, <2>3, <3>1
      <4> QED BY <2>3, <3>1, <4>1
    <3>2. CASE k # n + 1
      <4>1. k \in 1..n /\ k - 1 \in 0..n /\ k \in 0..n
        BY <2>2, <3>2
      <4>2. h[k - 1] = g[k - 1] /\ h[k] = g[k]
        BY <2>3, <4>1
      <4> QED BY <2>1, <4>1, <4>2
    <3> QED BY <3>1, <3>2
  <2>6. h[0] = Book
    BY <2>1, <2>2, <2>3
  <2>7. Good(h, n + 1)
    BY <2>4, <2>5, <2>6
  <2> HIDE DEF Good
  <2> QED BY <2>2, <2>7
<1>3. len \in S
  <2> HIDE DEF S
  <2> QED BY <1>0, <1>1, <1>2, UpTo
<1>4. PICK g : Good(g, len)
  BY <1>3
<1> DEFINE f == [k \in 0..len |-> IF k = 0 THEN Book ELSE Entered(g[k - 1], sync.list[k])]
<1>5. ASSUME NEW k \in 0..len PROVE f[k] = g[k]
  <2>1. f[k] = IF k = 0 THEN Book ELSE Entered(g[k - 1], sync.list[k])
    OBVIOUS
  <2>2. k = 0 \/ k \in 1..len
    BY <1>0
  <2> HIDE DEF f
  <2> QED BY <1>4, <2>1, <2>2
<1>6. f = g
  <2> HIDE DEF f
  <2>1. f = [k \in 0..len |-> f[k]]
    BY DEF f
  <2> QED BY <1>4, <1>5, <2>1
<1> HIDE DEF Good
<1> QED BY <1>6 DEF len

(* The two equations of Synced. *)
LEMMA SyncedDef ==
  ASSUME TypeOK
  PROVE  /\ Synced[0] = Book
         /\ \A k \in 1..Len(sync.list) : Synced[k] = Entered(Synced[k - 1], sync.list[k])
<1>1. Synced = [k \in 0..Len(sync.list) |->
                  IF k = 0 THEN Book ELSE Entered(Synced[k - 1], sync.list[k])]
  BY SyncedExists, Zenon DEF Synced, Book
<1>2. Len(sync.list) \in Nat
  BY DEF TypeOK
<1>3. 0 \in 0..Len(sync.list) /\ \A k \in 1..Len(sync.list) : k \in 0..Len(sync.list) /\ k # 0
  BY <1>2
<1> HIDE DEF Synced
<1>4. Synced[0] = Book
  BY <1>1, <1>3
<1>5. ASSUME NEW k \in 1..Len(sync.list) PROVE Synced[k] = Entered(Synced[k - 1], sync.list[k])
  BY <1>1, <1>3
<1> QED BY <1>4, <1>5

(* A synchronisation keeps what every entry keeps. *)
LEMMA StoreKeeps ==
  ASSUME TypeOK, BookOK(rows, jobs), Store
  PROVE  BookOK(rows', jobs') /\ SameLives(jobs, jobs')
<1> DEFINE len == Len(sync.list)
           S == {k \in 0..len : Keeps(jobs, Synced[k])}
<1>0. len \in Nat /\ notes \in Seq(Note) /\ day \in 1..LastDay
  BY DEF TypeOK
<1>1. \A k \in 1..len : sync.list[k] \in Entry
  BY DEF TypeOK
<1> HIDE DEF len
<1>2. 0 \in S
  <2>1. Synced[0] = Book /\ 0 \in 0..len
    BY <1>0, SyncedDef
  <2>2. Keeps(jobs, Book)
    BY DEF Book, Keeps, SameLives
  <2> QED BY <2>1, <2>2
<1>3. ASSUME NEW k \in 0..(len - 1), k \in S PROVE k + 1 \in S
  <2> DEFINE b == Synced[k]
             c == Synced[k + 1]
             entry == sync.list[k + 1]
  <2>1. k + 1 \in 1..len /\ k + 1 \in 0..len /\ (k + 1) - 1 = k
    BY <1>0
  <2>2. c = Entered(b, entry) /\ entry \in Entry
    BY <1>1, <2>1, SyncedDef DEF len
  <2>3. Keeps(jobs, b)
    BY <1>3
  <2> HIDE DEF b, c, entry
  <2>4. Keeps(b.jobs, c)
    <3>1. BookOK(b.rows, b.jobs) /\ b = [rows |-> b.rows, jobs |-> b.jobs]
      BY <2>3 DEF Keeps
    <3>2. Keeps(b.jobs, Entered([rows |-> b.rows, jobs |-> b.jobs], entry))
      BY <1>0, <2>2, <3>1, EnteredKeeps
    <3> QED BY <2>2, <3>1, <3>2
  <2>5. Keeps(jobs, c)
    BY <2>3, <2>4 DEF Keeps, SameLives
  <2> QED BY <2>1, <2>5 DEF c
<1>4. len \in S
  <2> HIDE DEF S
  <2>1. len \in Nat
    BY <1>0
  <2>2. \A k \in 0..(len - 1) : k \in S => k + 1 \in S
    BY <1>3
  <2>3. \A k \in 0..len : k \in S
    BY <1>2, <2>1, <2>2, UpTo
  <2> QED BY <2>1, <2>3
<1>5. rows' = Synced[len].rows /\ jobs' = Synced[len].jobs
  BY DEF Store, len
<1> QED BY <1>4, <1>5 DEF Keeps

(***************************************************************************)
(* The other steps                                                         *)
(***************************************************************************)

(* Notes that come, and titles that change, leave the books in order. *)
LEMMA GrownKeeps ==
  ASSUME NEW rs, NEW js, BookOK(rs, js), notes \in Seq(Note), (notes \in Seq(Note))',
         Len(notes) <= Len(notes'),
         \A n \in DOMAIN notes : /\ notes'[n].by = notes[n].by /\ notes'[n].at = notes[n].at
                                /\ notes'[n].dated = notes[n].dated
  PROVE  BookOK(rs, js)'
<1>1. DOMAIN notes \subseteq DOMAIN notes' /\ 0..Len(notes) \subseteq 0..Len(notes')
  OBVIOUS
<1>2. ASSUME NEW j, NEW at, NEW window, MadeNear(j, at, window) PROVE MadeNear(j, at, window)'
  BY <1>1, <1>2 DEF MadeNear, Near
<1>3. BegunMade(js)'
  BY <1>2 DEF BookOK, BegunMade
<1>4. (rs \in Seq(LedgerRow))'
  <2>1. \A row \in LedgerRow : (row \in LedgerRow)'
    BY <1>1 DEF LedgerRow
  <2>2. rs \in Seq(LedgerRow)
    BY DEF BookOK
  <2> QED BY <2>1, <2>2
<1>5. AllNear(rs)'
  <2> SUFFICES ASSUME NEW r \in DOMAIN rs, rs[r].job # Nobody, rs[r].note # 0,
                      notes'[rs[r].note].dated
               PROVE  \E n \in DOMAIN notes' :
                        /\ notes'[n].by = rs[r].job
                        /\ Near(notes'[n].at, notes'[rs[r].note].at, Wide)
    BY DEF AllNear, MadeNear
  <2>1. rs[r] \in LedgerRow
    BY DEF BookOK
  <2>2. rs[r].note \in DOMAIN notes
    BY <2>1 DEF LedgerRow
  <2>3. PICK n \in DOMAIN notes : /\ notes[n].by = rs[r].job
                                /\ Near(notes[n].at, notes[rs[r].note].at, Wide)
    BY <2>2 DEF BookOK, AllNear, MadeNear
  <2> QED BY <1>1, <2>2, <2>3
<1> QED BY <1>3, <1>4, <1>5
       DEF BookOK, JobRow, FilledTaken, RowsBegun, WaitsFromStart, OneEach, Taken, Begun

(* A note that is made is one of the platform's. *)
LEMMA MadeIsNote ==
  ASSUME TypeOK, NEW by \in Jobs \cup {Nobody}, NEW title \in Titles, NEW note \in Made(by, title)
  PROVE  note \in Note /\ note.by = by /\ note.at = day
<1>1. PICK dated \in BOOLEAN : note = [by |-> by, title |-> title, at |-> day, dated |-> dated]
  BY DEF Made
<1> QED BY <1>1 DEF Note, TypeOK

(* A note more. *)
LEMMA AppendedNote ==
  ASSUME TypeOK, NEW rs, NEW js, BookOK(rs, js), NEW note \in Note, notes' = Append(notes, note)
  PROVE  /\ (notes \in Seq(Note))' /\ BookOK(rs, js)'
         /\ Len(notes) + 1 \in DOMAIN notes' /\ notes'[Len(notes) + 1] = note
         /\ sync.list \in Seq(Entry) => (sync.list \in Seq(Entry') )
<1>0. notes \in Seq(Note) /\ notes' \in Seq(Note) /\ Note' = Note
  BY DEF TypeOK, Note, Titles
<1>1. /\ Len(notes') = Len(notes) + 1 /\ \A n \in DOMAIN notes : notes'[n] = notes[n]
      /\ Len(notes) + 1 \in DOMAIN notes' /\ notes'[Len(notes) + 1] = note
      /\ DOMAIN notes \subseteq DOMAIN notes' /\ Len(notes) <= Len(notes')
  BY <1>0
<1>2. BookOK(rs, js)'
  BY <1>0, <1>1, GrownKeeps
<1>3. Entry \subseteq Entry'
  BY <1>1 DEF Entry
<1>4. sync.list \in Seq(Entry) => sync.list \in Seq(Entry')
  BY <1>3
<1> QED BY <1>0, <1>1, <1>2, <1>4

(* The beginning. *)
LEMMA Initially == ASSUME Init PROVE IInv
<1>1. TypeOK
  BY DEF Init, NoSync, TypeOK, JobRow, NoteLedgerAssumption
<1>2. BookOK(rows, jobs)
  BY DEF Init, BookOK, JobRow, Begun, BegunMade, FilledTaken, RowsBegun, WaitsFromStart, OneEach,
         AllNear, NoteLedgerAssumption
<1> QED BY <1>1, <1>2 DEF Init, NoSync, IInv

(***************************************************************************)
(* Every step keeps the invariant                                          *)
(***************************************************************************)
(* A note of other people. *)
LEMMA ByHandKeeps ==
  ASSUME IInv, NEW title \in OtherTitle, ByHand(title)
  PROVE  IInv'
<1>1. PICK note \in Made(Nobody, title) : notes' = Append(notes, note)
  BY DEF ByHand
<1>2. TypeOK /\ BookOK(rows, jobs) /\ title \in Titles
  BY DEF IInv, Titles
<1>3. note \in Note
  BY <1>2, MadeIsNote
<1>4. /\ (notes \in Seq(Note))' /\ BookOK(rows, jobs)'
      /\ sync.list \in Seq(Entry) => sync.list \in Seq(Entry')
  BY <1>1, <1>2, <1>3, AppendedNote DEF ByHand
<1> QED BY <1>4 DEF ByHand, IInv, TypeOK, BookOK

(* A title given to a note. *)
LEMMA EntitleKeeps ==
  ASSUME IInv, NEW n \in DOMAIN notes, NEW title \in OtherTitle, Entitle(n, title)
  PROVE  IInv'
<1>1. notes \in Seq(Note) /\ title \in Titles /\ Note' = Note
  BY DEF IInv, TypeOK, Titles, Note
<1>2. notes[n] \in Note /\ notes' = [notes EXCEPT ![n].title = title]
  BY <1>1 DEF Entitle
<1>3. [notes[n] EXCEPT !.title = title] \in Note
  BY <1>1, <1>2 DEF Note
<1>4. /\ notes' \in Seq(Note) /\ Len(notes') = Len(notes)
      /\ notes'[n] = [notes[n] EXCEPT !.title = title]
      /\ \A m \in DOMAIN notes : m # n => notes'[m] = notes[m]
  BY <1>1, <1>2, <1>3
<1>5. \A m \in DOMAIN notes : /\ notes'[m].by = notes[m].by /\ notes'[m].at = notes[m].at
                             /\ notes'[m].dated = notes[m].dated
  BY <1>2, <1>4 DEF Note
<1>6. BookOK(rows, jobs)'
  BY <1>1, <1>4, <1>5, GrownKeeps DEF Entitle, IInv
<1>7. sync' = sync /\ sync.list = <<>>
  BY DEF Entitle, IInv
<1> QED BY <1>1, <1>4, <1>6, <1>7 DEF Entitle, IInv, TypeOK, BookOK

(* A publication makes a note, and may be said to have. *)
LEMMA PublishKeeps ==
  ASSUME IInv, NEW j \in Jobs, Publish(j)
  PROVE  IInv'
<1>1. PICK note \in Made(j, Title[j]) : notes' = Append(notes, note)
  BY DEF Publish
<1>2. /\ TypeOK /\ BookOK(rows, jobs) /\ Title[j] \in Titles
      /\ day \in 1..LastDay /\ day' = day /\ rows' = rows /\ sync' = sync
      /\ \A k \in Jobs : jobs[k].status = "published" => jobs[k].started = day
  BY DEF IInv, Titles, TypeOK, Publish
<1>3. note \in Note /\ note.by = j /\ note.at = day
  BY <1>1, <1>2, MadeIsNote
<1>4. /\ (notes \in Seq(Note))'
      /\ Len(notes) + 1 \in DOMAIN notes' /\ notes'[Len(notes) + 1] = note
      /\ sync.list \in Seq(Entry) => sync.list \in Seq(Entry')
  BY <1>1, <1>2, <1>3, AppendedNote
<1>5. /\ BookOK(rows, jobs)'
      /\ \A k \in Jobs : (jobs[k].status = "published" => jobs[k].started = day)'
  <2>1. CASE jobs' = jobs
    <3>1. BookOK(rows, jobs)'
      BY <1>1, <1>2, <1>3, <2>1, AppendedNote
    <3> QED BY <1>2, <2>1, <3>1
  <2>2. CASE jobs' = [jobs EXCEPT ![j].status = "published", ![j].started = day]
    <3>0. PICK ks, rs : ks = jobs /\ rs = rows
      OBVIOUS
    <3>1. BookOK(rs, ks)'
      BY <1>1, <1>2, <1>3, <3>0, AppendedNote
    <3>2. ks \in [Jobs -> JobRow] /\ ks[j] \in JobRow /\ ks[j].status = "pending"
      BY <1>2, <3>0 DEF BookOK, Publish
    <3> DEFINE job == [ks[j] EXCEPT !.status = "published", !.started = day]
    <3>3. /\ job \in JobRow /\ job.status = "published" /\ job.started = day
          /\ job.published = ks[j].published
      <4>1. day \in 0..LastDay
        BY <1>2 DEF NoteLedgerAssumption
      <4> QED BY <3>2, <4>1 DEF JobRow
    <3>4. jobs' = [ks EXCEPT ![j] = job]
      BY <2>2, <3>0, <3>2
    <3> HIDE DEF job
    <3>5. /\ jobs' \in [Jobs -> JobRow] /\ jobs'[j] = job
          /\ \A k \in Jobs : k # j => jobs'[k] = ks[k]
      BY <3>2, <3>3, <3>4
    <3>6. \A r \in DOMAIN rs : rs[r].job # j
      BY <1>2, <3>0, <3>2 DEF BookOK, RowsBegun, Begun
    <3>7. BegunMade(jobs)'
      <4> SUFFICES ASSUME NEW k \in Jobs, jobs'[k].status \in Begun
                   PROVE  \E n \in DOMAIN notes' :
                            notes'[n].by = k /\ Near(notes'[n].at, jobs'[k].started, 0)
        BY DEF BegunMade, MadeNear
      <4>1. CASE k = j
        BY <1>2, <1>3, <1>4, <3>3, <3>5, <4>1 DEF Near
      <4>2. CASE k # j
        BY <3>1, <3>5, <4>2 DEF BookOK, BegunMade, MadeNear
      <4> QED BY <4>1, <4>2
    <3>8. FilledTaken(rs, jobs')
      BY <1>2, <3>0, <3>3, <3>5 DEF BookOK, FilledTaken
    <3>9. RowsBegun(rs, jobs') /\ WaitsFromStart(rs, jobs')
      <4>1. \A r \in DOMAIN rs : rs[r].job # Nobody => jobs'[rs[r].job] = ks[rs[r].job]
        <5>1. \A r \in DOMAIN rs : rs[r] \in LedgerRow
          BY <1>2, <3>0 DEF BookOK
        <5>2. \A r \in DOMAIN rs : rs[r].job \in Jobs \cup {Nobody}
          BY <5>1 DEF LedgerRow
        <5> QED BY <3>5, <3>6, <5>2
      <4> QED BY <1>2, <3>0, <4>1 DEF BookOK, RowsBegun, WaitsFromStart
    <3>10. BookOK(rows, jobs)'
      BY <1>2, <3>0, <3>1, <3>5, <3>7, <3>8, <3>9
         DEF BookOK, FilledTaken, RowsBegun, WaitsFromStart, JobRow, Taken, Begun
    <3> QED BY <1>2, <3>0, <3>3, <3>5, <3>10
  <2> QED BY <2>1, <2>2 DEF Publish
<1>6. (sync.list \in Seq(Entry))' /\ (sync.at = "none" => sync.list = <<>>)'
  BY <1>2, <1>4 DEF IInv, TypeOK
<1> QED BY <1>2, <1>4, <1>5, <1>6 DEF IInv, TypeOK, BookOK

(* The end of the hooks: the publication's status changes, and nothing else of it. *)
LEMMA OverKeeps ==
  ASSUME NEW rs, NEW js, BookOK(rs, js), NEW j \in Jobs, js[j].status = "published"
  PROVE  LET ks == [js EXCEPT ![j].status = "over"]
         IN /\ BookOK(rs, ks) /\ ks[j].status = "over" /\ ks[j].started = js[j].started
            /\ \A k \in Jobs : k # j => ks[k] = js[k]
<1> DEFINE ks == [js EXCEPT ![j].status = "over"]
           job == [js[j] EXCEPT !.status = "over"]
<1>1. js \in [Jobs -> JobRow] /\ js[j] \in JobRow
  BY DEF BookOK
<1>2. /\ job \in JobRow /\ job.status = "over" /\ job.started = js[j].started
      /\ job.published = js[j].published
  BY <1>1 DEF JobRow
<1>3. ks = [js EXCEPT ![j] = job]
  BY <1>1
<1> HIDE DEF job
<1>4. ks \in [Jobs -> JobRow] /\ ks[j] = job /\ \A k \in Jobs : k # j => ks[k] = js[k]
  BY <1>1, <1>2, <1>3
<1> HIDE DEF ks
<1>5. BegunMade(ks) /\ FilledTaken(rs, ks)
  BY <1>2, <1>4 DEF BookOK, BegunMade, FilledTaken, Begun
<1>6. RowsBegun(rs, ks) /\ WaitsFromStart(rs, ks)
  <2>1. \A r \in DOMAIN rs : rs[r] \in LedgerRow
    BY DEF BookOK
  <2>2. \A r \in DOMAIN rs : rs[r].job \in Jobs \cup {Nobody}
    BY <2>1 DEF LedgerRow
  <2> QED BY <1>2, <1>4, <2>2 DEF BookOK, RowsBegun, WaitsFromStart, Begun
<1>7. BookOK(rs, ks)
  BY <1>4, <1>5, <1>6 DEF BookOK
<1> QED BY <1>2, <1>4, <1>7 DEF ks

(* The row a hook writes waits for its note. *)
LEMMA RecordedKeeps ==
  ASSUME notes \in Seq(Note), day \in 1..LastDay, NEW rs, NEW js, BookOK(rs, js), NEW j \in Jobs,
         j \notin Taken(rs), js[j].status \in Begun, js[j].started = day
  PROVE  BookOK(Append(rs, Row(j, 0, Title[j], day, "pending_id")), js)
<1> DEFINE row == Row(j, 0, Title[j], day, "pending_id")
           new == Append(rs, row)
           l == Len(rs) + 1
<1>1. rs \in Seq(LedgerRow)
  BY DEF BookOK
<1>2. row \in LedgerRow /\ row.job = j /\ row.note = 0 /\ row.at = day
  BY DEF Row, LedgerRow, Titles
<1> HIDE DEF row
<1>3. /\ new \in Seq(LedgerRow) /\ l \in DOMAIN new /\ new[l] = row
      /\ \A s \in DOMAIN rs : s \in DOMAIN new /\ new[s] = rs[s]
      /\ \A s \in DOMAIN new : s = l \/ s \in DOMAIN rs
  BY <1>1, <1>2
<1> HIDE DEF new, l
<1>4. j # Nobody /\ \A s \in DOMAIN rs : rs[s].job # j
  BY DEF Taken, NoteLedgerAssumption
<1>5. FilledTaken(new, js)
  <2> SUFFICES ASSUME NEW k \in Jobs, js[k].published # 0 PROVE \E s \in DOMAIN new : new[s].job = k
    BY Zenon DEF FilledTaken, Taken
  <2>1. PICK s \in DOMAIN rs : rs[s].job = k
    BY DEF BookOK, FilledTaken, Taken
  <2> QED BY <1>3, <2>1
<1>6. RowsBegun(new, js) /\ WaitsFromStart(new, js)
  BY <1>2, <1>3, <1>4 DEF BookOK, RowsBegun, WaitsFromStart
<1>7. OneEach(new)
  BY <1>2, <1>3, <1>4 DEF BookOK, OneEach
<1>8. AllNear(new)
  BY <1>2, <1>3 DEF BookOK, AllNear
<1>9. BookOK(new, js)
  BY <1>3, <1>5, <1>6, <1>7, <1>8 DEF BookOK
<1> QED BY <1>9 DEF new, row

(* A step that leaves day and notes alone needs only to keep the book. *)
LEMMA QuietKeeps ==
  ASSUME IInv, day' = day, notes' = notes, BookOK(rows', jobs'),
         (sync' = sync \/ sync' = NoSync),
         \A j \in Jobs : jobs'[j].status = "published" => jobs'[j].started = day
  PROVE  IInv'
<1>0. PICK rs, js : rs = rows' /\ js = jobs'
  OBVIOUS
<1>1. notes \in Seq(Note) /\ notes' \in Seq(Note) /\ Note' = Note
  BY DEF IInv, TypeOK, Note, Titles
<1>2. BookOK(rs, js)'
  BY <1>0, <1>1, GrownKeeps
<1>3. BookOK(rows, jobs)'
  BY <1>0, <1>2 DEF BookOK, BegunMade, FilledTaken, RowsBegun, WaitsFromStart, OneEach, AllNear,
                    LedgerRow, JobRow, Taken, Begun, MadeNear
<1>4. /\ (sync.at \in {"none", "fetched"} /\ sync.list \in Seq(Entry))'
      /\ (sync.at = "none" => sync.list = <<>>)'
  <2>1. Entry' = Entry
    BY DEF Entry
  <2>2. sync.at \in {"none", "fetched"} /\ sync.list \in Seq(Entry)
        /\ (sync.at = "none" => sync.list = <<>>)
    BY DEF IInv, TypeOK
  <2>3. CASE sync' = sync
    BY <2>1, <2>2, <2>3
  <2>4. CASE sync' = NoSync
    BY <2>1, <2>4 DEF NoSync
  <2> QED BY <2>3, <2>4
<1> QED BY <1>1, <1>3, <1>4 DEF IInv, TypeOK, BookOK

(* The first hook, or its loss. *)
LEMMA HookKeeps ==
  ASSUME IInv, NEW j \in Jobs, Record(j) \/ Forget(j)
  PROVE  IInv'
<1>1. /\ jobs[j].status = "published" /\ jobs' = [jobs EXCEPT ![j].status = "over"]
      /\ day' = day /\ notes' = notes /\ sync' = sync
  BY DEF Record, Forget
<1>2. /\ BookOK(rows, jobs) /\ notes \in Seq(Note) /\ day \in 1..LastDay
      /\ \A k \in Jobs : jobs[k].status = "published" => jobs[k].started = day
  BY DEF IInv, TypeOK
<1>3. /\ BookOK(rows, jobs') /\ jobs'[j].status = "over" /\ jobs'[j].started = jobs[j].started
      /\ \A k \in Jobs : k # j => jobs'[k] = jobs[k]
  BY <1>1, <1>2, OverKeeps
<1>4. \/ rows' = rows
      \/ /\ j \notin Taken(rows)
         /\ rows' = Append(rows, Row(j, 0, Title[j], day, "pending_id"))
  BY DEF Record, Forget
<1>5. BookOK(rows', jobs')
  BY <1>1, <1>2, <1>3, <1>4, RecordedKeeps DEF Begun
<1>6. \A k \in Jobs : jobs'[k].status = "published" => jobs'[k].started = day
  BY <1>2, <1>3
<1> QED BY <1>1, <1>5, <1>6, QuietKeeps

(* A list is read. *)
LEMMA FetchKeeps ==
  ASSUME IInv, NEW there \in SUBSET (DOMAIN notes), Fetch(there)
  PROVE  IInv'
<1>1. PICK ids \in NewestFirst(there) :
        sync' = [at |-> "fetched",
                 list |-> [k \in DOMAIN ids |-> [id |-> ids[k], note |-> notes[ids[k]]]]]
  BY DEF Fetch
<1>2. Cardinality(there) \in Nat
  <2>1. Len(notes) \in Nat /\ there \subseteq 1..Len(notes)
    BY DEF IInv, TypeOK
  <2>2. IsFiniteSet(1..Len(notes))
    BY <2>1, FS_Interval
  <2> QED BY <2>1, <2>2, FS_Subset, FS_CardinalityType
<1>3. sync'.list \in Seq(Entry)
  <2>1. ids \in [1..Cardinality(there) -> there]
    BY DEF NewestFirst
  <2>2. \A k \in 1..Cardinality(there) : [id |-> ids[k], note |-> notes[ids[k]]] \in Entry
    BY <2>1 DEF Entry
  <2>3. sync'.list = [k \in 1..Cardinality(there) |-> [id |-> ids[k], note |-> notes[ids[k]]]]
    BY <1>1, <2>1
  <2>4. sync'.list \in [1..Cardinality(there) -> Entry]
    BY <2>2, <2>3
  <2> QED BY <1>2, <2>4
<1>4. UNCHANGED <<day, jobs, notes, rows>> /\ sync'.at = "fetched"
  BY <1>1 DEF Fetch
<1>5. /\ BookOK(rows, jobs)' /\ (Entry' = Entry) /\ (Note' = Note)
  BY <1>4 DEF IInv, BookOK, BegunMade, FilledTaken, RowsBegun, WaitsFromStart, OneEach, AllNear,
              LedgerRow, JobRow, Taken, Begun, MadeNear, Entry, Note, Titles
<1> QED BY <1>3, <1>4, <1>5 DEF IInv, TypeOK, BookOK

(* Time passes. *)
LEMMA TickKeeps ==
  ASSUME IInv, Tick
  PROVE  IInv'
<1>1. /\ day' \in 1..LastDay /\ UNCHANGED <<jobs, notes, rows, sync>>
      /\ \A j \in Jobs : jobs[j].status # "published"
  BY DEF IInv, TypeOK, Tick, Locked, NoteLedgerAssumption
<1>2. /\ BookOK(rows, jobs)' /\ (Entry' = Entry) /\ (Note' = Note)
  BY <1>1 DEF IInv, BookOK, BegunMade, FilledTaken, RowsBegun, WaitsFromStart, OneEach, AllNear,
              LedgerRow, JobRow, Taken, Begun, MadeNear, Entry, Note, Titles
<1> QED BY <1>1, <1>2 DEF IInv, TypeOK, BookOK

(* Together. *)
LEMMA Inductive ==
  ASSUME IInv, [Next]_vars
  PROVE  IInv'
<1>1. CASE Tick
  BY <1>1, TickKeeps
<1>2. CASE Store
  <2>1. BookOK(rows', jobs') /\ SameLives(jobs, jobs')
    BY <1>2, StoreKeeps DEF IInv
  <2>2. day' = day /\ notes' = notes /\ sync' = NoSync
    BY <1>2 DEF Store
  <2>3. \A j \in Jobs : jobs'[j].status = "published" => jobs'[j].started = day
    BY <2>1 DEF IInv, SameLives
  <2> QED BY <2>1, <2>2, <2>3, QuietKeeps
<1>3. CASE SyncFails \/ UNCHANGED vars
  <2>1. BookOK(rows', jobs')
    BY <1>3 DEF IInv, SyncFails, vars
  <2> QED BY <1>3, <2>1, QuietKeeps DEF SyncFails, vars, IInv
<1>4. ASSUME NEW there \in SUBSET (DOMAIN notes), Fetch(there) PROVE IInv'
  BY <1>4, FetchKeeps
<1>5. ASSUME NEW title \in OtherTitle, ByHand(title) PROVE IInv'
  BY <1>5, ByHandKeeps
<1>6. ASSUME NEW n \in DOMAIN notes, NEW title \in OtherTitle \ {Untitled}, Entitle(n, title)
      PROVE  IInv'
  BY <1>6, EntitleKeeps
<1>7. ASSUME NEW j \in Jobs, Publish(j) \/ Record(j) \/ Forget(j) PROVE IInv'
  BY <1>7, PublishKeeps, HookKeeps
<1> QED BY <1>1, <1>2, <1>3, <1>4, <1>5, <1>6, <1>7 DEF Next

(***************************************************************************)
(* What a synchronisation enters                                           *)
(***************************************************************************)

(* No note is twice in a list. *)
DistinctList ==
  \A k, l \in DOMAIN sync.list : k # l => sync.list[k].id # sync.list[l].id

(* Only a fetch makes a list, of notes that it numbers once each. *)
LEMMA DistinctKeeps ==
  ASSUME IInv, DistinctList, [Next]_vars
  PROVE  DistinctList'
<1>1. CASE UNCHANGED sync
  BY <1>1 DEF DistinctList
<1>2. CASE sync' = NoSync
  BY <1>2 DEF DistinctList, NoSync
<1>3. ASSUME NEW there \in SUBSET (DOMAIN notes), Fetch(there) PROVE DistinctList'
  <2>1. PICK ids \in NewestFirst(there) :
          sync' = [at |-> "fetched",
                   list |-> [k \in DOMAIN ids |-> [id |-> ids[k], note |-> notes[ids[k]]]]]
    BY <1>3 DEF Fetch
  <2>2. Cardinality(there) \in Nat /\ there \subseteq Nat
    <3>1. Len(notes) \in Nat /\ there \subseteq 1..Len(notes)
      BY DEF IInv, TypeOK
    <3>2. IsFiniteSet(1..Len(notes))
      BY <3>1, FS_Interval
    <3> QED BY <3>1, <3>2, FS_Subset, FS_CardinalityType
  <2>3. DOMAIN ids = 1..Cardinality(there) /\ \A k \in DOMAIN ids : ids[k] \in Nat
    BY <2>2 DEF NewestFirst
  <2>4. \A k, l \in DOMAIN ids : k < l => ids[k] > ids[l]
    BY DEF NewestFirst
  <2>5. ASSUME NEW k \in DOMAIN ids, NEW l \in DOMAIN ids, k # l PROVE ids[k] # ids[l]
    <3>1. k < l \/ l < k
      BY <2>2, <2>3, <2>5
    <3>2. ids[k] \in Nat /\ ids[l] \in Nat
      BY <2>3
    <3> QED BY <2>4, <3>1, <3>2
  <2>6. DOMAIN sync'.list = DOMAIN ids /\ \A k \in DOMAIN ids : sync'.list[k].id = ids[k]
    BY <2>1
  <2> QED BY <2>5, <2>6 DEF DistinctList
<1> QED BY <1>1, <1>2, <1>3 DEF Next, Tick, Store, SyncFails, ByHand, Entitle, Publish, Record,
                                Forget, vars

(* What a note of the list makes of the rows: those with a note keep it, those that    *)
(* wait go on as they are or get this one, and a new one has it; the note is entered     *)
(* unless several rows may be its own; and the only one that may be, is.              *)
Takes(rs, qs, entry) ==
  /\ DOMAIN rs \subseteq DOMAIN qs
  /\ \A r \in DOMAIN rs : IF rs[r].note # 0 THEN qs[r].note = rs[r].note
                          ELSE qs[r] = rs[r] \/ qs[r].note = entry.id
  /\ \A r \in DOMAIN qs \ DOMAIN rs : qs[r].note = entry.id
  /\ (\E r \in DOMAIN qs : qs[r].note = entry.id) \/ Cardinality(Candidates(rs, entry.note)) > 1
  /\ (\A r \in DOMAIN rs : rs[r].note # entry.id) =>
       \A r : Candidates(rs, entry.note) = {r} => qs[r].note = entry.id

(* One row is rewritten and has the note of the entry, the others are as they were. *)
Rewrites(rs, qs, r, id) ==
  /\ DOMAIN qs = DOMAIN rs \cup {r} /\ qs[r].note = id
  /\ \A s \in DOMAIN rs \ {r} : qs[s] = rs[s]

(* What each way of a note into the ledger rewrites. *)
LEMMA LinkedRewrites ==
  ASSUME NEW rs \in Seq(LedgerRow), NEW js, NEW r \in DOMAIN rs, NEW note
  PROVE  Rewrites(rs, Linked([rows |-> rs, jobs |-> js], r, note).rows, r, rs[r].note)
<1> DEFINE origins == Origins(rs, js, rs[r].title, note)
           job == CHOOSE k \in origins : TRUE
           row == [rs[r] EXCEPT !.job = job, !.status = "linked"]
           new == [rs EXCEPT ![r] = row]
           book == Linked([rows |-> rs, jobs |-> js], r, note)
<1>0. rs[r] \in LedgerRow
  OBVIOUS
<1>1. row.note = rs[r].note
  <2> HIDE DEF job
  <2> QED BY <1>0 DEF LedgerRow
<1> HIDE DEF row
<1>2. DOMAIN new = DOMAIN rs /\ new[r] = row /\ \A s \in DOMAIN rs \ {r} : new[s] = rs[s]
  OBVIOUS
<1> HIDE DEF new
<1>3. book.rows = new \/ book.rows = rs
  BY DEF Linked, new, row
<1> HIDE DEF book
<1>4. Rewrites(rs, book.rows, r, rs[r].note)
  BY <1>1, <1>2, <1>3 DEF Rewrites
<1> QED BY <1>4 DEF book

(* Rows of the same notes, of which one has been rewritten twice. *)
LEMMA RewrittenTwice ==
  ASSUME NEW rs, NEW qs, NEW ps, NEW r, NEW id, Rewrites(rs, qs, r, id), Rewrites(qs, ps, r, id)
  PROVE  Rewrites(rs, ps, r, id)
BY DEF Rewrites

LEMMA RefreshIs ==
  ASSUME NEW rs, NEW js, NEW r, NEW entry
  PROVE  Refresh([rows |-> rs, jobs |-> js], r, entry) =
           LET new == [rs EXCEPT ![r] = Applied(rs[r], entry)]
           IN IF rs[r].job = Nobody THEN Linked([rows |-> new, jobs |-> js], r, entry.note)
              ELSE [rows |-> new, jobs |-> js]
BY DEF Refresh

LEMMA RefreshRewrites ==
  ASSUME notes \in Seq(Note), NEW rs \in Seq(LedgerRow), NEW js, NEW entry \in Entry,
         NEW r \in DOMAIN rs
  PROVE  Rewrites(rs, Refresh([rows |-> rs, jobs |-> js], r, entry).rows, r, entry.id)
<1> DEFINE row == Applied(rs[r], entry)
           new == [rs EXCEPT ![r] = row]
           book == Refresh([rows |-> rs, jobs |-> js], r, entry)
<1>1. rs[r] \in LedgerRow
  OBVIOUS
<1>2. row \in LedgerRow /\ row.note = entry.id
  BY <1>1, AppliedParts
<1>3. book = IF rs[r].job = Nobody THEN Linked([rows |-> new, jobs |-> js], r, entry.note)
             ELSE [rows |-> new, jobs |-> js]
  BY RefreshIs
<1> HIDE DEF row, book
<1>4. /\ new \in Seq(LedgerRow) /\ DOMAIN new = DOMAIN rs \cup {r} /\ new[r] = row
      /\ \A s \in DOMAIN rs \ {r} : new[s] = rs[s]
  BY <1>1, <1>2, PutRow
<1> HIDE DEF new
<1>5. Rewrites(rs, new, r, entry.id)
  BY <1>2, <1>4 DEF Rewrites
<1>6. Rewrites(new, Linked([rows |-> new, jobs |-> js], r, entry.note).rows, r, entry.id)
  BY <1>2, <1>4, LinkedRewrites
<1>7. Rewrites(rs, book.rows, r, entry.id)
  BY <1>3, <1>5, <1>6, RewrittenTwice
<1> QED BY <1>7 DEF book

LEMMA AdoptRewrites ==
  ASSUME notes \in Seq(Note), NEW rs \in Seq(LedgerRow), NEW js, NEW entry \in Entry,
         NEW r \in DOMAIN rs
  PROVE  Rewrites(rs, Adopt([rows |-> rs, jobs |-> js], r, entry).rows, r, entry.id)
<1> DEFINE applied == Applied(rs[r], entry)
           row == [applied EXCEPT !.status = "linked"]
           new == [rs EXCEPT ![r] = row]
           book == Adopt([rows |-> rs, jobs |-> js], r, entry)
<1>1. rs[r] \in LedgerRow
  OBVIOUS
<1>2. applied \in LedgerRow /\ applied.note = entry.id
  BY <1>1, AppliedParts
<1>3. book.rows = new
  BY DEF Adopt
<1> HIDE DEF applied, book
<1>4. row \in LedgerRow /\ row.note = entry.id
  BY <1>2 DEF LedgerRow
<1> HIDE DEF row
<1>5. /\ DOMAIN new = DOMAIN rs \cup {r} /\ new[r] = row
      /\ \A s \in DOMAIN rs \ {r} : new[s] = rs[s]
  BY <1>4, PutRow
<1>6. Rewrites(rs, book.rows, r, entry.id)
  BY <1>3, <1>4, <1>5 DEF Rewrites
<1> QED BY <1>6 DEF book

LEMMA DiscoverRewrites ==
  ASSUME notes \in Seq(Note), day \in 1..LastDay, NEW rs \in Seq(LedgerRow), NEW js,
         NEW entry \in Entry
  PROVE  Rewrites(rs, Discover([rows |-> rs, jobs |-> js], entry).rows, Len(rs) + 1, entry.id)
<1> DEFINE at == IF entry.note.dated THEN entry.note.at ELSE day
           row == Row(Nobody, entry.id, entry.note.title, at, "orphan")
           new == Append(rs, row)
           r == Len(rs) + 1
           b == [rows |-> rs, jobs |-> js]
           book == Discover(b, entry)
<1>1. row \in LedgerRow /\ row.note = entry.id
  BY EntryParts DEF Row, LedgerRow
<1>2. book = Linked([rows |-> new, jobs |-> js], r, entry.note)
  <2>1. [b EXCEPT !.rows = Append(@, row)] = [rows |-> new, jobs |-> js] /\ Len(b.rows) + 1 = r
    <3>1. b.rows = rs
      OBVIOUS
    <3>2. ASSUME NEW x PROVE [b EXCEPT !.rows = x] = [rows |-> x, jobs |-> js]
      OBVIOUS
    <3> HIDE DEF b
    <3> QED BY <3>1, <3>2
  <2>2. book = Linked([b EXCEPT !.rows = Append(@, row)], Len(b.rows) + 1, entry.note)
    BY Zenon DEF Discover
  <2> QED BY <2>1, <2>2
<1> HIDE DEF row, book
<1>3. /\ new \in Seq(LedgerRow) /\ new[r] = row
      /\ \A s \in DOMAIN rs \ {r} : new[s] = rs[s]
      /\ DOMAIN new = DOMAIN rs \cup {r} /\ r \notin DOMAIN rs
  BY <1>1
<1> HIDE DEF new, r
<1>4. Rewrites(rs, new, r, entry.id)
  BY <1>1, <1>3 DEF Rewrites
<1>5. Rewrites(new, book.rows, r, entry.id)
  BY <1>1, <1>2, <1>3, LinkedRewrites
<1>6. Rewrites(rs, book.rows, r, entry.id)
  BY <1>4, <1>5, RewrittenTwice
<1> QED BY <1>6 DEF book, r

(* Whichever way is taken. *)
LEMMA EnteredTakes ==
  ASSUME notes \in Seq(Note), day \in 1..LastDay, NEW rs \in Seq(LedgerRow), NEW js,
         NEW entry \in Entry
  PROVE  Takes(rs, Entered([rows |-> rs, jobs |-> js], entry).rows, entry)
<1> DEFINE b == [rows |-> rs, jobs |-> js]
           known == {r \in DOMAIN rs : rs[r].note = entry.id}
           candidates == Candidates(rs, entry.note)
           book == Entered(b, entry)
           qs == book.rows
<1>0. entry.id # 0 /\ candidates \subseteq DOMAIN rs /\ \A r \in candidates : rs[r].note = 0
  BY EntryParts DEF Candidates
<1>1. ASSUME NEW r, Rewrites(rs, qs, r, entry.id), r \in DOMAIN rs => rs[r].note \in {0, entry.id},
             known = {} => \A s : candidates = {s} => s = r
      PROVE  Takes(rs, qs, entry)
  <2> HIDE DEF qs
  <2>1. r \in DOMAIN qs /\ qs[r].note = entry.id
    BY <1>1 DEF Rewrites
  <2>2. \A s \in DOMAIN rs : s # r => qs[s] = rs[s]
    BY <1>1 DEF Rewrites
  <2>3. DOMAIN rs \subseteq DOMAIN qs /\ \A s \in DOMAIN qs \ DOMAIN rs : s = r
    BY <1>1 DEF Rewrites
  <2>4. (\A s \in DOMAIN rs : rs[s].note # entry.id) => known = {}
    OBVIOUS
  <2> HIDE DEF known
  <2> QED BY <1>0, <1>1, <2>1, <2>2, <2>3, <2>4 DEF Takes
<1>2. CASE known # {}
  <2> DEFINE r == CHOOSE r \in known : TRUE
  <2>1. r \in DOMAIN rs /\ rs[r].note = entry.id
    BY <1>2
  <2>2. book = Refresh(b, r, entry)
    BY <1>2 DEF Entered
  <2> HIDE DEF r, known, book
  <2>3. Rewrites(rs, book.rows, r, entry.id)
    BY <2>1, <2>2, RefreshRewrites
  <2>4. Takes(rs, qs, entry)
    BY <1>1, <1>2, <2>1, <2>3
  <2> QED BY <2>4 DEF book
<1>3. CASE known = {} /\ Cardinality(candidates) = 1
  <2> DEFINE r == CHOOSE r \in candidates : TRUE
  <2>1. r \in candidates /\ \A s : candidates = {s} => s = r
    <3> HIDE DEF candidates
    <3> QED BY <1>3, OneIsSome
  <2>2. book = Adopt(b, r, entry)
    BY <1>3 DEF Entered
  <2> HIDE DEF r, candidates, known, book
  <2>3. r \in DOMAIN rs /\ rs[r].note = 0
    BY <1>0, <2>1
  <2>4. Rewrites(rs, book.rows, r, entry.id)
    BY <2>2, <2>3, AdoptRewrites
  <2>5. Takes(rs, qs, entry)
    BY <1>1, <2>1, <2>3, <2>4
  <2> QED BY <2>5 DEF book
<1>4. CASE known = {} /\ Cardinality(candidates) > 1
  <2>1. Cardinality(candidates) # 1
    BY <1>4
  <2>2. book = b
    BY <1>4, <2>1 DEF Entered
  <2>3. \A s : candidates # {s}
    <3>1. \A s : Cardinality({s}) = 1
      BY FS_Singleton
    <3> HIDE DEF candidates
    <3> QED BY <2>1, <3>1
  <2>4. qs = rs
    BY <2>2
  <2> HIDE DEF qs
  <2>5. Takes(rs, qs, entry)
    BY <1>4, <2>3, <2>4 DEF Takes
  <2> QED BY <2>5 DEF qs
<1>5. CASE known = {} /\ Cardinality(candidates) # 1 /\ ~(Cardinality(candidates) > 1)
  <2>1. book = Discover(b, entry)
    BY <1>5 DEF Entered
  <2>2. \A s : candidates # {s}
    <3>1. \A s : Cardinality({s}) = 1
      BY FS_Singleton
    <3> HIDE DEF candidates
    <3> QED BY <1>5, <3>1
  <2> DEFINE r == Len(rs) + 1
  <2>3. r \notin DOMAIN rs
    OBVIOUS
  <2> HIDE DEF book, candidates, known
  <2>4. Rewrites(rs, book.rows, r, entry.id)
    BY <2>1, DiscoverRewrites
  <2> HIDE DEF r
  <2>5. Takes(rs, qs, entry)
    BY <1>1, <2>2, <2>3, <2>4
  <2> QED BY <2>5 DEF book
<1> QED BY <1>2, <1>3, <1>4, <1>5

(* The rows after the first k notes of the list: those that wait have always waited,   *)
(* what is new is of the list, and what ListIsEntered says of those k notes.          *)
Waiting(title) == {r \in DOMAIN rows : Waits(r, title)}
Awaited(i, r) ==
  LET entry == sync.list[i] IN
  /\ Waiting(entry.note.title) = {r} /\ rows[r].at = entry.note.at /\ entry.note.title # Untitled
  /\ \A s \in DOMAIN rows : rows[s].note # entry.id

Through(k, qs) ==
  /\ DOMAIN rows \subseteq DOMAIN qs
  /\ \A r \in DOMAIN qs : qs[r].note = 0 => r \in DOMAIN rows /\ rows[r] = qs[r]
  /\ \A r \in DOMAIN qs : qs[r].note # 0 => \/ \E s \in DOMAIN rows : rows[s].note = qs[r].note
                                            \/ \E i \in 1..k : qs[r].note = sync.list[i].id
  /\ \A i \in 1..k : \/ \E r \in DOMAIN qs : qs[r].note = sync.list[i].id
                     \/ Cardinality(Waiting(sync.list[i].note.title)) > 1
  /\ \A i \in 1..k : \A r \in DOMAIN rows : Awaited(i, r) => qs[r].note # 0

(* A row that may be a note's own is one that waited for it when the list was stored. *)
LEMMA CandidatesWaited ==
  ASSUME TypeOK, NEW k, NEW qs, Through(k, qs), NEW note
  PROVE  /\ Candidates(qs, note) \subseteq Waiting(note.title)
         /\ Cardinality(Candidates(qs, note)) > 1 => Cardinality(Waiting(note.title)) > 1
<1>1. Candidates(qs, note) \subseteq Waiting(note.title)
  BY DEF Through, Candidates, Waiting, Waits
<1>2. IsFiniteSet(Waiting(note.title))
  <2>1. DOMAIN rows = 1..Len(rows) /\ Len(rows) \in Nat
    BY DEF TypeOK
  <2>2. IsFiniteSet(1..Len(rows))
    BY <2>1, FS_Interval
  <2> QED BY <2>1, <2>2, FS_Subset DEF Waiting
<1>3. /\ Cardinality(Candidates(qs, note)) <= Cardinality(Waiting(note.title))
      /\ Cardinality(Candidates(qs, note)) \in Nat /\ Cardinality(Waiting(note.title)) \in Nat
  BY <1>1, <1>2, FS_Subset, FS_CardinalityType
<1> QED BY <1>1, <1>3

(* One more note of the list: its waiting row, if it is alone, is still waiting, or has *)
(* been given a note, as no other note of the list is this one.                      *)
LEMMA ThroughNext ==
  ASSUME IInv, DistinctList, NEW k \in Nat, k + 1 \in DOMAIN sync.list, NEW qs, NEW ps,
         Through(k, qs), Takes(qs, ps, sync.list[k + 1])
  PROVE  Through(k + 1, ps)
<1> DEFINE entry == sync.list[k + 1]
<1>0. /\ TypeOK /\ \A i \in 1..(k + 1) : i \in DOMAIN sync.list /\ sync.list[i].id # 0
      /\ entry.id # 0 /\ entry.note.at \in 1..LastDay
      /\ \A i \in 1..k : sync.list[i].id # entry.id
  <2>1. \A i \in 1..(k + 1) : i \in DOMAIN sync.list /\ sync.list[i] \in Entry
    BY DEF IInv, TypeOK
  <2>2. k + 1 \in 1..(k + 1) /\ \A i \in 1..k : i # k + 1 /\ i \in 1..(k + 1)
    OBVIOUS
  <2>3. notes \in Seq(Note) /\ TypeOK
    BY DEF IInv, TypeOK
  <2> QED BY <2>1, <2>2, <2>3, EntryParts DEF DistinctList
<1>1. \A i \in 1..(k + 1) : i \in 1..k \/ i = k + 1
  OBVIOUS
<1> HIDE DEF entry
<1>2. DOMAIN qs \subseteq DOMAIN ps /\ \A r \in DOMAIN qs : qs[r].note # 0 => ps[r].note = qs[r].note
  BY DEF Takes
<1>3. ASSUME NEW r \in DOMAIN ps, ps[r].note = 0
      PROVE  r \in DOMAIN rows /\ rows[r] = ps[r]
  <2>1. r \in DOMAIN qs /\ qs[r] = ps[r]
    BY <1>0, <1>3 DEF Takes, entry
  <2> QED BY <1>3, <2>1 DEF Through
<1>4. ASSUME NEW r \in DOMAIN ps, ps[r].note # 0
      PROVE  \/ \E s \in DOMAIN rows : rows[s].note = ps[r].note
             \/ \E i \in 1..(k + 1) : ps[r].note = sync.list[i].id
  <2>1. CASE r \in DOMAIN qs /\ qs[r].note # 0
    <3>1. ps[r].note = qs[r].note /\ 1..k \subseteq 1..(k + 1)
      BY <1>2, <2>1
    <3> QED BY <2>1, <3>1 DEF Through
  <2>2. CASE ~(r \in DOMAIN qs /\ qs[r].note # 0)
    <3>1. ps[r].note = entry.id
      BY <1>4, <2>2 DEF Takes, entry
    <3>2. k + 1 \in 1..(k + 1)
      OBVIOUS
    <3> QED BY <3>1, <3>2 DEF entry
  <2> QED BY <2>1, <2>2
<1>5. ASSUME NEW i \in 1..(k + 1)
      PROVE  \/ \E r \in DOMAIN ps : ps[r].note = sync.list[i].id
             \/ Cardinality(Waiting(sync.list[i].note.title)) > 1
  <2>1. CASE i \in 1..k
    BY <1>0, <1>2, <2>1 DEF Through
  <2>2. CASE i = k + 1
    <3>1. \/ \E r \in DOMAIN ps : ps[r].note = sync.list[i].id
          \/ Cardinality(Candidates(qs, sync.list[i].note)) > 1
      BY <2>2 DEF Takes
    <3> QED BY <1>0, <3>1, CandidatesWaited
  <2> QED BY <1>1, <2>1, <2>2
<1>6. ASSUME NEW i \in 1..(k + 1), NEW r \in DOMAIN rows, Awaited(i, r) PROVE ps[r].note # 0
  <2>0. r \in DOMAIN qs
    BY DEF Through
  <2>1. CASE i \in 1..k
    BY <1>2, <1>6, <2>0, <2>1 DEF Through
  <2>2. CASE qs[r].note # 0
    BY <1>2, <2>0, <2>2
  <2>3. CASE i = k + 1 /\ qs[r].note = 0
    <3>1. rows[r] = qs[r] /\ qs[r].title = entry.note.title /\ entry.note.title # Untitled
          /\ qs[r].at = entry.note.at
      BY <1>6, <2>0, <2>3 DEF Through, Awaited, Waiting, Waits, entry
    <3>2. r \in Candidates(qs, entry.note)
      <4>1. Near(entry.note.at, entry.note.at, Narrow)
        BY <1>0 DEF Near, NoteLedgerAssumption
      <4> QED BY <2>0, <2>3, <3>1, <4>1 DEF Candidates
    <3>3. Candidates(qs, entry.note) \subseteq {r}
      BY <1>0, <1>6, <2>3, CandidatesWaited DEF Awaited, entry
    <3>4. \A s \in DOMAIN qs : qs[s].note # entry.id
      <4> SUFFICES ASSUME NEW s \in DOMAIN qs, qs[s].note = entry.id PROVE FALSE
        OBVIOUS
      <4>1. \A t \in DOMAIN rows : rows[t].note # entry.id
        BY <1>6, <2>3 DEF Awaited, entry
      <4>2. \E j \in 1..k : qs[s].note = sync.list[j].id
        BY <1>0, <4>1 DEF Through
      <4> QED BY <1>0, <4>2
    <3>5. Candidates(qs, entry.note) = {r}
      BY <3>2, <3>3
    <3>6. ps[r].note = entry.id
      BY <3>4, <3>5 DEF Takes, entry
    <3> QED BY <1>0, <3>6
  <2> QED BY <1>1, <2>1, <2>2, <2>3
<1>7. DOMAIN rows \subseteq DOMAIN ps
  BY <1>2 DEF Through
<1> QED BY <1>3, <1>4, <1>5, <1>6, <1>7 DEF Through

(* The whole list, by induction. *)
LEMMA StoreEnters ==
  ASSUME IInv, DistinctList, Store
  PROVE  Through(Len(sync.list), rows')
<1> DEFINE len == Len(sync.list)
           S == {k \in 0..len : Keeps(jobs, Synced[k]) /\ Through(k, Synced[k].rows)}
<1>0. len \in Nat /\ notes \in Seq(Note) /\ day \in 1..LastDay /\ DOMAIN sync.list = 1..len /\ TypeOK
  BY DEF IInv, TypeOK
<1>1. \A k \in 1..len : sync.list[k] \in Entry
  BY DEF IInv, TypeOK
<1> HIDE DEF len
<1>2. 0 \in S
  <2>1. Synced[0] = Book /\ 0 \in 0..len
    BY <1>0, SyncedDef
  <2>2. Keeps(jobs, Book) /\ Book.rows = rows
    BY DEF Book, Keeps, SameLives, IInv
  <2>3. Through(0, rows)
    BY DEF Through
  <2> QED BY <2>1, <2>2, <2>3
<1>3. ASSUME NEW k \in 0..(len - 1), k \in S PROVE k + 1 \in S
  <2> DEFINE b == Synced[k]
             c == Synced[k + 1]
             entry == sync.list[k + 1]
  <2>1. k + 1 \in 1..len /\ k + 1 \in 0..len /\ (k + 1) - 1 = k /\ k \in Nat
    BY <1>0
  <2>2. c = Entered(b, entry) /\ entry \in Entry
    BY <1>0, <1>1, <2>1, SyncedDef DEF len
  <2>3. Keeps(jobs, b) /\ Through(k, b.rows)
    BY <1>3
  <2> HIDE DEF b, c, entry
  <2>4. BookOK(b.rows, b.jobs) /\ b = [rows |-> b.rows, jobs |-> b.jobs] /\ b.rows \in Seq(LedgerRow)
    BY <2>3 DEF Keeps, BookOK
  <2>5. Keeps(b.jobs, Entered([rows |-> b.rows, jobs |-> b.jobs], entry))
    BY <1>0, <2>2, <2>4, EnteredKeeps
  <2>6. Keeps(jobs, c)
    BY <2>2, <2>3, <2>4, <2>5 DEF Keeps, SameLives
  <2>7. Takes(b.rows, Entered([rows |-> b.rows, jobs |-> b.jobs], entry).rows, entry)
    BY <1>0, <2>2, <2>4, EnteredTakes
  <2>8. Takes(b.rows, c.rows, sync.list[k + 1])
    BY <2>2, <2>4, <2>7 DEF entry
  <2>9. Through(k + 1, c.rows)
    BY <1>0, <2>1, <2>3, <2>8, ThroughNext
  <2> QED BY <2>1, <2>6, <2>9 DEF c
<1>4. len \in S
  <2> HIDE DEF S
  <2>1. len \in Nat
    BY <1>0
  <2>2. \A k \in 0..(len - 1) : k \in S => k + 1 \in S
    BY <1>3
  <2>3. \A k \in 0..len : k \in S
    BY <1>2, <2>1, <2>2, UpTo
  <2> QED BY <2>1, <2>3
<1>5. rows' = Synced[len].rows
  BY DEF Store, len
<1> QED BY <1>4, <1>5 DEF len

(***************************************************************************)
(* Theorems                                                                *)
(***************************************************************************)

(* The inductive invariant holds in every behaviour of the ledger. *)
THEOREM Invariant == Spec => []IInv
<1>1. Init => IInv
  BY Initially
<1>2. IInv /\ [Next]_vars => IInv'
  BY Inductive
<1> QED BY <1>1, <1>2, PTL DEF Spec

(* Jobs, notes, rows and the list in hand stay of their types; an entry of the list is  *)
(* a note as it is while the list is in hand.                                       *)
THEOREM NoteTypes == Spec => []TypeOK
<1>1. IInv => TypeOK
  BY DEF IInv
<1> QED BY <1>1, Invariant, PTL

(* A note has one row and a publication has one row, so the unique constraints of       *)
(* published_notes never undo a synchronisation (sync_notes of note_ledger.py).        *)
THEOREM RowsAreSingle == Spec => []OneRowEach
<1>1. IInv => OneRowEach
  BY DEF IInv, BookOK, OneEach, OneRowEach
<1> QED BY <1>1, Invariant, PTL

(* A note that is said to be a publication's is one of its notes, or came within the    *)
(* wide window of one it made, whatever lists were late, partial or failed.            *)
THEOREM LinksAreNear == Spec => []LinksNear
<1>1. IInv => LinksNear
  BY DEF IInv, BookOK, AllNear, MadeNear, LinksNear
<1> QED BY <1>1, Invariant, PTL

(* A synchronisation leaves out no note of its list, but one whose title more than one    *)
(* row waits for; and a row that waits alone for a note of its title and time, which no    *)
(* other row has, gets a note, whatever else is in the list, unless that title is empty     *)
(* (sync_notes, _pick_pending).                                                     *)
THEOREM ListsAreEntered == Spec => ListIsEntered
<1>1. IInv /\ DistinctList /\ Store => EntersList
  <2> SUFFICES ASSUME IInv, DistinctList, Store PROVE EntersList
    OBVIOUS
  <2>1. Through(Len(sync.list), rows') /\ DOMAIN sync.list = 1..Len(sync.list)
    BY StoreEnters DEF IInv, TypeOK
  <2> QED BY <2>1 DEF Through, Waiting, Awaited, EntersList
<1>2. Init => DistinctList
  BY DEF Init, NoSync, DistinctList
<1>3. IInv /\ DistinctList /\ [Next]_vars => DistinctList'
  BY DistinctKeeps
<1>4. IInv /\ DistinctList /\ [Next]_vars => [sync.at = "fetched" /\ Store => EntersList]_vars
  BY <1>1
<1> QED BY <1>2, <1>3, <1>4, Invariant, PTL DEF Spec, ListIsEntered

(***************************************************************************)
(* The note ceiling of a managed account                                   *)
(*                                                                         *)
(* The invariant of its rounds.                                            *)
(***************************************************************************)

(* A round that is under way has nothing of its day in the audit yet, unless two crossed; *)
(* what it holds fits its quota.                                                         *)
RoundSound ==
  /\ \A d \in 1..LastDate : RoundsOf(d) # {} => [day |-> d, dry |-> FALSE] \in rounds
  /\ \A r \in Runners :
       /\ runner[r].at # "idle" => runner[r].day # 0
       /\ IsFiniteSet(runner[r].chosen) /\ Cardinality(runner[r].chosen) <= runner[r].quota
  /\ crossed \/
       /\ \A r, o \in Runners : r = o \/ runner[r].at = "idle" \/ runner[o].at = "idle"
       /\ \A r \in Runners : runner[r].at \in {"admitted", "planned"} => RoundsOf(runner[r].day) = {}
       /\ \A d \in 1..LastDate : Cardinality(RoundsOf(d)) <= DailyMax

(* Only the first deletion has succeeded; its key is one that its note has had, and no  *)
(* round has that note in its hands or has named it since.                             *)
GhostSound ==
  \A i \in DOMAIN deletions : deletions[i].status = "done" =>
    /\ i = 1 /\ deletions[i].by \in Runners
    /\ deletions[i].key \in {<<"id", deletions[i].note>>, <<"title", TitleOf[deletions[i].note]>>}
    /\ \A r \in Runners : \A c \in runner[r].chosen : c.note # deletions[i].note
    /\ \A j \in DOMAIN deletions : j # i /\ deletions[j].by \in Runners => deletions[j].note # deletions[i].note

RetInv == RetentionTypeOK /\ RoundSound /\ GhostSound

LEMMA Holds == RetInv => RetentionHolds
BY DEF RetInv, RoundSound, GhostSound, RetentionHolds, DailyMaxKept, NoGhosts

(***************************************************************************)
(* What a plan chooses                                                     *)
(***************************************************************************)

LEMMA StockFinite ==
  ASSUME RetentionTypeOK
  PROVE  /\ IsFiniteSet(Kept) /\ IsFiniteSet(Stock) /\ Stock \subseteq Kept /\ Kept \subseteq Notes
         /\ Cardinality(Stock) \in Nat
<1>1. Kept \in SUBSET Notes /\ Stock \in SUBSET Notes /\ Stock \subseteq Kept
  BY DEF Kept, Stock
<1> QED BY <1>1, RetentionGiven, FS_Subset, FS_CardinalityType

LEMMA MinIn ==
  ASSUME NEW a \in Nat, NEW b \in Nat, NEW c \in Nat
  PROVE  Min({a, b, c}) \in Nat /\ Min({a, b, c}) <= a /\ Min({a, b, c}) <= b
<1>1. \E x \in {a, b, c} : \A y \in {a, b, c} : x <= y
  <2>1. CASE a <= b /\ a <= c
    BY <2>1
  <2>2. CASE b <= a /\ b <= c
    BY <2>2
  <2>3. CASE c <= a /\ c <= b
    BY <2>3
  <2> QED BY <2>1, <2>2, <2>3
<1> QED BY <1>1 DEF Min

LEMMA SelectionFits ==
  ASSUME RetentionTypeOK, NEW cap \in Nat, NEW quota \in Nat, NEW today, NEW C \in Selections(cap, quota, today)
  PROVE  /\ C \subseteq Deletable(today) /\ C \subseteq Stock /\ IsFiniteSet(C)
         /\ Cardinality(C) \in Nat /\ Cardinality(C) <= quota /\ Cardinality(C) <= Room(cap)
         /\ IsFiniteSet(Under) /\ Cardinality(Under) \in Nat
<1>1. Deletable(today) \in SUBSET Stock /\ Under \in SUBSET Stock /\ C \in SUBSET Deletable(today)
  BY DEF Selections, Deletable, Under
<1>2. IsFiniteSet(Deletable(today)) /\ Cardinality(Deletable(today)) \in Nat
  BY <1>1, StockFinite, FS_Subset, FS_CardinalityType
<1>3. IsFiniteSet(Under) /\ Cardinality(Under) \in Nat
  BY <1>1, StockFinite, FS_Subset, FS_CardinalityType
<1>4. IsFiniteSet(C)
  BY <1>1, <1>2, FS_Subset
<1>5. Room(cap) \in Nat
  BY <1>3, StockFinite DEF Room, Less
<1>6. Cardinality(C) = Min({Room(cap), quota, Cardinality(Deletable(today))})
  BY DEF Selections
<1>7. /\ Min({Room(cap), quota, Cardinality(Deletable(today))}) \in Nat
      /\ Min({Room(cap), quota, Cardinality(Deletable(today))}) <= Room(cap)
      /\ Min({Room(cap), quota, Cardinality(Deletable(today))}) <= quota
  BY <1>2, <1>5, MinIn
<1> QED BY <1>1, <1>3, <1>4, <1>6, <1>7

(* Reconciliation with one deletion that has succeeded. *)
LEMMA MarkedOne ==
  ASSUME NEW k, KeysOf(Erased) = {k}
  PROVE  Marked = Sole(k, {})
<1> DEFINE step(it) == [s \in SUBSET {k} |->
                          IF s = {} THEN {}
                          ELSE LET x == CHOOSE y \in s : TRUE
                               IN it[s \ {x}] \cup Sole(x, it[s \ {x}])]
           iter == CHOOSE it : it = step(it)
           f == [s \in SUBSET {k} |-> IF s = {} THEN {} ELSE Sole(k, {})]
<1>1. Marked = iter[{k}]
  BY DEF Marked, FoldSet, MapThenFoldSet
<1>2. f = step(f)
  <2>1. \A s \in SUBSET {k} : f[s] = step(f)[s]
    <3> SUFFICES ASSUME NEW s \in SUBSET {k} PROVE f[s] = step(f)[s]
      OBVIOUS
    <3>1. CASE s = {}
      BY <3>1
    <3>2. CASE s = {k}
      <4>1. (CHOOSE y \in s : TRUE) = k
        BY <3>2
      <4>2. s \ {k} = {} /\ {} \in SUBSET {k} /\ s # {}
        BY <3>2
      <4>3. f[{}] = {}
        OBVIOUS
      <4> QED BY <3>2, <4>1, <4>2, <4>3
    <3> QED BY <3>1, <3>2
  <2> QED BY <2>1
<1>3. iter = step(iter)
  <2>1. \E it : it = step(it)
    BY <1>2
  <2> HIDE DEF step
  <2> QED BY <2>1
<1>4. iter[{}] = {}
  <2>1. {} \in SUBSET {k}
    OBVIOUS
  <2>2. step(iter)[{}] = {}
    BY <2>1
  <2> HIDE DEF iter, step
  <2> QED BY <2>2, <1>3
<1>5. iter[{k}] = Sole(k, {})
  <2>1. {k} \in SUBSET {k} /\ {k} # {} /\ (CHOOSE y \in {k} : TRUE) = k /\ {k} \ {k} = {}
    OBVIOUS
  <2> HIDE DEF iter
  <2>2. step(iter)[{k}] = iter[{}] \cup Sole(k, iter[{}])
    BY <2>1
  <2> HIDE DEF step
  <2> QED BY <2>2, <1>3, <1>4
<1> QED BY <1>1, <1>5

(* Whose deletion has succeeded is marked by the plan, or cannot be told from another.    *)
LEMMA GhostIsOut ==
  ASSUME RetentionTypeOK, GhostSound, NEW i \in DOMAIN deletions, deletions[i].status = "done", NEW today
  PROVE  deletions[i].note \notin Deletable(today)
<1> DEFINE k == deletions[i].key
           n == deletions[i].note
<1> SUFFICES ASSUME n \in Deletable(today) PROVE FALSE
  OBVIOUS
<1>1. KeysOf(Erased) = {k}
  <2>1. {j \in DOMAIN deletions : deletions[j].by \in Runners /\ Erased(deletions[j])} = {i}
    BY DEF GhostSound, Erased
  <2> QED BY <2>1 DEF KeysOf
<1>2. Marked = Sole(k, {})
  BY <1>1, MarkedOne
<1>3. n \in Kept /\ n \notin Marked /\ Unmistakable(n)
  BY DEF Deletable, Stock
<1>4. k \in {<<"id", n>>, <<"title", TitleOf[n]>>}
  BY DEF GhostSound
<1>5. n \in Bearers(k)
  BY <1>3, <1>4 DEF Bearers
<1>6. Bearers(k) \ {} = Bearers(k)
  OBVIOUS
<1>7. Cardinality(Bearers(k)) # 1
  BY <1>2, <1>3, <1>5, <1>6 DEF Sole
<1>8. Marked = {}
  BY <1>2, <1>6, <1>7 DEF Sole
<1>9. Bearers(k) # {n}
  BY <1>7, FS_Singleton
<1>10. PICK m \in Bearers(k) : m # n
  BY <1>5, <1>9
<1>11. CASE k = <<"id", n>>
  BY <1>10, <1>11 DEF Bearers
<1>12. CASE k = <<"title", TitleOf[n]>>
  <2>1. m \in Kept /\ TitleOf[m] = TitleOf[n]
    BY <1>10, <1>12 DEF Bearers
  <2> QED BY <1>3, <1>8, <1>10, <2>1 DEF Unmistakable, Stock
<1> QED BY <1>4, <1>11, <1>12

(***************************************************************************)
(* The steps of its rounds, of its jobs and of the others                  *)
(***************************************************************************)

LEMMA AccountIn ==
  ASSUME NEW on \in BOOLEAN, NEW cap \in Ceilings,
         NEW a \in [managed : BOOLEAN, cap : Ceilings, enabled : BOOLEAN]
  PROVE  /\ [a EXCEPT !.managed = on, !.cap = cap] \in [managed : BOOLEAN, cap : Ceilings, enabled : BOOLEAN]
         /\ [a EXCEPT !.enabled = on] \in [managed : BOOLEAN, cap : Ceilings, enabled : BOOLEAN]
OBVIOUS

LEMMA ManagedIn ==
  ASSUME NEW a \in [managed : {TRUE}, cap : Ceilings, enabled : BOOLEAN]
  PROVE  a \in [managed : BOOLEAN, cap : Ceilings, enabled : BOOLEAN]
OBVIOUS

LEMMA InitOK == RetentionInit => RetInv
<1> SUFFICES ASSUME RetentionInit PROVE RetInv
  OBVIOUS
<1>1. \A n \in Notes : KeyOf(n) \in Keys /\ KeyOf(n) \in {<<"id", n>>, <<"title", TitleOf[n]>>}
  BY DEF KeyOf, Keys
<1>2. Kept \subseteq Notes
  BY DEF Kept
<1> DEFINE Old == /\ deletions \in Seq(Deletions) /\ DOMAIN deletions \subseteq {1}
                  /\ \A i \in DOMAIN deletions :
                       /\ deletions[i].by = "scan" /\ deletions[i].round = 0
                       /\ deletions[i].key \in {<<"id", deletions[i].note>>,
                                                <<"title", TitleOf[deletions[i].note]>>}
<1>3. Old
  <2>1. CASE deletions = <<>>
    BY <2>1
  <2>2. ASSUME NEW n \in Kept, NEW st \in {"queued", "done"}, deletions = Earlier(n, st)
        PROVE  Old
    <3>1. [note |-> n, key |-> KeyOf(n), by |-> "scan", round |-> 0, day |-> 0, status |-> st] \in Deletions
      BY <1>1, <1>2 DEF Deletions, Runners
    <3> DEFINE e == [note |-> n, key |-> KeyOf(n), by |-> "scan", round |-> 0, day |-> 0, status |-> st]
    <3>2. deletions = <<e>> /\ e \in Deletions
      BY <2>2, <3>1 DEF Earlier
    <3>3. /\ e.by = "scan" /\ e.round = 0 /\ e.note = n /\ e.key = KeyOf(n)
      OBVIOUS
    <3>4. KeyOf(n) \in {<<"id", n>>, <<"title", TitleOf[n]>>}
      BY <1>1, <1>2
    <3> HIDE DEF e
    <3>5. deletions \in Seq(Deletions) /\ DOMAIN deletions = {1} /\ deletions[1] = e
      BY <3>2
    <3> QED BY <3>3, <3>4, <3>5
  <2>3. deletions = <<>> \/ \E n \in Kept, st \in {"queued", "done"} : deletions = Earlier(n, st)
    BY DEF RetentionInit, Pasts
  <2> HIDE DEF Old
  <2> QED BY <2>1, <2>2, <2>3
<1>4. Idle \in Rounding /\ Idle.at = "idle" /\ Idle.chosen = {} /\ Idle.quota = 0
  <2>1. 0 \in 0 .. LastDate /\ 0 \in 0 .. DailyMax /\ {} \in SUBSET [note : Notes, key : Keys]
    BY RetentionGiven
  <2> QED BY <2>1 DEF Idle, Rounding
<1>5. RetentionTypeOK
  <2>1. state \in [Notes -> {"absent", "kept", "gone"}] /\ linked \subseteq Notes /\ shielded \subseteq linked
    <3>1. state \in [Notes -> {"absent", "kept"}] /\ linked \in SUBSET Kept /\ shielded \in SUBSET linked
      BY DEF RetentionInit
    <3> QED BY <1>2, <3>1
  <2>2. born \in [Notes -> Nat] /\ score \in [Notes -> Scores \cup {Null}]
    BY DEF RetentionInit
  <2>3. account \in [managed : BOOLEAN, cap : Ceilings, enabled : BOOLEAN]
    <3>1. account \in [managed : {TRUE}, cap : Ceilings, enabled : BOOLEAN]
      BY Zenon DEF RetentionInit
    <3> QED BY <3>1, ManagedIn
  <2>4. runner \in [Runners -> Rounding]
    BY <1>4 DEF RetentionInit
  <2>5. date \in 1 .. LastDate /\ changes \in 0 .. MaxChanges /\ deaths \in 0 .. MaxDeaths /\ rounds = {}
    BY RetentionGiven DEF RetentionInit
  <2>6. snapped \in BOOLEAN /\ crossed \in BOOLEAN
    BY Zenon DEF RetentionInit
  <2> QED BY <1>3, <2>1, <2>2, <2>3, <2>4, <2>5, <2>6, Zenon DEF RetentionTypeOK
<1>6. \A d \in 1..LastDate : RoundsOf(d) = {}
  BY <1>3 DEF RoundsOf
<1>7. \A r \in Runners : runner[r] = Idle
  BY DEF RetentionInit
<1>8. RoundSound
  BY <1>4, <1>6, <1>7, FS_EmptySet, RetentionGiven DEF RoundSound
<1>9. GhostSound
  BY <1>3, <1>4, <1>7 DEF GhostSound, Runners
<1> QED BY <1>5, <1>8, <1>9 DEF RetInv

(* What concerns neither rounds nor jobs. *)
LEMMA Aside ==
  ASSUME RetInv, RetentionTypeOK', rounds' = rounds, deletions' = deletions, runner' = runner, crossed' = crossed
  PROVE  RetInv'
<1>1. \A d : RoundsOf(d)' = RoundsOf(d)
  BY DEF RoundsOf
<1>2. RoundSound'
  BY <1>1 DEF RetInv, RoundSound
<1>3. GhostSound'
  BY DEF RetInv, GhostSound
<1> QED BY <1>2, <1>3 DEF RetInv

LEMMA ReconcileIn ==
  ASSUME RetentionTypeOK, Reconciles
  PROVE  state' \in [Notes -> {"absent", "kept", "gone"}]
BY DEF RetentionTypeOK, Reconciles

LEMMA OthersKeep ==
  ASSUME RetInv,
         \/ Preview \/ Manage \/ Measure \/ NextDay
         \/ \E n \in Notes : Publishes(n) \/ Link(n) \/ Protect(n)
  PROVE  RetInv'
<1> USE DEF RetInv
<1>1. CASE Preview
  <2>1. RetentionTypeOK'
    <3>1. changes' \in 0 .. MaxChanges /\ state' \in [Notes -> {"absent", "kept", "gone"}]
      BY <1>1, ReconcileIn, RetentionGiven DEF Preview, RetentionTypeOK
    <3> QED BY <1>1, <3>1 DEF Preview, RetentionTypeOK, clock
  <2> QED BY <1>1, <2>1, Aside DEF Preview
<1>2. CASE Manage
  <2>1. changes' \in 0 .. MaxChanges
    <3>1. changes < MaxChanges /\ changes' = changes + 1
      BY <1>2 DEF Manage, Changes
    <3>2. changes \in 0 .. MaxChanges
      BY DEF RetentionTypeOK
    <3> QED BY <3>1, <3>2, RetentionGiven
  <2>2. account' \in [managed : BOOLEAN, cap : Ceilings, enabled : BOOLEAN]
    <3>1. PICK on \in BOOLEAN, c \in Ceilings : account' = [account EXCEPT !.managed = on, !.cap = c]
      BY <1>2 DEF Manage
    <3>2. account \in [managed : BOOLEAN, cap : Ceilings, enabled : BOOLEAN]
      BY Zenon DEF RetentionTypeOK
    <3> QED BY <3>1, <3>2, AccountIn, Zenon
  <2>3. RetentionTypeOK'
    BY <1>2, <2>1, <2>2 DEF Manage, RetentionTypeOK, ledger, clock
  <2> QED BY <1>2, <2>3, Aside DEF Manage
<1>3. CASE Measure
  <2> snapped' \in BOOLEAN
    BY <1>3, Zenon DEF Measure
  <2>1. score' \in [Notes -> Scores \cup {Null}]
    BY <1>3 DEF Measure, RetentionTypeOK, Kept
  <2>2. RetentionTypeOK'
    BY <1>3, <2>1 DEF Measure, RetentionTypeOK
  <2> QED BY <1>3, <2>2, Aside DEF Measure
<1>4. CASE NextDay
  <2> snapped' \in BOOLEAN
    BY <1>4, Zenon DEF NextDay
  <2>1. date' \in 1 .. LastDate
    <3>1. date < LastDate /\ date' = date + 1 /\ date \in 1 .. LastDate
      BY <1>4 DEF NextDay, RetentionTypeOK
    <3> QED BY <3>1, RetentionGiven
  <2>2. RetentionTypeOK'
    BY <1>4, <2>1 DEF NextDay, RetentionTypeOK, ledger
  <2> QED BY <1>4, <2>2, Aside DEF NextDay
<1>5. ASSUME NEW n \in Notes, Publishes(n) PROVE RetInv'
  <2>1. /\ state' \in [Notes -> {"absent", "kept", "gone"}] /\ born' \in [Notes -> Nat]
        /\ linked' \subseteq Notes /\ shielded \subseteq linked'
    BY <1>5, RetentionGiven DEF Publishes, RetentionTypeOK
  <2>2. changes' \in 0 .. MaxChanges
    BY <1>5, RetentionGiven DEF Publishes, Changes, RetentionTypeOK
  <2>3. RetentionTypeOK'
    BY <1>5, <2>1, <2>2 DEF Publishes, RetentionTypeOK, clock
  <2> QED BY <1>5, <2>3, Aside DEF Publishes
<1>6. ASSUME NEW n \in Notes, Link(n) PROVE RetInv'
  <2>1. RetentionTypeOK'
    BY <1>6, RetentionGiven DEF Link, Changes, RetentionTypeOK, clock
  <2> QED BY <1>6, <2>1, Aside DEF Link
<1>7. ASSUME NEW n \in Notes, Protect(n) PROVE RetInv'
  <2>1. RetentionTypeOK'
    BY <1>7, RetentionGiven DEF Protect, Changes, RetentionTypeOK, clock
  <2> QED BY <1>7, <2>1, Aside DEF Protect
<1> QED BY <1>1, <1>2, <1>3, <1>4, <1>5, <1>6, <1>7

LEMMA IdleIn ==
  /\ Idle \in Rounding /\ Idle.at = "idle" /\ Idle.chosen = {} /\ Idle.quota = 0
  /\ IsFiniteSet({}) /\ Cardinality({}) = 0
<1>1. 0 \in 0 .. LastDate /\ 0 \in 0 .. DailyMax /\ {} \in SUBSET [note : Notes, key : Keys]
  BY RetentionGiven
<1>2. Idle \in Rounding /\ Idle.at = "idle" /\ Idle.chosen = {} /\ Idle.quota = 0
  BY <1>1 DEF Idle, Rounding
<1> QED BY <1>2, FS_EmptySet

(* No round begins, and what becomes of a job is no success. *)
LEMMA JobsMove ==
  ASSUME RetInv, RetentionTypeOK', rounds' = rounds, crossed' = crossed,
         DOMAIN deletions' = DOMAIN deletions,
         \A i \in DOMAIN deletions :
           /\ deletions'[i].by = deletions[i].by /\ deletions'[i].round = deletions[i].round
           /\ deletions'[i].note = deletions[i].note /\ deletions'[i].key = deletions[i].key
           /\ deletions'[i].status = "done" => deletions[i].status = "done",
         \A r \in Runners : runner'[r] \in {runner[r], Idle}
  PROVE  RetInv'
<1>1. \A d : RoundsOf(d)' = RoundsOf(d)
  BY DEF RoundsOf
<1>2. RoundSound'
  <2>1. (\A d \in 1..LastDate : RoundsOf(d) # {} => [day |-> d, dry |-> FALSE] \in rounds)'
    BY <1>1 DEF RetInv, RoundSound
  <2>2. ASSUME NEW r \in Runners
        PROVE  /\ runner'[r].at # "idle" => runner'[r].day # 0
               /\ IsFiniteSet(runner'[r].chosen) /\ Cardinality(runner'[r].chosen) <= runner'[r].quota
    <3>1. CASE runner'[r] = runner[r]
      BY <3>1, Zenon DEF RetInv, RoundSound
    <3>2. CASE runner'[r] = Idle
      <4>1. 0 <= 0
        OBVIOUS
      <4> QED BY <3>2, <4>1, IdleIn, Zenon
    <3> QED BY <3>1, <3>2
  <2>3. CASE crossed
    BY <2>1, <2>2, <2>3, Zenon DEF RoundSound
  <2>4. CASE ~crossed
    <3>1. \A r \in Runners : runner'[r].at = "idle" \/ runner'[r] = runner[r]
      BY IdleIn
    <3>2. /\ \A r, o \in Runners : r = o \/ runner[r].at = "idle" \/ runner[o].at = "idle"
          /\ \A r \in Runners : runner[r].at \in {"admitted", "planned"} => RoundsOf(runner[r].day) = {}
          /\ \A d \in 1..LastDate : Cardinality(RoundsOf(d)) <= DailyMax
      BY <2>4 DEF RetInv, RoundSound
    <3>3. (\A r, o \in Runners : r = o \/ runner[r].at = "idle" \/ runner[o].at = "idle")'
      BY <3>1, <3>2
    <3>4. (\A r \in Runners : runner[r].at \in {"admitted", "planned"} => RoundsOf(runner[r].day) = {})'
      BY <1>1, <3>1, <3>2
    <3>5. (\A d \in 1..LastDate : Cardinality(RoundsOf(d)) <= DailyMax)'
      BY <1>1, <3>2
    <3> QED BY <2>1, <2>2, <3>3, <3>4, <3>5, Zenon DEF RoundSound
  <2> QED BY <2>3, <2>4
<1>3. GhostSound'
  BY IdleIn DEF RetInv, GhostSound
<1> QED BY <1>2, <1>3 DEF RetInv

LEMMA EnqueueKeeps == ASSUME RetInv, NEW r \in Runners, Enqueue(r) PROVE RetInv'
<1> DEFINE J(i) == IF IsHers(deletions[i], r)
                   THEN [deletions[i] EXCEPT !.status = "queued", !.day = date] ELSE deletions[i]
<1>1. deletions' = [i \in DOMAIN deletions |-> J(i)] /\ runner' = [runner EXCEPT ![r] = Idle]
  BY DEF Enqueue
<1>2. deletions \in Seq(Deletions) /\ date \in Nat /\ runner \in [Runners -> Rounding]
  BY RetentionGiven DEF RetInv, RetentionTypeOK
<1>3. \A i \in DOMAIN deletions :
        /\ J(i) \in Deletions /\ J(i).by = deletions[i].by /\ J(i).round = deletions[i].round
        /\ J(i).note = deletions[i].note /\ J(i).key = deletions[i].key
        /\ J(i).status = "done" => deletions[i].status = "done"
  <2> SUFFICES ASSUME NEW i \in DOMAIN deletions
               PROVE  /\ J(i) \in Deletions /\ J(i).by = deletions[i].by /\ J(i).round = deletions[i].round
                      /\ J(i).note = deletions[i].note /\ J(i).key = deletions[i].key
                      /\ J(i).status = "done" => deletions[i].status = "done"
    OBVIOUS
  <2>1. deletions[i] \in Deletions
    BY <1>2
  <2> QED BY <1>2, <2>1 DEF Deletions
<1> HIDE DEF J
<1>4. DOMAIN deletions' = DOMAIN deletions /\ \A i \in DOMAIN deletions : deletions'[i] = J(i)
  BY <1>1
<1>5. deletions' \in Seq(Deletions)
  <2>1. DOMAIN deletions = 1 .. Len(deletions) /\ Len(deletions) \in Nat
    BY <1>2
  <2> QED BY <1>1, <1>3, <2>1
<1>6. runner' \in [Runners -> Rounding] /\ \A o \in Runners : runner'[o] \in {runner[o], Idle}
  BY <1>1, <1>2, IdleIn
<1>7. RetentionTypeOK'
  BY <1>5, <1>6 DEF Enqueue, RetInv, RetentionTypeOK, ledger, clock
<1>8. rounds' = rounds /\ crossed' = crossed
  BY DEF Enqueue
<1> QED BY <1>3, <1>4, <1>6, <1>7, <1>8, JobsMove

LEMMA EndsKeeps == ASSUME RetInv, NEW i \in DOMAIN deletions, EndsInError(i) PROVE RetInv'
<1> DEFINE e == [deletions[i] EXCEPT !.status = "error"]
<1>1. deletions' = [deletions EXCEPT ![i] = e]
  BY DEF EndsInError
<1>2. deletions \in Seq(Deletions) /\ deletions[i] \in Deletions
  BY DEF RetInv, RetentionTypeOK
<1>3. /\ e \in Deletions /\ e.by = deletions[i].by /\ e.round = deletions[i].round
      /\ e.note = deletions[i].note /\ e.key = deletions[i].key /\ e.status = "error"
  BY <1>2 DEF Deletions
<1> HIDE DEF e
<1>4. deletions' \in Seq(Deletions) /\ DOMAIN deletions' = DOMAIN deletions
  BY <1>1, <1>2, <1>3
<1>5. RetentionTypeOK'
  BY <1>4 DEF EndsInError, RetInv, RetentionTypeOK, ledger, clock
<1>6. rounds' = rounds /\ crossed' = crossed /\ runner' = runner
  BY DEF EndsInError
<1> QED BY <1>1, <1>3, <1>4, <1>5, <1>6, JobsMove

LEMMA DieKeeps == ASSUME RetInv, Die PROVE RetInv'
<1>1. deaths' \in 0 .. MaxDeaths
  <2>1. deaths < MaxDeaths /\ deaths' = deaths + 1
    BY DEF Die
  <2>2. deaths \in 0 .. MaxDeaths
    BY DEF RetInv, RetentionTypeOK
  <2> QED BY <2>1, <2>2, RetentionGiven
<1>2. account' \in [managed : BOOLEAN, cap : Ceilings, enabled : BOOLEAN]
  <2>1. PICK on \in BOOLEAN : account' = [account EXCEPT !.enabled = on]
    BY DEF Die
  <2>2. account \in [managed : BOOLEAN, cap : Ceilings, enabled : BOOLEAN]
    BY Zenon DEF RetInv, RetentionTypeOK
  <2>3. account.cap \in Ceilings
    BY <2>2
  <2> QED BY <2>1, <2>2, <2>3, AccountIn, Zenon
<1>3. runner' \in [Runners -> Rounding] /\ \A r \in Runners : runner'[r] = Idle
  BY IdleIn DEF Die
<1>4. RetentionTypeOK'
  BY <1>1, <1>2, <1>3 DEF Die, RetInv, RetentionTypeOK, ledger, clock
<1>5. rounds' = rounds /\ crossed' = crossed /\ deletions' = deletions
  BY DEF Die
<1> QED BY <1>3, <1>4, <1>5, JobsMove

LEMMA HandDeleteKeeps == ASSUME RetInv, NEW n \in Notes, HandDelete(n) PROVE RetInv'
<1> DEFINE e == [note |-> n, key |-> <<"title", TitleOf[n]>>, by |-> "operator", round |-> 0, day |-> date,
                 status |-> "queued"]
           m == Len(deletions) + 1
<1>1. deletions' = Append(deletions, e)
  BY DEF HandDelete
<1>2. deletions \in Seq(Deletions) /\ date \in Nat
  BY RetentionGiven DEF RetInv, RetentionTypeOK
<1>3. e \in Deletions /\ e.by = "operator" /\ e.status = "queued"
  BY <1>2 DEF Deletions, Keys
<1> HIDE DEF e
<1>4. /\ deletions' \in Seq(Deletions) /\ DOMAIN deletions' = DOMAIN deletions \cup {m}
      /\ m \notin DOMAIN deletions /\ deletions'[m] = e
      /\ \A i \in DOMAIN deletions : deletions'[i] = deletions[i]
  BY <1>1, <1>2, <1>3
<1>5. changes' \in 0 .. MaxChanges
  <2>1. changes < MaxChanges /\ changes' = changes + 1
    BY DEF HandDelete, Changes
  <2>2. changes \in 0 .. MaxChanges
    BY DEF RetInv, RetentionTypeOK
  <2> QED BY <2>1, <2>2, RetentionGiven
<1>6. RetentionTypeOK'
  BY <1>4, <1>5 DEF HandDelete, RetInv, RetentionTypeOK, ledger, clock
<1>7. rounds' = rounds /\ crossed' = crossed /\ runner' = runner
  BY DEF HandDelete
<1>8. \A d : RoundsOf(d)' = RoundsOf(d)
  BY <1>3, <1>4 DEF RoundsOf, Runners
<1>9. RoundSound'
  BY <1>7, <1>8 DEF RetInv, RoundSound
<1>10. GhostSound'
  BY <1>3, <1>4, <1>7 DEF RetInv, GhostSound, Runners
<1> QED BY <1>6, <1>9, <1>10 DEF RetInv

(* A round begins on a day for which no round has promised anything.                      *)
LEMMA AdmitKeeps ==
  ASSUME RetInv, NEW r \in Runners, NEW quota \in 0 .. DailyMax, Admit(r, quota), RoundsOf(date) = {},
         changes' \in 0 .. MaxChanges, UNCHANGED <<ledger, account, clock, rounds, deletions, deaths>>
  PROVE  RetInv'
<1> DEFINE e == [Idle EXCEPT !.at = "admitted", !.day = date, !.cap = account.cap, !.quota = quota]
<1>1. /\ runner' = [runner EXCEPT ![r] = e]
      /\ crossed' = (crossed \/ \E o \in Runners \ {r} : runner[o].at # "idle")
  BY DEF Admit
<1>2. /\ runner \in [Runners -> Rounding] /\ date \in 0 .. LastDate /\ date \in 1 .. LastDate /\ date # 0
      /\ account.cap \in Nat
  <2>1. account \in [managed : BOOLEAN, cap : Ceilings, enabled : BOOLEAN]
    BY Zenon DEF RetInv, RetentionTypeOK
  <2>2. account.cap \in Ceilings
    BY <2>1
  <2>3. runner \in [Runners -> Rounding] /\ date \in 1 .. LastDate
    BY DEF RetInv, RetentionTypeOK
  <2>4. date \in 0 .. LastDate /\ date # 0
    BY <2>3, RetentionGiven
  <2>5. account.cap \in Nat
    BY <2>2, RetentionGiven
  <2> QED BY <2>3, <2>4, <2>5
<1>3. /\ e \in Rounding /\ e.at = "admitted" /\ e.day = date /\ e.quota = quota
      /\ e.chosen = {}
  <2>1. {} \in SUBSET [note : Notes, key : Keys]
    OBVIOUS
  <2> QED BY <1>2, <2>1 DEF Idle, Rounding
<1> HIDE DEF e
<1>4. runner' \in [Runners -> Rounding] /\ runner'[r] = e /\ \A o \in Runners \ {r} : runner'[o] = runner[o]
  BY <1>1, <1>2, <1>3
<1>5. crossed' \in BOOLEAN
  BY <1>1, Zenon
<1>6. rounds' = rounds /\ deletions' = deletions
  OBVIOUS
<1>7. RetentionTypeOK'
  BY <1>4, <1>5 DEF RetInv, RetentionTypeOK, ledger, clock
<1>8. \A d : RoundsOf(d)' = RoundsOf(d)
  BY <1>6 DEF RoundsOf
<1>9. GhostSound'
  BY <1>3, <1>4, <1>6 DEF RetInv, GhostSound
<1>10. RoundSound'
  <2>1. (\A d \in 1..LastDate : RoundsOf(d) # {} => [day |-> d, dry |-> FALSE] \in rounds)'
    BY <1>6, <1>8 DEF RetInv, RoundSound
  <2>2. ASSUME NEW o \in Runners
        PROVE  /\ runner'[o].at # "idle" => runner'[o].day # 0
               /\ IsFiniteSet(runner'[o].chosen) /\ Cardinality(runner'[o].chosen) <= runner'[o].quota
    <3>1. CASE o # r
      BY <1>4, <3>1, Zenon DEF RetInv, RoundSound
    <3>2. CASE o = r
      <4>1. 0 <= quota
        BY RetentionGiven
      <4> QED BY <1>2, <1>3, <1>4, <3>2, <4>1, IdleIn, Zenon
    <3> QED BY <3>1, <3>2
  <2>3. CASE crossed'
    BY <2>1, <2>2, <2>3, Zenon DEF RoundSound
  <2>4. CASE ~crossed'
    <3>1. ~crossed /\ \A o \in Runners \ {r} : runner[o].at = "idle"
      BY <1>1, <2>4, Zenon
    <3>2. \A d \in 1..LastDate : Cardinality(RoundsOf(d)) <= DailyMax
      BY <3>1 DEF RetInv, RoundSound
    <3>3. (\A o, q \in Runners : o = q \/ runner[o].at = "idle" \/ runner[q].at = "idle")'
      BY <1>4, <3>1
    <3>4. (\A o \in Runners : runner[o].at \in {"admitted", "planned"} => RoundsOf(runner[o].day) = {})'
      BY <1>3, <1>4, <1>8, <3>1
    <3>5. (\A d \in 1..LastDate : Cardinality(RoundsOf(d)) <= DailyMax)'
      BY <1>8, <3>2
    <3> QED BY <2>1, <2>2, <3>3, <3>4, <3>5, Zenon DEF RoundSound
  <2> QED BY <2>3, <2>4
<1> QED BY <1>7, <1>9, <1>10 DEF RetInv

LEMMA Unran == ASSUME RetInv, ~Ran(FALSE) PROVE RoundsOf(date) = {}
<1>1. date \in 1 .. LastDate
  BY DEF RetInv, RetentionTypeOK
<1> QED BY <1>1 DEF RetInv, RoundSound, Ran

LEMMA ScanKeeps == ASSUME RetInv, Scan PROVE RetInv'
<1>1. RoundsOf(date) = {}
  <2>1. ~Ran(FALSE)
    BY DEF Scan
  <2> QED BY <2>1, Unran
<1>2. DailyMax \in 0 .. DailyMax
  BY RetentionGiven
<1>3. changes' \in 0 .. MaxChanges
  BY DEF Scan, RetInv, RetentionTypeOK
<1>4. Admit("scan", DailyMax) /\ UNCHANGED <<ledger, account, clock, rounds, deletions, deaths>>
  BY DEF Scan
<1> QED BY <1>1, <1>2, <1>3, <1>4, AdmitKeeps DEF Runners

LEMMA HandRunKeeps == ASSUME RetInv, HandRun PROVE RetInv'
<1>1. RoundsOf(date) = {}
  <2>1. ~Ran(FALSE)
    BY DEF HandRun
  <2> QED BY <2>1, Unran
<1>2. DailyMax - AskedToday \in 0 .. DailyMax
  <2>1. deletions \in Seq(Deletions)
    BY DEF RetInv, RetentionTypeOK
  <2>2. IsFiniteSet(DOMAIN deletions)
    <3>1. DOMAIN deletions = 1 .. Len(deletions) /\ Len(deletions) \in Nat
      BY <2>1
    <3> QED BY <3>1, FS_Interval
  <2>3. AskedToday \in Nat
    <3> DEFINE S == {i \in DOMAIN deletions : IsRow(deletions[i]) /\ deletions[i].day = date}
    <3>1. S \in SUBSET (DOMAIN deletions)
      OBVIOUS
    <3> HIDE DEF S
    <3>2. Cardinality(S) \in Nat
      BY <2>2, <3>1, FS_Subset, FS_CardinalityType
    <3> QED BY <3>2 DEF S, AskedToday
  <2>4. AskedToday < DailyMax
    BY DEF HandRun
  <2> QED BY <2>3, <2>4, RetentionGiven
<1>3. changes' \in 0 .. MaxChanges
  <2>1. changes < MaxChanges /\ changes' = changes + 1
    BY DEF HandRun
  <2>2. changes \in 0 .. MaxChanges
    BY DEF RetInv, RetentionTypeOK
  <2> QED BY <2>1, <2>2, RetentionGiven
<1>4. Admit("hand", DailyMax - AskedToday) /\ UNCHANGED <<ledger, account, clock, rounds, deletions, deaths>>
  BY DEF HandRun
<1> QED BY <1>1, <1>2, <1>3, <1>4, AdmitKeeps DEF Runners

(* A plan holds one entry per chosen note, and none of a note whose deletion succeeded.   *)
LEMMA PlanKeeps == ASSUME RetInv, NEW r \in Runners, Plan(r) PROVE RetInv'
<1> DEFINE onDay == runner[r].day
           quota == runner[r].quota
           cap == runner[r].cap
<1>1. /\ runner \in [Runners -> Rounding] /\ runner[r] \in Rounding
      /\ cap \in Nat /\ quota \in Nat /\ quota \in 0 .. DailyMax
  <2>1. runner \in [Runners -> Rounding] /\ runner[r] \in Rounding
    BY DEF RetInv, RetentionTypeOK
  <2> QED BY <2>1, RetentionGiven DEF Rounding
<1>2. PICK C \in Selections(cap, quota, onDay) :
        runner' = [runner EXCEPT ![r].at = "planned",
                                 ![r].chosen = {[note |-> n, key |-> KeyOf(n)] : n \in C}]
  BY DEF Plan
<1> DEFINE E == {[note |-> n, key |-> KeyOf(n)] : n \in C}
           e == [runner[r] EXCEPT !.at = "planned", !.chosen = E]
<1>3. C \subseteq Deletable(onDay) /\ C \subseteq Stock /\ IsFiniteSet(C) /\ Cardinality(C) <= quota /\ Cardinality(C) \in Nat
  BY <1>1, SelectionFits DEF RetInv
<1>4. C \subseteq Notes
  BY <1>3, StockFinite DEF RetInv
<1>5. E \in SUBSET [note : Notes, key : Keys]
  <2>1. \A n \in Notes : KeyOf(n) \in Keys
    BY DEF KeyOf, Keys
  <2> QED BY <1>4, <2>1
<1>6. IsFiniteSet(E) /\ Cardinality(E) <= quota
  <2> DEFINE f == [n \in C |-> [note |-> n, key |-> KeyOf(n)]]
  <2>1. f \in Surjection(C, E)
    BY DEF Surjection
  <2> HIDE DEF f, E
  <2>2. IsFiniteSet(E) /\ Cardinality(E) <= Cardinality(C)
    BY <1>3, <2>1, FS_Surjection
  <2>3. Cardinality(E) \in Nat
    BY <2>2, FS_CardinalityType
  <2> QED BY <1>1, <1>3, <2>2, <2>3
<1>7. \A c \in E : c.note \in C
  OBVIOUS
<1>8. runner' = [runner EXCEPT ![r] = e]
  BY <1>1, <1>2
<1> HIDE DEF E
<1>9. /\ e \in Rounding /\ e.at = "planned" /\ e.chosen = E /\ e.quota = quota
      /\ e.day = onDay
  BY <1>1, <1>5 DEF Rounding
<1> HIDE DEF e
<1>10. /\ runner' \in [Runners -> Rounding] /\ runner'[r] = e
       /\ \A o \in Runners \ {r} : runner'[o] = runner[o]
  BY <1>1, <1>8, <1>9
<1>11. rounds' = rounds /\ deletions' = deletions /\ crossed' = crossed /\ runner[r].at = "admitted"
  BY DEF Plan
<1>12. RetentionTypeOK'
  <2>1. state' \in [Notes -> {"absent", "kept", "gone"}]
    BY ReconcileIn DEF Plan, RetInv
  <2> QED BY <1>10, <2>1 DEF Plan, RetInv, RetentionTypeOK, clock
<1>13. \A d : RoundsOf(d)' = RoundsOf(d)
  BY <1>11 DEF RoundsOf
<1>14. GhostSound'
  <2>1. ASSUME NEW i \in DOMAIN deletions, deletions[i].status = "done"
        PROVE  \A o \in Runners : \A c \in runner'[o].chosen : c.note # deletions[i].note
    <3>1. deletions[i].note \notin Deletable(onDay)
      BY <2>1, GhostIsOut DEF RetInv
    <3>2. \A c \in runner'[r].chosen : c.note # deletions[i].note
      BY <1>3, <1>7, <1>9, <1>10, <3>1
    <3>3. \A o \in Runners : \A c \in runner[o].chosen : c.note # deletions[i].note
      BY <2>1 DEF RetInv, GhostSound
    <3> QED BY <1>10, <3>2, <3>3
  <2> QED BY <1>11, <2>1 DEF RetInv, GhostSound
<1>15. RoundSound'
  <2>1. (\A d \in 1..LastDate : RoundsOf(d) # {} => [day |-> d, dry |-> FALSE] \in rounds)'
    BY <1>11, <1>13 DEF RetInv, RoundSound
  <2>2. ASSUME NEW o \in Runners
        PROVE  /\ runner'[o].at # "idle" => runner'[o].day # 0
               /\ IsFiniteSet(runner'[o].chosen) /\ Cardinality(runner'[o].chosen) <= runner'[o].quota
    <3>1. CASE o # r
      BY <1>10, <3>1, Zenon DEF RetInv, RoundSound
    <3>2. CASE o = r
      <4>1. onDay # 0
        BY <1>11 DEF RetInv, RoundSound
      <4> QED BY <1>6, <1>9, <1>10, <3>2, <4>1
    <3> QED BY <3>1, <3>2
  <2>3. CASE crossed'
    BY <2>1, <2>2, <2>3, Zenon DEF RoundSound
  <2>4. CASE ~crossed'
    <3>1. /\ \A o, q \in Runners : o = q \/ runner[o].at = "idle" \/ runner[q].at = "idle"
          /\ \A o \in Runners : runner[o].at \in {"admitted", "planned"} => RoundsOf(runner[o].day) = {}
          /\ \A d \in 1..LastDate : Cardinality(RoundsOf(d)) <= DailyMax
      BY <1>11, <2>4 DEF RetInv, RoundSound
    <3>3. (\A o, q \in Runners : o = q \/ runner[o].at = "idle" \/ runner[q].at = "idle")'
      BY <1>10, <1>11, <3>1
    <3>4. (\A o \in Runners : runner[o].at \in {"admitted", "planned"} => RoundsOf(runner[o].day) = {})'
      BY <1>9, <1>10, <1>11, <1>13, <3>1
    <3>5. (\A d \in 1..LastDate : Cardinality(RoundsOf(d)) <= DailyMax)'
      BY <1>13, <3>1
    <3> QED BY <2>1, <2>2, <3>3, <3>4, <3>5, Zenon DEF RoundSound
  <2> QED BY <2>3, <2>4
<1> QED BY <1>12, <1>14, <1>15 DEF RetInv

(* The sequence of a finite set lists it.                                                  *)
LEMMA Listing ==
  ASSUME NEW S, IsFiniteSet(S)
  PROVE  /\ Cardinality(S) \in Nat /\ SetToSeq(S) \in [1 .. Cardinality(S) -> S]
<1>1. Cardinality(S) \in Nat /\ ExistsBijection(1 .. Cardinality(S), S)
  BY FS_CardinalityType
<1>2. \E f \in [1 .. Cardinality(S) -> S] : IsInjective(f)
  BY <1>1 DEF ExistsBijection, Bijection, Injection
<1> QED BY <1>1, <1>2 DEF SetToSeq

(* The jobs an audit row names are one per chosen note at most, and all of its round.     *)
LEMMA PromisesIn ==
  ASSUME RetInv, NEW r \in Runners
  PROVE  /\ Promises(r) \in Seq(Deletions) /\ Len(Promises(r)) <= runner[r].quota
         /\ \A i \in DOMAIN Promises(r) :
              /\ Promises(r)[i].by = r /\ Promises(r)[i].round = runner[r].day
              /\ Promises(r)[i].status = "promised" /\ ~IsDry(r)
              /\ \E c \in runner[r].chosen : c.note = Promises(r)[i].note
<1> DEFINE S == runner[r].chosen
           es == SetToSeq(S)
           k == Cardinality(S)
<1>1. /\ runner[r].day \in Nat /\ runner[r].quota \in Nat /\ S \in SUBSET [note : Notes, key : Keys]
  <2>1. runner[r] \in Rounding
    BY DEF RetInv, RetentionTypeOK
  <2> QED BY <2>1, RetentionGiven DEF Rounding
<1>2. IsFiniteSet(S) /\ k <= runner[r].quota
  BY DEF RetInv, RoundSound
<1>3. k \in Nat /\ es \in [1 .. k -> S]
  BY <1>2, Listing
<1>4. CASE IsDry(r)
  <2>1. Promises(r) = <<>>
    BY <1>4 DEF Promises
  <2> QED BY <1>1, <2>1
<1>5. CASE ~IsDry(r)
  <2>1. Promises(r) = [i \in 1 .. k |-> JobOf(es[i], r)]
    BY <1>3, <1>5 DEF Promises
  <2> HIDE DEF S, es, k
  <2>2. \A i \in 1 .. k :
          /\ JobOf(es[i], r) \in Deletions /\ JobOf(es[i], r).by = r
          /\ JobOf(es[i], r).round = runner[r].day
          /\ JobOf(es[i], r).status = "promised"
          /\ \E c \in S : c.note = JobOf(es[i], r).note
    <3> SUFFICES ASSUME NEW i \in 1 .. k
                 PROVE  /\ JobOf(es[i], r) \in Deletions /\ JobOf(es[i], r).by = r
                        /\ JobOf(es[i], r).round = runner[r].day
                        /\ JobOf(es[i], r).status = "promised"
                        /\ \E c \in S : c.note = JobOf(es[i], r).note
      OBVIOUS
    <3>1. es[i] \in S /\ es[i].note \in Notes /\ es[i].key \in Keys
      BY <1>1, <1>3
    <3> QED BY <1>1, <3>1 DEF JobOf, Deletions
  <2> HIDE DEF JobOf
  <2>3. Promises(r) \in Seq(Deletions) /\ Len(Promises(r)) = k /\ DOMAIN Promises(r) = 1 .. k
    BY <1>3, <2>1, <2>2
  <2>4. Len(Promises(r)) <= runner[r].quota
    BY <1>2, <2>3
  <2>5. \A i \in 1 .. k : Promises(r)[i] = JobOf(es[i], r)
    BY <2>1
  <2>6. \A i \in DOMAIN Promises(r) :
          /\ Promises(r)[i].by = r /\ Promises(r)[i].round = runner[r].day
          /\ Promises(r)[i].status = "promised"
          /\ \E c \in S : c.note = Promises(r)[i].note
    BY <2>2, <2>3, <2>5
  <2> QED BY <1>5, <2>3, <2>4, <2>6, Zenon DEF S
<1> QED BY <1>4, <1>5

LEMMA AuditKeeps == ASSUME RetInv, NEW r \in Runners, Audit(r) PROVE RetInv'
<1> DEFINE p == Promises(r)
           m == Len(deletions)
           onDay == runner[r].day
           quota == runner[r].quota
<1>1. /\ runner \in [Runners -> Rounding] /\ runner[r] \in Rounding
      /\ quota \in Nat /\ quota \in 0 .. DailyMax /\ onDay \in Nat
      /\ deletions \in Seq(Deletions) /\ m \in Nat /\ DOMAIN deletions = 1 .. m
  <2>1. runner \in [Runners -> Rounding] /\ runner[r] \in Rounding /\ deletions \in Seq(Deletions)
    BY DEF RetInv, RetentionTypeOK
  <2> QED BY <2>1, RetentionGiven DEF Rounding
<1>2. /\ p \in Seq(Deletions) /\ Len(p) <= quota
      /\ \A i \in DOMAIN p :
           /\ p[i].by = r /\ p[i].round = onDay /\ p[i].status = "promised" /\ ~IsDry(r)
           /\ \E c \in runner[r].chosen : c.note = p[i].note
  BY PromisesIn
<1>3. /\ deletions' = deletions \o p /\ crossed' = crossed /\ runner[r].at = "planned"
      /\ rounds' = rounds \cup {[day |-> onDay, dry |-> IsDry(r)]}
      /\ runner' = [runner EXCEPT ![r] = IF p = <<>> THEN Idle ELSE [runner[r] EXCEPT !.at = "audited"]]
  BY DEF Audit
<1> HIDE DEF p
<1>4. /\ deletions' \in Seq(Deletions) /\ DOMAIN deletions' = 1 .. (m + Len(p)) /\ Len(p) \in Nat
      /\ \A i \in 1 .. m : deletions'[i] = deletions[i]
      /\ \A i \in (m + 1) .. (m + Len(p)) : i - m \in DOMAIN p /\ deletions'[i] = p[i - m]
  BY <1>1, <1>2, <1>3
<1>5. \A i \in (m + 1) .. (m + Len(p)) :
        /\ deletions'[i].by = r /\ deletions'[i].round = onDay /\ deletions'[i].status = "promised"
        /\ ~IsDry(r) /\ \E c \in runner[r].chosen : c.note = deletions'[i].note
  BY <1>2, <1>4
<1>6. \A i \in DOMAIN deletions' : i \in DOMAIN deletions \/ i \in (m + 1) .. (m + Len(p))
  BY <1>1, <1>4
<1> DEFINE e == [runner[r] EXCEPT !.at = "audited"]
<1>7. /\ e \in Rounding /\ e.at = "audited" /\ e.chosen = runner[r].chosen /\ e.quota = quota
      /\ e.day = onDay
  BY <1>1 DEF Rounding
<1>8. runner' = [runner EXCEPT ![r] = IF p = <<>> THEN Idle ELSE e]
  BY <1>3
<1> HIDE DEF e
<1>9. /\ runner' \in [Runners -> Rounding] /\ runner'[r] \in {e, Idle}
      /\ \A o \in Runners \ {r} : runner'[o] = runner[o]
  BY <1>1, <1>7, <1>8, IdleIn
<1>10. IsDry(r) \in BOOLEAN
  BY Zenon DEF IsDry
<1>11. RetentionTypeOK'
  <2>1. rounds' \subseteq [day : Nat, dry : BOOLEAN]
    <3>1. rounds \subseteq [day : Nat, dry : BOOLEAN]
      BY Zenon DEF RetInv, RetentionTypeOK
    <3>2. [day |-> onDay, dry |-> IsDry(r)] \in [day : Nat, dry : BOOLEAN]
      BY <1>1, <1>10
    <3> QED BY <1>3, <3>1, <3>2, Zenon
  <2> QED BY <1>4, <1>9, <2>1 DEF Audit, RetInv, RetentionTypeOK, ledger, clock
<1>12. \A d : RoundsOf(d) \subseteq RoundsOf(d)' /\ (d # onDay => RoundsOf(d)' = RoundsOf(d))
  BY <1>1, <1>4, <1>5, <1>6 DEF RoundsOf
<1>13. \A d : RoundsOf(d)' \subseteq RoundsOf(d) \cup (m + 1) .. (m + Len(p))
  BY <1>1, <1>4, <1>6 DEF RoundsOf
<1>14. GhostSound'
  <2>1. ASSUME NEW i \in DOMAIN deletions', deletions'[i].status = "done"
        PROVE  i \in DOMAIN deletions /\ deletions'[i] = deletions[i] /\ deletions[i].status = "done"
    BY <1>1, <1>4, <1>5, <1>6, <2>1
  <2>2. ASSUME NEW i \in DOMAIN deletions, deletions[i].status = "done"
        PROVE  /\ \A o \in Runners : \A c \in runner'[o].chosen : c.note # deletions[i].note
               /\ \A j \in DOMAIN deletions' : j # i /\ deletions'[j].by \in Runners =>
                     deletions'[j].note # deletions[i].note
    <3>1. /\ \A o \in Runners : \A c \in runner[o].chosen : c.note # deletions[i].note
          /\ \A j \in DOMAIN deletions : j # i /\ deletions[j].by \in Runners =>
                deletions[j].note # deletions[i].note
      BY <2>2 DEF RetInv, GhostSound
    <3>2. \A o \in Runners : runner'[o].chosen \subseteq runner[o].chosen
      BY <1>7, <1>9, IdleIn
    <3>3. \A j \in (m + 1) .. (m + Len(p)) : deletions'[j].note # deletions[i].note
      BY <1>5, <3>1
    <3> QED BY <1>1, <1>4, <1>6, <3>1, <3>2, <3>3
  <2>3. \A i \in DOMAIN deletions : deletions[i].status = "done" =>
          /\ i = 1 /\ deletions[i].by \in Runners
          /\ deletions[i].key \in {<<"id", deletions[i].note>>, <<"title", TitleOf[deletions[i].note]>>}
    BY DEF RetInv, GhostSound
  <2> QED BY <2>1, <2>2, <2>3 DEF GhostSound
<1>15. RoundSound'
  <2>1. (\A d \in 1..LastDate : RoundsOf(d) # {} => [day |-> d, dry |-> FALSE] \in rounds)'
    <3> SUFFICES ASSUME NEW d \in 1..LastDate, RoundsOf(d)' # {} PROVE [day |-> d, dry |-> FALSE] \in rounds'
      OBVIOUS
    <3>1. CASE RoundsOf(d) # {}
      BY <1>3, <3>1 DEF RetInv, RoundSound
    <3>2. CASE RoundsOf(d) = {}
      <4>1. d = onDay
        BY <1>12, <3>2
      <4>2. PICK i \in (m + 1) .. (m + Len(p)) : TRUE
        BY <1>13, <3>2
      <4>3. IsDry(r) = FALSE
        BY <1>5, <1>10, <4>2, Zenon
      <4> QED BY <1>3, <4>1, <4>3
    <3> QED BY <3>1, <3>2
  <2>2. ASSUME NEW o \in Runners
        PROVE  /\ runner'[o].at # "idle" => runner'[o].day # 0
               /\ IsFiniteSet(runner'[o].chosen) /\ Cardinality(runner'[o].chosen) <= runner'[o].quota
    <3>1. CASE o # r
      BY <1>9, <3>1, Zenon DEF RetInv, RoundSound
    <3>2. CASE o = r
      <4>1. onDay # 0 /\ IsFiniteSet(runner[r].chosen) /\ Cardinality(runner[r].chosen) <= quota
        BY <1>3 DEF RetInv, RoundSound
      <4>2. 0 <= 0
        OBVIOUS
      <4> QED BY <1>7, <1>9, <3>2, <4>1, <4>2, IdleIn, Zenon
    <3> QED BY <3>1, <3>2
  <2>3. CASE crossed'
    BY <2>1, <2>2, <2>3, Zenon DEF RoundSound
  <2>4. CASE ~crossed'
    <3>1. /\ \A o, q \in Runners : o = q \/ runner[o].at = "idle" \/ runner[q].at = "idle"
          /\ \A o \in Runners : runner[o].at \in {"admitted", "planned"} => RoundsOf(runner[o].day) = {}
          /\ \A d \in 1..LastDate : Cardinality(RoundsOf(d)) <= DailyMax
      BY <1>3, <2>4 DEF RetInv, RoundSound
    <3>2. \A o \in Runners \ {r} : runner'[o].at = "idle"
      BY <1>3, <1>9, <3>1
    <3>3. (\A o, q \in Runners : o = q \/ runner[o].at = "idle" \/ runner[q].at = "idle")'
      BY <3>2
    <3>4. (\A o \in Runners : runner[o].at \in {"admitted", "planned"} => RoundsOf(runner[o].day) = {})'
      BY <1>7, <1>9, <3>2, IdleIn
    <3>5. ASSUME NEW d \in 1..LastDate PROVE Cardinality(RoundsOf(d)') <= DailyMax
      <4>1. CASE d # onDay
        BY <1>12, <3>1, <4>1
      <4>2. CASE d = onDay
        <5> DEFINE N == (m + 1) .. (m + Len(p))
                   R == RoundsOf(d)'
        <5>1. R \in SUBSET N
          BY <1>3, <1>13, <3>1, <4>2
        <5>2. IsFiniteSet(N) /\ Cardinality(N) <= Len(p)
          <6> DEFINE a == m + 1
                     b == m + Len(p)
          <6>1. a \in Int /\ b \in Int /\ b - a + 1 = Len(p) /\ 0 <= Len(p)
            BY <1>1, <1>4
          <6> HIDE DEF a, b
          <6>2. IsFiniteSet(a .. b) /\ Cardinality(a .. b) = IF a > b THEN 0 ELSE b - a + 1
            BY <6>1, FS_Interval
          <6>3. Cardinality(a .. b) <= Len(p)
            BY <6>1, <6>2, <1>4
          <6> QED BY <6>2, <6>3 DEF a, b
        <5> HIDE DEF N, R
        <5>3. Cardinality(R) <= Cardinality(N) /\ IsFiniteSet(R)
          BY <5>1, <5>2, FS_Subset
        <5>4. Cardinality(R) \in Nat /\ Cardinality(N) \in Nat
          BY <5>2, <5>3, FS_CardinalityType
        <5>5. Cardinality(R) <= DailyMax
          BY <1>1, <1>2, <1>4, <5>2, <5>3, <5>4, RetentionGiven
        <5> QED BY <5>5 DEF R
      <4> QED BY <4>1, <4>2
    <3> QED BY <2>1, <2>2, <3>3, <3>4, <3>5, Zenon DEF RoundSound
  <2> QED BY <2>3, <2>4
<1> QED BY <1>11, <1>14, <1>15 DEF RetInv

LEMMA StutterKeeps == ASSUME RetInv, UNCHANGED retentionVars PROVE RetInv'
<1>1. RetentionTypeOK'
  <2>1. snapped' \in BOOLEAN /\ crossed' \in BOOLEAN
    BY Zenon DEF retentionVars, clock, RetInv, RetentionTypeOK
  <2>2. account' \in [managed : BOOLEAN, cap : Ceilings, enabled : BOOLEAN]
    BY Zenon DEF retentionVars, RetInv, RetentionTypeOK
  <2>3. rounds' \subseteq [day : Nat, dry : BOOLEAN]
    BY Zenon DEF retentionVars, RetInv, RetentionTypeOK
  <2> QED BY <2>1, <2>2, <2>3 DEF retentionVars, clock, ledger, RetInv, RetentionTypeOK
<1> QED BY <1>1, Aside DEF retentionVars

LEMMA NextKeeps == ASSUME RetInv, [RetentionNext]_retentionVars PROVE RetInv'
<1>1. CASE Scan
  BY <1>1, ScanKeeps
<1>2. CASE HandRun
  BY <1>2, HandRunKeeps
<1>3. CASE Preview \/ Manage \/ Measure \/ NextDay
  BY <1>3, OthersKeep
<1>4. ASSUME NEW r \in Runners, Round(r) PROVE RetInv'
  BY <1>4, PlanKeeps, AuditKeeps, EnqueueKeeps DEF Round
<1>5. ASSUME NEW i \in DOMAIN deletions, Job(i) PROVE RetInv'
  BY <1>5, EndsKeeps DEF Job, Fails, DeleteSync
<1>6. ASSUME NEW n \in Notes, Others(n) PROVE RetInv'
  BY <1>6, OthersKeep, HandDeleteKeeps DEF Others
<1>7. CASE Die
  BY <1>7, DieKeeps
<1>8. CASE UNCHANGED retentionVars
  BY <1>8, StutterKeeps
<1> QED BY <1>1, <1>2, <1>3, <1>4, <1>5, <1>6, <1>7, <1>8 DEF RetentionNext

LEMMA RetInvAlways == RetentionSpec => []RetInv
<1>1. RetentionInit => RetInv
  BY InitOK
<1>2. RetInv /\ [RetentionNext]_retentionVars => RetInv'
  BY NextKeeps
<1> QED BY <1>1, <1>2, PTL DEF RetentionSpec

(* The variables of a managed account's rounds keep their types.                          *)
THEOREM RetentionTypes == RetentionSpec => []RetentionTypeOK
<1>1. RetInv => RetentionTypeOK
  BY DEF RetInv
<1> QED BY <1>1, RetInvAlways, PTL

(* For any set of notes, any ceilings, any daily maximum and any number of days: the      *)
(* rounds of a day queue no more deletions than the daily maximum unless two of them      *)
(* crossed, and a note whose deletion succeeded is never chosen again.                    *)
THEOREM RoundsHold == RetentionSpec => []RetentionHolds
<1>1. RetInv => RetentionHolds
  BY Holds
<1> QED BY <1>1, RetInvAlways, PTL

(***************************************************************************)
(* The ceiling                                                             *)
(***************************************************************************)

(* Only a plan takes a runner from its admission to a plan.                               *)
LEMMA OnlyPlanPlans ==
  ASSUME RetInv, [RetentionNext]_retentionVars, NEW r \in Runners,
         runner[r].at = "admitted", runner'[r].at = "planned"
  PROVE  Plan(r)
<1>1. runner \in [Runners -> Rounding]
  BY DEF RetInv, RetentionTypeOK
<1>2. ASSUME NEW o \in Runners, NEW quota, Admit(o, quota) PROVE FALSE
  <2>1. o # r /\ runner'[r] = runner[r]
    BY <1>1, <1>2 DEF Admit
  <2> QED BY <2>1
<1>3. ~Scan /\ ~HandRun
  BY <1>2 DEF Scan, HandRun, Runners
<1>4. runner' # runner
  OBVIOUS
<1>5. ~Preview /\ ~Manage /\ ~Measure /\ ~NextDay /\ ~UNCHANGED retentionVars
  BY <1>4 DEF Preview, Manage, Measure, NextDay, retentionVars
<1>6. \A i \in DOMAIN deletions : ~Job(i)
  BY <1>4 DEF Job, Fails, DeleteSync, EndsInError
<1>7. \A n \in Notes : ~Others(n)
  BY <1>4 DEF Others, Publishes, Link, Protect, HandDelete
<1>8. ~Die
  BY IdleIn DEF Die
<1>9. ASSUME NEW o \in Runners, Audit(o) \/ Enqueue(o) PROVE FALSE
  <2>1. o # r
    BY <1>9 DEF Audit, Enqueue
  <2>2. runner'[r] = runner[r]
    BY <1>1, <1>9, <2>1 DEF Audit, Enqueue
  <2> QED BY <2>2
<1>10. PICK o \in Runners : Plan(o)
  BY <1>3, <1>5, <1>6, <1>7, <1>8, <1>9 DEF RetentionNext, Round
<1>11. o = r
  <2>1. CASE o # r
    <3>1. runner'[r] = runner[r]
      BY <1>1, <1>10, <2>1 DEF Plan
    <3> QED BY <3>1
  <2> QED BY <2>1
<1> QED BY <1>10, <1>11

LEMMA PlanStays == ASSUME RetInv, NEW r \in Runners, Plan(r) PROVE StaysFull(r)
<1> SUFFICES ASSUME KeysStand, Chosen(r) # {}
             PROVE  Cardinality(Kept' \ (Pending \cup Chosen(r))) >= runner[r].cap
  BY DEF StaysFull
<1> DEFINE onDay == runner[r].day
           quota == runner[r].quota
           cap == runner[r].cap
<1>1. /\ runner \in [Runners -> Rounding] /\ cap \in Nat /\ quota \in Nat
  <2>1. runner \in [Runners -> Rounding] /\ runner[r] \in Rounding
    BY DEF RetInv, RetentionTypeOK
  <2> QED BY <2>1, RetentionGiven DEF Rounding
<1>2. PICK C \in Selections(cap, quota, onDay) :
        runner' = [runner EXCEPT ![r].at = "planned",
                                 ![r].chosen = {[note |-> n, key |-> KeyOf(n)] : n \in C}]
  BY DEF Plan
<1>3. Chosen(r) = C
  <2> DEFINE E == {[note |-> n, key |-> KeyOf(n)] : n \in C}
  <2>1. runner'[r].chosen = E
    BY <1>1, <1>2 DEF Rounding
  <2>2. \A c \in E : c.note \in C
    OBVIOUS
  <2>3. \A n \in C : \E c \in E : c.note = n
    <3> SUFFICES ASSUME NEW n \in C PROVE \E c \in E : c.note = n
      OBVIOUS
    <3>1. [note |-> n, key |-> KeyOf(n)] \in E /\ [note |-> n, key |-> KeyOf(n)].note = n
      OBVIOUS
    <3> HIDE DEF E
    <3> QED BY <3>1
  <2> HIDE DEF E
  <2> QED BY <2>1, <2>2, <2>3 DEF Chosen
<1>4. /\ C \subseteq Stock /\ IsFiniteSet(C) /\ Cardinality(C) \in Nat /\ Cardinality(C) <= Room(cap)
      /\ IsFiniteSet(Under) /\ Cardinality(Under) \in Nat
  BY <1>1, SelectionFits DEF RetInv
<1>5. IsFiniteSet(Stock) /\ Cardinality(Stock) \in Nat
  BY StockFinite DEF RetInv
<1>6. Kept' = Stock
  <2>1. state' = [n \in Notes |-> IF n \in Marked THEN "gone" ELSE state[n]]
    BY DEF Plan, Reconciles
  <2>2. \A n \in Notes : state'[n] = "kept" <=> (state[n] = "kept" /\ n \notin Marked)
    BY <2>1
  <2> QED BY <2>2 DEF Kept, Stock
<1>7. Stock \cap Pending \subseteq Under
  <2> SUFFICES ASSUME NEW n \in Stock, n \in Pending PROVE n \in Under
    OBVIOUS
  <2>1. PICK i \in DOMAIN deletions : deletions[i].by \in Runners /\ IsUnfinished(deletions[i]) /\ n = deletions[i].note
    BY DEF Pending
  <2>2. deletions[i].key = KeyOf(n)
    BY <2>1 DEF KeysStand
  <2>3. deletions[i].key \in InFlight
    BY <2>1 DEF InFlight, KeysOf
  <2> QED BY <2>2, <2>3 DEF Under
<1> DEFINE D == Under \cup C
           Left == Stock \ D
           Rest == Stock \ (Pending \cup C)
<1>8. D \subseteq Stock
  BY <1>4 DEF Under
<1>9. IsFiniteSet(D) /\ Cardinality(D) <= Cardinality(Under) + Cardinality(C) /\ Cardinality(D) \in Nat
  <2>1. IsFiniteSet(D) /\ Cardinality(D) = Cardinality(Under) + Cardinality(C) - Cardinality(Under \cap C)
    BY <1>4, FS_Union
  <2>2. Cardinality(Under \cap C) \in Nat
    <3>1. Under \cap C \in SUBSET C
      OBVIOUS
    <3> QED BY <1>4, <3>1, FS_Subset, FS_CardinalityType
  <2>3. Cardinality(D) \in Nat
    BY <2>1, FS_CardinalityType
  <2> HIDE DEF D
  <2> QED BY <1>4, <2>1, <2>2, <2>3
<1>10. IsFiniteSet(Left) /\ Cardinality(Left) = Cardinality(Stock) - Cardinality(D)
  <2>1. Stock \cap D = D
    BY <1>8
  <2> HIDE DEF D
  <2> QED BY <1>5, <2>1, FS_Difference
<1>11. Left \in SUBSET Rest /\ Rest \in SUBSET Stock
  BY <1>7
<1>12. IsFiniteSet(Rest) /\ Cardinality(Left) <= Cardinality(Rest) /\ Cardinality(Rest) \in Nat
  <2> HIDE DEF Left, Rest
  <2> QED BY <1>5, <1>11, FS_Subset, FS_CardinalityType
<1>13. Cardinality(C) # 0
  BY <1>3, <1>4, FS_EmptySet
<1>14. cap <= Cardinality(Stock) - Cardinality(Under) - Cardinality(C)
  BY <1>1, <1>4, <1>5, <1>13 DEF Room, Less
<1> HIDE DEF D, Left
<1>15. cap <= Cardinality(Rest)
  BY <1>1, <1>4, <1>5, <1>9, <1>10, <1>12, <1>14
<1> QED BY <1>3, <1>6, <1>15

(* For any ceiling, any number of notes and any deletions that rounds have queued: these  *)
(* and the notes of one plan together leave the ceiling, while the recorded keys are      *)
(* still those of their notes.  Nothing is said of what the other runner has planned or   *)
(* promised and not queued: two plans that cross may together go below.                   *)
THEOREM CeilingIsKept == RetentionSpec => NeverBelowCeiling
<1>1. RetInv /\ [RetentionNext]_retentionVars => [\A r \in Runners : StaysFull(r)]_retentionVars
  <2> SUFFICES ASSUME RetInv, [RetentionNext]_retentionVars, NEW r \in Runners PROVE StaysFull(r)
    OBVIOUS
  <2>1. CASE runner[r].at = "admitted" /\ runner'[r].at = "planned"
    BY <2>1, OnlyPlanPlans, PlanStays
  <2>2. CASE ~(runner[r].at = "admitted" /\ runner'[r].at = "planned")
    BY <2>2 DEF StaysFull
  <2> QED BY <2>1, <2>2
<1> QED BY <1>1, RetInvAlways, PTL DEF RetentionSpec, NeverBelowCeiling

(***************************************************************************)
(* Who may see a note                                                      *)
(*                                                                         *)
(* While a task is under way nothing has been told, its note and level are  *)
(* some; and a title it looks for with open eyes is still the note's.       *)
(***************************************************************************)
TaskSound ==
  /\ task.at # "idle" => task.note \in Posted /\ task.target \in SUPPORTED_PRIVACY /\ told = Untold
  /\ task.at \in {"modal", "choose", "verify"} => task.card \in Posted
  /\ task.at = "card" => task.blind \/ task.look = shown[task.note]
VisInv == VisibilityTypeOK /\ TaskSound /\ OnlyTheNamed

LEMMA FreeIn == Free \in Tasks /\ Free.at = "idle" /\ Free.blind = FALSE
BY VisibilityGiven DEF Free, Tasks

LEMMA UntoldIn ==
  /\ Untold \in [status : {"none", "done", "skipped", "error"}, of : Tasks]
  /\ Untold.status = "none"
BY FreeIn DEF Untold

LEMMA Advances ==
  ASSUME NEW t \in Tasks, NEW at \in {"choose", "verify"}, NEW u, u = [t EXCEPT !.at = at]
  PROVE  /\ u \in Tasks /\ u.at = at /\ u.note = t.note /\ u.target = t.target
         /\ u.card = t.card /\ u.blind = t.blind
BY DEF Tasks

LEMMA Blinded ==
  ASSUME NEW t \in Tasks, NEW b \in BOOLEAN, NEW u, u = [t EXCEPT !.blind = b]
  PROVE  /\ u \in Tasks /\ u.at = t.at /\ u.note = t.note /\ u.target = t.target
         /\ u.card = t.card /\ u.look = t.look /\ u.blind = b
BY DEF Tasks

LEMMA Bounds == MaxTasks \in Nat /\ MaxTurns \in Nat
BY VisibilityGiven, Zenon

LEMMA ToldIn ==
  ASSUME NEW t \in Tasks, NEW status \in {"none", "done", "skipped", "error"}
  PROVE  LET u == [status |-> status, of |-> t] IN
           u \in [status : {"none", "done", "skipped", "error"}, of : Tasks] /\ u.status = status /\ u.of = t
OBVIOUS

LEMMA VisibilityStarts == VisibilityInit => VisInv
<1> SUFFICES ASSUME VisibilityInit PROVE VisInv
  OBVIOUS
<1>1. task = Free /\ told = Untold /\ coming = {} /\ tasks = 0 /\ turns = 0
  BY DEF VisibilityInit
<1>2. shown \in [Posted -> CardTitles] /\ privacy \in [Posted -> Levels] /\ entered \in [Posted -> Levels]
  BY VisibilityGiven DEF VisibilityInit
<1>3. tasks \in 0 .. MaxTasks /\ turns \in 0 .. MaxTurns
  BY <1>1, Bounds
<1>4. VisibilityTypeOK
  BY <1>1, <1>2, <1>3, FreeIn, UntoldIn, Zenon DEF VisibilityTypeOK
<1>5. TaskSound
  BY <1>1, FreeIn DEF TaskSound
<1>6. OnlyTheNamed
  BY <1>1, FreeIn, UntoldIn DEF OnlyTheNamed
<1> QED BY <1>4, <1>5, <1>6 DEF VisInv

(* A task that ends tells what is so. *)
LEMMA EndsKeep ==
  ASSUME VisInv, NEW status \in {"done", "skipped", "error"}, Ends(status),
         entered' \in [Posted -> Levels], UNCHANGED <<shown, privacy, coming, tasks>>, turns' \in 0 .. MaxTurns,
         status = "done" => privacy[task.note] = task.target,
         status = "skipped" /\ ~task.blind => privacy[task.note] = task.target
  PROVE  VisInv'
<1>1. task \in Tasks
  BY DEF VisInv, VisibilityTypeOK
<1>2. task' = Free /\ told' = [status |-> status, of |-> task]
  BY DEF Ends
<1>3. /\ told' \in [status : {"none", "done", "skipped", "error"}, of : Tasks]
      /\ told'.status = status /\ told'.of = task
  BY <1>1, <1>2, ToldIn
<1>4. task' \in Tasks /\ task'.at = "idle"
  BY <1>2, FreeIn
<1>5. VisibilityTypeOK'
  BY <1>3, <1>4, Zenon DEF VisInv, VisibilityTypeOK
<1>6. TaskSound'
  BY <1>4 DEF TaskSound
<1>7. OnlyTheNamed'
  BY <1>3, <1>4, Zenon DEF OnlyTheNamed
<1> QED BY <1>5, <1>6, <1>7 DEF VisInv

LEMMA FailsKeep == ASSUME VisInv, TaskFails PROVE VisInv'
<1>1. Ends("error") /\ UNCHANGED <<shown, privacy, coming, entered, tasks, turns>>
  BY DEF TaskFails
<1>2. entered' \in [Posted -> Levels] /\ turns' \in 0 .. MaxTurns
  BY <1>1 DEF VisInv, VisibilityTypeOK
<1> QED BY <1>1, <1>2, EndsKeep

(* A task that goes on: nothing has been told, and nothing else changes. *)
LEMMA GoesOn ==
  ASSUME VisInv, task.at # "idle", UNCHANGED <<shown, entered, tasks, turns>>, told' = told,
         privacy' \in [Posted -> Levels], coming' \subseteq Posted \X SUPPORTED_PRIVACY,
         task' \in Tasks, task'.at # "idle", task'.note = task.note, task'.target = task.target,
         task'.at \in {"modal", "choose", "verify"} =>
           task'.card \in Posted /\ (task'.blind \/ task'.card = task'.note),
         task'.at = "card" => task'.blind \/ task'.look = shown[task'.note]
  PROVE  VisInv'
<1>1. VisibilityTypeOK'
  BY Zenon DEF VisInv, VisibilityTypeOK
<1>2. told = Untold
  BY DEF VisInv, TaskSound
<1>3. TaskSound'
  BY <1>2, Zenon DEF VisInv, TaskSound
<1>4. told'.status = "none"
  BY <1>2, UntoldIn
<1>5. OnlyTheNamed'
  BY <1>4, Zenon DEF OnlyTheNamed
<1> QED BY <1>1, <1>3, <1>5 DEF VisInv

LEMMA AskKeeps == ASSUME VisInv, Ask PROVE VisInv'
<1>1. PICK n \in Posted, target \in SUPPORTED_PRIVACY, given \in CardTitles :
        task' = [Free EXCEPT !.at = "list", !.note = n, !.target = target, !.given = given]
  BY VisibilityGiven DEF Ask
<1>2. /\ task' \in Tasks /\ task'.at = "list" /\ task'.note = n /\ task'.target = target
  BY <1>1, VisibilityGiven DEF Free, Tasks
<1>3. told' = Untold /\ told' \in [status : {"none", "done", "skipped", "error"}, of : Tasks] /\ told'.status = "none"
  BY UntoldIn DEF Ask
<1>4. tasks' \in 0 .. MaxTasks
  <2>1. tasks < MaxTasks /\ tasks' = tasks + 1 /\ tasks \in 0 .. MaxTasks
    BY DEF Ask, VisInv, VisibilityTypeOK
  <2> QED BY <2>1, Bounds
<1>5. UNCHANGED <<shown, privacy, coming, entered, turns>>
  BY DEF Ask
<1>6. VisibilityTypeOK'
  BY <1>2, <1>3, <1>4, <1>5, Zenon DEF VisInv, VisibilityTypeOK
<1>7. TaskSound'
  BY <1>2, <1>3 DEF TaskSound
<1>8. OnlyTheNamed'
  BY <1>2, <1>3 DEF OnlyTheNamed
<1> QED BY <1>6, <1>7, <1>8 DEF VisInv

LEMMA ResolveKeeps == ASSUME VisInv, Resolve PROVE VisInv'
<1> DEFINE listed(list) == task.note \in list /\ shown[task.note] # ""
           look(list) == IF listed(list) THEN shown[task.note] ELSE task.given
<1>1. CASE TaskFails
  BY <1>1, FailsKeep
<1>2. ASSUME NEW list \in Lists,
             task' = [task EXCEPT !.at = "card", !.look = look(list), !.blind = ~listed(list)],
             UNCHANGED <<shown, privacy, coming, entered, told, tasks, turns>>
      PROVE  VisInv'
  <2>1. task \in Tasks /\ task.note \in Posted /\ task.at = "list" /\ task.given \in CardTitles
    BY DEF Resolve, VisInv, VisibilityTypeOK, TaskSound, Tasks
  <2>2. shown[task.note] \in CardTitles
    BY <2>1 DEF VisInv, VisibilityTypeOK
  <2>3. look(list) \in CardTitles
    BY <2>1, <2>2
  <2> DEFINE blind == ~listed(list)
  <2>4. blind \in BOOLEAN
    BY Zenon
  <2>5. blind \/ look(list) = shown[task.note]
    OBVIOUS
  <2> HIDE DEF look, blind
  <2>6. /\ task' \in Tasks /\ task'.at = "card" /\ task'.note = task.note /\ task'.target = task.target
        /\ task'.look = look(list) /\ task'.blind = blind
    <3>1. task' = [task EXCEPT !.at = "card", !.look = look(list), !.blind = blind]
      BY <1>2, Zenon DEF blind
    <3> QED BY <2>1, <2>3, <2>4, <3>1 DEF Tasks
  <2>7. task'.blind \/ task'.look = shown[task'.note]
    BY <2>5, <2>6, Zenon
  <2>8. privacy' \in [Posted -> Levels] /\ coming' \subseteq Posted \X SUPPORTED_PRIVACY
    BY <1>2 DEF VisInv, VisibilityTypeOK
  <2> QED BY <1>2, <2>1, <2>6, <2>7, <2>8, GoesOn
<1>3. \/ TaskFails
      \/ \E list \in Lists :
           /\ task' = [task EXCEPT !.at = "card", !.look = look(list), !.blind = ~listed(list)]
           /\ UNCHANGED <<shown, privacy, coming, entered, told, tasks, turns>>
  BY Zenon DEF Resolve
<1> QED BY <1>1, <1>2, <1>3

(* The one card that bears the note's title, among all, is the note's. *)
LEMMA LocateKeeps == ASSUME VisInv, Locate PROVE VisInv'
<1>1. CASE TaskFails
  BY <1>1, FailsKeep
<1>2. ASSUME NEW cards \in SUBSET Posted, Unique(Hits(cards, task.look)),
             task' = [task EXCEPT !.at = "modal", !.card = CHOOSE n \in Hits(cards, task.look) : TRUE,
                                  !.blind = @ \/ cards # Posted],
             UNCHANGED <<shown, privacy, coming, entered, told, tasks, turns>>
      PROVE  VisInv'
  <2> DEFINE hits == Hits(cards, task.look)
             card == CHOOSE n \in hits : TRUE
             blind == task.blind \/ cards # Posted
  <2>1. task \in Tasks /\ task.note \in Posted /\ task.at = "card"
    BY DEF Locate, VisInv, VisibilityTypeOK, TaskSound
  <2>2. hits \in SUBSET Posted /\ IsFiniteSet(hits) /\ Cardinality(hits) = 1
    <3>1. hits \in SUBSET Posted
      BY DEF Hits
    <3> QED BY <1>2, <3>1, VisibilityGiven, FS_Subset DEF Unique
  <2>3. \E n : hits = {n}
    <3> HIDE DEF hits
    <3> QED BY <2>2, FS_Singleton
  <2>4. PICK n : hits = {n}
    BY <2>3
  <2>5. card = n /\ card \in hits
    BY <2>4
  <2>6. card \in Posted
    BY <2>2, <2>5
  <2>7. blind \in BOOLEAN
    BY Zenon
  <2>8. blind \/ card = task.note
    <3> SUFFICES ASSUME ~task.blind, cards = Posted PROVE card = task.note
      BY Zenon
    <3>1. task.look = shown[task.note]
      BY <2>1, Zenon DEF VisInv, TaskSound
    <3>2. task.note \in hits
      BY <2>1, <3>1 DEF Hits
    <3> QED BY <2>4, <2>5, <3>2
  <2>9. task' = [task EXCEPT !.at = "modal", !.card = card, !.blind = blind]
    BY <1>2, Zenon
  <2> HIDE DEF card, blind
  <2>10. /\ task' \in Tasks /\ task'.at = "modal" /\ task'.note = task.note /\ task'.target = task.target
         /\ task'.card = card /\ task'.blind = blind
    BY <2>1, <2>6, <2>7, <2>9 DEF Tasks
  <2>11. task'.blind \/ task'.card = task'.note
    BY <2>8, <2>10, Zenon
  <2>12. task'.card \in Posted
    BY <2>6, <2>10
  <2>13. privacy' \in [Posted -> Levels] /\ coming' \subseteq Posted \X SUPPORTED_PRIVACY
    BY <1>2 DEF VisInv, VisibilityTypeOK
  <2> QED BY <1>2, <2>1, <2>10, <2>11, <2>12, <2>13, GoesOn
<1>3. \/ TaskFails
      \/ \E cards \in SUBSET Posted :
           /\ Unique(Hits(cards, task.look))
           /\ task' = [task EXCEPT !.at = "modal", !.card = CHOOSE n \in Hits(cards, task.look) : TRUE,
                                  !.blind = @ \/ cards # Posted]
           /\ UNCHANGED <<shown, privacy, coming, entered, told, tasks, turns>>
  BY Zenon DEF Locate
<1> QED BY <1>1, <1>2, <1>3

(* What a task does once it has its card. *)
LEMMA ChangeKeeps == ASSUME VisInv, OpenModal \/ Skips \/ Confirm \/ Verify PROVE VisInv'
<1>1. CASE TaskFails
  BY <1>1, FailsKeep
<1>2. task \in Tasks /\ privacy \in [Posted -> Levels] /\ entered \in [Posted -> Levels]
      /\ coming \subseteq Posted \X SUPPORTED_PRIVACY /\ turns \in 0 .. MaxTurns
  BY DEF VisInv, VisibilityTypeOK
<1>3. ASSUME task.at \in {"modal", "choose", "verify"}
      PROVE  /\ task.card \in Posted /\ task.note \in Posted /\ task.target \in SUPPORTED_PRIVACY
             /\ task.blind \/ task.card = task.note
  BY <1>3, Zenon DEF VisInv, TaskSound, OnlyTheNamed
<1>4. ASSUME NEW at \in {"choose", "verify"}, task.at \in {"modal", "choose"},
             task' = [task EXCEPT !.at = at],
             privacy' \in [Posted -> Levels], coming' \subseteq Posted \X SUPPORTED_PRIVACY,
             UNCHANGED <<shown, entered, told, tasks, turns>>
      PROVE  VisInv'
  <2>1. /\ task' \in Tasks /\ task'.at = at /\ task'.note = task.note /\ task'.target = task.target
        /\ task'.card = task.card /\ task'.blind = task.blind
    BY <1>2, <1>4, Advances
  <2>2. task'.card \in Posted /\ (task'.blind \/ task'.card = task'.note)
    BY <1>3, <1>4, <2>1, Zenon
  <2>3. task.at # "idle" /\ task'.at # "idle" /\ task'.at # "card"
    BY <1>4, <2>1
  <2> QED BY <1>4, <2>1, <2>2, <2>3, GoesOn
<1>5. CASE OpenModal
  <2>1. CASE TaskFails
    BY <1>1, <2>1
  <2>2. CASE ~TaskFails
    <3>1. /\ task.at = "modal" /\ task' = [task EXCEPT !.at = "choose"]
          /\ UNCHANGED <<shown, privacy, coming, entered, told, tasks, turns>>
      BY <1>5, <2>2 DEF OpenModal
    <3> QED BY <1>2, <1>4, <3>1
  <2> QED BY <2>1, <2>2
<1>6. CASE Skips
  <2>1. /\ task.at = "choose" /\ privacy[task.card] = task.target /\ Ends("skipped")
        /\ UNCHANGED <<shown, privacy, coming, entered, tasks, turns>>
    BY <1>6 DEF Skips
  <2>2. ~task.blind => privacy[task.note] = task.target
    BY <1>3, <2>1, Zenon
  <2>3. entered' \in [Posted -> Levels] /\ turns' \in 0 .. MaxTurns
    BY <1>2, <2>1
  <2> QED BY <2>1, <2>2, <2>3, EndsKeep
<1>7. CASE Confirm
  <2>1. CASE TaskFails
    BY <1>1, <2>1
  <2>2. CASE ~TaskFails
    <3>1. /\ task.at = "choose" /\ task' = [task EXCEPT !.at = "verify"]
          /\ UNCHANGED <<shown, entered, told, tasks, turns>>
          /\ privacy' \in {privacy, [privacy EXCEPT ![task.card] = task.target]}
          /\ coming' \in {coming, coming \cup {<<task.card, task.target>>}}
      BY <1>7, <2>2, Zenon DEF Confirm
    <3>2. task.card \in Posted /\ task.target \in SUPPORTED_PRIVACY
      BY <1>3, <3>1
    <3>3. privacy' \in [Posted -> Levels] /\ coming' \subseteq Posted \X SUPPORTED_PRIVACY
      BY <1>2, <3>1, <3>2 DEF Levels
    <3> QED BY <1>4, <3>1, <3>3
  <2> QED BY <2>1, <2>2
<1>8. CASE Verify
  <2>1. CASE TaskFails
    BY <1>1, <2>1
  <2>2. CASE ~TaskFails
    <3>1. /\ task.at = "verify" /\ privacy[task.note] = task.target /\ Ends("done") /\ Records
          /\ UNCHANGED <<shown, privacy, coming, tasks, turns>>
      BY <1>8, <2>2 DEF Verify
    <3>2. entered' \in [Posted -> Levels] /\ turns' \in 0 .. MaxTurns
      BY <1>2, <1>3, <3>1 DEF Records, Levels
    <3> QED BY <3>1, <3>2, EndsKeep
  <2> QED BY <2>1, <2>2
<1> QED BY <1>5, <1>6, <1>7, <1>8

(* Meanwhile: what was told may be so no more, and then is forgotten. *)
LEMMA MeanwhileKeeps ==
  ASSUME VisInv,
         \/ \E c \in coming : Land(c)
         \/ \E n \in Posted : Retitle(n) \/ SetByHand(n)
         \/ Kill
  PROVE  VisInv'
<1>1. /\ privacy \in [Posted -> Levels] /\ entered \in [Posted -> Levels] /\ shown \in [Posted -> CardTitles]
      /\ coming \subseteq Posted \X SUPPORTED_PRIVACY /\ turns \in 0 .. MaxTurns
  BY DEF VisInv, VisibilityTypeOK
<1>2. task \in Tasks
  BY DEF VisInv, VisibilityTypeOK
<1>3. /\ Untold \in [status : {"none", "done", "skipped", "error"}, of : Tasks] /\ Untold.status = "none"
  BY UntoldIn
<1>4. ASSUME Turn PROVE turns' \in 0 .. MaxTurns
  <2>1. turns < MaxTurns /\ turns' = turns + 1
    BY <1>4 DEF Turn
  <2> QED BY <1>1, <2>1, Bounds
<1>5. ASSUME privacy' \in [Posted -> Levels], coming' \subseteq Posted \X SUPPORTED_PRIVACY, told' = Untold,
             turns' \in 0 .. MaxTurns, UNCHANGED <<shown, entered, task, tasks>>
      PROVE  VisInv'
  <2>1. VisibilityTypeOK'
    BY <1>3, <1>5, Zenon DEF VisInv, VisibilityTypeOK
  <2>2. TaskSound'
    BY <1>5, Zenon DEF VisInv, TaskSound
  <2>3. told'.status = "none"
    BY <1>3, <1>5
  <2>4. OnlyTheNamed'
    BY <1>5, <2>3, Zenon DEF VisInv, OnlyTheNamed
  <2> QED BY <2>1, <2>2, <2>4 DEF VisInv
<1>6. ASSUME NEW c \in coming, Land(c) PROVE VisInv'
  <2>1. c[1] \in Posted /\ c[2] \in Levels
    BY <1>1 DEF Levels
  <2>2. privacy' \in [Posted -> Levels] /\ coming' \subseteq Posted \X SUPPORTED_PRIVACY
    BY <1>1, <1>6, <2>1 DEF Land
  <2>3. told' = Untold /\ turns' \in 0 .. MaxTurns /\ UNCHANGED <<shown, entered, task, tasks>>
    BY <1>1, <1>6 DEF Land
  <2> QED BY <1>5, <2>2, <2>3
<1>7. ASSUME NEW n \in Posted, SetByHand(n) PROVE VisInv'
  <2>1. privacy' \in [Posted -> Levels]
    BY <1>1, <1>7 DEF SetByHand
  <2>2. told' = Untold /\ UNCHANGED <<shown, coming, entered, task, tasks>>
    BY <1>7 DEF SetByHand
  <2>3. turns' \in 0 .. MaxTurns
    BY <1>4, <1>7 DEF SetByHand
  <2> QED BY <1>1, <1>5, <2>1, <2>2, <2>3
<1>8. ASSUME NEW n \in Posted, Retitle(n) PROVE VisInv'
  <2> DEFINE blind == task.blind \/ task.at # "idle"
  <2>1. /\ task' = [task EXCEPT !.blind = blind] /\ UNCHANGED <<privacy, coming, entered, told, tasks>>
    BY <1>8, Zenon DEF Retitle
  <2>2. shown' \in [Posted -> CardTitles]
    BY <1>1, <1>8 DEF Retitle
  <2>3. turns' \in 0 .. MaxTurns
    BY <1>4, <1>8 DEF Retitle
  <2>4. blind \in BOOLEAN /\ (task.at # "idle" => blind)
    BY Zenon
  <2> HIDE DEF blind
  <2>5. /\ task' \in Tasks /\ task'.at = task.at /\ task'.note = task.note /\ task'.target = task.target
        /\ task'.card = task.card /\ task'.look = task.look /\ task'.blind = blind
    BY <1>2, <2>1, <2>4, Blinded
  <2>6. VisibilityTypeOK'
    BY <2>1, <2>2, <2>3, <2>5, Zenon DEF VisInv, VisibilityTypeOK
  <2>7. task.at = "card" => task'.blind
    <3>1. "card" # "idle"
      OBVIOUS
    <3> QED BY <2>4, <2>5, <3>1, Zenon
  <2>8. TaskSound'
    BY <2>1, <2>5, <2>7, Zenon DEF VisInv, TaskSound
  <2>9. task.at \in {"modal", "choose", "verify"} => task'.blind
    <3>1. task.at \in {"modal", "choose", "verify"} => task.at # "idle"
      OBVIOUS
    <3> QED BY <2>4, <2>5, <3>1, Zenon
  <2>10. OnlyTheNamed'
    BY <2>1, <2>5, <2>9, Zenon DEF VisInv, OnlyTheNamed
  <2> QED BY <2>6, <2>8, <2>10 DEF VisInv
<1>9. CASE Kill
  <2>1. Ends("error") /\ UNCHANGED <<shown, privacy, coming, entered, tasks>>
    BY <1>9 DEF Kill
  <2>2. turns' \in 0 .. MaxTurns
    BY <1>4, <1>9 DEF Kill
  <2>3. entered' \in [Posted -> Levels]
    BY <1>1, <2>1
  <2> QED BY <2>1, <2>2, <2>3, EndsKeep
<1> QED BY <1>6, <1>7, <1>8, <1>9

LEMMA VisInvAlways == VisibilitySpec => []VisInv
<1>1. VisibilityInit => VisInv
  BY VisibilityStarts
<1>2. VisInv /\ [VisibilityNext]_viewVars => VisInv'
  <2> SUFFICES ASSUME VisInv, [VisibilityNext]_viewVars PROVE VisInv'
    OBVIOUS
  <2>1. CASE Step
    BY <2>1, AskKeeps, ResolveKeeps, LocateKeeps, ChangeKeeps DEF Step
  <2>2. CASE Kill \/ (\E c \in coming : Land(c)) \/ (\E n \in Posted : Retitle(n) \/ SetByHand(n))
    BY <2>2, MeanwhileKeeps
  <2>3. CASE UNCHANGED viewVars
    <3>1. VisibilityTypeOK'
      BY <2>3, Zenon DEF VisInv, VisibilityTypeOK, viewVars
    <3>2. TaskSound' /\ OnlyTheNamed'
      BY <2>3, Zenon DEF VisInv, TaskSound, OnlyTheNamed, viewVars
    <3> QED BY <3>1, <3>2 DEF VisInv
  <2> QED BY <2>1, <2>2, <2>3 DEF VisibilityNext
<1> QED BY <1>1, <1>2, PTL DEF VisibilitySpec

(* The notes' titles and levels, the submissions and the task keep their types.           *)
THEOREM VisibilityTypes == VisibilitySpec => []VisibilityTypeOK
<1>1. VisInv => VisibilityTypeOK
  BY DEF VisInv
<1> QED BY <1>1, VisInvAlways, PTL

(* For any notes, titles and number of tasks: a task that looks with open eyes has the     *)
(* card of the note it was given, and what it tells is so.                                *)
THEOREM OnlyTheNamedIsSet == VisibilitySpec => []OnlyTheNamed
<1>1. VisInv => OnlyTheNamed
  BY DEF VisInv
<1> QED BY <1>1, VisInvAlways, PTL
=============================================================================
