--------------------------- MODULE MCNoteLedger ---------------------------
(* The notes of an account and their rows.  A behaviour is one of the ledger that    *)
(* links rows to notes (two publications of one title, and notes of other people     *)
(* that bear it or none), one of the ceiling that retires them (an account with two   *)
(* notes and a third to come, of the same title as the first), or one of tasks that   *)
(* set who may see one of two notes of one title.                                    *)
EXTENDS NoteLedger, Retention, NoteVisibility, TLC

CONSTANTS j1, j2, t1, none
MCJobs == {j1, j2}
MCTitle == [j \in MCJobs |-> t1]
MCOther == {t1, none}
Alike == Permutations(MCJobs)

ThreeNotes == 1..3
TwoTitles == <<"a", "b", "a">>
TwoCeilings == {1, 2}
TwoScores == {0, 1}

TwoNotes == 1..2
OneTitle == <<"a", "a">>
ThreeTitles == {"", "a", "b"}

OldAccount ==
  /\ RetentionInit
  /\ state = <<"kept", "kept", "absent">>
  /\ linked \subseteq {1} /\ shielded = {}
  /\ \A i \in DOMAIN deletions : deletions[i].note = 1
  /\ score = <<1, none, none>>
  /\ account = [managed |-> TRUE, cap |-> 1, enabled |-> TRUE]

Rests == date = 0
NoRounds ==
  /\ date = 0 /\ state = <<>> /\ linked = {} /\ shielded = {} /\ born = <<>> /\ score = <<>>
  /\ account = none /\ snapped = FALSE /\ rounds = {} /\ deletions = <<>>
  /\ runner = [r \in Runners |-> Idle] /\ changes = 0 /\ deaths = 0 /\ crossed = FALSE

Seen == shown # <<>>
NoViews ==
  /\ shown = <<>> /\ privacy = <<>> /\ coming = {} /\ entered = <<>> /\ task = Free
  /\ told = Untold /\ tasks = 0 /\ turns = 0

MCVars == <<vars, retentionVars, viewVars>>
MCInit == Init /\ ((OldAccount /\ NoViews) \/ (NoRounds /\ NoViews) \/ (NoRounds /\ VisibilityInit))
MCNext == \/ Rests /\ ~Seen /\ Next /\ UNCHANGED <<retentionVars, viewVars>>
          \/ ~Rests /\ RetentionNext /\ UNCHANGED <<vars, viewVars>>
          \/ Seen /\ VisibilityNext /\ UNCHANGED <<vars, retentionVars>>
MCSpec == MCInit /\ [][MCNext]_MCVars

FirstRounds == Init /\ OldAccount /\ NoViews
RoundsSpec == FirstRounds /\ [][MCNext]_MCVars
=============================================================================
