------------------------------ MODULE NoteTasks ------------------------------
(***************************************************************************)
(* The note tasks of one account under its lock: editing notes (NoteEditing)  *)
(* and the collections they are put in (Collections), a session at a time;     *)
(* execute of services/note_components.py, note_collection_create.py,         *)
(* podcast_collection.py and note_collection_batch.py.  What the platform has    *)
(* not done yet when a session ends may take effect during another.           *)
(***************************************************************************)
EXTENDS NoteEditing, Collections

CONSTANT Lists   \* the lists of candidates looked at: the titles posted, None for no title

ASSUME ListsGiven ==
  /\ \A posted \in Lists : posted \in Seq(Names \cup {None})
  /\ \A n \in Names : <<n, None>> \notin Within

taskVars == <<editVars, shelfVars>>

AccountFree == es.at = "idle" /\ c.at = "free"

(* A session that begins holds the lock to its end. *)
BeginEdit == AccountFree /\ Begin /\ UNCHANGED shelfVars
BeginCreate ==
  /\ AccountFree /\ UNCHANGED editVars
  /\ \E k \in Kinds, n \in Names, i \in Shelf : AskCreate(k, n, i)
BeginRound ==
  /\ AccountFree /\ UNCHANGED editVars
  /\ \E n \in Names, dry \in BOOLEAN, S \in SUBSET Shelf \ {{}} :
       \E notes \in SetToSeqs(S) : AskRound(n, notes, dry)

TaskInit == EditInit /\ ShelfInit

TaskStep ==
  \/ EditStep /\ UNCHANGED shelfVars
  \/ ShelfStep /\ UNCHANGED editVars
TaskNext == BeginEdit \/ BeginCreate \/ BeginRound \/ TaskStep
TaskSpec == TaskInit /\ [][TaskNext]_taskVars

(* A card chosen is that of the note meant: an untitled note's whatever is     *)
(* missing from the list, a titled one's when it has a card.                 *)
PickIsMeant ==
  \A posted \in Lists : \A shown \in SUBSET DOMAIN posted, i \in DOMAIN posted :
    posted[i] = None \/ i \in shown => Pick(posted, shown, i) \in {0, i}

ShelfTrue == NoTwins /\ RoundTrue /\ PickIsMeant
=============================================================================
