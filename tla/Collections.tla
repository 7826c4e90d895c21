----------------------------- MODULE Collections -----------------------------
(***************************************************************************)
(* The collections of one account: creating one from the update page of a      *)
(* note (create_note_collection of browser/note_components.py) or from the      *)
(* podcast page (create_collection of browser/podcast.py), and rounds that take  *)
(* notes out of one (services/note_collection_batch.py).  The platform lets two  *)
(* collections have one name, and a creation that was clicked may take effect     *)
(* at once, later or never.                                                 *)
(*                                                                         *)
(*   have     how many collections of each kind and name the platform has       *)
(*   member   the collection of each note                                      *)
(*   coming   creations clicked that may still take effect                      *)
(*   leaving  notes with a submission on its way that takes them out             *)
(*   c        the session                                                    *)
(*   told     what the last session told its caller                            *)
(*   asks     sessions so far                                                *)
(*   doubt    history: for each kind and name, the creations clicked that were not  *)
(*            reported as done                                                *)
(***************************************************************************)
EXTENDS NoteEditor

CONSTANTS Shelf,        \* notes of the account
          RoundLimit,   \* NOTE_COLLECTION_REMOVE_ROUND_LIMIT (scans have one of their own)
          MaxAsks       \* bound: sessions

ASSUME ShelfGiven ==
  /\ {RoundLimit, MaxAsks} \subseteq Nat /\ IsFiniteSet(Shelf) /\ None \notin Names

VARIABLES have, member, coming, leaving, c, told, asks, doubt
shelfVars == <<have, member, coming, leaving, c, told, asks, doubt>>

Kinds == {"note", "podcast"}
NoEntries == [i \in Shelf |-> "none"]
Free == [at |-> "free", kind |-> None, name |-> None, carrier |-> None, dry |-> FALSE,
         asked |-> <<>>, todo |-> <<>>, notes |-> NoEntries]
Unsaid == [verdict |-> "none", reason |-> "none", of |-> Free, remaining |-> {}]

ShelfInit ==
  /\ have \in [Kinds -> [Names -> 0..1]]
  /\ member \in [Shelf -> {n \in Names : have["note"][n] = 1} \cup {None}]
  /\ coming = {} /\ leaving = {} /\ c = Free /\ told = Unsaid /\ asks = 0
  /\ doubt = [k \in Kinds |-> [n \in Names |-> 0]]

Listed(k) == {n \in Names : have[k][n] > 0}

(* execute and _create_sync: a result that is not done is an error. *)
Tell(verdict, reason) ==
  /\ c' = Free
  /\ told' = [verdict |-> verdict, reason |-> reason, of |-> c, remaining |-> {}]

(***************************************************************************)
(* Creating                                                                *)
(***************************************************************************)

AskCreate(k, n, i) ==
  /\ c.at = "free" /\ asks < MaxAsks /\ asks' = asks + 1
  /\ c' = [Free EXCEPT !.at = "look", !.kind = k, !.name = n, !.carrier = i]
  /\ told' = Unsaid
  /\ UNCHANGED <<have, member, coming, leaving, doubt>>

(* _open_collection_popover: not on the page of a note that is in a collection;    *)
(* then the list, looked through for the name.  Without a list nothing is done.   *)
LookNotes_m == \* the list is not looked through for the name
  /\ c.at = "look" /\ c.kind = "note"
  /\ \/ Tell("error", "not_opened")
     \/ member[c.carrier] = None /\ c.name \in Listed("note") /\ Tell("error", "exists")
     \/ /\ member[c.carrier] = None
        /\ c' = [c EXCEPT !.at = "form"] /\ UNCHANGED told
  /\ UNCHANGED <<have, member, coming, leaving, asks, doubt>>

LookNotes ==
  /\ c.at = "look" /\ c.kind = "note"
  /\ \/ Tell("error", "not_opened")
     \/ member[c.carrier] = None /\ c.name \in Listed("note") /\ Tell("error", "exists")
     \/ /\ member[c.carrier] = None /\ c.name \notin Listed("note")
        /\ c' = [c EXCEPT !.at = "form"] /\ UNCHANGED told
  /\ UNCHANGED <<have, member, coming, leaving, asks, doubt>>

(* create_collection looks for the name in the text of the page, whose list of     *)
(* collections may not be there yet or in part: a longer name hides it, a late      *)
(* list does not show it.                                                     *)
InText(names, n) == \E m \in names : Shows(m, n)
LookPodcasts ==
  /\ c.at = "look" /\ c.kind = "podcast"
  /\ \/ Tell("error", "not_opened")
     \/ \E text \in SUBSET Listed("podcast") :
          IF InText(text, c.name) THEN Tell("error", "exists")
          ELSE c' = [c EXCEPT !.at = "form"] /\ UNCHANGED told
  /\ UNCHANGED <<have, member, coming, leaving, asks, doubt>>

SubmitForm ==
  /\ c' = [c EXCEPT !.at = "clicked"]
  /\ coming' = coming \cup {[no |-> asks, kind |-> c.kind, name |-> c.name, carrier |-> c.carrier]}
  /\ doubt' = [doubt EXCEPT ![c.kind][c.name] = @ + 1]
  /\ UNCHANGED told

NotFilled == Tell("error", "not_filled") /\ UNCHANGED <<coming, doubt>>

(* The form opened, _fill_create_form, and the button, which is never clicked while  *)
(* it is disabled; for a podcast also the cover and its crop.                   *)
FillNotes ==
  /\ c.at = "form" /\ c.kind = "note" /\ (NotFilled \/ SubmitForm)
  /\ UNCHANGED <<have, member, leaving, asks>>
FillPodcasts ==
  /\ c.at = "form" /\ c.kind = "podcast" /\ (NotFilled \/ SubmitForm)
  /\ UNCHANGED <<have, member, leaving, asks>>

Done == /\ Tell("done", "none")
        /\ doubt' = [doubt EXCEPT ![c.kind][c.name] = @ - 1]
Unclear == Tell("error", "unclear") /\ UNCHANGED doubt

(* _verify_created: the form closed, the page opened again, and the name in the     *)
(* list (the one read before when no other comes, which has not got it); or, the      *)
(* carrier now being in a collection, the name on it.                             *)
VerifyNotes ==
  /\ c.at = "clicked" /\ c.kind = "note"
  /\ \/ Unclear
     \/ member[c.carrier] = None /\ c.name \in Listed("note") /\ Done
     \/ member[c.carrier] = c.name /\ Done
  /\ UNCHANGED <<have, member, coming, leaving, asks>>

(* _read_create_result: the form closed and the name in the text of the page. *)
VerifyPodcasts ==
  /\ c.at = "clicked" /\ c.kind = "podcast"
  /\ \/ Unclear
     \/ InText(Listed("podcast"), c.name) /\ Done
  /\ UNCHANGED <<have, member, coming, leaving, asks>>

(* The platform creates, and may put the note in at once; or never does. *)
Created(g) ==
  /\ g \in coming /\ coming' = coming \ {g}
  /\ have' = [have EXCEPT ![g.kind][g.name] = @ + 1]
  /\ \/ UNCHANGED member
     \/ /\ g.kind = "note" /\ member[g.carrier] = None
        /\ member' = [member EXCEPT ![g.carrier] = g.name]
  /\ UNCHANGED <<leaving, c, told, asks, doubt>>

NeverCreated(g) ==
  /\ g \in coming /\ coming' = coming \ {g}
  /\ UNCHANGED <<have, member, leaving, c, told, asks, doubt>>

(***************************************************************************)
(* Taking notes out, a round at a time                                     *)
(***************************************************************************)

(* start_batch, execute: only the first of the notes asked for, in one session. *)
AskRound(n, notes, dry) ==
  /\ c.at = "free" /\ asks < MaxAsks /\ asks' = asks + 1
  /\ c' = [Free EXCEPT !.at = "round", !.name = n, !.dry = dry, !.asked = notes,
             !.todo = SubSeq(notes, 1, IF RoundLimit < Len(notes) THEN RoundLimit ELSE Len(notes))]
  /\ told' = Unsaid
  /\ UNCHANGED <<have, member, coming, leaving, doubt>>

Entry(i, status) ==
  /\ c' = [c EXCEPT !.todo = Tail(@), !.notes[i] = status]
  /\ UNCHANGED told

(* _summarize: what has no entry remains. *)
EndRound(reason) ==
  /\ c' = Free
  /\ told' = [verdict |-> "round", reason |-> reason, of |-> c,
              remaining |-> {i \in ToSet(c.asked) : c.notes[i] = "none"}]

(* An error on a note ends nothing; a wall ends the round, and the note on which it    *)
(* appears gets no entry, whatever was done to it.                               *)
Unsure(i) == Entry(i, "error") \/ EndRound("wall")

(* _scan_one *)
ScanOne ==
  /\ c.at = "round" /\ c.todo # <<>> /\ c.dry
  /\ LET i == Head(c.todo) IN
       Unsure(i) \/ Entry(i, IF member[i] = c.name THEN "in" ELSE "out")
  /\ UNCHANGED <<have, member, coming, leaving, asks, doubt>>

(* _remove_one, a session of NoteEditing on one note: not submitted, or submitted     *)
(* and read back, or submitted and left open, to take effect now or later.       *)
RemoveFromOne ==
  /\ c.at = "round" /\ c.todo # <<>> /\ ~c.dry
  /\ LET i == Head(c.todo) IN
       \/ Unsure(i) /\ UNCHANGED <<member, leaving>>
       \/ /\ member[i] # c.name /\ ~(member[i] # None /\ Shows(member[i], c.name))
          /\ Entry(i, "skipped")
          /\ UNCHANGED <<member, leaving>>
       \/ /\ member[i] = c.name /\ member' = [member EXCEPT ![i] = None]
          /\ (Entry(i, "removed") \/ Unsure(i))
          /\ UNCHANGED leaving
       \/ /\ member[i] = c.name /\ leaving' = leaving \cup {i}
          /\ Unsure(i)
          /\ UNCHANGED member
  /\ UNCHANGED <<have, coming, asks, doubt>>

(* The notes are through, or the time; or the browser did not start.           *)
StopRound ==
  /\ c.at = "round" /\ EndRound("none")
  /\ UNCHANGED <<have, member, coming, leaving, asks, doubt>>

TakenOut(i) ==
  /\ i \in leaving /\ leaving' = leaving \ {i}
  /\ member' = [member EXCEPT ![i] = None]
  /\ UNCHANGED <<have, coming, c, told, asks, doubt>>

NeverTakenOut(i) ==
  /\ i \in leaving /\ leaving' = leaving \ {i}
  /\ UNCHANGED <<have, member, coming, c, told, asks, doubt>>

(* The child is killed; its job is unknown and not run again. *)
KillTask ==
  /\ c.at # "free" /\ Tell("unknown", "none")
  /\ UNCHANGED <<have, member, coming, leaving, asks, doubt>>

ShelfStep ==
  \/ LookNotes \/ LookPodcasts \/ FillNotes \/ FillPodcasts \/ VerifyNotes \/ VerifyPodcasts
  \/ ScanOne \/ RemoveFromOne \/ StopRound \/ KillTask
  \/ \E g \in coming : Created(g) \/ NeverCreated(g)
  \/ \E i \in leaving : TakenOut(i) \/ NeverTakenOut(i)

(* A second collection of one name comes from a creation that nobody was told had     *)
(* been done, never from one begun while the first was there; and a collection that    *)
(* was reported created is there.                                             *)
NoTwins ==
  /\ \A n \in Names : have["note"][n] <= 1 + doubt["note"][n]
  /\ told.verdict = "done" =>
       \E n \in Listed(told.of.kind) :
         n = told.of.name \/ (told.of.kind = "podcast" /\ Shows(n, told.of.name))

(* What a round tells: a note it took out, passed over or read as being elsewhere is   *)
(* not in the collection (unless a creation nobody was told of has put it there), the   *)
(* notes without an entry are the ones that remain, and no round handles more than its   *)
(* limit.                                                                  *)
RoundTrue ==
  told.verdict = "round" =>
    LET handled == {i \in Shelf : told.of.notes[i] # "none"} IN
      /\ Cardinality(handled) <= RoundLimit
      /\ handled \cup told.remaining = ToSet(told.of.asked) /\ handled \cap told.remaining = {}
      /\ \A i \in handled : told.of.notes[i] \in {"removed", "skipped", "out"} =>
           member[i] # told.of.name \/ doubt["note"][told.of.name] > 0
=============================================================================
