----------------------------- MODULE NoteEditing -----------------------------
(***************************************************************************)
(* One note edited on its update page: set_note_components of               *)
(* browser/note_components.py and the task around it in                      *)
(* services/note_components.py.  The caller asks again with the same payload *)
(* as often as he likes.  A submission replaces the whole note; it may be    *)
(* lost, and may land at any time after the click.                           *)
(*                                                                         *)
(*   note     the note as the platform has it                               *)
(*   ledger   its title in the ledger                                        *)
(*   pending  submissions on their way, each a whole note                    *)
(*   es       the session: its step, the item in Order it goes on from, the      *)
(*            page as loaded, the editor, the status of each item, whether it    *)
(*            has clicked, the topics to add and those picked, whether the        *)
(*            submission was answered, the title read back, and (history)         *)
(*            whether the label of the collection was read when it was last         *)
(*            looked at, and whether no submission was on its way when the page      *)
(*            was loaded, and at the read-back                                   *)
(*   result   what the last session told its caller                         *)
(*   asked    sessions so far;  upsets: rare events so far                    *)
(*   first    history: the note in the beginning                             *)
(***************************************************************************)
EXTENDS NoteWidgets

CONSTANTS Asked,       \* the requests looked at
          Starts,      \* the notes looked at
          MaxAsked,    \* bound: sessions
          MaxUpsets    \* bound: lost submissions, kills, permission slips

ASSUME EditsGiven ==
  /\ \A r \in Asked : r \in Requests /\ Acceptable(r)
  /\ \A n \in Starts : n \in Notes /\ n.gone = 0 /\ n.more = 0
  /\ {Images, MaxAsked, MaxUpsets} \subseteq Nat /\ None \notin Names

VARIABLES q, note, ledger, pending, es, result, asked, upsets, first
editVars == <<q, note, ledger, pending, es, result, asked, upsets, first>>

EditKeys == {"image_remove", "image_add", "title", "content"}
Keys == EditKeys \cup {"unjoin", "join", "quote", "activity", "original", "cover"}
Order == <<"image_remove", "image_add", "title", "content", "unjoin", "join", "quote",
           "activity", "original", "cover", "topics">>

Wants(k) ==
  CASE k = "image_remove" -> q.remove > 0
    [] k = "image_add" -> q.add > 0
    [] k = "title" -> q.title      [] k = "content" -> q.content
    [] k = "unjoin" -> q.unjoin # None  [] k = "join" -> q.join # None
    [] k = "quote" -> q.quote      [] k = "activity" -> q.activity
    [] k = "original" -> q.original [] k = "cover" -> q.cover
    [] k = "topics" -> q.topics # {}

Nothing == [k \in Keys |-> "none"]
Idle(n) == [at |-> "idle", next |-> 1, loaded |-> n, ed |-> n, out |-> Nothing,
            clicked |-> FALSE, answered |-> FALSE, alone |-> FALSE, sure |-> FALSE,
            add |-> {}, chosen |-> {}, read |-> n.title, label |-> "seen"]
Silent == [kind |-> "none", applied |-> Nothing, topics |-> {}, status |-> "none",
           preserved |-> FALSE]

EditInit ==
  /\ q \in Asked /\ note \in {n \in Starts : Editable(q, n)} /\ first = note
  /\ ledger = "old" /\ pending = {}
  /\ es = Idle(note) /\ result = Silent
  /\ asked = 0 /\ upsets = 0

Slip == upsets < MaxUpsets /\ upsets' = upsets + 1

(***************************************************************************)
(* What is told                                                            *)
(***************************************************************************)

(* The topics that were asked for and are not among those to add or there before:  *)
(* over the cap.                                                            *)
Cut == q.topics \ (es.add \cup (es.ed.topics \ es.add))

(* _compose and _finalize_topics: done when every item is confirmed, every topic    *)
(* that was to be added is among those confirmed, and none was cut off.          *)
Units(applied, topics) ==
  {applied[k] = "true" : k \in {i \in Keys : Wants(i)}}
    \cup {(t \in topics) : t \in es.add} \cup {FALSE : t \in Cut}
    \cup IF q.topics # {} /\ es.add \cup Cut = {} THEN {TRUE} ELSE {}
Overall(applied, topics) ==
  LET units == Units(applied, topics) IN
  IF units = {TRUE} THEN "done" ELSE IF TRUE \in units THEN "partially_applied" ELSE "failed"

(* The session ends and tells its caller. *)
EndEdit(kind, applied, preserved) ==
  /\ es' = [es EXCEPT !.at = "idle"]
  /\ result' = [kind |-> kind, applied |-> applied, topics |-> es.ed.topics \ es.add,
                preserved |-> preserved,
                status |-> IF kind \in {"noop", "nothing"}
                           THEN Overall(applied, es.ed.topics \ es.add) ELSE "failed"]

(***************************************************************************)
(* Up to the click                                                         *)
(***************************************************************************)

(* execute: cookies or nothing, a lookup of the quoted note, the browser started     *)
(* under the account's lock.                                                *)
Begin ==
  /\ es.at = "idle" /\ asked < MaxAsked /\ asked' = asked + 1
  /\ \/ /\ es' = [Idle(note) EXCEPT !.at = "open"]
        /\ result' = Silent
     \/ /\ es' = Idle(note)
        /\ result' = [Silent EXCEPT !.kind = "refused"]
  /\ UNCHANGED <<q, note, ledger, pending, upsets, first>>

(* open_update_page, read_permission_label: without either nothing is done. *)
OpenPage ==
  /\ es.at = "open"
  /\ \/ /\ es' = [Idle(note) EXCEPT !.at = "steps", !.alone = pending = {}]
        /\ UNCHANGED result
     \/ EndEdit("refused", Nothing, FALSE)
  /\ UNCHANGED <<q, note, ledger, pending, asked, upsets, first>>

ItemOutcomes(k, label) ==
  CASE k = "image_remove" -> RemoveImages(es.ed, q.remove)
    [] k = "image_add" -> AddImages(es.ed, q.add)
    [] k = "title" -> TypeTitle(es.ed)
    [] k = "content" -> TypeContent(es.ed)
    [] k = "unjoin" -> RemoveCollection(es.ed, q, label)
    [] k = "join" -> SetCollection(es.ed, q)
    [] k = "quote" -> SetQuote(es.ed, q)
    [] k = "activity" -> SetActivity(es.ed)
    [] k = "original" -> SetOriginal(es.ed)
    [] k = "cover" -> SetCover(es.ed)

(* _run_edit_steps compares the images before it touches any, and gives the    *)
(* whole edit up when a destructive step fails; apply_components goes on with  *)
(* the next item, except past an unknown modal.                              *)
(* (Mutant: the edit goes on.)                                               *)
Aborts_m(k, status) == FALSE
Aborts(k, status) == k \in EditKeys /\ status # "done"

(* Before the first step that touches images: their number must be that expected, *)
(* and may be unreadable.                                                     *)
Gated(k) == k \in {"image_remove", "image_add"} /\ es.ed = es.loaded
Results(k, label) ==
  (IF Gated(k) THEN {Out("error", es.ed)} ELSE {})
    \cup (IF Gated(k) /\ ~ImageGate(es.loaded) THEN {} ELSE ItemOutcomes(k, label))

(* What is asked for and has not been tried, and the next of it. *)
Untried == {i \in es.next..Len(Order) : Wants(Order[i])}
IsNext(i) == i \in Untried /\ \A j \in Untried : i <= j

StepItem ==
  /\ es.at = "steps"
  /\ \E i \in Untried : LET k == Order[i] IN
       /\ IsNext(i) /\ k # "topics"
       /\ \E label \in IF k = "unjoin" THEN Labels(es.ed) ELSE {es.label} : \E o \in Results(k, label) :
            \/ o.status = "modal" /\ EndEdit("refused", Nothing, FALSE)
            \/ o.status # "modal" /\ Aborts(k, o.status) /\ EndEdit("aborted", Nothing, TRUE)
            \/ /\ o.status # "modal" /\ ~Aborts(k, o.status)
               /\ es' = [es EXCEPT !.next = i + 1, !.ed = o.ed, !.out[k] = o.status, !.label = label]
               /\ UNCHANGED result
  /\ UNCHANGED <<q, note, ledger, pending, asked, upsets, first>>

(* The topics come last, by those in the text as it is then. *)
StepTopics ==
  /\ es.at = "steps"
  /\ \E i \in Untried : IsNext(i) /\ Order[i] = "topics" /\
       \E todo \in Missing(es.ed, q) : \E o \in AddTopics(es.ed, todo) :
         es' = [es EXCEPT !.next = i + 1, !.ed = o.ed, !.add = todo, !.chosen = o.chosen]
  /\ UNCHANGED <<q, note, ledger, pending, result, asked, upsets, first>>

(* Whether there is anything to submit: not when all that went well was there   *)
(* before, nor when nothing went well.                                        *)
NoopKeys == {"unjoin", "original", "cover"}
Fine == {k \in Keys : es.out[k] \in {"done", "skipped"}}
Skipped == {k \in NoopKeys : es.out[k] = "skipped"}
TopicsAdded == es.chosen # {}

Decide ==
  /\ es.at = "steps" /\ Untried = {}
  /\ IF Fine \subseteq Skipped /\ ~TopicsAdded
     THEN EndEdit(IF Skipped # {} THEN "noop" ELSE "nothing",
              [k \in Keys |-> IF k \in Skipped THEN "true" ELSE "none"], TRUE)
     ELSE es' = [es EXCEPT !.at = "click"] /\ UNCHANGED result
  /\ UNCHANGED <<q, note, ledger, pending, asked, upsets, first>>

(* The permission is read once more, the button is found by its pixels, or      *)
(* nothing is clicked.                                                      *)
ClickPublish ==
  /\ es.at = "click"
  /\ \/ EndEdit("refused", Nothing, FALSE) /\ UNCHANGED pending
     \/ /\ es' = [es EXCEPT !.at = "wait", !.clicked = TRUE]
        /\ pending' = pending \cup {es.ed}
        /\ UNCHANGED result
  /\ UNCHANGED <<q, note, ledger, asked, upsets, first>>

(***************************************************************************)
(* The platform                                                            *)
(***************************************************************************)

(* A submission lands: the collection of a note that is not public is dropped    *)
(* without a word, and the permission may come out changed.                  *)
Land(n) ==
  /\ n \in pending /\ pending' = pending \ {n}
  /\ \E p \in Levels \cup {"other"} :
       /\ note' = [n EXCEPT !.permission = p,
                            !.collection = IF p = "private" THEN None ELSE @]
       /\ IF p = n.permission THEN UNCHANGED upsets ELSE Slip
  /\ UNCHANGED <<q, ledger, es, result, asked, first>>

Lose(n) ==
  /\ n \in pending /\ pending' = pending \ {n}
  /\ Slip
  /\ UNCHANGED <<q, note, ledger, es, result, asked, first>>

(***************************************************************************)
(* After the click                                                         *)
(***************************************************************************)

(* _wait_submitted: an answer or a timeout; the button is not clicked again. *)
Answer ==
  /\ es.at = "wait"
  /\ \E b \in BOOLEAN : es' = [es EXCEPT !.at = "verify", !.answered = b]
  /\ UNCHANGED <<q, note, ledger, pending, result, asked, upsets, first>>

Is(b) == IF b THEN "true" ELSE "false"

(* What the read-back compares with, and what it gets to see: the title of the quoted   *)
(* note takes the place of the one asked for ("junk" stands for any other, or none); the  *)
(* label may not be read; the collection's name is kept unless the removal failed over    *)
(* another thing than a longer name.                                          *)
Looks ==
  [title: IF q.quote THEN TextStates ELSE {"new"},
   label: IF q.unjoin = None /\ q.join = None THEN {"seen"} ELSE Labels(note),
   named: IF es.out["unjoin"] # "error" THEN {TRUE}
          ELSE IF es.loaded.collection # q.unjoin /\ Shows(es.loaded.collection, q.unjoin)
          THEN NameKnown(q) ELSE {FALSE}]
ImagesRead == Is(Count(note) = Count(es.loaded) - q.remove + q.add)

(* _verify_after_submit, item by item.                                      *)
ReadBack(k, look) ==
  CASE k = "unjoin" -> IF note.collection = None \/ look.label = "unread" THEN "true"
                       ELSE IF look.named THEN Is(note.collection # q.unjoin) ELSE "none"
    [] k = "join" -> Is(/\ look.label = "seen" /\ es.out[k] # "error"
                        /\ note.collection # None /\ Shows(note.collection, q.join))
    [] k = "quote" -> Is(note.quote # "none")
    [] k = "activity" -> Is(note.activity)
    [] k = "original" -> Is(note.original)
    [] k = "cover" -> Is(CoverVerified(es.out[k], es.loaded.cover, note.cover))
    [] k = "title" -> Is(note.title = look.title)
    [] k = "content" -> Is(note.content = "new")
    [] k \in {"image_remove", "image_add"} -> ImagesRead

(* _compose, then _restore_permission: through the visibility dialog, never by    *)
(* a second submission.  (Mutant: the permission counts as kept once read.)    *)
PermissionKept_m == TRUE
PermissionKept == note.permission = es.loaded.permission

Verify ==
  /\ es.at = "verify"
  /\ \E opened \in BOOLEAN, look \in Looks,
        unread \in {{}, {"title", "content", "original", "image_remove", "image_add"}} :
       LET applied == [k \in Keys |-> IF opened /\ Wants(k) /\ k \notin unread THEN ReadBack(k, look)
                                                                       ELSE "none"]
           \* the text of whatever page is open, if the submission was answered
           topics == IF ~es.answered THEN es.ed.topics \ es.add
                     ELSE IF opened THEN note.topics ELSE {}
       IN /\ es' = [es EXCEPT !.at = IF opened /\ ~PermissionKept THEN "restore" ELSE "record",
                            !.sure = pending = {}, !.read = note.title, !.label = look.label]
          /\ result' = [kind |-> "read", applied |-> applied, topics |-> topics,
                        status |-> Overall(applied, topics), preserved |-> opened /\ PermissionKept]
  /\ UNCHANGED <<q, note, ledger, pending, asked, upsets, first>>

(* Anything raised after the click: the caller learns of no submission. *)
Raise ==
  /\ es.at = "verify" /\ Slip
  /\ EndEdit("unknown", Nothing, FALSE)
  /\ UNCHANGED <<q, note, ledger, pending, asked, first>>

(* set_note_visibility for the two levels it knows; the title finds the note. *)
Restore ==
  /\ es.at = "restore" /\ es' = [es EXCEPT !.at = "record"]
  /\ \/ UNCHANGED note
     \/ /\ es.loaded.permission \in Levels
        /\ note' = [note EXCEPT !.permission = es.loaded.permission]
  /\ UNCHANGED <<q, ledger, pending, result, asked, upsets, first>>

(* write_back_ledger: what was read back, when it was confirmed; it may fail. *)
Record ==
  /\ es.at = "record" /\ es' = [es EXCEPT !.at = "idle"]
  /\ \/ UNCHANGED ledger
     \/ result.applied["title"] = "true" /\ ledger' = es.read
  /\ UNCHANGED <<q, note, pending, result, asked, upsets, first>>

(* The child that runs the session is killed: its job ends as an error. *)
Kill ==
  /\ es.at # "idle" /\ Slip
  /\ es' = [es EXCEPT !.at = "idle"]
  /\ result' = [Silent EXCEPT !.kind = "unknown"]
  /\ UNCHANGED <<q, note, ledger, pending, asked, first>>

(* set_note_components: from the update page to the read-back. *)
SetComponents ==
  OpenPage \/ StepItem \/ StepTopics \/ Decide \/ ClickPublish \/ Answer \/ Verify \/ Restore

EditStep ==
  \/ SetComponents \/ Raise \/ Record \/ Kill
  \/ \E n \in pending : Land(n) \/ Lose(n)

(***************************************************************************)
(* Properties                                                              *)
(***************************************************************************)

EditTypeOK ==
  /\ q \in Asked /\ note \in Notes /\ first \in Starts /\ pending \subseteq Notes
  /\ ledger \in TextStates /\ es.read \in TextStates /\ es.label \in {"seen", "unread"}
  /\ es.at \in {"idle", "open", "steps", "click", "wait", "verify", "restore", "record"}
  /\ es.ed \in Notes /\ es.loaded \in Notes
  /\ es.out \in [Keys -> {"none", "done", "skipped", "error"}]
  /\ result.kind \in {"none", "refused", "aborted", "noop", "nothing", "read", "unknown"}
  /\ result.applied \in [Keys -> {"none", "true", "false"}]
  /\ result.status \in {"none", "done", "partially_applied", "failed"}
  /\ es.add \subseteq Topics /\ es.chosen \subseteq es.add /\ result.topics \subseteq Topics
  /\ asked \in 0..MaxAsked /\ upsets \in 0..MaxUpsets

(* Title, text and images change together or not at all, however often a session   *)
(* fails half way, is killed, or is asked for again while an earlier submission is   *)
(* still on its way.  And they change once: unless as many images are added as       *)
(* removed, which the images' number does not tell from none, so that asking again     *)
(* removes as many once more.                                               *)
AfterEdits(k) ==
  <<IF q.title /\ k > 0 THEN "new" ELSE first.title, IF q.content /\ k > 0 THEN "new" ELSE first.content,
    k * q.remove, k * q.add>>
EditsWholeOrNot ==
  \E k \in 0..asked :
    /\ <<note.title, note.content, note.gone, note.more>> = AfterEdits(k)
    /\ q.remove # q.add => k <= 1

(* The whole note is written every time, and still only what was asked for        *)
(* changes: a collection is left when it is the one named and no other, or         *)
(* because the platform drops it; topics go only with a text that replaces them.  *)
OnlyTheAsked ==
  /\ q.join = None /\ q.unjoin # first.collection =>
       note.collection \in {first.collection} \cup (IF upsets > 0 \/ first.permission = "private"
                                                 THEN {None} ELSE {})
  /\ ~q.quote => note.quote = first.quote
  /\ ~q.activity => note.activity = first.activity
  /\ ~q.original => note.original = first.original
  /\ first.cover # "frame" \/ ~q.cover => note.cover = first.cover
  /\ note.topics \subseteq first.topics \cup q.topics
  /\ ~q.content => first.topics \subseteq note.topics

(* What a session tells is so.  An item that is confirmed is there, and the      *)
(* permission called preserved is the one the note had, if no submission was      *)
(* still on its way (images are confirmed by their number: nothing, when as many     *)
(* are added as removed); done means that everything asked for is there, topics too,  *)
(* if none was when the page was loaded either; when the session says that it          *)
(* submitted nothing, it did not; a title in the ledger is one the platform has.     *)
(* Two claims are not made, for the code does not keep them: that a title confirmed     *)
(* beside a quote is there, and that the note has left the collection when the label     *)
(* that says so was not read.                                                *)
ConfirmedIsThere(k, label) ==
  CASE k = "unjoin" -> label = "seen" => note.collection # q.unjoin
    [] k = "activity" -> note.activity
    [] k = "original" -> note.original
    [] k = "title" -> ~q.quote => note.title = "new"
    [] k = "content" -> note.content = "new"
    [] k = "image_remove" -> q.remove # q.add => note.gone = q.remove
    [] k = "image_add" -> q.remove # q.add => note.more = q.add
    [] k = "join" -> note.collection # None /\ Shows(note.collection, q.join)
    [] k = "quote" -> note.quote # "none"
    [] k = "cover" -> note.cover # es.loaded.cover \/ ~es.clicked
EverythingAsked(label) ==
  (\A k \in Keys : Wants(k) => ConfirmedIsThere(k, label)) /\ q.topics \subseteq note.topics
ClaimsHold ==
  /\ es.sure => \A k \in Keys : result.applied[k] = "true" => ConfirmedIsThere(k, es.label)
  /\ es.sure /\ result.preserved => note.permission = es.loaded.permission
  /\ es.alone /\ (es.sure \/ ~es.clicked) /\ result.status = "done" => EverythingAsked(es.label)
  /\ result.kind \in {"refused", "aborted", "noop", "nothing"} => ~es.clicked
  /\ ledger = "new" => note.title = "new"

EditsTrue == EditsWholeOrNot /\ OnlyTheAsked
=============================================================================
