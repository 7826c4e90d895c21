----------------------------- MODULE NoteEditor -----------------------------
(***************************************************************************)
(* A note on its update page, what may be asked of it, and the scripts that   *)
(* change its text, images and topics: browser/note_editing.py,              *)
(* note_editing_images.py.  A script is given as the set of its outcomes: the   *)
(* status it reports and what it leaves in the editor.  It looks again after   *)
(* it has clicked, and what it does not find by then it reports as an error,    *)
(* done or not.                                                            *)
(*                                                                         *)
(* A note: title and content are "old", "new" or half typed ("junk"); images  *)
(* counts those removed and those added; cover is the platform's first frame, *)
(* somebody's own or the one requested; topics the hashtags in the body.      *)
(***************************************************************************)
EXTENDS Naturals, FiniteSets, Sequences, SequencesExt

CONSTANTS Names,      \* names of collections
          Within,   \* <<a, b>>: the name a is contained in the name b
          Topics, MaxTopics,
          Images,     \* images of the note at first
          Levels,     \* permission levels that can be set again
          None

TextStates == {"old", "new", "junk"}
Notes == [title: TextStates, content: TextStates, gone: Nat, more: Nat, collection: Names \cup {None},
          quote: {"none", "other", "wanted"}, activity: BOOLEAN, original: BOOLEAN,
          cover: {"frame", "custom", "ours"}, topics: SUBSET Topics,
          permission: Levels \cup {"other"}, video: BOOLEAN]

(* What a request asks for; remove and add are numbers of images, own says     *)
(* whether the ledger knows the quoted note as the account's own.            *)
Requests == [title: BOOLEAN, content: BOOLEAN, remove: Nat, add: Nat,
             unjoin: Names \cup {None}, join: Names \cup {None}, named: BOOLEAN,
             quote: BOOLEAN, own: BOOLEAN, activity: BOOLEAN, original: BOOLEAN,
             cover: BOOLEAN, topics: SUBSET Topics]

(* note_edits, and what NoteComponentsRequest lets through. *)
HasEdits(q) == q.title \/ q.content \/ q.remove > 0 \/ q.add > 0
Acceptable(q) ==
  /\ q.unjoin = None \/ q.join = None
  /\ q.remove < Images
  /\ \/ HasEdits(q) \/ q.quote \/ q.activity \/ q.original \/ q.cover \/ q.topics # {}
     \/ q.unjoin # None \/ q.join # None

(* The endpoint, by the type in the ledger: text and images of image notes,     *)
(* covers of videos.                                                       *)
Editable(q, n) == (HasEdits(q) => ~n.video) /\ (q.cover => n.video)

Shows(text, name) == text = name \/ <<name, text>> \in Within

(* chosen: the topics picked from the dropdown. *)
Out(status, ed) == [status |-> status, ed |-> ed, chosen |-> {}]
Gives(ed, statuses) == {Out(s, ed) : s \in statuses}

(***************************************************************************)
(* Images                                                                  *)
(***************************************************************************)

Count(ed) == Images - ed.gone + ed.more

(* image_gate: the page shows as many images as the caller believes.          *)
ImageGate(ed) == Count(ed) = Images

(* _remove_one: the card is the only one with its number, it is scrolled to,    *)
(* and the point clicked is its own button.  Clicked again while the numbers    *)
(* stay; a dialog nobody has seen before ends it.  A click takes effect while   *)
(* it is waited for, or never.                                               *)
RemoveOne(ed) == {Out("done", [ed EXCEPT !.gone = @ + 1])} \cup Gives(ed, {"error"})

(* remove_images: from the last number to the first, each seen to be gone, up to  *)
(* the one that fails or to the last.                                         *)
Without(ed, k) == [ed EXCEPT !.gone = @ + k]
RemoveImages(ed, n) ==
  {o \in UNION {RemoveOne(Without(ed, k)) : k \in 0..n - 1} : o.status = "done" => o.ed = Without(ed, n)}

(* add_images: all files at once into the one input that takes several images;   *)
(* done when the numbers run up to the new count.                            *)
AddImages(ed, n) ==
  {Out("done", [ed EXCEPT !.more = @ + n])}
    \cup {Out("error", [ed EXCEPT !.more = @ + k]) : k \in 0..n}

(***************************************************************************)
(* Texts                                                                   *)
(***************************************************************************)

(* _clear_field, _type_into: up to three attempts to clear the field by select   *)
(* and delete, then key by key, and to type.  A typed text may not be the one     *)
(* meant; a failed attempt leaves any.                                       *)
TypeInto(text) ==
  [ok : {TRUE}, text : {"new", "junk"}] \cup [ok : {FALSE}, text : {text, "new", "junk"}]

(* Done when what is read back, if it can be read, is what was to be typed. *)
ReadBackIs(fill, ed) ==
  IF fill.ok /\ fill.text = "new" THEN Gives(ed, {"done", "error"}) ELSE Gives(ed, {"error"})

(* apply_title_edit, apply_content_edit: not touched when the field is not in    *)
(* view, nor when the text is too long.  The topics go with the old text.        *)
TypeTitle(ed) ==
  Gives(ed, {"error"})
    \cup UNION {ReadBackIs(f, [ed EXCEPT !.title = f.text]) : f \in TypeInto(ed.title)}

TypeContent(ed) ==
  Gives(ed, {"error"})
    \cup UNION {ReadBackIs(f, [ed EXCEPT !.content = f.text, !.topics = {}])
                : f \in TypeInto(ed.content)}

(***************************************************************************)
(* Topics                                                                  *)
(***************************************************************************)

(* plan_topic_appends: what is missing, as far as the cap lets. *)
Missing(ed, q) ==
  LET new == q.topics \ ed.topics
      free == MaxTopics - Cardinality(ed.topics)
  IN {todo \in SUBSET new : Cardinality(todo) = IF Cardinality(new) <= free THEN Cardinality(new)
                                                ELSE free}

(* append_topics: the caret is put at the end of the body, or nothing is added;   *)
(* then each is typed and picked from the dropdown, or taken back.  A pick that    *)
(* was clicked counts, whether or not the chip arrives.                       *)
AddTopics(ed, todo) ==
  LET Added(chosen, there) ==
        [status |-> IF chosen = {} THEN "error" ELSE "done", chosen |-> chosen,
         ed |-> [ed EXCEPT !.topics = @ \cup there]]
  IN UNION {{Added(chosen, there) : there \in SUBSET chosen} : chosen \in SUBSET todo}
=============================================================================
