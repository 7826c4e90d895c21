---------------------------- MODULE NoteWidgets ----------------------------
(***************************************************************************)
(* The components of a note on its update page, browser/note_components.py:    *)
(* its collection, the note it quotes, its activity, the declaration of         *)
(* originality and the cover of a video.  Scripts as in NoteEditor.           *)
(***************************************************************************)
EXTENDS NoteEditor

(***************************************************************************)
(* Collection                                                              *)
(***************************************************************************)

(* The name behind an id: given, or read from a list that may not have come. *)
NameKnown(q) == IF q.named THEN {TRUE} ELSE BOOLEAN

(* read_collection_label: the name shown, or none when there is none or when neither  *)
(* the chip nor the button shows a text.                                     *)
Labels(n) == IF n.collection = None THEN {"seen"} ELSE {"seen", "unread"}

(* _remove_collection: only the collection of exactly that name; a modal that  *)
(* nobody has seen before stops everything.  A label not read counts as no     *)
(* collection, before the click and after it.                                *)
RemoveCollection(ed, q, label) ==
  LET off == [ed EXCEPT !.collection = None] IN
  IF label = "unread"
  THEN Gives(ed, {"skipped"}) \cup (IF ed.collection = q.unjoin THEN Gives(ed, {"done"}) ELSE {})
  ELSE UNION {CASE ed.collection = None -> Gives(ed, {"skipped"})
                [] ed.collection # None /\ ~known -> Gives(ed, {"error"})
                [] ed.collection = q.unjoin /\ known ->
                     Gives(ed, {"error", "modal"}) \cup Gives(off, {"done", "modal"})
                [] OTHER -> Gives(ed, {IF Shows(ed.collection, q.unjoin) THEN "error" ELSE "skipped"})
              : known \in NameKnown(q)}

(* _set_collection.  In a collection there is no button, and an error when its name, or *)
(* that asked for, is not known.                                             *)
SetCollection(ed, q) ==
  LET on == [ed EXCEPT !.collection = q.join] IN
  IF ed.collection = None THEN Gives(ed, {"error"}) \cup Gives(on, {"done", "error"})
  ELSE Gives(ed, IF Shows(ed.collection, q.join) THEN {"skipped", "error"} ELSE {"error"})

(***************************************************************************)
(* Quote                                                                   *)
(***************************************************************************)

(* _wait_all_candidate_notes: scrolled until the note is in a response, until a   *)
(* few rounds bring nothing or nothing can be scrolled, or until the rounds are   *)
(* used up; or no response came at all.                                     *)
ListRead == {"hit", "end", "more", "none"}

(* One attempt to choose a card; chosen is the card chosen so far.  It is not      *)
(* clicked before it is in view; the click may miss or hit another card in      *)
(* reach; a toast with the word in it is taken for a refusal; the attempt        *)
(* counts when the confirm button is enabled.                                *)
CardClick(reach, chosen) ==
  {<<"offscreen", chosen>>}
    \cup ({"rejected", "not_applied"} \X ({chosen} \cup reach))
    \cup ({"done"} \X (({chosen} \cup reach) \ {None}))

(* _select_quote_card: once more, on its centre, only when nothing was chosen.   *)
SelectCard(reach) ==
  UNION {IF a[1] = "not_applied" THEN CardClick(reach, a[2]) ELSE {a} : a \in CardClick(reach, None)}

(* _click_quote_confirm, if it is there and enabled, and the row read afterwards:  *)
(* what counts is that it quotes something.                                  *)
Confirm(ed, chosen) ==
  LET on == [ed EXCEPT !.quote = chosen] IN
  Gives(ed, {IF ed.quote = "none" THEN "error" ELSE "done", "error"}) \cup Gives(on, {"done", "error"})

Select(ed, reach) ==
  UNION {IF a[1] = "done" THEN Confirm(ed, a[2]) ELSE Gives(ed, {"error"}) : a \in SelectCard(reach)}

(* _set_quote_in_modal: a card found by title may be that of another note (below). *)
InModal(ed) ==
  UNION {CASE r = "none" -> Gives(ed, {"error"})
           [] r = "hit" -> Gives(ed, {"error"}) \cup Select(ed, {"wanted", "other"})
           [] OTHER -> Gives(ed, {r}) : r \in ListRead}

(* _block_other_tab_reason: not searched for elsewhere when it is the account's    *)
(* own, or when the list was not read to its end.                             *)
Blocked(q, absent) == q.own \/ absent = "more"

(* _set_quote_via_other_tab: by id; the answer is about that id and shows one card. *)
ByOtherTab(ed) == Gives(ed, {"error"}) \cup Select(ed, {"wanted"})

SetQuote(ed, q) ==
  UNION {IF o.status \in {"done", "error"} THEN {o}
         ELSE IF Blocked(q, o.status) THEN Gives(ed, {"error"}) ELSE ByOtherTab(ed) : o \in InModal(ed)}

(***************************************************************************)
(* Activity, declaration, cover                                            *)
(***************************************************************************)

(* classify_activity_action of the button on the card, which may be in the row, in *)
(* the panel behind it, or in neither.                                      *)
ActivityLabel(ed) == {"none", "unknown", IF ed.activity THEN "linked" ELSE "unlinked"}

(* _set_activity: clicked, and clicked again only while it reads unlinked.       *)
SetActivity(ed) ==
  LET on == [ed EXCEPT !.activity = TRUE] IN
  UNION {CASE l = "linked" -> Gives(ed, {"skipped"})
           [] l = "unlinked" -> Gives(ed, {"error"}) \cup Gives(on, {"done", "error"})
           [] OTHER -> Gives(ed, {"error"}) : l \in ActivityLabel(ed)}

(* _complete_original_consent: ticked, seen ticked, confirmed when enabled, the   *)
(* modal gone and the switch on; whatever else is an error, and the modal closed.  *)
Consent(ed) ==
  LET on == [ed EXCEPT !.original = TRUE] IN Gives(ed, {"error"}) \cup Gives(on, {"done", "error"})

(* One round of apply_original_declaration: the switch clicked, the consent modal  *)
(* if it comes, and the switch read.  (Mutant: it is not.)                    *)
Toggle_m(ed) == Consent(ed) \cup Gives(ed, {"done"}) \cup Gives([ed EXCEPT !.original = ~@], {"done"})
Toggle(ed) ==
  LET flipped == [ed EXCEPT !.original = ~@] IN
  Consent(ed) \cup (IF flipped.original THEN Gives(flipped, {"done"}) ELSE {})
    \cup Gives(ed, {"again"}) \cup Gives(flipped, {"again"})

SetOriginal(ed) ==
  IF ed.original THEN Gives(ed, {"skipped"})
  ELSE Gives(ed, {"error"})
         \cup UNION {IF o.status # "again" THEN {o}
                     ELSE {IF p.status = "again" THEN Out("error", p.ed) ELSE p : p \in Toggle(o.ed)}
                     : o \in Toggle(ed)}

(* _read_cover_state: the platform's own frame, somebody's, or not to be told.    *)
CoverRead(ed) == {"unknown", ed.cover}

(* apply_cover_change: only over the platform's own frame; by the entry of that    *)
(* text, the modal, its upload tab and the confirm button once enabled, and seen    *)
(* to change.                                                               *)
SetCover(ed) ==
  LET on == [ed EXCEPT !.cover = "ours"] IN
  UNION {CASE c = "unknown" -> Gives(ed, {"error"})
           [] c = "frame" -> Gives(ed, {"error"}) \cup Gives(on, {"done", "error"})
           [] OTHER -> Gives(ed, {"skipped"}) : c \in CoverRead(ed)}

(* _cover_verified: it differs from the one the script saw.  An error tells none.   *)
CoverVerified(status, before, after) == status # "error" /\ after # before

(***************************************************************************)
(* The candidate list of the quote modal                                   *)
(***************************************************************************)

(* posted: the titles in the list's responses, None for none; shown: those of    *)
(* them that have a card, in the same order.                                *)
CardAt(shown, k) == CHOOSE card \in shown : Cardinality({j \in shown : j <= card}) = k

(* _set_quote_in_modal: the one card whose text contains the title. *)
PickTitled(posted, shown, i) ==
  LET hits == {k \in shown : Shows(posted[k], posted[i])} IN
  IF Cardinality(hits) = 1 THEN CHOOSE k \in hits : TRUE ELSE 0

(* _pick_untitled_card: by position, if every note without a card can be told  *)
(* by its title.                                                             *)
Unseen(posted, shown) ==
  {i \in DOMAIN posted : posted[i] # None /\ \A k \in shown : ~Shows(posted[k], posted[i])}
PickUntitled(posted, shown, i) ==
  LET place == i - Cardinality({j \in Unseen(posted, shown) : j < i}) IN
  IF /\ Cardinality(Unseen(posted, shown)) = Len(posted) - Cardinality(shown)
     /\ place \in 1..Cardinality(shown)
  THEN CardAt(shown, place) ELSE 0

Pick(posted, shown, i) ==
  IF posted[i] = None THEN PickUntitled(posted, shown, i) ELSE PickTitled(posted, shown, i)
=============================================================================
