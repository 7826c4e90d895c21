-------------------------- MODULE PublishPage_proofs --------------------------
(***************************************************************************)
(* Proofs about the creator's pages, for every bound and every set of notes, *)
(* names and drafts.  In three parts.                                       *)
(*   Publishing (PublishPage, PublishNote): the type invariant; that what is *)
(*   published is the job's own; and, while what answers a click stays to be *)
(*   seen, that a session makes one note at most, that final verdicts are    *)
(*   true and that a note wears what is told of it and nothing that was not  *)
(*   asked for.                                                              *)
(*   The shelf of collections (Collections): that what is told of it is so.  *)
(*   Editing (NoteEditing, NoteTasks): that what is told of a note edited,   *)
(*   after any number of rounds, lost submits and slips of the editor, is    *)
(*   true of it.                                                             *)
(***************************************************************************)
EXTENDS PublishNote, NoteTasks, FiniteSetTheorems, TLAPS

(***************************************************************************)
(* PUBLISHING                                                              *)
(***************************************************************************)

Begun == {"upload", "wait", "fill", "options", "find"}
Stations == {"idle", "click", "watch", "heal", "settle"} \cup Begun
Answers == {"none", "loading", "toast", "notice", "ban"}
Verdicts == {"none", "success", "failed", "login", "banned"}
Sites == [page: {"upload", "editor", "success"}, ed: Drafts, answer: Answers]
Sessions == [at: Stations, clicks: 0..3, made: Nat]

(***************************************************************************)
(* Types                                                                   *)
(***************************************************************************)

Wellformed ==
  /\ site \in Sites /\ s \in Sessions
  /\ drafts \in Seq(Drafts) /\ notes \in Seq(Drafts) /\ verdict \in Verdicts
  /\ tries \in 0..MaxTries /\ faults \in 0..MaxFaults

(* A click that has not been answered has not made its note, and there is     *)
(* always room for the next click.                                          *)
ClicksInv ==
  /\ Wellformed
  /\ s.made <= s.clicks
  /\ site.answer = "loading" => s.made < s.clicks
  /\ s.at \in Begun => s.clicks = 0
  /\ s.at = "click" => s.clicks < 3

(* What the editor holds is a draft, whatever is typed into it. *)
LEMMA DraftTypes ==
  ASSUME NEW d \in Drafts
  PROVE  /\ [d EXCEPT !.media = "own"] \in Drafts /\ [d EXCEPT !.ready = TRUE] \in Drafts
         /\ \A x \in Texts : [d EXCEPT !.title = x] \in Drafts
         /\ \A x, y \in Texts : [d EXCEPT !.title = x, !.body = y] \in Drafts
BY DEF Drafts, Texts

LEMMA CleanTyped == Clean \in Sites
BY DEF Clean, Blank, Sites, Drafts, Texts, Answers

LEMMA TypedTexts ==
  ASSUME NEW t \in Texts
  PROVE  Typed(t) \subseteq Texts /\ TypedInPart(t) \subseteq Texts
BY DEF Typed, TypedInPart, Texts

(* A step of the session that stays in it, and one that ends it. *)
LEMMA GoesKeeps ==
  ASSUME Wellformed, NEW step \in Stations, Goes(step)
  PROVE  /\ s' \in Sessions /\ drafts' \in Seq(Drafts) /\ verdict' = verdict
         /\ s'.at = step /\ s'.clicks = s.clicks /\ s'.made = s.made
BY DEF Wellformed, Goes, To, Sessions

LEMMA EndKeeps ==
  ASSUME Wellformed, NEW v \in Verdicts, End(v)
  PROVE  /\ s' \in Sessions /\ drafts' \in Seq(Drafts) /\ verdict' = v
         /\ s'.at = "idle" /\ s'.clicks = s.clicks /\ s'.made = s.made
<1>1. s' \in Sessions /\ s'.at = "idle" /\ s'.clicks = s.clicks /\ s'.made = s.made
  BY DEF Wellformed, End, To, Sessions, Stations
<1>2. drafts' \in Seq(Drafts)
  <2>1. site.ed \in Drafts
    BY DEF Wellformed, Sites
  <2>2. QED
    BY <2>1 DEF Wellformed, End
<1>3. QED
  BY <1>1, <1>2 DEF End

(* A click is counted with the step it leads to; an answer may make a note.    *)
LEMMA CountKeeps ==
  ASSUME Wellformed, NEW step \in Stations, NEW p1 \in 0..3,
         s' = [s EXCEPT !.at = step, !.clicks = p1]
  PROVE  s' \in Sessions /\ s'.at = step /\ s'.clicks = p1 /\ s'.made = s.made
<1>1. s \in Sessions
  BY DEF Wellformed
<1>2. QED
  BY <1>1, ZenonT(30) DEF Sessions

LEMMA MakeKeeps ==
  ASSUME Wellformed, s' = [s EXCEPT !.made = @ + 1]
  PROVE  s' \in Sessions /\ s'.at = s.at /\ s'.clicks = s.clicks /\ s'.made = s.made + 1
<1>1. s \in Sessions /\ s.made \in Nat
  BY DEF Wellformed, Sessions
<1>2. s.made + 1 \in Nat
  BY <1>1
<1>3. QED
  BY <1>1, <1>2, ZenonT(30) DEF Sessions

(* A click leaves the page as it is, or loading. *)
LEMMA PressedTyped ==
  ASSUME Wellformed, NEW x \in Pressed
  PROVE  /\ x \in Sites /\ x.page = site.page
         /\ x = site \/ (site.page = "editor" /\ x.answer = "loading")
BY DEF Wellformed, Pressed, Sites, Answers

LEMMA InitClicks == Init => ClicksInv
BY PageAssumption, CleanTyped DEF Init, ClicksInv, Wellformed, Sessions, Stations, Verdicts, Clean, Begun

LEMMA SessionClicks == ClicksInv /\ Session => ClicksInv'
<1> SUFFICES ASSUME ClicksInv, Session PROVE ClicksInv'
  OBVIOUS
<1> USE PageAssumption DEF ClicksInv
<1>0. /\ s.clicks \in 0..3 /\ s.made \in Nat /\ s.at \in Stations
      /\ site.ed \in Drafts /\ site.answer \in Answers
  BY DEF Wellformed, Sessions, Sites
<1>1. CASE Open
  <2>1. s' \in Sessions /\ s'.clicks = 0 /\ s'.made = 0
    BY <1>1 DEF Open, Sessions, Stations, Begun
  <2>2. verdict' \in Verdicts /\ site' \in Sites
    BY <1>1, CleanTyped DEF Open, Verdicts, Starting, Direct, ByButton, BySignOn, Again
  <2>3. tries' \in 0..MaxTries
    BY <1>1 DEF Open, Wellformed
  <2>4. Wellformed'
    BY <1>1, <2>1, <2>2, <2>3 DEF Open, Wellformed
  <2>5. QED
    BY <1>1, <2>1, <2>4 DEF Open, Clean, Begun
<1>2. CASE Upload
  <2>1. CASE (TakesImages \/ TakesVideo \/ TakesAudio) /\ Goes("wait")
    <3>1. \/ site' = [site EXCEPT !.page = "editor", !.ed = [site.ed EXCEPT !.media = "own"]]
          \/ site' = [site EXCEPT !.ed = [site.ed EXCEPT !.media = "own"]]
      BY <2>1 DEF TakesImages, TakesVideo, TakesAudio, Wellformed, Sites
    <3>2. site' \in Sites /\ site'.answer = site.answer
      BY <3>1, <1>0, DraftTypes DEF Wellformed, Sites
    <3>3. QED
      BY <1>2, <1>0, <2>1, <3>2, GoesKeeps DEF Upload, Wellformed, Stations, Begun
  <2>2. CASE site' = site /\ \E v \in {"failed", "login"} : End(v)
    BY <1>2, <1>0, <2>2, EndKeeps DEF Upload, Wellformed, Verdicts, Begun
  <2>3. QED
    BY <1>2, <2>1, <2>2 DEF Upload, NoForm, NoLogin
<1>3. CASE Wait
  <2>1. CASE Goes("fill") /\ site' \in Sites /\ site'.answer = site.answer
    BY <1>3, <1>0, <2>1, GoesKeeps DEF Wait, Wellformed, Stations, Begun
  <2>2. GetsImages \/ GetsVideo \/ GetsAudio => site' \in Sites /\ site'.answer = site.answer
    <3>1. CASE FromDrafts
      <4>1. Newest(drafts) \in Drafts
        BY <3>1 DEF FromDrafts, Newest, Wellformed
      <4>2. QED
        BY <3>1, <4>1 DEF FromDrafts, Wellformed, Sites
    <3>2. CASE site' = site \/ site' = [site EXCEPT !.page = "editor"]
      BY <3>2 DEF Wellformed, Sites
    <3>3. QED
      BY <3>1, <3>2 DEF GetsImages, GetsVideo, GetsAudio, Processed
  <2>3. CASE site' = site /\ End("failed")
    BY <1>3, <1>0, <2>3, EndKeeps DEF Wait, Wellformed, Verdicts, Begun
  <2>4. QED
    BY <1>3, <2>1, <2>2, <2>3 DEF Wait, NoEditor, NotReady
<1>4. CASE Fill
  <2>0. site.ed.title \in Texts /\ site.ed.body \in Texts
    BY <1>0 DEF Drafts
  <2>1. site' \in Sites /\ site'.answer = site.answer
    <3>1. CASE \E t, b \in Texts : site' = [site EXCEPT !.ed.title = t, !.ed.body = b]
      <4>1. PICK t, b \in Texts : site' = [site EXCEPT !.ed.title = t, !.ed.body = b]
        BY <3>1
      <4>2. site' = [site EXCEPT !.ed = [site.ed EXCEPT !.title = t, !.body = b]]
        BY <4>1, <1>0 DEF Wellformed, Sites, Drafts
      <4>3. QED
        BY <4>2, <1>0, DraftTypes DEF Wellformed, Sites
    <3>2. CASE \E t \in Texts : site' = [site EXCEPT !.ed.title = t]
      <4>1. PICK t \in Texts : site' = [site EXCEPT !.ed.title = t]
        BY <3>2
      <4>2. site' = [site EXCEPT !.ed = [site.ed EXCEPT !.title = t]]
        BY <4>1 DEF Wellformed, Sites
      <4>3. QED
        BY <4>2, <1>0, DraftTypes DEF Wellformed, Sites
    <3>3. CASE NotInteractable
      BY <1>0, <3>3 DEF NotInteractable, Wellformed
    <3>4. QED
      BY <1>4, <2>0, <3>1, <3>2, <3>3, TypedTexts DEF Fill
  <2>u. s.at = "fill" /\ UNCHANGED <<notes, tries, faults>>
    BY <1>4 DEF Fill
  <2>2. CASE Goes("options")
    BY <2>u, <1>0, <2>1, <2>2, GoesKeeps DEF Wellformed, Stations, Begun
  <2>3. CASE End("failed")
    BY <2>u, <1>0, <2>1, <2>3, EndKeeps DEF Wellformed, Verdicts, Begun
  <2>4. QED
    BY <1>4, <2>2, <2>3 DEF Fill, NotInteractable
<1>5. CASE Options
  <2>1. CASE Goes("find")
    BY <1>5, <1>0, <2>1, GoesKeeps DEF Options, Wellformed, Stations, Begun
  <2>2. CASE End("failed")
    BY <1>5, <1>0, <2>2, EndKeeps DEF Options, Wellformed, Verdicts, Begun
  <2>3. QED
    BY <1>5, <2>1, <2>2 DEF Options
<1>6. CASE Find
  <2>1. CASE /\ site' \in Pressed /\ UNCHANGED <<drafts, verdict>>
             /\ \E step \in {"heal", "settle"} : s' = [s EXCEPT !.at = step, !.clicks = 1]
    <3>1. s' \in Sessions /\ s'.at \in {"heal", "settle"} /\ s'.clicks = 1 /\ s'.made = s.made
      <4>1. PICK step \in {"heal", "settle"} : s' = [s EXCEPT !.at = step, !.clicks = 1]
        BY <2>1
      <4>2. step \in Stations /\ 1 \in 0..3
        BY <4>1 DEF Stations
      <4>3. QED
        BY <1>0, <4>1, <4>2, CountKeeps
    <3>2. s.made = 0
      BY <1>6, <1>0 DEF Find, Begun
    <3>3. QED
      BY <1>6, <2>1, <3>1, <3>2, PressedTyped DEF Find, Wellformed, Begun
  <2>2. CASE Goes("click") /\ site' = site
    BY <1>6, <1>0, <2>2, GoesKeeps DEF Find, Wellformed, Stations, Begun
  <2>3. CASE End("failed") /\ site' = site
    BY <1>6, <1>0, <2>3, EndKeeps DEF Find, Wellformed, Verdicts, Begun
  <2>4. QED
    BY <1>6, <2>1, <2>2, <2>3 DEF Find
<1>7. CASE Click
  <2>1. CASE Goes("settle") /\ site' = site
    BY <1>7, <1>0, <2>1, GoesKeeps DEF Click, Wellformed, Stations, Begun
  <2>2. CASE /\ site' \in Pressed /\ UNCHANGED <<drafts, verdict>>
             /\ s' = [s EXCEPT !.at = "watch", !.clicks = @ + 1]
    <3>1. s.clicks < 3
      BY <1>7 DEF Click
    <3>2. s' \in Sessions /\ s'.at = "watch" /\ s'.clicks = s.clicks + 1 /\ s'.made = s.made
      <4>1. s.clicks + 1 \in 0..3 /\ s' = [s EXCEPT !.at = "watch", !.clicks = s.clicks + 1]
        BY <1>0, <2>2, <3>1
      <4>2. QED
        BY <4>1, CountKeeps DEF Stations
    <3>3. QED
      BY <1>7, <1>0, <2>2, <3>2, PressedTyped DEF Click, Wellformed, Begun
  <2>3. QED
    BY <1>7, <2>1, <2>2 DEF Click
<1>8. CASE Watch
  <2>1. CASE \E v \in {"success", "failed", "banned"} : End(v)
    BY <1>8, <1>0, <2>1, EndKeeps DEF Watch, Wellformed, Verdicts, Begun
  <2>2. CASE Goes(IF Registered \/ s.clicks >= Attempts THEN "settle" ELSE "click")
    BY <1>8, <1>0, <2>2, GoesKeeps DEF Watch, Wellformed, Stations, Attempts, Begun
  <2>3. QED
    BY <1>8, <2>1, <2>2 DEF Watch, Barred
<1>9. CASE Healed
  <2>1. CASE End("success")
    BY <1>9, <1>0, <2>1, EndKeeps DEF Healed, Wellformed, Verdicts, Begun
  <2>2. CASE Goes("settle")
    BY <1>9, <1>0, <2>2, GoesKeeps DEF Healed, Wellformed, Stations, Begun
  <2>3. QED
    BY <1>9, <2>1, <2>2 DEF Healed
<1>10. CASE Settle
  <2>1. \E v \in {"success", "failed", "banned"} : End(v)
    BY <1>10 DEF Settle, Barred, TimesOut
  <2>2. QED
    BY <1>10, <1>0, <2>1, EndKeeps DEF Settle, Wellformed, Verdicts, Begun
<1>11. QED
  BY <1>1, <1>2, <1>3, <1>4, <1>5, <1>6, <1>7, <1>8, <1>9, <1>10 DEF Session

LEMMA SiteClicks == ClicksInv /\ Site => ClicksInv'
<1> SUFFICES ASSUME ClicksInv, Site PROVE ClicksInv'
  OBVIOUS
<1> USE PageAssumption DEF ClicksInv
<1>0. s.clicks \in 0..3 /\ s.made \in Nat /\ site.ed \in Drafts
  BY DEF Wellformed, Sessions, Sites
<1>1. CASE Process
  <2>1. site' = [site EXCEPT !.ed = [site.ed EXCEPT !.ready = TRUE]]
    BY <1>1 DEF Process, Wellformed, Sites
  <2>2. site' \in Sites /\ site'.answer = site.answer
    BY <2>1, <1>0, DraftTypes DEF Wellformed, Sites
  <2>3. QED
    BY <1>1, <2>2 DEF Process, Wellformed
<1>2. CASE Reset
  <2>1. Wellformed'
    BY <1>2, <1>0, CleanTyped DEF Reset, Fault, Wellformed
  <2>2. QED
    BY <1>2, <2>1 DEF Reset, Clean
<1>3. CASE Respond
  <2>1. site' \in Sites /\ site'.answer # "loading"
    BY <1>3 DEF Respond, Wellformed, Sites, Answers
  <2>2. CASE notes' = Append(notes, site.ed) /\ s' = [s EXCEPT !.made = @ + 1]
    <3>1. s' \in Sessions /\ s'.at = s.at /\ s'.clicks = s.clicks /\ s'.made = s.made + 1
      BY <2>2, MakeKeeps
    <3>2. notes' \in Seq(Drafts)
      BY <2>2, <1>0 DEF Wellformed
    <3>3. QED
      BY <1>3, <1>0, <2>1, <3>1, <3>2 DEF Respond, Wellformed
  <2>3. CASE UNCHANGED <<notes, s>>
    BY <1>3, <2>1, <2>3 DEF Respond, Wellformed
  <2>4. QED
    BY <1>3, <2>2, <2>3 DEF Respond
<1>4. CASE Fade
  <2>1. site' \in Sites /\ site'.answer # "loading"
    BY <1>4, CleanTyped DEF Fade, Wellformed, Sites, Answers, Clean
  <2>2. faults' \in 0..MaxFaults
    BY <1>4 DEF Fade, Fault, Wellformed
  <2>3. QED
    BY <1>4, <2>1, <2>2 DEF Fade, Wellformed
<1>5. QED
  BY <1>1, <1>2, <1>3, <1>4 DEF Site

LEMMA ClicksKept == Spec => []ClicksInv
<1>1. ClicksInv /\ [Next]_vars => ClicksInv'
  <2>1. ClicksInv /\ UNCHANGED vars => ClicksInv'
    BY DEF ClicksInv, Wellformed, vars
  <2>2. QED
    BY <2>1, SessionClicks, SiteClicks DEF Next
<1>2. QED
  BY InitClicks, <1>1, PTL DEF Spec

(* Type correctness of the session, the site and the history. *)
THEOREM PageTypes == Spec => []TypeOK
<1>1. ClicksInv => TypeOK
  BY DEF ClicksInv, Wellformed, Sites, Sessions, Stations, Answers, Verdicts, TypeOK, Begun
<1>2. QED
  BY <1>1, ClicksKept, PTL

(***************************************************************************)
(* One note, true verdicts                                                 *)
(***************************************************************************)

(* While the session runs, a note it has made shows on the page, as the success *)
(* page or as a receipt: this is what keeps it from clicking again, and only a *)
(* note takes the page away from the editor once there has been a click.      *)
NoteShows ==
  /\ s.at # "idle" => verdict = "none"
  /\ s.at \in Begun => s.made = 0 /\ site.answer = "none" /\ site.page # "success"
  /\ s.at \in {"fill", "options", "find"} => site.page = "editor"
  /\ s.at \in {"click", "watch", "heal", "settle"} =>
       /\ site.page = "editor" \/ (site.page = "success" /\ s.made > 0)
       /\ s.made > 0 => site.page = "success" \/ site.answer = "toast"
       /\ s.at = "click" /\ s.clicks = 0 => site.answer = "none"
  /\ s.made > 0 => site.answer \notin {"loading", "notice", "ban"}
  /\ s.made <= 1
  /\ verdict \in {"login", "banned"} => site.answer # "loading"

NoteInv == ClicksInv /\ NoteShows /\ VerdictTrue

LEMMA SessionShows == NoteInv /\ Session => NoteShows' /\ VerdictTrue'
<1> SUFFICES ASSUME NoteInv, Session PROVE NoteShows' /\ VerdictTrue'
  OBVIOUS
<1> USE DEF NoteInv, NoteShows, VerdictTrue
<1>0. /\ Wellformed /\ s.clicks \in 0..3 /\ s.made \in Nat
      /\ s.made <= s.clicks /\ (s.at \in Begun => s.clicks = 0)
      /\ (site.answer = "loading" => s.made < s.clicks)
  BY DEF ClicksInv, Wellformed, Sessions
<1>1. CASE Open
  BY <1>1, Z3 DEF Open, Clean, Begun, Starting, Direct, ByButton, BySignOn, Again
<1>2. CASE Upload
  <2>1. CASE (TakesImages \/ TakesVideo \/ TakesAudio) /\ Goes("wait")
    <3>1. site'.page \in {"editor", site.page} /\ site'.answer = site.answer
      BY <1>0, <2>1 DEF TakesImages, TakesVideo, TakesAudio, Wellformed, Sites
    <3>2. QED
      BY <1>2, <1>0, <2>1, <3>1, GoesKeeps DEF Upload, Stations, Begun
  <2>2. CASE site' = site /\ \E v \in {"failed", "login"} : End(v)
    BY <1>2, <1>0, <2>2, EndKeeps DEF Upload, Verdicts, Begun
  <2>3. QED
    BY <1>2, <2>1, <2>2 DEF Upload, NoForm, NoLogin
<1>3. CASE Wait
  <2>1. CASE Goes("fill") /\ site'.page = "editor" /\ site'.answer = site.answer
    BY <1>3, <1>0, <2>1, GoesKeeps DEF Wait, Stations, Begun
  <2>2. GetsImages \/ GetsVideo \/ GetsAudio => site'.page = "editor" /\ site'.answer = site.answer
    BY <1>0, <1>3 DEF GetsImages, GetsVideo, GetsAudio, Processed, FromDrafts, Wait, Wellformed, Sites
  <2>3. CASE site' = site /\ End("failed")
    BY <1>3, <1>0, <2>3, EndKeeps DEF Wait, Verdicts, Begun
  <2>4. QED
    BY <1>3, <2>1, <2>2, <2>3 DEF Wait, NoEditor, NotReady
<1>4. CASE Fill
  <2>1. site'.page = site.page /\ site'.answer = site.answer
    BY <1>4, <1>0 DEF Fill, NotInteractable, Wellformed, Sites
  <2>u. s.at = "fill"
    BY <1>4 DEF Fill
  <2>2. CASE Goes("options")
    BY <2>u, <1>0, <2>1, <2>2, GoesKeeps DEF Stations, Begun
  <2>3. CASE End("failed")
    BY <2>u, <1>0, <2>1, <2>3, EndKeeps DEF Verdicts, Begun
  <2>4. QED
    BY <1>4, <2>2, <2>3 DEF Fill, NotInteractable
<1>5. CASE Options
  <2>1. CASE Goes("find")
    BY <1>5, <1>0, <2>1, GoesKeeps DEF Options, Stations, Begun
  <2>2. CASE End("failed")
    BY <1>5, <1>0, <2>2, EndKeeps DEF Options, Verdicts, Begun
  <2>3. QED
    BY <1>5, <2>1, <2>2 DEF Options
<1>6. CASE Find
  <2>1. CASE /\ site' \in Pressed /\ UNCHANGED <<drafts, verdict>>
             /\ \E step \in {"heal", "settle"} : s' = [s EXCEPT !.at = step, !.clicks = 1]
    <3>1. s'.at \in {"heal", "settle"} /\ s'.clicks = 1 /\ s'.made = s.made
      <4>1. PICK step \in {"heal", "settle"} : s' = [s EXCEPT !.at = step, !.clicks = 1]
        BY <2>1
      <4>2. step \in Stations /\ 1 \in 0..3
        BY <4>1 DEF Stations
      <4>3. QED
        BY <1>0, <4>1, <4>2, CountKeeps
    <3>2. QED
      BY <1>6, <1>0, <2>1, <3>1, PressedTyped DEF Find, Begun
  <2>2. CASE Goes("click") /\ site' = site
    BY <1>6, <1>0, <2>2, GoesKeeps DEF Find, Stations, Begun
  <2>3. CASE End("failed") /\ site' = site
    BY <1>6, <1>0, <2>3, EndKeeps DEF Find, Verdicts, Begun
  <2>4. QED
    BY <1>6, <2>1, <2>2, <2>3 DEF Find
<1>7. CASE Click
  <2>1. CASE Goes("settle") /\ site' = site
    BY <1>7, <1>0, <2>1, GoesKeeps DEF Click, Stations, Begun
  <2>2. CASE /\ ~(s.clicks > 0 /\ Registered)
             /\ site' \in Pressed /\ UNCHANGED <<drafts, verdict>>
             /\ s' = [s EXCEPT !.at = "watch", !.clicks = @ + 1]
    <3>1. s.clicks < 3
      BY <1>7 DEF Click, ClicksInv
    <3>2. s'.at = "watch" /\ s'.clicks = s.clicks + 1 /\ s'.made = s.made
      <4>1. s.clicks + 1 \in 0..3 /\ s' = [s EXCEPT !.at = "watch", !.clicks = s.clicks + 1]
        BY <1>0, <2>2, <3>1
      <4>2. QED
        BY <1>0, <4>1, CountKeeps DEF Stations
    <3>3. s.made = 0
      BY <1>7, <1>0, <2>2 DEF Click, Registered, Left
    <3>4. QED
      BY <1>7, <1>0, <2>2, <3>2, <3>3, PressedTyped DEF Click, Begun
  <2>3. QED
    BY <1>7, <2>1, <2>2 DEF Click
<1>8. CASE Watch
  <2>1. CASE Refused /\ \E v \in {"failed", "banned"} : End(v)
    BY <1>8, <1>0, <2>1, EndKeeps DEF Watch, Refused, Verdicts, Begun
  <2>2. CASE Left /\ End("success")
    BY <1>8, <1>0, <2>2, EndKeeps DEF Watch, Left, Verdicts, Begun
  <2>3. CASE ~Left /\ \E step \in {"settle", "click"} : Goes(step)
    <3>1. PICK step \in {"settle", "click"} : Goes(step)
      BY <2>3
    <3>2. step = "click" => ~Registered /\ ~Refused
      <4>1. s'.at = step
        BY <1>0, <3>1, GoesKeeps DEF Stations
      <4>2. CASE \E v \in {"success", "failed", "banned"} : End(v)
        BY <1>0, <4>1, <4>2, EndKeeps DEF Verdicts
      <4>3. CASE ~Refused /\ Goes(IF Registered \/ s.clicks >= Attempts THEN "settle" ELSE "click")
        BY <1>0, <4>1, <4>3, GoesKeeps DEF Stations
      <4>4. QED
        BY <1>8, <4>2, <4>3 DEF Watch, Barred
    <3>3. s.at = "watch" /\ site' = site
      BY <1>8 DEF Watch
    <3>4. /\ s'.at = step /\ s'.clicks = s.clicks /\ s'.made = s.made /\ verdict' = verdict
          /\ site.page = "editor" /\ (step = "click" => s.made = 0)
      BY <1>0, <2>3, <3>1, <3>2, <3>3, GoesKeeps DEF Left, Registered, Stations, Begun
    <3>5. step = "click" => site.answer = "none"
      BY <1>0, <3>2 DEF Registered, Refused, Wellformed, Sites, Answers
    <3>6. QED
      BY <3>1, <3>3, <3>4, <3>5 DEF Begun
  <2>4. QED
    BY <1>8, <2>1, <2>2, <2>3 DEF Watch, Barred
<1>9. CASE Healed
  <2>1. CASE Left /\ End("success")
    BY <1>9, <1>0, <2>1, EndKeeps DEF Healed, Left, Verdicts, Begun
  <2>2. CASE ~Left /\ Goes("settle")
    BY <1>9, <1>0, <2>2, GoesKeeps DEF Healed, Left, Stations, Begun
  <2>3. QED
    BY <1>9, <2>1, <2>2 DEF Healed
<1>10. CASE Settle
  <2>1. CASE Refused /\ \E v \in {"failed", "banned"} : End(v)
    BY <1>10, <1>0, <2>1, EndKeeps DEF Settle, Refused, Verdicts, Begun
  <2>2. CASE site.page = "success" /\ End("success")
    BY <1>10, <1>0, <2>2, EndKeeps DEF Settle, Verdicts, Begun
  <2>3. CASE End("failed")
    BY <1>10, <1>0, <2>3, EndKeeps DEF Settle, Verdicts, Begun
  <2>4. QED
    BY <1>10, <2>1, <2>2, <2>3 DEF Settle, Barred, TimesOut
<1>11. QED
  BY <1>1, <1>2, <1>3, <1>4, <1>5, <1>6, <1>7, <1>8, <1>9, <1>10 DEF Session

LEMMA SiteShows == ReceiptsLast /\ NoteInv /\ Site => NoteShows' /\ VerdictTrue'
<1> SUFFICES ASSUME ReceiptsLast, NoteInv, Site PROVE NoteShows' /\ VerdictTrue'
  OBVIOUS
<1> USE DEF NoteInv, NoteShows, VerdictTrue
<1>0. /\ Wellformed /\ s.clicks \in 0..3 /\ s.made \in Nat /\ s.made <= s.clicks
      /\ (s.at \in Begun => s.clicks = 0) /\ (site.answer = "loading" => s.made < s.clicks)
  BY DEF ClicksInv, Wellformed, Sessions
<1>1. CASE Process
  <2>1. site'.page = site.page /\ site'.answer = site.answer
    BY <1>1, <1>0 DEF Process, Wellformed, Sites
  <2>2. QED
    BY <1>1, <2>1 DEF Process, Begun
<1>2. CASE Reset
  BY <1>2 DEF Reset, Clean, Begun
<1>3. CASE Respond
  <2>1. CASE /\ s' = [s EXCEPT !.made = @ + 1]
             /\ \/ site' = [site EXCEPT !.page = "success", !.answer = "none"]
                \/ site' = [site EXCEPT !.answer = "toast"]
    <3>1. s.made = 0 /\ s.clicks > 0 /\ s.at \notin Begun
      BY <1>3, <1>0 DEF Respond
    <3>2. s'.at = s.at /\ s'.clicks = s.clicks /\ s'.made = 1
      BY <1>0, <2>1, <3>1, MakeKeeps
    <3>3. \/ site'.page = "success" /\ site'.answer = "none"
          \/ site'.page = site.page /\ site'.answer = "toast"
      BY <1>0, <2>1 DEF Wellformed, Sites
    <3>4. QED
      BY <1>3, <3>1, <3>2, <3>3 DEF Respond, Begun
  <2>2. CASE /\ UNCHANGED <<notes, s>>
             /\ \E a \in {"notice", "ban"} : site' = [site EXCEPT !.answer = a]
    <3>1. s.made = 0
      BY <1>3, <1>0 DEF Respond
    <3>2. site'.page = site.page /\ site'.answer \in {"notice", "ban"}
      BY <1>0, <2>2 DEF Wellformed, Sites
    <3>3. s.at \notin Begun /\ s.clicks > 0
      BY <1>3, <1>0 DEF Respond
    <3>4. QED
      BY <1>3, <2>2, <3>1, <3>2, <3>3 DEF Respond, Begun
  <2>3. QED
    BY <1>3, <2>1, <2>2 DEF Respond
<1>4. CASE Fade
  <2>1. s' = s /\ s.at = "idle" /\ site'.answer # "loading" /\ verdict' = verdict
    BY <1>4, <1>0 DEF Fade, Clean, Wellformed, Sites
  <2>2. site'.answer \in {"none", site.answer}
    BY <1>4, <1>0 DEF Fade, Clean, Wellformed, Sites
  <2>3. QED
    BY <2>1, <2>2 DEF Begun
<1>5. QED
  BY <1>1, <1>2, <1>3, <1>4 DEF Site

LEMMA NotesShow == ReceiptsLast /\ Spec => []NoteInv
<1>1. Init => NoteInv
  BY InitClicks DEF Init, NoteInv, NoteShows, VerdictTrue, Clean, Begun
<1>2. ReceiptsLast /\ NoteInv /\ [Next]_vars => NoteInv'
  <2>1. NoteInv /\ UNCHANGED vars => NoteInv'
    BY DEF NoteInv, ClicksInv, Wellformed, NoteShows, VerdictTrue, vars
  <2>2. QED
    BY <2>1, SessionClicks, SiteClicks, SessionShows, SiteShows DEF Next, NoteInv
<1>3. ASSUME ReceiptsLast PROVE Spec => []NoteInv
  <2>1. NoteInv /\ [Next]_vars => NoteInv'
    BY <1>2, <1>3
  <2>2. QED
    BY <1>1, <2>1, PTL DEF Spec
<1>4. QED
  BY <1>3

(* However often a session clicks, and whatever the clicks hit, it publishes one *)
(* note at most, as long as an answer stays on the page until it is looked at.  *)
THEOREM OneNote == ReceiptsLast /\ Spec => []OneNotePerSession
<1>1. NoteInv => OneNotePerSession
  BY DEF NoteInv, NoteShows, OneNotePerSession
<1>2. QED
  BY <1>1, NotesShow, PTL

(* A success has made a note; a verdict that is never retried has made none.   *)
THEOREM VerdictsAreTrue == ReceiptsLast /\ Spec => []VerdictTrue
<1>1. NoteInv => VerdictTrue
  BY DEF NoteInv
<1>2. QED
  BY <1>1, NotesShow, PTL

(***************************************************************************)
(* What is published is the job's own                                      *)
(***************************************************************************)

(* The session's medium has been uploaded, and nothing has been typed.  *)
Uploaded(d) == d.media = "own" /\ d.title = "none" /\ d.body = "none"
(* The job's medium and texts. *)
Whole(d) == d.media = "own" /\ d.title = "own" /\ d.body = "own"

(* Before the texts are typed the editor is empty of other texts, even when it *)
(* was filled from the drafts: the newest of them is the one that a reset of   *)
(* this very session has left.  Only whole notes are ever clicked on.        *)
OwnInv ==
  /\ Wellformed
  /\ s.at = "upload" => site = Clean
  /\ s.at = "wait" =>
       /\ site.answer = "none" /\ site.page # "success"
       /\ IF kind = "images" /\ site.page = "upload" THEN drafts # <<>> /\ Uploaded(Newest(drafts))
          ELSE Uploaded(site.ed)
  /\ s.at = "fill" => Uploaded(site.ed) /\ site.answer = "none" /\ site.page = "editor"
  /\ s.at \in {"options", "find", "click", "watch", "heal", "settle"} /\ site.page = "editor" => Whole(site.ed)
  /\ site.answer = "loading" => Whole(site.ed)
  /\ OwnNote

(* Texts are typed once into an editor that has none. *)
LEMMA FilledOnce ==
  ASSUME NEW x \in Sites, Uploaded(x.ed),
         NEW a \in Typed(x.ed.title), NEW b \in Typed(x.ed.body),
         site' = [x EXCEPT !.ed.title = a, !.ed.body = b]
  PROVE  Whole(site'.ed) /\ site'.answer = x.answer
BY DEF Sites, Drafts, Uploaded, Whole, Typed

LEMMA InitOwn == Init => OwnInv
<1> SUFFICES ASSUME Init PROVE OwnInv
  OBVIOUS
<1>1. Wellformed
  BY InitClicks DEF ClicksInv
<1>2. OwnNote
  BY DEF Init, OwnNote
<1>3. QED
  BY <1>1, <1>2 DEF Init, OwnInv, Clean

LEMMA SessionOwn == ClicksInv /\ OwnInv /\ Session => OwnInv'
<1> SUFFICES ASSUME ClicksInv, OwnInv, Session PROVE OwnInv'
  OBVIOUS
<1>0. /\ Wellformed /\ Wellformed' /\ s.at \in Stations /\ site \in Sites
      /\ notes' = notes /\ OwnNote' /\ kind' = kind
  <2>1. Wellformed'
    BY SessionClicks DEF ClicksInv
  <2>2. notes' = notes /\ kind' = kind
    BY DEF Session, Open, Upload, Wait, Fill, Options, Find, Click, Watch, Healed, Settle
  <2>3. QED
    BY <2>1, <2>2 DEF OwnInv, OwnNote, Wellformed, Sessions
<1>1. CASE Open
  <2>1. s' \in Sessions /\ s'.at \in {"upload", "idle"} /\ site' = Clean
    BY <1>1 DEF Open, Sessions, Stations, Begun
  <2>2. QED
    BY <1>0, <2>1 DEF OwnInv, Clean
<1>2. CASE Upload
  <2>1. CASE (TakesImages \/ TakesVideo \/ TakesAudio) /\ Goes("wait")
    <3>1. s'.at = "wait"
      BY <1>0, <2>1, GoesKeeps DEF Stations, Begun
    <3>0. /\ site.page = "upload" /\ site.answer = "none"
          /\ site.ed.title = "none" /\ site.ed.body = "none"
      BY <1>2 DEF Upload, OwnInv, Clean, Blank
    <3>2. Uploaded(site'.ed) /\ site'.answer = "none" /\ site'.page # "success"
      BY <1>0, <2>1, <3>0 DEF Uploaded, TakesImages, TakesVideo, TakesAudio, Sites, Drafts
    <3>3. ~(kind' = "images" /\ site'.page = "upload")
      BY <1>0, <2>1 DEF TakesImages, TakesVideo, TakesAudio, Sites
    <3>4. QED
      BY <1>0, <3>1, <3>2, <3>3 DEF OwnInv
  <2>2. CASE UNCHANGED site /\ \E v \in {"failed", "login"} : End(v)
    BY <1>0, <2>2, EndKeeps DEF OwnInv, Verdicts
  <2>3. QED
    BY <1>2, <2>1, <2>2 DEF Upload, NoForm, NoLogin
<1>3. CASE Wait
  <2>1. CASE (GetsImages \/ GetsVideo \/ GetsAudio) /\ Goes("fill")
    <3>1. s'.at = "fill"
      BY <1>0, <2>1, GoesKeeps DEF Stations, Begun
    <3>2. site.answer = "none" /\ IF kind = "images" /\ site.page = "upload" THEN Uploaded(Newest(drafts))
                                  ELSE Uploaded(site.ed)
      BY <1>3 DEF Wait, OwnInv
    <3>3. Uploaded(site'.ed) /\ site'.answer = "none" /\ site'.page = "editor"
      BY <1>0, <2>1, <3>2 DEF GetsImages, GetsVideo, GetsAudio, Processed, FromDrafts, Sites, Uploaded
    <3>4. QED
      BY <1>0, <3>1, <3>3 DEF OwnInv
  <2>2. CASE UNCHANGED site /\ End("failed")
    BY <1>0, <2>2, EndKeeps DEF OwnInv, Verdicts
  <2>3. QED
    BY <1>3, <2>1, <2>2 DEF Wait, NoEditor, NotReady
<1>4. CASE Fill
  <2>0. Uploaded(site.ed) /\ site.answer = "none"
    BY <1>4 DEF Fill, OwnInv
  <2>1. CASE /\ \E t \in Typed(site.ed.title), b \in Typed(site.ed.body) :
                  site' = [site EXCEPT !.ed.title = t, !.ed.body = b]
             /\ Goes("options")
    <3>1. s'.at = "options"
      BY <1>0, <2>1, GoesKeeps DEF Stations, Begun
    <3>2. Whole(site'.ed)
      BY <1>0, <2>0, <2>1, FilledOnce
    <3>3. site'.answer = "none"
      BY <1>0, <2>0, <2>1, FilledOnce
    <3>4. QED
      BY <1>0, <3>1, <3>2, <3>3 DEF OwnInv
  <2>2. CASE site'.answer = "none" /\ End("failed")
    BY <1>0, <2>2, EndKeeps DEF OwnInv, Verdicts
  <2>3. ASSUME NEW t, site' = [site EXCEPT !.ed.title = t], End("failed")
        PROVE  OwnInv'
    <3>1. site'.answer = "none"
      BY <1>0, <2>0, <2>3 DEF Sites
    <3>2. QED
      BY <2>2, <2>3, <3>1
  <2>4. ASSUME NEW t, NEW b, site' = [site EXCEPT !.ed.title = t, !.ed.body = b], End("failed")
        PROVE  OwnInv'
    <3>1. site'.answer = "none"
      BY <1>0, <2>0, <2>4 DEF Sites
    <3>2. QED
      BY <2>2, <2>4, <3>1
  <2>5. CASE NotInteractable
    BY <2>0, <2>2, <2>5 DEF NotInteractable
  <2>6. QED
    BY <1>4, <2>1, <2>3, <2>4, <2>5 DEF Fill
<1>5. CASE Options
  <2>1. CASE Goes("find")
    BY <1>0, <1>5, <2>1, GoesKeeps DEF Options, OwnInv, Stations, Begun
  <2>2. CASE End("failed")
    BY <1>0, <1>5, <2>2, EndKeeps DEF Options, OwnInv, Verdicts
  <2>3. QED
    BY <1>5, <2>1, <2>2 DEF Options
<1>6. CASE s.at \in {"find", "click"} /\ site' \in Pressed /\ s'.at \in {"heal", "settle", "watch"}
  <2>1. site' = site \/ (site.page = "editor" /\ site' = [site EXCEPT !.answer = "loading"])
    BY <1>6 DEF Pressed
  <2>2. site'.page = site.page /\ site'.ed = site.ed
    BY <1>0, <2>1 DEF Sites
  <2>3. site.page = "editor" => Whole(site.ed)
    BY <1>6 DEF OwnInv
  <2>4. site'.answer = "loading" => Whole(site'.ed)
    BY <2>1, <2>2, <2>3 DEF OwnInv
  <2>5. QED
    BY <1>0, <1>6, <2>2, <2>3, <2>4 DEF OwnInv
<1>7. CASE /\ s.at \in {"find", "click", "watch", "heal", "settle"} /\ site' = site
           /\ s'.at \in {"click", "settle", "idle"}
  BY <1>0, <1>7 DEF OwnInv
<1>8. CASE Find
  <2>1. CASE site' \in Pressed /\ \E step \in {"heal", "settle"} : s' = [s EXCEPT !.at = step, !.clicks = 1]
    <3>0. PICK step \in {"heal", "settle"} : s' = [s EXCEPT !.at = step, !.clicks = 1]
      BY <2>1
    <3>1. s'.at = step
      <4>1. step \in Stations /\ 1 \in 0..3
        BY DEF Stations
      <4>2. QED
        BY <1>0, <3>0, <4>1, CountKeeps
    <3>2. QED
      BY <1>6, <1>8, <2>1, <3>1 DEF Find
  <2>2. CASE UNCHANGED site /\ Goes("click")
    BY <1>0, <1>7, <1>8, <2>2, GoesKeeps DEF Find, Stations
  <2>3. CASE UNCHANGED site /\ End("failed")
    BY <1>0, <1>7, <1>8, <2>3, EndKeeps DEF Find, Verdicts
  <2>4. QED
    BY <1>8, <2>1, <2>2, <2>3 DEF Find
<1>9. CASE Click
  <2>1. CASE site' \in Pressed /\ s' = [s EXCEPT !.at = "watch", !.clicks = @ + 1]
    <3>1. s.clicks + 1 \in 0..3
      BY <1>0, <1>9 DEF ClicksInv, Click, Wellformed, Sessions
    <3>2. s'.at = "watch"
      BY <1>0, <2>1, <3>1, CountKeeps DEF Stations
    <3>3. QED
      BY <1>6, <1>9, <2>1, <3>2 DEF Click
  <2>2. CASE UNCHANGED site /\ Goes("settle")
    BY <1>0, <1>7, <1>9, <2>2, GoesKeeps DEF Click, Stations
  <2>3. QED
    BY <1>9, <2>1, <2>2 DEF Click
<1>10. CASE Watch \/ Healed \/ Settle
  <2>1. s.at \in {"watch", "heal", "settle"} /\ site' = site
    BY <1>10 DEF Watch, Healed, Settle, TimesOut
  <2>2. \/ \E v \in {"success", "failed", "banned"} : End(v)
        \/ \E step \in {"settle", "click"} : Goes(step)
    BY <1>10 DEF Watch, Healed, Settle, Barred, TimesOut
  <2>3. s'.at \in {"click", "settle", "idle"}
    BY <1>0, <2>2, GoesKeeps, EndKeeps DEF Stations, Verdicts
  <2>4. QED
    BY <1>7, <2>1, <2>3
<1>11. QED
  BY <1>1, <1>2, <1>3, <1>4, <1>5, <1>8, <1>9, <1>10 DEF Session

LEMMA SiteOwn == ClicksInv /\ OwnInv /\ Site => OwnInv'
<1> SUFFICES ASSUME ClicksInv, OwnInv, Site PROVE OwnInv'
  OBVIOUS
<1>0. Wellformed /\ Wellformed' /\ site \in Sites /\ kind' = kind /\ s.at \in Stations
  <2>1. Wellformed'
    BY SiteClicks DEF ClicksInv
  <2>2. kind' = kind
    BY DEF Site, Process, Reset, Respond, Fade
  <2>3. QED
    BY <2>1, <2>2 DEF OwnInv, Wellformed, Sessions
<1>1. CASE Process
  <2>1. site' = [site EXCEPT !.ed.ready = TRUE]
    BY <1>1 DEF Process
  <2>2. /\ site'.page = site.page /\ site'.answer = site.answer
        /\ site'.ed.media = site.ed.media /\ site'.ed.title = site.ed.title /\ site'.ed.body = site.ed.body
    BY <1>0, <2>1 DEF Sites, Drafts
  <2>3. s.at # "upload"
    BY <1>1 DEF Process, OwnInv, Clean, Blank
  <2>4. OwnNote'
    BY <1>1 DEF Process, OwnInv, OwnNote
  <2>5. QED
    BY <1>0, <1>1, <2>2, <2>3, <2>4 DEF Process, OwnInv, Uploaded, Whole
<1>2. CASE Reset
  <2>1. s' = s /\ notes' = notes /\ site' = Clean /\ s.at = "wait" /\ kind = "images" /\ site.page = "editor"
    BY <1>2 DEF Reset
  <2>2. Uploaded(site.ed)
    BY <2>1 DEF OwnInv
  <2>3. drafts' # <<>> /\ Newest(drafts') = site.ed
    BY <1>0, <1>2 DEF Reset, Newest, Wellformed, Sites
  <2>4. QED
    BY <1>0, <2>1, <2>2, <2>3 DEF OwnInv, OwnNote, Clean
<1>3. CASE Respond
  <2>0. Whole(site.ed) /\ s'.at = s.at /\ s.at \notin {"upload", "wait", "fill"}
    BY <1>0, <1>3, MakeKeeps DEF Respond, OwnInv, Clean
  <2>1. site'.ed = site.ed /\ site'.answer # "loading"
    BY <1>0, <1>3 DEF Respond, Sites
  <2>2. notes' = notes \/ (site.ed.ready /\ notes' = Append(notes, site.ed))
    BY <1>3 DEF Respond
  <2>3. OwnNote'
    <3>1. CASE notes' = notes
      BY <3>1 DEF OwnInv, OwnNote
    <3>2. CASE site.ed.ready /\ notes' = Append(notes, site.ed)
      <4>1. site.ed = [media |-> "own", title |-> "own", body |-> "own", ready |-> TRUE]
        BY <1>0, <2>0, <3>2 DEF Whole, Sites, Drafts
      <4>2. notes \in Seq(Drafts) /\ site.ed \in Drafts
        BY <1>0 DEF Wellformed, Sites
      <4>3. Len(notes') = Len(notes) + 1 /\ notes'[Len(notes) + 1] = site.ed
        BY <3>2, <4>2
      <4>4. \A i \in 1..Len(notes) : notes'[i] = notes[i]
        BY <3>2, <4>2
      <4>5. DOMAIN notes' = 1..(Len(notes) + 1) /\ DOMAIN notes = 1..Len(notes) /\ Len(notes) \in Nat
        BY <3>2, <4>2
      <4>6. \A i \in 1..(Len(notes) + 1) : i \in 1..Len(notes) \/ i = Len(notes) + 1
        BY <4>5
      <4>7. QED
        BY <4>1, <4>3, <4>4, <4>5, <4>6 DEF OwnInv, OwnNote
    <3>3. QED
      BY <2>2, <3>1, <3>2
  <2>4. QED
    BY <1>0, <2>0, <2>1, <2>3 DEF OwnInv
<1>4. CASE Fade
  <2>1. s' = s /\ notes' = notes /\ drafts' = drafts
    BY <1>4 DEF Fade
  <2>2. CASE site.answer # "none" /\ site' = [site EXCEPT !.answer = "none"]
    <3>1. site'.page = site.page /\ site'.ed = site.ed /\ site'.answer = "none"
      BY <1>0, <2>2 DEF Sites
    <3>2. s.at # "upload"
      BY <2>2 DEF OwnInv, Clean
    <3>3. QED
      BY <1>0, <2>1, <3>1, <3>2 DEF OwnInv, OwnNote
  <2>3. CASE site.page = "success" /\ site' = Clean
    <3>1. s.at \notin {"upload", "wait", "fill"}
      BY <2>3 DEF OwnInv, Clean
    <3>2. QED
      BY <1>0, <2>1, <2>3, <3>1 DEF OwnInv, OwnNote, Clean
  <2>4. QED
    BY <1>4, <2>2, <2>3 DEF Fade
<1>5. QED
  BY <1>1, <1>2, <1>3, <1>4 DEF Site

LEMMA OwnKept == Spec => []OwnInv
<1>1. Init => OwnInv
  BY InitOwn
<1>2. ClicksInv /\ OwnInv /\ [Next]_vars => OwnInv'
  <2>1. OwnInv /\ UNCHANGED vars => OwnInv'
    BY DEF OwnInv, OwnNote, Wellformed, vars
  <2>2. QED
    BY <2>1, SessionOwn, SiteOwn DEF Next
<1>3. QED
  BY <1>1, <1>2, ClicksKept, PTL DEF Spec

(* Whatever drafts an account has, whether of earlier sessions of the job or of  *)
(* other jobs, and however often an editor is reset: nothing but the job's own  *)
(* medium and its texts, each typed once, is ever published.                *)
THEOREM OwnIsPublished == Spec => []OwnNote
<1>1. OwnInv => OwnNote
  BY DEF OwnInv
<1>2. QED
  BY <1>1, OwnKept, PTL

(***************************************************************************)
(* What the note wears                                                     *)
(***************************************************************************)

Told4 == {"collection", "quote", "activity", "original"}
Statuses == {"none", "done", "error", "skipped"}
Dresses == [topics : SUBSET (TopicNames \cup {"near"}), cover : {"frame", "ours"}, album : BOOLEAN,
            collection : {Null, "asked", "other"}, quote : {"none", "other", "wanted"},
            activity : BOOLEAN, original : BOOLEAN]
Tellings == [status : [Components -> Statuses], topics : SUBSET TopicNames]

(* A dress wears nothing but what w asks for. *)
Proper(d, w) ==
  /\ \A k \in {"collection", "quote", "activity"} : Wears(d, k) => k \in w
  /\ d.collection # "other" /\ (d.album => "album" \in w)
  /\ d.cover = "ours" => "cover" \in w

(* What is told of a dress is so. *)
True4(o, d) == \A k \in Told4 : o.status[k] = "done" => Wears(d, k)

(* All but the component k is as it was. *)
Only(k, d, e) ==
  /\ k # "collection" => e.collection = d.collection
  /\ k # "quote" => e.quote = d.quote
  /\ k # "activity" => e.activity = d.activity
  /\ k # "original" => e.original = d.original
  /\ k # "album" => e.album = d.album
  /\ k # "cover" => e.cover = d.cover

LEMMA BareTyped == Bare \in Dresses /\ \A w : Proper(Bare, w)
BY NoteAssumption DEF Bare, Dresses, Proper, Wears

(* The collection, the activity, the cover and the podcast collection: an       *)
(* outcome leaves the form as it was or with that component in it.            *)
LEMMA CollectionOutcome ==
  ASSUME NEW d \in Dresses, NEW o \in W!SetCollection(d, Ask)
  PROVE  /\ o.ed \in {d, [d EXCEPT !.collection = "asked"]} /\ o.status \in Statuses
         /\ o.status = "done" => o.ed.collection = "asked"
BY DEF W!SetCollection, W!Gives, W!Out, Ask, Statuses, Dresses

LEMMA ActivityOutcome ==
  ASSUME NEW d \in Dresses, NEW o \in W!SetActivity(d)
  PROVE  /\ o.ed \in {d, [d EXCEPT !.activity = TRUE]} /\ o.status \in Statuses
         /\ o.status = "done" => o.ed.activity
BY DEF W!SetActivity, W!Gives, W!Out, W!ActivityLabel, Statuses, Dresses

LEMMA CoverOutcome ==
  ASSUME NEW d \in Dresses, NEW o \in PreviewCover(d) \cup AudioCover(d)
  PROVE  o.ed \in {d, [d EXCEPT !.cover = "ours"]} /\ o.status \in Statuses
BY DEF PreviewCover, NoCoverInput, AudioCover, W!Gives, W!Out, Statuses

LEMMA AlbumOutcome ==
  ASSUME NEW d \in Dresses, NEW o \in ChooseAlbum(d)
  PROVE  o.ed \in {d, [d EXCEPT !.album = TRUE]} /\ o.status \in Statuses
BY DEF ChooseAlbum, W!Gives, W!Out, Statuses

(* The quote: a card that was chosen is that of a note within reach, so a         *)
(* confirmed one leaves a quote in the form.                                *)
LEMMA ChosenCard ==
  ASSUME NEW reach, NEW a \in W!SelectCard(reach), a[1] = "done"
  PROVE  a[2] \in reach
<1>1. ASSUME NEW p1, NEW b \in W!CardClick(reach, p1), p1 \in reach \cup {Null}
      PROVE  /\ b[2] \in reach \cup {Null}
             /\ b[1] = "done" => b[2] \in reach
  BY <1>1 DEF W!CardClick
<1>2. PICK b \in W!CardClick(reach, Null) :
        a \in (IF b[1] = "not_applied" THEN W!CardClick(reach, b[2]) ELSE {b})
  BY DEF W!SelectCard
<1>3. QED
  BY <1>1, <1>2

LEMMA SelectOutcome ==
  ASSUME NEW d \in Dresses, NEW reach, reach \subseteq {"wanted", "other"}, NEW o \in W!Select(d, reach)
  PROVE  /\ o.ed = d \/ \E p1 \in {"wanted", "other"} : o.ed = [d EXCEPT !.quote = p1]
         /\ o.status \in {"done", "error"}
         /\ o.status = "done" => o.ed.quote # "none"
<1>1. PICK a \in W!SelectCard(reach) :
        o \in (IF a[1] = "done" THEN W!Confirm(d, a[2]) ELSE W!Gives(d, {"error"}))
  BY DEF W!Select
<1>2. CASE a[1] = "done"
  <2>1. a[2] \in {"wanted", "other"}
    BY <1>2, ChosenCard
  <2>2. o \in W!Confirm(d, a[2])
    BY <1>1, <1>2
  <2>3. QED
    BY <2>1, <2>2 DEF W!Confirm, W!Gives, W!Out, Dresses
<1>3. CASE a[1] # "done"
  BY <1>1, <1>3 DEF W!Gives, W!Out
<1>4. QED
  BY <1>2, <1>3

LEMMA QuoteOutcome ==
  ASSUME NEW d \in Dresses, NEW o \in W!SetQuote(d, Ask)
  PROVE  /\ o.ed = d \/ \E p1 \in {"wanted", "other"} : o.ed = [d EXCEPT !.quote = p1]
         /\ o.status \in Statuses
         /\ o.status = "done" => o.ed.quote # "none"
<1>1. ASSUME NEW i \in W!InModal(d), i.status \in {"done", "error"}
      PROVE  /\ i.ed = d \/ \E p1 \in {"wanted", "other"} : i.ed = [d EXCEPT !.quote = p1]
             /\ i.status = "done" => i.ed.quote # "none"
  <2>1. PICK r \in W!ListRead :
          i \in (CASE r = "none" -> W!Gives(d, {"error"})
                   [] r = "hit" -> W!Gives(d, {"error"}) \cup W!Select(d, {"wanted", "other"})
                   [] OTHER -> W!Gives(d, {r}))
    BY DEF W!InModal
  <2>2. CASE i \in W!Select(d, {"wanted", "other"})
    BY <2>2, SelectOutcome
  <2>3. CASE r = "none" \/ (r = "hit" /\ i \in W!Gives(d, {"error"}))
    BY <2>1, <2>3 DEF W!Gives, W!Out
  <2>4. CASE r \in {"end", "more"}
    BY <1>1, <2>1, <2>4 DEF W!Gives, W!Out
  <2>5. QED
    BY <2>1, <2>2, <2>3, <2>4 DEF W!ListRead
<1>2. ASSUME o \in W!Gives(d, {"error"}) \cup W!ByOtherTab(d)
      PROVE  /\ o.ed = d \/ \E p1 \in {"wanted", "other"} : o.ed = [d EXCEPT !.quote = p1]
             /\ o.status \in {"done", "error"}
             /\ o.status = "done" => o.ed.quote # "none"
  <2>1. CASE o \in W!Select(d, {"wanted"})
    BY <2>1, SelectOutcome
  <2>2. CASE o \in W!Gives(d, {"error"})
    BY <2>2 DEF W!Gives, W!Out
  <2>3. QED
    BY <1>2, <2>1, <2>2 DEF W!ByOtherTab
<1>3. PICK i \in W!InModal(d) :
        o \in (IF i.status \in {"done", "error"} THEN {i}
               ELSE IF W!Blocked(Ask, i.status) THEN W!Gives(d, {"error"}) ELSE W!ByOtherTab(d))
  BY DEF W!SetQuote
<1>4. QED
  BY <1>1, <1>2, <1>3 DEF Statuses

LEMMA GivenAsIs ==
  ASSUME NEW d, NEW S, NEW o \in W!Gives(d, S)
  PROVE  o.ed = d /\ o.status \in S
BY DEF W!Gives, W!Out

(* The declaration of originality is told done only of a form that carries it.   *)
LEMMA ToggleOutcome ==
  ASSUME NEW d \in Dresses, NEW o \in W!Toggle(d)
  PROVE  /\ \E b \in BOOLEAN : o.ed = [d EXCEPT !.original = b]
         /\ o.status \in {"done", "error", "again"}
         /\ o.status = "done" => o.ed.original
<1> DEFINE flipped == [d EXCEPT !.original = ~d.original]
           on == [d EXCEPT !.original = TRUE]
<1>1. d = [d EXCEPT !.original = d.original] /\ d.original \in BOOLEAN /\ on.original
  BY DEF Dresses
<1>2. (~d.original) \in BOOLEAN
  OBVIOUS
<1>3. /\ o.ed \in {d, on, flipped} /\ o.status \in {"done", "error", "again"}
      /\ o.status = "done" => o.ed = on \/ (o.ed = flipped /\ flipped.original)
  <2>1. CASE o \in W!Consent(d)
    <3>1. (o.ed = d /\ o.status = "error") \/ (o.ed = on /\ o.status \in {"done", "error"})
      BY <2>1, GivenAsIs DEF W!Consent
    <3>2. QED
      BY <3>1
  <2>2. CASE o \in W!Gives(d, {"again"}) \cup W!Gives(flipped, {"again"})
    BY <2>2 DEF W!Gives, W!Out
  <2>3. CASE flipped.original /\ o \in W!Gives(flipped, {"done"})
    BY <2>3 DEF W!Gives, W!Out
  <2>4. QED
    BY <2>1, <2>2, <2>3 DEF W!Toggle
<1>4. \E b \in BOOLEAN : o.ed = [d EXCEPT !.original = b]
  <2>1. CASE o.ed = d
    BY <1>1, <2>1
  <2>2. CASE o.ed = on
    BY <2>2
  <2>3. CASE o.ed = flipped
    BY <1>2, <2>3
  <2>4. QED
    BY <1>3, <2>1, <2>2, <2>3
<1>5. QED
  BY <1>1, <1>3, <1>4

LEMMA OriginalOutcome ==
  ASSUME NEW d \in Dresses, NEW o \in W!SetOriginal(d)
  PROVE  /\ \E b \in BOOLEAN : o.ed = [d EXCEPT !.original = b]
         /\ o.status \in Statuses
         /\ o.status = "done" => o.ed.original
<1>0. d = [d EXCEPT !.original = d.original] /\ d.original \in BOOLEAN
  BY DEF Dresses
<1>1. CASE o \in W!Gives(d, {"skipped", "error"})
  BY <1>0, <1>1 DEF W!Gives, W!Out, Statuses
<1>2. CASE \E t \in W!Toggle(d) :
             o \in (IF t.status # "again" THEN {t}
                    ELSE {IF p.status = "again" THEN W!Out("error", p.ed) ELSE p : p \in W!Toggle(t.ed)})
  <2>1. PICK t \in W!Toggle(d) :
             o \in (IF t.status # "again" THEN {t}
                    ELSE {IF p.status = "again" THEN W!Out("error", p.ed) ELSE p : p \in W!Toggle(t.ed)})
    BY <1>2
  <2>2. CASE o = t /\ t.status # "again"
    BY <2>2, ToggleOutcome DEF Statuses
  <2>3. CASE \E p \in W!Toggle(t.ed) : o = IF p.status = "again" THEN W!Out("error", p.ed) ELSE p
    <3>1. PICK p \in W!Toggle(t.ed) : o = IF p.status = "again" THEN W!Out("error", p.ed) ELSE p
      BY <2>3
    <3>2. PICK b \in BOOLEAN : t.ed = [d EXCEPT !.original = b]
      BY ToggleOutcome
    <3>3. t.ed \in Dresses
      BY <3>2 DEF Dresses
    <3>4. PICK p1 \in BOOLEAN : p.ed = [t.ed EXCEPT !.original = p1]
      BY <3>3, ToggleOutcome
    <3>5. p.ed = [d EXCEPT !.original = p1]
      BY <3>2, <3>4 DEF Dresses
    <3>6. o.ed = p.ed /\ o.status \in {"done", "error"} /\ (o.status = "done" => o.ed.original)
      BY <3>1, <3>3, ToggleOutcome DEF W!Out
    <3>7. QED
      BY <3>5, <3>6 DEF Statuses
  <2>4. QED
    BY <2>1, <2>2, <2>3
<1>3. QED
  BY <1>1, <1>2 DEF W!SetOriginal, W!Gives

(* One component that is due: the form keeps wearing nothing but what is asked     *)
(* for, and what is told of it stays so.                                     *)
LEMMA ComponentKeeps ==
  ASSUME NEW k \in Components \ {"topics"}, NEW o \in Outcomes(k), dress \in Dresses,
         out.status \in [Components -> Statuses], out'.status = [out.status EXCEPT ![k] = o.status],
         dress' = o.ed, k # "original" => k \in want,
         Proper(dress, want), True4(out, dress)
  PROVE  /\ dress' \in Dresses /\ Proper(dress', want) /\ True4(out', dress')
         /\ out'.status \in [Components -> Statuses]
<1>1. /\ o.status \in Statuses /\ o.ed \in Dresses /\ Only(k, dress, o.ed)
      /\ k = "collection" => o.ed.collection \in {dress.collection, "asked"}
      /\ k \in Told4 /\ o.status = "done" => Wears(o.ed, k)
  <2>1. CASE k = "cover"
    BY <2>1, CoverOutcome DEF Outcomes, Only, Told4, Dresses
  <2>2. CASE k = "album"
    <3>1. o \in ChooseAlbum(dress)
      BY <2>2 DEF Outcomes
    <3>2. o.ed \in {dress, [dress EXCEPT !.album = TRUE]} /\ o.status \in Statuses
      BY <3>1, AlbumOutcome
    <3>3. QED
      BY <2>2, <3>2 DEF Only, Told4, Dresses
  <2>3. CASE k = "collection"
    BY <2>3, CollectionOutcome DEF Outcomes, Only, Wears, Dresses
  <2>4. CASE k = "quote"
    <3>1. o \in W!SetQuote(dress, Ask)
      BY <2>4 DEF Outcomes
    <3>2. o.ed = dress \/ \E p1 \in {"wanted", "other"} : o.ed = [dress EXCEPT !.quote = p1]
      BY <3>1, QuoteOutcome
    <3>3. o.status \in Statuses /\ (o.status = "done" => o.ed.quote # "none")
      BY <3>1, QuoteOutcome
    <3>4. QED
      BY <2>4, <3>2, <3>3 DEF Only, Wears, Dresses
  <2>5. CASE k = "activity"
    <3>1. o \in W!SetActivity(dress)
      BY <2>5 DEF Outcomes
    <3>2. o.ed \in {dress, [dress EXCEPT !.activity = TRUE]} /\ o.status \in Statuses
      BY <3>1, ActivityOutcome
    <3>3. o.status = "done" => o.ed.activity
      BY <3>1, ActivityOutcome
    <3>4. QED
      BY <2>5, <3>2, <3>3 DEF Only, Wears, Dresses
  <2>6. CASE k = "original"
    <3>1. o \in W!SetOriginal(dress)
      BY <2>6 DEF Outcomes
    <3>2. PICK b \in BOOLEAN : o.ed = [dress EXCEPT !.original = b]
      BY <3>1, OriginalOutcome
    <3>3. o.status \in Statuses /\ (o.status = "done" => o.ed.original)
      BY <3>1, OriginalOutcome
    <3>4. QED
      BY <2>6, <3>2, <3>3 DEF Only, Wears, Dresses
  <2>7. QED
    BY <2>1, <2>2, <2>3, <2>4, <2>5, <2>6 DEF Components
<1>2. Proper(dress', want)
  BY <1>1 DEF Proper, Wears, Only
<1>3. ASSUME NEW x \in Told4, out'.status[x] = "done" PROVE Wears(dress', x)
  <2>1. CASE x = k
    BY <1>1, <1>3, <2>1 DEF Told4, Components
  <2>2. CASE x # k
    <3>1. Wears(dress, x)
      BY <1>3, <2>2 DEF True4, Told4, Components
    <3>2. CASE x = "activity"
      BY <1>1, <2>2, <3>1, <3>2 DEF Wears, Only
    <3>3. CASE x = "original"
      BY <1>1, <2>2, <3>1, <3>3 DEF Wears, Only
    <3>4. CASE x = "collection"
      BY <1>1, <2>2, <3>1, <3>4 DEF Wears, Only
    <3>5. CASE x = "quote"
      BY <1>1, <2>2, <3>1, <3>5 DEF Wears, Only
    <3>6. QED
      BY <3>2, <3>3, <3>4, <3>5 DEF Told4
  <2>3. QED
    BY <2>1, <2>2
<1>4. QED
  BY <1>1, <1>2, <1>3 DEF True4

(* What is still to do is due. *)
Duly(seq) == seq \in Seq(Components) /\ \A i \in DOMAIN seq : Due(seq[i])

LEMMA StepsDuly == Duly(Steps)
<1>1. ASSUME NEW p, Duly(p), NEW k \in Components PROVE Duly(p \o Step(k))
  BY <1>1 DEF Duly, Step
<1>2. Duly(Step("topics"))
  <2>1. "topics" \in Components
    BY DEF Components
  <2>2. CASE Due("topics")
    <3>1. Step("topics") = <<"topics">>
      BY <2>2 DEF Step
    <3>2. \A k \in Components : /\ <<k>> \in Seq(Components) /\ <<k>>[1] = k
                                /\ \A i \in DOMAIN <<k>> : i = 1
      OBVIOUS
    <3>3. QED
      BY <2>1, <2>2, <3>1, <3>2, Zenon DEF Duly
  <2>3. CASE ~Due("topics")
    <3>1. Step("topics") = <<>>
      BY <2>3 DEF Step
    <3>2. <<>> \in Seq(Components) /\ \A i \in DOMAIN <<>> : FALSE
      OBVIOUS
    <3>3. QED
      BY <3>1, <3>2, Zenon DEF Duly
  <2>4. QED
    BY <2>2, <2>3
<1>3. QED
  <2>1. Duly(Step("topics") \o Step("cover"))
    BY <1>1, <1>2 DEF Components
  <2>2. Duly(Step("topics") \o Step("cover") \o Step("album"))
    BY <1>1, <2>1 DEF Components
  <2>3. Duly(Step("topics") \o Step("cover") \o Step("album") \o Step("collection"))
    BY <1>1, <2>2 DEF Components
  <2>4. Duly(Step("topics") \o Step("cover") \o Step("album") \o Step("collection") \o Step("quote"))
    BY <1>1, <2>3 DEF Components
  <2>5. Duly(Step("topics") \o Step("cover") \o Step("album") \o Step("collection") \o Step("quote")
               \o Step("activity"))
    BY <1>1, <2>4 DEF Components
  <2>6. QED
    BY <1>1, <2>5 DEF Components, Steps

(* The form wears nothing that was not asked for, since it starts empty and an     *)
(* editor that is got back from the drafts gets back the empty draft that this    *)
(* session's reset left (bare); what is told of it is so until the session ends,  *)
(* and as long as a click of it may still be answered.                        *)
DressInv ==
  /\ dress \in Dresses /\ out \in Tellings /\ Duly(todo)
  /\ bare \in Seq(BOOLEAN) /\ worn \in Seq(Dresses)
  /\ Proper(dress, want) /\ \A i \in DOMAIN worn : Proper(worn[i], want)
  /\ s.at \in {"upload", "wait", "fill"} => \A k \in Told4 : out.status[k] = "none"
  /\ s.at \in {"upload", "wait"} /\ kind = "images" => dress = Bare
  /\ s.at = "wait" /\ kind = "images" /\ site.page = "upload" => bare # <<>> /\ Last(bare)
  /\ s.at # "idle" \/ site.answer = "loading" => True4(out, dress)
  /\ s.made > 0 => worn # <<>> /\ True4(out, Last(worn))

LEMMA NoneTold ==
  ASSUME NEW o, \A k \in Told4 : o.status[k] = "none"
  PROVE  \A d : True4(o, d)
BY DEF True4

LEMMA NoteInitDress == NoteInit => DressInv
<1> SUFFICES ASSUME NoteInit PROVE DressInv
  OBVIOUS
<1>1. out \in Tellings /\ \A k \in Told4 : out.status[k] = "none"
  BY DEF NoteInit, Tellings, Untold, Statuses, Told4, Components
<1>2. bare \in Seq(BOOLEAN)
  <2>1. drafts \in Seq(Drafts)
    BY PageAssumption DEF NoteInit, Init
  <2>2. DOMAIN drafts = 1..Len(drafts) /\ Len(drafts) \in Nat
    BY <2>1
  <2>3. bare = [i \in 1..Len(drafts) |-> FALSE]
    BY <2>2 DEF NoteInit
  <2>4. QED
    BY <2>2, <2>3
<1>3. QED
  BY <1>1, <1>2, BareTyped, NoneTold DEF NoteInit, Init, DressInv, Duly, Clean

(* What the site keeps, dressed as it is. *)
LEMMA KeptDress ==
  ASSUME DressInv, Kept, UNCHANGED want
  PROVE  /\ bare' \in Seq(BOOLEAN) /\ worn' \in Seq(Dresses)
         /\ \A i \in DOMAIN worn' : Proper(worn'[i], want')
         /\ drafts' = drafts => bare' = bare
         /\ drafts' # drafts => bare' # <<>> /\ Last(bare') = (dress = Bare)
         /\ notes' = notes => worn' = worn
         /\ notes' # notes => worn' # <<>> /\ Last(worn') = dress
<1>1. bare' \in Seq(BOOLEAN) /\ (drafts' # drafts => bare' # <<>> /\ Last(bare') = (dress = Bare))
  <2>1. CASE drafts' = drafts
    BY <2>1 DEF Kept, DressInv
  <2>2. CASE drafts' # drafts
    <3>1. bare' = Append(bare, dress = Bare) /\ (dress = Bare) \in BOOLEAN
      BY <2>2 DEF Kept
    <3>2. QED
      BY <3>1 DEF DressInv, Last
  <2>3. QED
    BY <2>1, <2>2
<1>2. CASE notes' = notes
  BY <1>1, <1>2 DEF Kept, DressInv
<1>3. CASE notes' # notes
  <2>1. worn' = Append(worn, dress) /\ worn \in Seq(Dresses) /\ dress \in Dresses
    BY <1>3 DEF Kept, DressInv
  <2>2. worn' \in Seq(Dresses) /\ worn' # <<>> /\ Last(worn') = dress
    BY <2>1 DEF Last
  <2>3. \A i \in DOMAIN worn' : Proper(worn'[i], want)
    <3>1. /\ DOMAIN worn' = 1..(Len(worn) + 1) /\ DOMAIN worn = 1..Len(worn) /\ Len(worn) \in Nat
          /\ worn'[Len(worn) + 1] = dress /\ \A i \in 1..Len(worn) : worn'[i] = worn[i]
      BY <2>1
    <3>2. \A i \in 1..(Len(worn) + 1) : i \in 1..Len(worn) \/ i = Len(worn) + 1
      BY <3>1
    <3>3. QED
      BY <3>1, <3>2 DEF DressInv
  <2>4. QED
    BY <1>1, <1>3, <2>2, <2>3 DEF Kept
<1>4. QED
  BY <1>2, <1>3

(* Where a session's step leads, and the notes it does not make. *)
LEMMA Leads ==
  ASSUME ClicksInv
  PROVE  /\ Upload => /\ s'.at \in {"wait", "idle"} /\ s'.made = s.made /\ notes' = notes
                      /\ s'.at = "wait" /\ kind = "images" => site'.page = "editor"
         /\ Wait => s'.at \in {"fill", "idle"} /\ s'.made = s.made /\ notes' = notes
         /\ Fill \/ Options \/ Find \/ Click \/ Watch \/ Healed \/ Settle =>
              s'.at \notin {"upload", "wait", "fill"} /\ s'.made = s.made /\ notes' = notes
<1>0. s \in Sessions /\ site \in Sites /\ (s.at = "click" => s.clicks < 3) /\ Wellformed
  BY DEF ClicksInv, Wellformed
<1>1. \A step \in Stations : Goes(step) => s'.at = step /\ s'.made = s.made
  BY <1>0, GoesKeeps
<1>2. \A v \in Verdicts : End(v) => s'.at = "idle" /\ s'.made = s.made
  BY <1>0, EndKeeps
<1>3. ASSUME Upload
      PROVE  /\ s'.at \in {"wait", "idle"} /\ s'.made = s.made /\ notes' = notes
             /\ s'.at = "wait" /\ kind = "images" => site'.page = "editor"
  <2>1. CASE (TakesImages \/ TakesVideo \/ TakesAudio) /\ Goes("wait")
    <3>1. kind = "images" => site'.page = "editor"
      BY <1>0, <2>1 DEF TakesImages, TakesVideo, TakesAudio, Sites
    <3>2. QED
      BY <1>1, <1>3, <2>1, <3>1 DEF Upload, Stations, Begun
  <2>2. CASE NoForm \/ NoLogin
    BY <1>2, <1>3, <2>2 DEF Upload, NoForm, NoLogin, Verdicts
  <2>3. QED
    BY <1>3, <2>1, <2>2 DEF Upload
<1>4. ASSUME Wait PROVE s'.at \in {"fill", "idle"} /\ s'.made = s.made /\ notes' = notes
  <2>1. Goes("fill") \/ End("failed")
    BY <1>4 DEF Wait, NoEditor, NotReady
  <2>2. QED
    BY <1>1, <1>2, <1>4, <2>1 DEF Wait, Stations, Begun, Verdicts
<1>5. ASSUME Fill \/ Options \/ Find \/ Click \/ Watch \/ Healed \/ Settle
      PROVE  s'.at \notin {"upload", "wait", "fill"} /\ s'.made = s.made /\ notes' = notes
  <2>1. \/ \E step \in {"options", "find", "click", "settle"} : Goes(step)
        \/ \E v \in {"failed", "banned", "success"} : End(v)
        \/ \E step \in {"heal", "settle", "watch"}, p1 \in 0..3 : s' = [s EXCEPT !.at = step, !.clicks = p1]
    <3>1. CASE Fill \/ Options
      BY <3>1 DEF Fill, Options, NotInteractable
    <3>2. CASE Find
      BY <3>2 DEF Find
    <3>3. CASE Click
      <4>1. s.clicks + 1 \in 0..3
        BY <1>0, <3>3 DEF Click, Sessions
      <4>2. QED
        BY <3>3, <4>1 DEF Click
    <3>4. CASE Watch \/ Healed \/ Settle
      BY <3>4 DEF Watch, Healed, Settle, Barred, TimesOut
    <3>5. QED
      BY <1>5, <3>1, <3>2, <3>3, <3>4
  <2>2. notes' = notes
    BY <1>5 DEF Fill, Options, Find, Click, Watch, Healed, Settle
  <2>3. CASE \E step \in {"heal", "settle", "watch"}, p1 \in 0..3 : s' = [s EXCEPT !.at = step, !.clicks = p1]
    <3>1. PICK step \in {"heal", "settle", "watch"}, p1 \in 0..3 : s' = [s EXCEPT !.at = step, !.clicks = p1]
      BY <2>3
    <3>2. step \in Stations
      BY DEF Stations
    <3>3. QED
      BY <1>0, <2>2, <3>1, <3>2, CountKeeps
  <2>4. QED
    BY <1>1, <1>2, <2>1, <2>2, <2>3 DEF Stations, Begun, Verdicts
<1>6. QED
  BY <1>3, <1>4, <1>5

(* A step of the session that leaves the form and what is told alone, after the     *)
(* texts are in, or ends it.                                                *)
LEMMA SameDress ==
  ASSUME DressInv, Kept, UNCHANGED <<want, dress, todo, out, kind>>, notes' = notes,
         s'.made = s.made, s'.at \notin {"upload", "wait", "fill"}, s.at # "idle"
  PROVE  DressInv'
<1>1. True4(out', dress')
  BY DEF DressInv
<1>2. QED
  BY <1>1, KeptDress DEF DressInv, Duly, Due

LEMMA OpenDress == ClicksInv /\ DressInv /\ OpenNote => DressInv'
<1> SUFFICES ASSUME ClicksInv, DressInv, OpenNote PROVE DressInv'
  OBVIOUS
<1>1. out' \in Tellings /\ \A k \in Told4 : out'.status[k] = "none"
  BY DEF OpenNote, Tellings, Untold, Statuses, Told4, Components
<1>2. site' = Clean /\ s'.made = 0 /\ s'.at \in {"upload", "idle"} /\ kind' = kind
  BY DEF OpenNote, Open
<1>3. Duly(todo)'
  BY StepsDuly, <1>2 DEF OpenNote, Duly, Due
<1>4. \A d : True4(out', d)
  BY <1>1, NoneTold
<1>5. /\ dress' = Bare /\ bare' = bare /\ worn' = worn /\ want' = want
  BY DEF OpenNote
<1>6. dress' \in Dresses /\ Proper(dress', want') /\ True4(out', dress')
  BY <1>4, <1>5, BareTyped
<1>7. QED
  BY <1>1, <1>2, <1>3, <1>5, <1>6 DEF DressInv, Clean

LEMMA UploadDress == ClicksInv /\ DressInv /\ UploadNote => DressInv'
<1> SUFFICES ASSUME ClicksInv, DressInv, UploadNote PROVE DressInv'
  OBVIOUS
<1>1. /\ s.at = "upload" /\ s'.at \in {"wait", "idle"} /\ s'.made = s.made /\ notes' = notes
      /\ s'.at = "wait" /\ kind = "images" => site'.page = "editor"
      /\ kind' = kind /\ want' = want /\ todo' = todo
  BY Leads DEF UploadNote, Upload
<1>2. /\ dress' \in Dresses /\ out' \in Tellings /\ Proper(dress', want)
      /\ \A k \in Told4 : out'.status[k] = out.status[k]
      /\ kind = "images" => dress' = dress
  <2>1. CASE kind = "audio" /\ "cover" \in want /\ s'.at = "wait"
    <3>1. PICK o \in AudioCover(dress) :
            dress' = o.ed /\ out' = [out EXCEPT !.status["cover"] = o.status]
      BY <2>1 DEF UploadNote
    <3>2. o.ed \in {dress, [dress EXCEPT !.cover = "ours"]} /\ o.status \in Statuses
      BY <3>1, CoverOutcome DEF DressInv
    <3>3. o.ed \in Dresses /\ Proper(o.ed, want)
      BY <2>1, <3>2 DEF DressInv, Dresses, Proper, Wears
    <3>4. out' \in Tellings /\ \A k \in Told4 : out'.status[k] = out.status[k]
      BY <3>1, <3>2 DEF DressInv, Tellings, Told4, Components
    <3>5. QED
      BY <2>1, <3>1, <3>3, <3>4
  <2>2. CASE ~(kind = "audio" /\ "cover" \in want /\ s'.at = "wait")
    BY <2>2 DEF UploadNote, DressInv
  <2>3. QED
    BY <2>1, <2>2
<1>3. \A k \in Told4 : out'.status[k] = "none"
  BY <1>1, <1>2 DEF DressInv
<1>4. \A d : True4(out', d)
  BY <1>3, NoneTold
<1>5. Kept /\ Duly(todo)'
  BY <1>1 DEF UploadNote, DressInv, Duly, Due
<1>6. QED
  BY <1>1, <1>2, <1>3, <1>4, <1>5, KeptDress DEF DressInv

LEMMA WaitDress == ClicksInv /\ OwnInv /\ DressInv /\ WaitNote => DressInv'
<1> SUFFICES ASSUME ClicksInv, OwnInv, DressInv, WaitNote PROVE DressInv'
  OBVIOUS
<1>1. /\ s.at = "wait" /\ s'.at \in {"fill", "idle"} /\ s'.made = s.made /\ notes' = notes
      /\ kind' = kind /\ want' = want /\ todo' = todo /\ out' = out /\ Kept
  BY Leads DEF WaitNote, Wait
<1>2. dress' = dress
  BY <1>1 DEF WaitNote, DressInv
<1>3. \A k \in Told4 : out'.status[k] = "none"
  BY <1>1 DEF DressInv
<1>4. \A d : True4(out', d)
  BY <1>3, NoneTold
<1>5. Duly(todo)'
  BY <1>1 DEF DressInv, Duly, Due
<1>6. QED
  BY <1>1, <1>2, <1>3, <1>4, <1>5, KeptDress DEF DressInv

LEMMA DressDress == ClicksInv /\ DressInv /\ Dress => DressInv'
<1> SUFFICES ASSUME ClicksInv, DressInv, Dress PROVE DressInv'
  OBVIOUS
<1>0. /\ s.at = "options" /\ todo # <<>> /\ todo' = Tail(todo) /\ vars' = vars
      /\ want' = want /\ bare' = bare /\ worn' = worn
      /\ dress \in Dresses /\ out \in Tellings /\ Proper(dress, want) /\ True4(out, dress)
  BY DEF Dress, DressInv
<1>1. Head(todo) \in Components /\ Due(Head(todo)) /\ Duly(Tail(todo))
  BY <1>0 DEF DressInv, Duly
<1>2. Duly(todo)'
  BY <1>0, <1>1 DEF Duly, Due, vars
<1>3. dress' \in Dresses /\ out' \in Tellings /\ Proper(dress', want) /\ True4(out', dress')
  <2>1. CASE Head(todo) = "topics"
    <3>1. PICK run \in TopicRuns : \E hit \in SUBSET Clicked(run) :
            /\ dress' = [dress EXCEPT !.topics = @ \cup Chips(run, hit)]
            /\ out' = [out EXCEPT !.topics = Clicked(run)]
      BY <2>1 DEF Dress, SetTopics
    <3>a. PICK hit \in SUBSET Clicked(run) :
            /\ dress' = [dress EXCEPT !.topics = @ \cup Chips(run, hit)]
            /\ out' = [out EXCEPT !.topics = Clicked(run)]
      BY <3>1
    <3>2. Chips(run, hit) \subseteq TopicNames \cup {"near"} /\ Clicked(run) \subseteq TopicNames
      BY <3>1 DEF TopicRuns, Clicked, Chips
    <3>3. dress' \in Dresses /\ out' \in Tellings
      BY <1>0, <3>a, <3>2 DEF Dresses, Tellings
    <3>4. Only("topics", dress, dress') /\ out'.status = out.status
      BY <1>0, <3>a DEF Only, Dresses, Tellings
    <3>5. \A k \in Told4 : Wears(dress', k) = Wears(dress, k)
      BY <3>4 DEF Only, Wears, Told4
    <3>6. QED
      BY <1>0, <3>3, <3>4, <3>5 DEF Proper, True4, Only, Told4
  <2>2. CASE Head(todo) # "topics"
    <3>1. PICK o \in Outcomes(Head(todo)) :
            dress' = o.ed /\ out' = [out EXCEPT !.status[Head(todo)] = o.status]
      BY <2>2 DEF Dress
    <3>2. /\ out.status \in [Components -> Statuses] /\ out'.topics = out.topics
          /\ out'.status = [out.status EXCEPT ![Head(todo)] = o.status]
          /\ out' = [status |-> out'.status, topics |-> out'.topics]
      BY <1>0, <3>1 DEF Tellings
    <3>3. Head(todo) # "original" => Head(todo) \in want
      BY <1>1, <2>2 DEF Due, Components
    <3>4. /\ dress' \in Dresses /\ Proper(dress', want) /\ True4(out', dress')
          /\ out'.status \in [Components -> Statuses]
      BY <1>0, <1>1, <2>2, <3>1, <3>2, <3>3, ComponentKeeps
    <3>5. QED
      BY <1>0, <3>2, <3>4 DEF Tellings
  <2>3. QED
    BY <2>1, <2>2
<1>4. s' = s /\ site' = site /\ kind' = kind
  BY <1>0 DEF vars
<1>5. s.at \notin {"upload", "wait", "fill"} /\ bare' \in Seq(BOOLEAN) /\ worn' \in Seq(Dresses)
  BY <1>0 DEF DressInv
<1>6. (\A i \in DOMAIN worn : Proper(worn[i], want))' /\ ~(s'.made > 0)
  BY <1>0, <1>4 DEF DressInv, ClicksInv, Wellformed, Sessions, Begun
<1>7. QED
  BY <1>0, <1>2, <1>3, <1>4, <1>5, <1>6 DEF DressInv

LEMMA SessionDress == ClicksInv /\ DressInv /\ (OptionsNote \/ ClickNote) => DressInv'
<1> SUFFICES ASSUME ClicksInv, DressInv, OptionsNote \/ ClickNote PROVE DressInv'
  OBVIOUS
<1>1. /\ Options \/ Fill \/ Find \/ Click \/ Watch \/ Healed \/ Settle
      /\ Kept /\ UNCHANGED <<want, dress, todo, out>>
  BY DEF OptionsNote, ClickNote
<1>2. s.at # "idle" /\ kind' = kind
  BY <1>1 DEF Fill, Options, Find, Click, Watch, Healed, Settle
<1>3. s'.at \notin {"upload", "wait", "fill"} /\ s'.made = s.made /\ notes' = notes
  BY <1>1, Leads
<1>4. QED
  BY <1>1, <1>2, <1>3, SameDress

(* An answer dresses the note as the form is; a reset leaves the empty draft that   *)
(* the session will get back.                                                *)
LEMMA SiteDress == ReceiptsLast /\ ClicksInv /\ DressInv /\ SiteNote => DressInv'
<1> SUFFICES ASSUME ReceiptsLast, ClicksInv, DressInv, SiteNote PROVE DressInv'
  OBVIOUS
<1>0. /\ site \in Sites /\ s \in Sessions /\ Kept /\ kind' = kind
      /\ want' = want /\ todo' = todo /\ out' = out /\ Duly(todo)'
      /\ dress' = IF site' = Clean THEN Bare ELSE dress
  BY DEF SiteNote, ClicksInv, Wellformed, DressInv, Duly, Due, Process, Respond, Fade, Reset
<1>k. /\ bare' \in Seq(BOOLEAN) /\ worn' \in Seq(Dresses)
      /\ \A i \in DOMAIN worn' : Proper(worn'[i], want')
      /\ drafts' = drafts => bare' = bare
      /\ notes' = notes => worn' = worn
  BY <1>0, KeptDress
<1>1. dress' \in Dresses /\ Proper(dress', want) /\ out' \in Tellings
  BY <1>0, BareTyped DEF DressInv
<1>2. CASE Process
  <2>1. /\ site'.ed.ready /\ site'.page = site.page /\ site'.answer = site.answer
        /\ s' = s /\ notes' = notes /\ drafts' = drafts
    BY <1>0, <1>2 DEF Process, Sites, Drafts
  <2>2. dress' = dress
    BY <1>0, <2>1 DEF Clean, Blank
  <2>3. bare' = bare /\ worn' = worn
    BY <1>k, <2>1
  <2>4. QED
    BY <1>0, <1>k, <1>1, <2>1, <2>2, <2>3 DEF DressInv
<1>3. CASE Reset
  <2>1. /\ s.at = "wait" /\ kind = "images" /\ dress' = Bare /\ site'.answer = "none"
        /\ s' = s /\ notes' = notes /\ dress = Bare /\ drafts' # drafts
    BY <1>0, <1>3 DEF Reset, DressInv, Clean
  <2>2. True4(out', dress')
    BY <1>0, <2>1, NoneTold DEF DressInv
  <2>3. QED
    BY <1>0, <1>1, <2>1, <2>2, KeptDress DEF DressInv
<1>4. CASE Respond
  <2>1. site.answer = "loading" /\ s'.at = s.at /\ drafts' = drafts /\ True4(out, dress)
    BY <1>0, <1>4 DEF Respond, DressInv, Sessions
  <2>2. CASE notes' = notes /\ s' = s
    <3>1. site'.answer # "none" /\ site'.page = site.page
      BY <1>0, <1>4, <2>2 DEF Respond, Sites
    <3>2. QED
      BY <1>0, <1>1, <2>1, <2>2, <3>1, KeptDress DEF DressInv, Clean
  <2>3. CASE notes' # notes
    <3>1. site'.page = "success" \/ (site'.answer = "toast" /\ site'.page = site.page)
      BY <1>0, <1>4, <2>3 DEF Respond, Sites
    <3>2. dress' = dress
      BY <1>0, <3>1 DEF Clean
    <3>3. QED
      BY <1>0, <1>1, <2>1, <2>3, <3>1, <3>2, KeptDress DEF DressInv
  <2>4. notes \in Seq(Drafts) => Append(notes, site.ed) # notes
    OBVIOUS
  <2>5. QED
    BY <1>4, <2>2, <2>3, <2>4 DEF Respond, ClicksInv, Wellformed
<1>5. CASE Fade
  <2>1. s.at = "idle" /\ s' = s /\ notes' = notes /\ site'.answer # "loading"
    BY <1>0, <1>5 DEF Fade, Clean, Sites
  <2>2. QED
    BY <1>0, <1>1, <2>1, KeptDress DEF DressInv
<1>6. QED
  BY <1>2, <1>3, <1>4, <1>5 DEF SiteNote

(* The publication with its components is that of the page, which does not see   *)
(* them.                                                                   *)
LEMMA NotePlain == NoteSpec => Spec
<1>1. NoteInit => Init
  BY DEF NoteInit
<1>2. [NoteNext]_noteVars => [Next]_vars
  <2>1. Dress \/ UNCHANGED noteVars => UNCHANGED vars
    BY DEF Dress, noteVars
  <2>2. OpenNote \/ UploadNote \/ WaitNote \/ OptionsNote \/ ClickNote \/ SiteNote => Next
    BY DEF OpenNote, UploadNote, WaitNote, OptionsNote, ClickNote, SiteNote, Next, Session, Site
  <2>3. QED
    BY <2>1, <2>2 DEF NoteNext
<1>3. QED
  BY <1>1, <1>2, PTL DEF NoteSpec, Spec

LEMMA DressHolds == ReceiptsLast /\ NoteSpec => []DressInv
<1>1. ReceiptsLast /\ ClicksInv /\ OwnInv /\ DressInv /\ [NoteNext]_noteVars => DressInv'
  <2> SUFFICES ASSUME ReceiptsLast, ClicksInv, OwnInv, DressInv, [NoteNext]_noteVars PROVE DressInv'
    OBVIOUS
  <2>1. CASE UNCHANGED noteVars
    BY <2>1 DEF DressInv, Duly, Due, noteVars, vars, dressVars
  <2>2. QED
    BY <2>1, OpenDress, UploadDress, WaitDress, DressDress, SessionDress, SiteDress DEF NoteNext
<1>2. ASSUME ReceiptsLast PROVE NoteSpec => []DressInv
  <2>1. ClicksInv /\ OwnInv /\ DressInv /\ [NoteNext]_noteVars => DressInv'
    BY <1>1, <1>2
  <2>2. QED
    BY <2>1, NoteInitDress, NotePlain, ClicksKept, OwnKept, PTL DEF NoteSpec
<1>3. QED
  BY <1>2

(* What the job is told of its note is so: a collection, a quote, an activity or a *)
(* declaration of originality called done is on the published note, and no note   *)
(* wears what was not asked for, as long as what answers a click stays to be seen. *)
THEOREM ToldIsWorn == ReceiptsLast /\ NoteSpec => []WearsWhatIsTold
<1>1. ASSUME DressInv, NoteInv PROVE WearsWhatIsTold
  <2>1. /\ verdict = "success" => s.made > 0 /\ worn # <<>> /\ True4(out, Last(worn))
        /\ \A i \in DOMAIN worn : Proper(worn[i], want)
    BY <1>1 DEF DressInv, NoteInv, VerdictTrue
  <2>2. QED
    BY <2>1 DEF WearsWhatIsTold, True4, Told4, Proper
<1>2. ASSUME ReceiptsLast PROVE NoteSpec => []WearsWhatIsTold
  <2>1. NoteSpec => []DressInv
    BY <1>2, DressHolds
  <2>2. Spec => []NoteInv
    BY <1>2, NotesShow
  <2>3. QED
    BY <1>1, <2>1, <2>2, NotePlain, PTL
<1>3. QED
  BY <1>2

(***************************************************************************)
(* THE SHELF OF COLLECTIONS                                                *)
(***************************************************************************)

(***************************************************************************)
(* Collections                                                             *)
(***************************************************************************)

ShelfSessions ==
  [at: {"free", "look", "form", "clicked", "round"}, kind: Kinds \cup {None}, name: Names \cup {None},
   carrier: Shelf \cup {None}, dry: BOOLEAN, asked: Seq(Shelf), todo: Seq(Shelf),
   notes: [Shelf -> {"none", "error", "in", "out", "skipped", "removed"}]]
Reasons == {"none", "not_opened", "exists", "not_filled", "unclear", "wall"}
Reports ==
  [verdict: {"none", "error", "done", "unknown", "round"}, reason: Reasons, of: ShelfSessions,
   remaining: SUBSET Shelf]
Creations == [no: Nat, kind: Kinds, name: Names, carrier: Shelf]

ShelfTyped ==
  /\ have \in [Kinds -> [Names -> Nat]] /\ doubt \in [Kinds -> [Names -> Int]]
  /\ member \in [Shelf -> Names \cup {None}] /\ leaving \subseteq Shelf
  /\ coming \subseteq Creations /\ IsFiniteSet(coming) /\ asks \in Nat
  /\ c \in ShelfSessions /\ told \in Reports
  /\ c.at \in {"look", "form", "clicked"} => c.kind \in Kinds /\ c.name \in Names /\ c.carrier \in Shelf
  /\ c.at = "round" => c.name \in Names

LEMMA FreeTyped == Free \in ShelfSessions /\ Unsaid \in Reports
<1>1. Free \in ShelfSessions
  BY DEF Free, ShelfSessions, NoEntries
<1>2. Unsaid \in Reports
  BY <1>1 DEF Unsaid, Reports, Reasons
<1>3. QED
  BY <1>1, <1>2

LEMMA TellTypes ==
  ASSUME ShelfTyped, NEW answer \in {"error", "done", "unknown"}, NEW reason \in Reasons, Tell(answer, reason)
  PROVE  c' = Free /\ c'.at = "free" /\ c' \in ShelfSessions /\ told' \in Reports
         /\ told'.verdict = answer /\ told'.of = c
<1>1. c' = Free /\ c \in ShelfSessions
  BY DEF Tell, ShelfTyped
<1>2. c'.at = "free" /\ c' \in ShelfSessions
  BY <1>1, FreeTyped DEF Free
<1>3. told' \in Reports /\ told'.verdict = answer /\ told'.of = c
  BY <1>1 DEF Tell, Reports
<1>4. QED
  BY <1>1, <1>2, <1>3

(* A session that goes on keeps its request. *)
LEMMA GoesOnTypes ==
  ASSUME c \in ShelfSessions, NEW step \in {"form", "clicked"}, c' = [c EXCEPT !.at = step]
  PROVE  /\ c' \in ShelfSessions /\ c'.at = step
         /\ c'.kind = c.kind /\ c'.name = c.name /\ c'.carrier = c.carrier
BY DEF ShelfSessions

LEMMA ShelfInitTypes == ShelfInit => ShelfTyped
<1> SUFFICES ASSUME ShelfInit PROVE ShelfTyped
  OBVIOUS
<1>1. have \in [Kinds -> [Names -> Nat]]
  BY DEF ShelfInit
<1>2. /\ doubt \in [Kinds -> [Names -> Int]] /\ member \in [Shelf -> Names \cup {None}]
      /\ leaving \subseteq Shelf /\ coming \subseteq Creations /\ asks \in Nat
  BY DEF ShelfInit
<1>3. IsFiniteSet(coming)
  BY FS_EmptySet DEF ShelfInit
<1>4. c \in ShelfSessions /\ told \in Reports /\ c.at = "free"
  BY FreeTyped DEF ShelfInit, Free
<1>5. QED
  BY <1>1, <1>2, <1>3, <1>4 DEF ShelfTyped

LEMMA SetToSeqsTyped ==
  ASSUME NEW S \in SUBSET Shelf, NEW order \in SetToSeqs(S)
  PROVE  order \in Seq(Shelf)
<1>1. Cardinality(S) \in Nat
  BY ShelfGiven, FS_Subset, FS_CardinalityType
<1>2. order \in [1..Cardinality(S) -> S]
  BY DEF SetToSeqs
<1>3. QED
  BY <1>1, <1>2

LEMMA AskTypes ==
  ASSUME ShelfTyped, BeginCreate \/ BeginRound
  PROVE  ShelfTyped'
<1>1. CASE BeginCreate
  <2>1. PICK k \in Kinds, n \in Names, i \in Shelf : AskCreate(k, n, i)
    BY <1>1 DEF BeginCreate
  <2>2. /\ c' \in ShelfSessions /\ c'.at = "look"
        /\ c'.kind = k /\ c'.name = n /\ c'.carrier = i
    BY <2>1, FreeTyped DEF AskCreate, ShelfSessions, Free
  <2>3. QED
    BY <2>1, <2>2, FreeTyped DEF AskCreate, ShelfTyped
<1>2. CASE BeginRound
  <2>0. PICK n \in Names, dry \in BOOLEAN, S \in SUBSET Shelf \ {{}} :
          \E order \in SetToSeqs(S) : AskRound(n, order, dry)
    BY <1>2 DEF BeginRound
  <2>1. PICK order \in SetToSeqs(S) : AskRound(n, order, dry)
    BY <2>0
  <2>2. order \in Seq(Shelf)
    BY <2>1, SetToSeqsTyped
  <2>3. SubSeq(order, 1, IF RoundLimit < Len(order) THEN RoundLimit ELSE Len(order)) \in Seq(Shelf)
    BY <2>2, ShelfGiven
  <2>4. c' \in ShelfSessions /\ c'.at = "round" /\ c'.name = n
    BY <2>1, <2>2, <2>3, FreeTyped DEF AskRound, ShelfSessions, Free
  <2>5. QED
    BY <2>1, <2>4, FreeTyped DEF AskRound, ShelfTyped
<1>3. QED
  BY <1>1, <1>2

(* What a session that makes a collection reports, and where it goes from there. *)
Ends == \E answer \in {"error", "done", "unknown"}, reason \in Reasons : Tell(answer, reason)
GoesOn == \E step \in {"form", "clicked"} : c' = [c EXCEPT !.at = step] /\ UNCHANGED told
CreateSteps ==
  \/ LookNotes \/ LookPodcasts \/ FillNotes \/ FillPodcasts \/ VerifyNotes \/ VerifyPodcasts

LEMMA CreateMoves ==
  ASSUME CreateSteps
  PROVE  /\ c.at \in {"look", "form", "clicked"} /\ UNCHANGED <<have, member, leaving, asks>>
         /\ Ends \/ GoesOn
         /\ SubmitForm \/ (Done /\ UNCHANGED coming) \/ UNCHANGED <<coming, doubt>>
<1>1. CASE LookNotes \/ LookPodcasts
  <2>1. /\ c.at = "look" /\ UNCHANGED <<have, member, coming, leaving, asks, doubt>>
        /\ \/ Tell("error", "not_opened") \/ Tell("error", "exists")
           \/ c' = [c EXCEPT !.at = "form"] /\ UNCHANGED told
    BY <1>1 DEF LookNotes, LookPodcasts
  <2>2. QED
    BY <2>1 DEF Ends, GoesOn, Reasons
<1>2. CASE FillNotes \/ FillPodcasts
  <2>1. c.at = "form" /\ UNCHANGED <<have, member, leaving, asks>> /\ (NotFilled \/ SubmitForm)
    BY <1>2 DEF FillNotes, FillPodcasts
  <2>2. NotFilled => Tell("error", "not_filled") /\ UNCHANGED <<coming, doubt>>
    BY DEF NotFilled
  <2>3. SubmitForm => c' = [c EXCEPT !.at = "clicked"] /\ UNCHANGED told
    BY DEF SubmitForm
  <2>4. QED
    BY <2>1, <2>2, <2>3 DEF Ends, GoesOn, Reasons
<1>3. CASE VerifyNotes \/ VerifyPodcasts
  <2>1. c.at = "clicked" /\ UNCHANGED <<have, member, coming, leaving, asks>> /\ (Unclear \/ Done)
    BY <1>3 DEF VerifyNotes, VerifyPodcasts
  <2>2. (Unclear => Tell("error", "unclear") /\ UNCHANGED doubt) /\ (Done => Tell("done", "none"))
    BY DEF Unclear, Done
  <2>3. QED
    BY <2>1, <2>2 DEF Ends, Reasons
<1>4. QED
  BY <1>1, <1>2, <1>3 DEF CreateSteps

(* One of the counts by kind and name is changed. *)
LEMMA CountsAt ==
  ASSUME NEW Counts \in {Nat, Int}, NEW f \in [Kinds -> [Names -> Counts]], NEW k \in Kinds, NEW n \in Names
  PROVE  /\ f[k] \in [Names -> Counts] /\ f[k][n] \in Counts
         /\ \A v \in Counts :
              /\ [f EXCEPT ![k][n] = v] \in [Kinds -> [Names -> Counts]]
              /\ \A m \in Kinds, x \in Names :
                   [f EXCEPT ![k][n] = v][m][x] = IF m = k /\ x = n THEN v ELSE f[m][x]
<1>1. f[k] \in [Names -> Counts] /\ f[k][n] \in Counts
  OBVIOUS
<1>2. ASSUME NEW v \in Counts
      PROVE  /\ [f EXCEPT ![k][n] = v] \in [Kinds -> [Names -> Counts]]
             /\ \A m \in Kinds, x \in Names :
                  [f EXCEPT ![k][n] = v][m][x] = IF m = k /\ x = n THEN v ELSE f[m][x]
  <2>1. [f[k] EXCEPT ![n] = v] \in [Names -> Counts]
    BY <1>1
  <2>2. [f EXCEPT ![k][n] = v] = [f EXCEPT ![k] = [f[k] EXCEPT ![n] = v]]
    OBVIOUS
  <2>3. QED
    BY <1>1, <2>1, <2>2
<1>3. QED
  BY <1>1, <1>2

LEMMA CreateTypes ==
  ASSUME ShelfTyped, CreateSteps
  PROVE  ShelfTyped'
<1>1. /\ c.at \in {"look", "form", "clicked"} /\ c.kind \in Kinds /\ c.name \in Names /\ c.carrier \in Shelf
      /\ c \in ShelfSessions /\ UNCHANGED <<have, member, leaving, asks>>
  BY CreateMoves DEF ShelfTyped
<1>2. /\ doubt' \in [Kinds -> [Names -> Int]] /\ coming' \subseteq Creations /\ IsFiniteSet(coming')
  <2>1. CASE SubmitForm
    <3>1. [no |-> asks, kind |-> c.kind, name |-> c.name, carrier |-> c.carrier] \in Creations
      BY <1>1 DEF Creations, ShelfTyped
    <3>2. coming' \subseteq Creations /\ IsFiniteSet(coming')
      BY <2>1, <3>1, FS_AddElement DEF SubmitForm, ShelfTyped
    <3>3. doubt' = [doubt EXCEPT ![c.kind][c.name] = doubt[c.kind][c.name] + 1]
      BY <2>1 DEF SubmitForm
    <3>4. QED
      BY <1>1, <3>2, <3>3, CountsAt DEF ShelfTyped
  <2>2. CASE Done /\ UNCHANGED coming
    <3>1. doubt' = [doubt EXCEPT ![c.kind][c.name] = doubt[c.kind][c.name] - 1]
      BY <2>2 DEF Done
    <3>2. QED
      BY <1>1, <2>2, <3>1, CountsAt DEF ShelfTyped
  <2>3. CASE UNCHANGED <<coming, doubt>>
    BY <2>3 DEF ShelfTyped
  <2>4. QED
    BY <2>1, <2>2, <2>3, CreateMoves
<1>3. QED
  <2>1. /\ c' \in ShelfSessions /\ told' \in Reports
        /\ \/ c'.at = "free"
           \/ c'.at \in {"form", "clicked"} /\ c'.kind = c.kind /\ c'.name = c.name /\ c'.carrier = c.carrier
    <3>1. CASE Ends
      BY <3>1, TellTypes DEF Ends
    <3>2. CASE GoesOn
      BY <1>1, <3>2, GoesOnTypes DEF GoesOn, ShelfTyped
    <3>3. QED
      BY <3>1, <3>2, CreateMoves
  <2>2. QED
    BY <1>1, <1>2, <2>1 DEF ShelfTyped

LEMMA EntryTypes ==
  ASSUME ShelfTyped, c.at = "round", c.todo # <<>>, NEW status \in {"error", "in", "out", "skipped", "removed"},
         Entry(Head(c.todo), status)
  PROVE  /\ c' \in ShelfSessions /\ told' = told /\ c'.at = "round" /\ c'.name = c.name /\ c'.asked = c.asked
         /\ c'.todo = Tail(c.todo) /\ c'.notes = [c.notes EXCEPT ![Head(c.todo)] = status]
         /\ Head(c.todo) \in Shelf /\ c.notes \in [Shelf -> {"none", "error", "in", "out", "skipped", "removed"}]
<1>1. c \in ShelfSessions /\ c.todo \in Seq(Shelf)
  BY DEF ShelfTyped, ShelfSessions
<1>2. Tail(c.todo) \in Seq(Shelf) /\ Head(c.todo) \in Shelf
  BY <1>1
<1>3. /\ c' \in ShelfSessions /\ c'.at = "round" /\ c'.name = c.name /\ c'.asked = c.asked
      /\ c'.todo = Tail(c.todo) /\ c'.notes = [c.notes EXCEPT ![Head(c.todo)] = status]
  BY <1>1, <1>2 DEF Entry, ShelfSessions
<1>4. QED
  BY <1>1, <1>2, <1>3 DEF Entry, ShelfSessions

LEMMA EndRoundTypes ==
  ASSUME ShelfTyped, NEW reason \in Reasons, EndRound(reason)
  PROVE  /\ c' = Free /\ c'.at = "free" /\ c' \in ShelfSessions /\ told' \in Reports
         /\ told'.verdict = "round" /\ told'.of = c
         /\ told'.remaining = {i \in ToSet(c.asked) : c.notes[i] = "none"}
<1>1. c' = Free /\ c \in ShelfSessions /\ c.asked \in Seq(Shelf)
  BY DEF EndRound, ShelfTyped, ShelfSessions
<1>2. c'.at = "free" /\ c' \in ShelfSessions
  BY <1>1, FreeTyped DEF Free
<1>3. ToSet(c.asked) \subseteq Shelf
  BY <1>1 DEF ToSet
<1>4. QED
  BY <1>1, <1>2, <1>3 DEF EndRound, Reports

(* What one step of a round does: an entry of the note that is next, or the end. *)
RoundStep ==
  \/ \E status \in {"error", "in", "out", "skipped", "removed"} : Entry(Head(c.todo), status) /\ c.todo # <<>>
  \/ \E reason \in Reasons : EndRound(reason)

LEMMA RoundSteps ==
  ASSUME ScanOne \/ RemoveFromOne \/ StopRound
  PROVE  RoundStep /\ c.at = "round" /\ UNCHANGED <<have, coming, asks, doubt>>
<1>1. ScanOne \/ RemoveFromOne => c.todo # <<>> /\ c.at = "round" /\ UNCHANGED <<have, coming, asks, doubt>>
  BY DEF ScanOne, RemoveFromOne
<1>2. ScanOne \/ RemoveFromOne =>
        \/ Unsure(Head(c.todo))
        \/ \E status \in {"in", "out", "skipped", "removed"} : Entry(Head(c.todo), status)
  BY DEF ScanOne, RemoveFromOne
<1>3. Unsure(Head(c.todo)) => Entry(Head(c.todo), "error") \/ EndRound("wall")
  BY DEF Unsure
<1>4. StopRound => EndRound("none") /\ c.at = "round" /\ UNCHANGED <<have, coming, asks, doubt>>
  BY DEF StopRound
<1>5. QED
  BY <1>1, <1>2, <1>3, <1>4 DEF RoundStep, Reasons

LEMMA RoundTypes ==
  ASSUME ShelfTyped, ScanOne \/ RemoveFromOne \/ StopRound
  PROVE  ShelfTyped'
<1>1. RoundStep /\ c.at = "round" /\ UNCHANGED <<have, coming, asks, doubt>>
  BY RoundSteps
<1>2. c' \in ShelfSessions /\ told' \in Reports /\ (c'.at = "free" \/ (c'.at = "round" /\ c'.name = c.name))
  BY <1>1, EntryTypes, EndRoundTypes DEF RoundStep, ShelfTyped
<1>3. member' \in [Shelf -> Names \cup {None}] /\ leaving' \subseteq Shelf
  <2>1. c.todo \in Seq(Shelf) /\ (c.todo # <<>> => Head(c.todo) \in Shelf)
    BY DEF ShelfTyped, ShelfSessions
  <2>2. QED
    BY <2>1 DEF ScanOne, RemoveFromOne, StopRound, ShelfTyped
<1>4. QED
  BY <1>1, <1>2, <1>3 DEF ShelfTyped

LEMMA PlatformTypes ==
  ASSUME ShelfTyped,
         KillTask \/ (\E g \in coming : Created(g) \/ NeverCreated(g))
           \/ \E i \in leaving : TakenOut(i) \/ NeverTakenOut(i)
  PROVE  ShelfTyped'
<1>1. CASE KillTask
  BY <1>1, TellTypes DEF KillTask, ShelfTyped, Reasons
<1>2. CASE \E g \in coming : Created(g) \/ NeverCreated(g)
  <2>1. PICK g \in coming : Created(g) \/ NeverCreated(g)
    BY <1>2
  <2>2. g \in Creations /\ g.kind \in Kinds /\ g.name \in Names /\ g.carrier \in Shelf
    BY DEF ShelfTyped, Creations
  <2>3. coming' \subseteq Creations /\ IsFiniteSet(coming')
    BY <2>1, FS_RemoveElement DEF Created, NeverCreated, ShelfTyped
  <2>4. have' \in [Kinds -> [Names -> Nat]]
    <3>1. have[g.kind][g.name] + 1 \in Nat
      BY <2>2, CountsAt DEF ShelfTyped
    <3>2. have' = have \/ have' = [have EXCEPT ![g.kind][g.name] = have[g.kind][g.name] + 1]
      BY <2>1 DEF Created, NeverCreated
    <3>3. have \in [Kinds -> [Names -> Nat]] /\ Nat \in {Nat, Int}
      BY DEF ShelfTyped
    <3>4. [have EXCEPT ![g.kind][g.name] = have[g.kind][g.name] + 1] \in [Kinds -> [Names -> Nat]]
      BY <2>2, <3>1, <3>3, CountsAt
    <3>5. QED
      BY <3>2, <3>3, <3>4
  <2>6. member' \in [Shelf -> Names \cup {None}]
    BY <2>1, <2>2 DEF Created, NeverCreated, ShelfTyped
  <2>5. QED
    BY <2>1, <2>3, <2>4, <2>6 DEF Created, NeverCreated, ShelfTyped
<1>3. CASE \E i \in leaving : TakenOut(i) \/ NeverTakenOut(i)
  BY <1>3 DEF TakenOut, NeverTakenOut, ShelfTyped
<1>4. QED
  BY <1>1, <1>2, <1>3

LEMMA ShelfStepTypes ==
  ASSUME ShelfTyped, TaskNext
  PROVE  ShelfTyped'
<1>1. CASE BeginEdit \/ (EditStep /\ UNCHANGED shelfVars)
  BY <1>1 DEF BeginEdit, shelfVars, ShelfTyped
<1>2. CASE BeginCreate \/ BeginRound
  BY <1>2, AskTypes
<1>3. CASE ShelfStep
  BY <1>3, CreateTypes, RoundTypes, PlatformTypes DEF ShelfStep, CreateSteps
<1>4. QED
  BY <1>1, <1>2, <1>3 DEF TaskNext, TaskStep

(***************************************************************************)
(* Twins                                                                   *)
(***************************************************************************)

(* The creations of a note collection that may still take effect. *)
OnTheWay(n) == {g \in coming : g.kind = "note" /\ g.name = n}

(* A creation on its way is one in doubt, or the one that the session has just seen   *)
(* room for: from the moment the list has been looked through without finding the      *)
(* name, everything there is or comes is in doubt.                               *)
TwinInv ==
  /\ \A n \in Names :
       /\ have["note"][n] + Cardinality(OnTheWay(n)) <= 1 + doubt["note"][n]
       /\ have["note"][n] = 0 => Cardinality(OnTheWay(n)) <= doubt["note"][n]
       /\ c.at \in {"form", "clicked"} /\ c.kind = "note" /\ c.name = n =>
            have["note"][n] + Cardinality(OnTheWay(n)) <= doubt["note"][n]
  /\ \A i \in Shelf : member[i] # None => have["note"][member[i]] > 0

LEMMA OnTheWayFinite ==
  ASSUME ShelfTyped, NEW n \in Names
  PROVE  /\ IsFiniteSet(OnTheWay(n)) /\ Cardinality(OnTheWay(n)) \in Nat
         /\ have["note"][n] \in Nat /\ doubt["note"][n] \in Int
<1>1. IsFiniteSet(OnTheWay(n))
  BY FS_Subset DEF OnTheWay, ShelfTyped
<1>2. have["note"][n] \in Nat /\ doubt["note"][n] \in Int
  BY CountsAt DEF ShelfTyped, Kinds
<1>3. QED
  BY <1>1, <1>2, FS_CardinalityType

LEMMA TwinInit == ShelfInit => TwinInv
<1> SUFFICES ASSUME ShelfInit PROVE TwinInv
  OBVIOUS
<1>1. ASSUME NEW n \in Names PROVE Cardinality(OnTheWay(n)) = 0
  <2>1. OnTheWay(n) = {}
    BY DEF OnTheWay, ShelfInit
  <2>2. QED
    BY <2>1, FS_EmptySet
<1>2. ASSUME NEW n \in Names PROVE have["note"][n] \in 0..1 /\ doubt["note"][n] = 0
  BY DEF ShelfInit, Kinds
<1>3. c.at = "free"
  BY DEF ShelfInit, Free
<1>4. ASSUME NEW i \in Shelf, member[i] # None PROVE have["note"][member[i]] > 0
  BY <1>4 DEF ShelfInit
<1>5. QED
  BY <1>1, <1>2, <1>3, <1>4 DEF TwinInv

(* What changes neither the platform nor what is in doubt, and goes no further than    *)
(* a session that is in no form.                                              *)
LEMMA TwinRests ==
  ASSUME ShelfTyped, TwinInv, UNCHANGED <<have, coming, doubt>>,
         \A i \in Shelf : member'[i] \in {member[i], None},
         \/ c'.at \notin {"form", "clicked"}
         \/ c'.at = c.at /\ c'.kind = c.kind /\ c'.name = c.name
  PROVE  TwinInv'
<1>1. \A n \in Names : OnTheWay(n)' = OnTheWay(n)
  BY DEF OnTheWay
<1>2. QED
  BY <1>1 DEF TwinInv

LEMMA TwinCreate ==
  ASSUME ShelfTyped, TwinInv, CreateSteps
  PROVE  TwinInv'
<1>0. /\ c \in ShelfSessions /\ c.kind \in Kinds /\ c.name \in Names /\ c.carrier \in Shelf
      /\ UNCHANGED <<have, member>> /\ c.at \in {"look", "form", "clicked"}
  BY CreateMoves DEF ShelfTyped
<1>1. CASE LookNotes \/ LookPodcasts
  <2>1. UNCHANGED <<have, member, coming, doubt>>
    BY <1>1 DEF LookNotes, LookPodcasts
  <2>2. ASSUME NEW n \in Names PROVE OnTheWay(n)' = OnTheWay(n)
    BY <2>1 DEF OnTheWay
  <2>3. ASSUME NEW n \in Names, c'.at \in {"form", "clicked"}, c'.kind = "note", c'.name = n
        PROVE  have["note"][n] = 0
    <3>1. c' # Free
      BY <2>3 DEF Free
    <3>2. LookNotes \/ LookPodcasts => c' = [c EXCEPT !.at = "form"]
      BY <3>1 DEF LookNotes, LookPodcasts, Tell
    <3>3. c.kind = "note" /\ c.name = n
      BY <1>0, <1>1, <2>3, <3>2, GoesOnTypes
    <3>4. LookNotes
      BY <1>1, <3>3 DEF LookPodcasts
    <3>5. c.name \notin Listed("note")
      BY <3>1, <3>4 DEF LookNotes, Tell
    <3>6. QED
      BY <3>3, <3>5, OnTheWayFinite DEF Listed
  <2>4. QED
    BY <2>1, <2>2, <2>3, OnTheWayFinite DEF TwinInv
<1>2. CASE SubmitForm
  <2>1. /\ c'.at = "clicked" /\ c'.kind = c.kind /\ c'.name = c.name
        /\ c.at = "form"
    <3>1. c'.at = "clicked" /\ c'.kind = c.kind /\ c'.name = c.name
      BY <1>0, <1>2, GoesOnTypes DEF SubmitForm
    <3>2. ~LookNotes /\ ~LookPodcasts /\ ~VerifyNotes /\ ~VerifyPodcasts
      BY <1>0, <3>1
      DEF LookNotes, LookPodcasts, VerifyNotes, VerifyPodcasts, Unclear, Done, Tell, Free, ShelfSessions
    <3>3. QED
      BY <3>1, <3>2 DEF CreateSteps, FillNotes, FillPodcasts
  <2> DEFINE g == [no |-> asks, kind |-> c.kind, name |-> c.name, carrier |-> c.carrier]
  <2>2. /\ coming' = coming \cup {g} /\ g.kind = c.kind /\ g.name = c.name
        /\ doubt' = [doubt EXCEPT ![c.kind][c.name] = doubt[c.kind][c.name] + 1]
    BY <1>2 DEF SubmitForm
  <2> HIDE DEF g
  <2>3. CASE c.kind = "note"
    <3>1. ASSUME NEW n \in Names
          PROVE  OnTheWay(n)' = IF n = c.name THEN OnTheWay(n) \cup {g} ELSE OnTheWay(n)
      BY <2>2, <2>3 DEF OnTheWay
    <3>2. ASSUME NEW n \in Names
          PROVE  Cardinality(OnTheWay(n)') <= Cardinality(OnTheWay(n)) + IF n = c.name THEN 1 ELSE 0
      BY <3>1, OnTheWayFinite, FS_AddElement
    <3>3. ASSUME NEW n \in Names
          PROVE  /\ doubt'["note"][n] = doubt["note"][n] + IF n = c.name THEN 1 ELSE 0
                 /\ Cardinality(OnTheWay(n)') \in Nat
      <4>1. doubt'["note"][n] = doubt["note"][n] + IF n = c.name THEN 1 ELSE 0
        BY <1>0, <2>2, <2>3, CountsAt, OnTheWayFinite DEF ShelfTyped
      <4>2. Cardinality(OnTheWay(n)') \in Nat
        BY <3>1, OnTheWayFinite, FS_AddElement, FS_CardinalityType
      <4>3. QED
        BY <4>1, <4>2
    <3>4. QED
      BY <1>0, <2>1, <2>3, <3>2, <3>3, OnTheWayFinite DEF TwinInv
  <2>4. CASE c.kind # "note"
    <3>1. ASSUME NEW n \in Names PROVE OnTheWay(n)' = OnTheWay(n)
      BY <2>2, <2>4 DEF OnTheWay
    <3>2. ASSUME NEW n \in Names PROVE doubt'["note"][n] = doubt["note"][n]
      BY <1>0, <2>2, <2>4, CountsAt DEF ShelfTyped, Kinds
    <3>3. QED
      BY <1>0, <2>1, <2>4, <3>1, <3>2 DEF TwinInv
  <2>5. QED
    BY <2>3, <2>4
<1>3. CASE NotFilled \/ ((VerifyNotes \/ VerifyPodcasts) /\ Unclear)
  <2>1. c' = Free /\ UNCHANGED <<coming, doubt>>
    BY <1>3 DEF NotFilled, VerifyNotes, VerifyPodcasts, Unclear, Tell
  <2>2. QED
    BY <1>0, <2>1, TwinRests DEF Free
<1>4. CASE (VerifyNotes \/ VerifyPodcasts) /\ Done
  <2>1. /\ c'.at = "free" /\ coming' = coming
        /\ doubt' = [doubt EXCEPT ![c.kind][c.name] = doubt[c.kind][c.name] - 1]
    BY <1>4 DEF VerifyNotes, VerifyPodcasts, Done, Tell, Free
  <2>2. ASSUME NEW n \in Names PROVE OnTheWay(n)' = OnTheWay(n)
    BY <2>1 DEF OnTheWay
  <2>3. CASE VerifyNotes
    <3>1. c.kind = "note" /\ c.at = "clicked" /\ have["note"][c.name] > 0
      <4>1. c.kind = "note" /\ c.at = "clicked"
        BY <2>3 DEF VerifyNotes
      <4>2. c'.at = "free" /\ told'.verdict = "done"
        BY <1>4 DEF Done, Tell, Free
      <4>3. ~Unclear
        BY <4>2 DEF Unclear, Tell
      <4>4. c.name \in Listed("note") \/ member[c.carrier] = c.name
        BY <2>3, <4>3 DEF VerifyNotes
      <4>5. c.name # None
        BY <1>0, ShelfGiven
      <4>6. QED
        BY <1>0, <4>1, <4>4, <4>5 DEF TwinInv, Listed
    <3>2. ASSUME NEW n \in Names
          PROVE  doubt'["note"][n] = doubt["note"][n] - IF n = c.name THEN 1 ELSE 0
      BY <1>0, <2>1, <3>1, CountsAt, OnTheWayFinite DEF ShelfTyped
    <3>3. QED
      BY <1>0, <2>1, <2>2, <3>1, <3>2, OnTheWayFinite DEF TwinInv
  <2>4. CASE VerifyPodcasts
    <3>1. ASSUME NEW n \in Names PROVE doubt'["note"][n] = doubt["note"][n]
      BY <1>0, <2>1, <2>4, CountsAt DEF ShelfTyped, Kinds, VerifyPodcasts
    <3>2. QED
      BY <1>0, <2>1, <2>2, <3>1 DEF TwinInv
  <2>5. QED
    BY <1>4, <2>3, <2>4
<1>5. QED
  BY <1>1, <1>2, <1>3, <1>4 DEF CreateSteps, FillNotes, FillPodcasts, VerifyNotes, VerifyPodcasts

(* The platform creates what was on its way, or drops it, and takes notes out. *)
LEMMA TwinPlatform ==
  ASSUME ShelfTyped, TwinInv, \E g \in coming : Created(g) \/ NeverCreated(g)
  PROVE  TwinInv'
<1>0. PICK g \in coming : Created(g) \/ NeverCreated(g)
  OBVIOUS
<1>1. g \in Creations /\ g.kind \in Kinds /\ g.name \in Names /\ g.carrier \in Shelf
  BY DEF ShelfTyped, Creations
<1>2. coming' = coming \ {g} /\ UNCHANGED <<c, doubt>>
  BY <1>0 DEF Created, NeverCreated
<1>3. ASSUME NEW n \in Names
      PROVE  /\ IsFiniteSet(OnTheWay(n)') /\ Cardinality(OnTheWay(n)') \in Nat
             /\ Cardinality(OnTheWay(n)') =
                  Cardinality(OnTheWay(n)) - IF g.kind = "note" /\ g.name = n THEN 1 ELSE 0
  <2>1. OnTheWay(n)' = OnTheWay(n) \ {g} /\ (g \in OnTheWay(n) <=> g.kind = "note" /\ g.name = n)
    BY <1>2 DEF OnTheWay
  <2>2. QED
    BY <2>1, OnTheWayFinite, FS_RemoveElement, FS_CardinalityType
<1>4. ASSUME NEW n \in Names
      PROVE  have'["note"][n] = have["note"][n] + IF Created(g) /\ g.kind = "note" /\ g.name = n THEN 1 ELSE 0
  <2>1. CASE Created(g)
    <3>1. have' = [have EXCEPT ![g.kind][g.name] = have[g.kind][g.name] + 1]
      BY <2>1 DEF Created
    <3>2. have \in [Kinds -> [Names -> Nat]] /\ Nat \in {Nat, Int}
      BY DEF ShelfTyped
    <3>3. have[g.kind][g.name] + 1 \in Nat
      BY <1>1, <3>2, CountsAt
    <3>4. "note" \in Kinds
      BY DEF Kinds
    <3>5. have'["note"][n] = IF "note" = g.kind /\ n = g.name THEN have[g.kind][g.name] + 1 ELSE have["note"][n]
      BY <1>1, <3>1, <3>2, <3>3, <3>4, CountsAt
    <3>6. QED
      BY <2>1, <3>5, OnTheWayFinite
  <2>2. CASE ~Created(g)
    BY <1>0, <2>2, OnTheWayFinite DEF NeverCreated
  <2>3. QED
    BY <2>1, <2>2
<1>5. ASSUME NEW i \in Shelf
      PROVE  member'[i] = member[i] \/ (Created(g) /\ g.kind = "note" /\ member'[i] = g.name)
  BY <1>0, <1>1 DEF Created, NeverCreated, ShelfTyped
<1>6. ASSUME NEW i \in Shelf, member'[i] # None
      PROVE  have'["note"][member'[i]] > 0
  <2>1. member'[i] \in Names
    BY <1>1, <1>5, <1>6 DEF ShelfTyped
  <2>2. CASE member'[i] = member[i]
    BY <1>4, <1>6, <2>1, <2>2, OnTheWayFinite DEF TwinInv
  <2>3. CASE Created(g) /\ g.kind = "note" /\ member'[i] = g.name
    BY <1>4, <2>1, <2>3, OnTheWayFinite
  <2>4. QED
    BY <1>5, <2>2, <2>3
<1>7. QED
  BY <1>2, <1>3, <1>4, <1>6, OnTheWayFinite DEF TwinInv

LEMMA TwinStep ==
  ASSUME ShelfTyped, TwinInv, TaskNext
  PROVE  TwinInv'
<1>1. CASE BeginEdit \/ (EditStep /\ UNCHANGED shelfVars)
  <2>1. UNCHANGED <<have, member, coming, c, doubt>>
    BY <1>1 DEF BeginEdit, shelfVars
  <2>2. QED
    BY <2>1, TwinRests
<1>2. CASE BeginCreate \/ BeginRound
  <2>1. UNCHANGED <<have, member, coming, doubt>> /\ c'.at \in {"look", "round"}
    BY <1>2 DEF BeginCreate, BeginRound, AskCreate, AskRound, Free
  <2>2. QED
    BY <2>1, TwinRests
<1>3. CASE CreateSteps
  BY <1>3, TwinCreate
<1>4. CASE ScanOne \/ RemoveFromOne \/ StopRound
  <2>1. c'.at \in {"free", "round"} /\ UNCHANGED <<have, coming, doubt>>
    <3>1. RoundStep /\ c.at = "round" /\ UNCHANGED <<have, coming, asks, doubt>>
      BY <1>4, RoundSteps
    <3>2. QED
      BY <3>1, EntryTypes, EndRoundTypes DEF RoundStep
  <2>2. \A i \in Shelf : member'[i] \in {member[i], None}
    <3>1. c.todo \in Seq(Shelf)
      BY DEF ShelfTyped, ShelfSessions
    <3>2. member' = member \/ (c.todo # <<>> /\ member' = [member EXCEPT ![Head(c.todo)] = None])
      BY <1>4 DEF ScanOne, RemoveFromOne, StopRound
    <3>3. QED
      BY <3>1, <3>2 DEF ShelfTyped
  <2>3. QED
    BY <2>1, <2>2, TwinRests
<1>5. CASE KillTask
  <2>1. c'.at = "free" /\ UNCHANGED <<have, member, coming, doubt>>
    BY <1>5 DEF KillTask, Tell, Free
  <2>2. QED
    BY <2>1, TwinRests
<1>6. CASE \E g \in coming : Created(g) \/ NeverCreated(g)
  BY <1>6, TwinPlatform
<1>7. CASE \E i \in leaving : TakenOut(i) \/ NeverTakenOut(i)
  <2>1. UNCHANGED <<have, coming, c, doubt>> /\ \A i \in Shelf : member'[i] \in {member[i], None}
    BY <1>7 DEF TakenOut, NeverTakenOut, ShelfTyped
  <2>2. QED
    BY <2>1, TwinRests
<1>8. QED
  BY <1>1, <1>2, <1>3, <1>4, <1>5, <1>6, <1>7 DEF TaskNext, TaskStep, ShelfStep, CreateSteps

(* What was reported created is there: collections only ever come. *)
DoneInv ==
  told.verdict = "done" =>
    /\ told.of.kind \in Kinds
    /\ \E n \in Listed(told.of.kind) : n = told.of.name \/ (told.of.kind = "podcast" /\ Shows(n, told.of.name))

LEMMA ListedStays ==
  ASSUME ShelfTyped, TaskNext, NEW k \in Kinds
  PROVE  Listed(k) \subseteq Listed(k)'
<1>1. CASE UNCHANGED have
  BY <1>1 DEF Listed
<1>2. CASE \E g \in coming : Created(g)
  <2>1. PICK g \in coming : Created(g)
    BY <1>2
  <2>2. g.kind \in Kinds /\ g.name \in Names
    BY DEF ShelfTyped, Creations
  <2>3. have \in [Kinds -> [Names -> Nat]] /\ Nat \in {Nat, Int}
    BY DEF ShelfTyped
  <2>4. have' = [have EXCEPT ![g.kind][g.name] = have[g.kind][g.name] + 1] /\ have[g.kind][g.name] + 1 \in Nat
    BY <2>1, <2>2, <2>3, CountsAt DEF Created
  <2>5. ASSUME NEW n \in Names
        PROVE  have[k][n] \in Nat /\ have'[k][n] =
                 IF k = g.kind /\ n = g.name THEN have[g.kind][g.name] + 1 ELSE have[k][n]
    BY <2>2, <2>3, <2>4, CountsAt
  <2>6. QED
    BY <2>2, <2>5 DEF Listed
<1>3. ~(\E g \in coming : Created(g)) => UNCHANGED have
  <2>1. CreateSteps => UNCHANGED have
    BY CreateMoves
  <2>2. ScanOne \/ RemoveFromOne \/ StopRound => UNCHANGED have
    BY RoundSteps
  <2>3. KillTask \/ (\E g \in coming : NeverCreated(g)) \/ (\E i \in leaving : TakenOut(i) \/ NeverTakenOut(i))
          => UNCHANGED have
    BY DEF KillTask, NeverCreated, TakenOut, NeverTakenOut
  <2>4. BeginEdit \/ BeginCreate \/ BeginRound \/ UNCHANGED shelfVars => UNCHANGED have
    BY DEF BeginEdit, BeginCreate, BeginRound, AskCreate, AskRound, shelfVars
  <2>5. QED
    BY <2>1, <2>2, <2>3, <2>4 DEF TaskNext, TaskStep, ShelfStep, CreateSteps
<1>4. QED
  BY <1>1, <1>2, <1>3

(* The verdict of a session comes from what it has seen. *)
LEMMA DoneStep ==
  ASSUME ShelfTyped, TwinInv, DoneInv, TaskNext
  PROVE  DoneInv'
<1>1. CASE UNCHANGED told
  BY <1>1, ListedStays DEF DoneInv
<1>2. CASE (VerifyNotes \/ VerifyPodcasts) /\ told'.verdict = "done"
  <2>1. told'.of = c /\ c.at = "clicked" /\ c.kind \in Kinds /\ c.name \in Names /\ c.carrier \in Shelf
    BY <1>2 DEF VerifyNotes, VerifyPodcasts, Unclear, Done, Tell, ShelfTyped
  <2>2. \E n \in Listed(c.kind) : n = c.name \/ (c.kind = "podcast" /\ Shows(n, c.name))
    <3>1. ~Unclear
      BY <1>2 DEF Unclear, Tell
    <3>2. CASE VerifyNotes
      <4>1. c.kind = "note" /\ (c.name \in Listed("note") \/ member[c.carrier] = c.name)
        BY <3>1, <3>2 DEF VerifyNotes
      <4>2. c.name # None
        BY <2>1, ShelfGiven
      <4>3. QED
        BY <2>1, <4>1, <4>2 DEF TwinInv, Listed
    <3>3. CASE VerifyPodcasts
      BY <3>1, <3>3 DEF VerifyPodcasts, InText
    <3>4. QED
      BY <1>2, <3>2, <3>3
  <2>3. QED
    BY <2>1, <2>2, ListedStays DEF DoneInv
<1>3. UNCHANGED told \/ told'.verdict # "done" \/ VerifyNotes \/ VerifyPodcasts
  <2>1. LookNotes \/ LookPodcasts \/ FillNotes \/ FillPodcasts => UNCHANGED told \/ told'.verdict # "done"
    BY DEF LookNotes, LookPodcasts, FillNotes, FillPodcasts, NotFilled, SubmitForm, Tell
  <2>2. ScanOne \/ RemoveFromOne \/ StopRound => UNCHANGED told \/ told'.verdict # "done"
    BY RoundSteps DEF RoundStep, Entry, EndRound
  <2>3. KillTask => told'.verdict # "done"
    BY DEF KillTask, Tell
  <2>4. (\E g \in coming : Created(g) \/ NeverCreated(g)) \/ (\E i \in leaving : TakenOut(i) \/ NeverTakenOut(i))
          => UNCHANGED told
    BY DEF Created, NeverCreated, TakenOut, NeverTakenOut
  <2>5. BeginEdit \/ BeginCreate \/ BeginRound \/ UNCHANGED shelfVars => UNCHANGED told \/ told'.verdict # "done"
    <3>1. BeginCreate \/ BeginRound => told' = Unsaid
      BY DEF BeginCreate, BeginRound, AskCreate, AskRound
    <3>2. Unsaid.verdict = "none"
      BY DEF Unsaid
    <3>3. BeginEdit \/ UNCHANGED shelfVars => UNCHANGED told
      BY DEF BeginEdit, shelfVars
    <3>4. QED
      BY <3>1, <3>2, <3>3
  <2>6. QED
    BY <2>1, <2>2, <2>3, <2>4, <2>5 DEF TaskNext, TaskStep, ShelfStep, CreateSteps
<1>4. QED
  BY <1>1, <1>2, <1>3 DEF DoneInv

(***************************************************************************)
(* Rounds                                                                  *)
(***************************************************************************)

Handled(x) == {i \in Shelf : x.notes[i] # "none"}
(* The notes that a round says are not in the collection. *)
Gone(x) == {i \in Shelf : x.notes[i] \in {"removed", "skipped", "out"}}
StayGone(x) == \A i \in Gone(x) : member[i] # x.name \/ doubt["note"][x.name] > 0
RoundOn(x) ==
  /\ x.name \in Names /\ x.asked \in Seq(Shelf)
  /\ IsFiniteSet(Handled(x)) /\ Handled(x) \subseteq ToSet(x.asked)
  /\ Cardinality(Handled(x)) <= RoundLimit
  /\ StayGone(x)

RoundInv ==
  /\ c.at = "round" =>
       /\ RoundOn(c) /\ ToSet(c.todo) \subseteq ToSet(c.asked)
       /\ Cardinality(Handled(c)) + Len(c.todo) <= RoundLimit
  /\ told.verdict = "round" =>
       RoundOn(told.of) /\ told.remaining = {i \in ToSet(told.of.asked) : told.of.notes[i] = "none"}

(* A created collection takes a note in only while it is in doubt. *)
LEMMA ComersAreDoubted ==
  ASSUME ShelfTyped, TwinInv, NEW g \in coming, g.kind = "note"
  PROVE  g.name \in Names /\ doubt["note"][g.name] > 0
<1>1. g.name \in Names
  BY DEF ShelfTyped, Creations
<1>2. g \in OnTheWay(g.name)
  BY DEF OnTheWay
<1>3. Cardinality(OnTheWay(g.name)) > 0
  BY <1>1, <1>2, OnTheWayFinite, FS_EmptySet
<1>4. QED
  BY <1>1, <1>3, OnTheWayFinite DEF TwinInv

LEMMA MembersOnlyLeave ==
  ASSUME ShelfTyped, TwinInv, TaskNext, NEW n \in Names
  PROVE  /\ \A i \in Shelf : \/ member'[i] \in {member[i], None}
                             \/ member'[i] = n => doubt'["note"][n] > 0
         /\ doubt["note"][n] > 0 => doubt'["note"][n] > 0 \/ (c.at = "clicked" /\ c'.at = "free" /\ told'.verdict = "done")
<1>1. CASE BeginEdit \/ (EditStep /\ UNCHANGED shelfVars) \/ BeginCreate \/ BeginRound
  <2>1. UNCHANGED <<member, doubt>>
    BY <1>1 DEF BeginEdit, BeginCreate, BeginRound, AskCreate, AskRound, shelfVars
  <2>2. QED
    BY <2>1
<1>2. CASE CreateSteps
  <2>1. UNCHANGED member
    BY <1>2, CreateMoves
  <2>2. CASE SubmitForm
    <3>1. c.kind \in Kinds /\ c.name \in Names
      BY <1>2, CreateMoves DEF ShelfTyped
    <3>2. doubt' = [doubt EXCEPT ![c.kind][c.name] = doubt[c.kind][c.name] + 1]
      BY <2>2 DEF SubmitForm
    <3>3. doubt \in [Kinds -> [Names -> Int]] /\ Int \in {Nat, Int} /\ "note" \in Kinds
      BY DEF ShelfTyped, Kinds
    <3>4. doubt[c.kind][c.name] \in Int
      BY <3>1, <3>3, CountsAt
    <3>5. doubt'["note"][n] = IF "note" = c.kind /\ n = c.name THEN doubt[c.kind][c.name] + 1 ELSE doubt["note"][n]
      BY <3>1, <3>2, <3>3, <3>4, CountsAt
    <3>6. QED
      BY <2>1, <3>4, <3>5
  <2>3. CASE Done /\ UNCHANGED coming
    <3>1. c'.at = "free" /\ told'.verdict = "done"
      BY <2>3 DEF Done, Tell, Free
    <3>2. VerifyNotes \/ VerifyPodcasts
      BY <1>2, <3>1 DEF CreateSteps, LookNotes, LookPodcasts, FillNotes, FillPodcasts, NotFilled, SubmitForm, Tell,
                        ShelfTyped, ShelfSessions, Free
    <3>3. QED
      BY <2>1, <3>1, <3>2 DEF VerifyNotes, VerifyPodcasts
  <2>4. CASE UNCHANGED <<coming, doubt>>
    BY <2>1, <2>4
  <2>5. QED
    BY <1>2, <2>2, <2>3, <2>4, CreateMoves
<1>3. CASE ScanOne \/ RemoveFromOne \/ StopRound
  <2>1. UNCHANGED doubt
    BY <1>3, RoundSteps
  <2>2. \A i \in Shelf : member'[i] \in {member[i], None}
    <3>1. c.todo \in Seq(Shelf)
      BY DEF ShelfTyped, ShelfSessions
    <3>2. member' = member \/ (c.todo # <<>> /\ member' = [member EXCEPT ![Head(c.todo)] = None])
      BY <1>3 DEF ScanOne, RemoveFromOne, StopRound
    <3>3. QED
      BY <3>1, <3>2 DEF ShelfTyped
  <2>3. QED
    BY <2>1, <2>2
<1>4. CASE KillTask \/ (\E i \in leaving : TakenOut(i) \/ NeverTakenOut(i))
  BY <1>4 DEF KillTask, TakenOut, NeverTakenOut, ShelfTyped
<1>5. CASE \E g \in coming : Created(g) \/ NeverCreated(g)
  <2>1. PICK g \in coming : Created(g) \/ NeverCreated(g)
    BY <1>5
  <2>2. UNCHANGED doubt
    BY <2>1 DEF Created, NeverCreated
  <2>3. ASSUME NEW i \in Shelf
        PROVE  member'[i] = member[i] \/ (g.kind = "note" /\ member'[i] = g.name)
    BY <2>1 DEF Created, NeverCreated, ShelfTyped
  <2>4. QED
    BY <2>2, <2>3, ComersAreDoubted
<1>6. QED
  BY <1>1, <1>2, <1>3, <1>4, <1>5 DEF TaskNext, TaskStep, ShelfStep, CreateSteps

(* What is said of a round stays so, and what a round is about. *)
LEMMA SaidStays ==
  ASSUME ShelfTyped, TwinInv, TaskNext, NEW x, RoundOn(x),
         ~(c.at = "clicked" /\ c'.at = "free" /\ told'.verdict = "done")
  PROVE  \A i \in Gone(x) : member'[i] # x.name \/ doubt'["note"][x.name] > 0
<1>1. x.name \in Names /\ StayGone(x)
  BY DEF RoundOn
<1>n. ASSUME NEW n \in Names, n = x.name
      PROVE  /\ \A i \in Shelf : member'[i] \in {member[i], None} \/ (member'[i] = n => doubt'["note"][n] > 0)
             /\ doubt["note"][n] > 0 => doubt'["note"][n] > 0
  BY MembersOnlyLeave
<1>2. \A i \in Shelf : member'[i] \in {member[i], None} \/ (member'[i] = x.name => doubt'["note"][x.name] > 0)
  BY <1>1, <1>n
<1>3. doubt["note"][x.name] > 0 => doubt'["note"][x.name] > 0
  BY <1>1, <1>n
<1>4. QED
  BY <1>1, <1>2, <1>3, ShelfGiven DEF StayGone, Gone

LEMMA ToldRoundStays ==
  ASSUME ShelfTyped, TwinInv, RoundInv, TaskNext, UNCHANGED told, told.verdict = "round"
  PROVE  RoundOn(told.of)' /\ (told.remaining = {i \in ToSet(told.of.asked) : told.of.notes[i] = "none"})'
<1>1. RoundOn(told.of) /\ told.remaining = {i \in ToSet(told.of.asked) : told.of.notes[i] = "none"}
  BY DEF RoundInv
<1>2. \A i \in Gone(told.of) : member'[i] # told.of.name \/ doubt'["note"][told.of.name] > 0
  BY <1>1, SaidStays
<1>3. QED
  BY <1>1, <1>2 DEF RoundOn, StayGone, Gone, Handled

LEMMA RoundBegins ==
  ASSUME ShelfTyped, BeginRound
  PROVE  RoundInv'
<1>1. PICK n \in Names, dry \in BOOLEAN, S \in SUBSET Shelf \ {{}} :
        \E order \in SetToSeqs(S) : AskRound(n, order, dry)
  BY DEF BeginRound
<1>2. PICK order \in SetToSeqs(S) : AskRound(n, order, dry)
  BY <1>1
<1>3. order \in Seq(Shelf)
  BY <1>1, <1>2, SetToSeqsTyped
<1> DEFINE start == SubSeq(order, 1, IF RoundLimit < Len(order) THEN RoundLimit ELSE Len(order))
<1>4. /\ c'.asked = order /\ c'.todo = start /\ c'.name = n /\ c'.notes = NoEntries
      /\ told' = Unsaid
  BY <1>2 DEF AskRound, Free
<1>5. /\ start \in Seq(Shelf) /\ Len(start) \in Nat /\ Len(start) <= RoundLimit
      /\ ToSet(start) \subseteq ToSet(order)
  BY <1>3, ShelfGiven DEF ToSet
<1>6. Handled(c)' = {} /\ Gone(c)' = {}
  BY <1>4 DEF Handled, Gone, NoEntries
<1>7. Unsaid.verdict = "none"
  BY DEF Unsaid
<1> HIDE DEF start
<1>8. RoundOn(c)'
  BY <1>3, <1>4, <1>6, FS_EmptySet, ShelfGiven DEF RoundOn, StayGone
<1>9. (Cardinality(Handled(c)) + Len(c.todo) <= RoundLimit)'
  BY <1>4, <1>5, <1>6, FS_EmptySet
<1>10. QED
  BY <1>4, <1>5, <1>7, <1>8, <1>9 DEF RoundInv

(* A note gets an entry: it is out of those to handle, and what the entry says is so.   *)
LEMMA EntrySays ==
  ASSUME ShelfTyped, ScanOne \/ RemoveFromOne, NEW status \in {"in", "out", "skipped", "removed"},
         c.todo # <<>>, Entry(Head(c.todo), status), status # "in"
  PROVE  member'[Head(c.todo)] # c.name
<1>1. /\ c \in ShelfSessions /\ c.at = "round" /\ c.name \in Names /\ Head(c.todo) \in Shelf
      /\ c.notes \in [Shelf -> {"none", "error", "in", "out", "skipped", "removed"}]
  <2>1. c.at = "round" /\ c.todo \in Seq(Shelf)
    BY DEF ScanOne, RemoveFromOne, ShelfTyped, ShelfSessions
  <2>2. QED
    BY <2>1 DEF ShelfTyped, ShelfSessions
<1>2. c'.notes[Head(c.todo)] = status /\ told' = told /\ c'.at = "round"
  BY <1>1, EntryTypes
<1>3. \A other \in {"error", "in", "out", "skipped", "removed"} : Entry(Head(c.todo), other) => status = other
  BY <1>1, <1>2, EntryTypes
<1>4. ~EndRound("wall")
  BY <1>2 DEF EndRound, Free
<1>5. ~Unsure(Head(c.todo))
  BY <1>3, <1>4 DEF Unsure
<1>6. CASE ScanOne
  <2>1. UNCHANGED member /\ Entry(Head(c.todo), IF member[Head(c.todo)] = c.name THEN "in" ELSE "out")
    BY <1>5, <1>6 DEF ScanOne
  <2>2. QED
    BY <1>3, <2>1
<1>7. CASE RemoveFromOne
  <2>1. \/ member[Head(c.todo)] # c.name /\ UNCHANGED member
        \/ member' = [member EXCEPT ![Head(c.todo)] = None]
    BY <1>5, <1>7 DEF RemoveFromOne
  <2>2. QED
    BY <1>1, <2>1, ShelfGiven DEF ShelfTyped
<1>8. QED
  BY <1>6, <1>7

LEMMA RoundGoesOn ==
  ASSUME ShelfTyped, TwinInv, RoundInv, ScanOne \/ RemoveFromOne \/ StopRound, TaskNext
  PROVE  RoundInv'
<1>1. RoundStep /\ c.at = "round" /\ UNCHANGED doubt
  BY RoundSteps
<1>2. /\ c \in ShelfSessions /\ c.todo \in Seq(Shelf) /\ RoundOn(c) /\ ToSet(c.todo) \subseteq ToSet(c.asked)
      /\ Cardinality(Handled(c)) + Len(c.todo) <= RoundLimit
  BY <1>1 DEF RoundInv, ShelfTyped, ShelfSessions
<1>3. \A i \in Gone(c) : member'[i] # c.name \/ doubt'["note"][c.name] > 0
  BY <1>1, <1>2, SaidStays
<1>4. CASE \E reason \in Reasons : EndRound(reason)
  <2>1. /\ c'.at = "free" /\ told'.of = c
        /\ told'.remaining = {i \in ToSet(c.asked) : c.notes[i] = "none"}
    BY <1>4, EndRoundTypes
  <2>2. QED
    BY <1>2, <1>3, <2>1 DEF RoundInv, RoundOn, StayGone, Gone, Handled
<1>5. CASE \E status \in {"error", "in", "out", "skipped", "removed"} : Entry(Head(c.todo), status) /\ c.todo # <<>>
  <2>1. PICK status \in {"error", "in", "out", "skipped", "removed"} : Entry(Head(c.todo), status) /\ c.todo # <<>>
    BY <1>5
  <2> DEFINE i == Head(c.todo)
  <2>2. /\ told' = told /\ c'.at = "round" /\ c'.name = c.name /\ c'.asked = c.asked
        /\ c'.todo = Tail(c.todo) /\ c'.notes = [c.notes EXCEPT ![i] = status]
        /\ i \in Shelf /\ c.notes \in [Shelf -> {"none", "error", "in", "out", "skipped", "removed"}]
    BY <1>1, <2>1, EntryTypes
  <2>3. /\ i \in ToSet(c.todo) /\ ToSet(Tail(c.todo)) \subseteq ToSet(c.todo)
        /\ Len(Tail(c.todo)) = Len(c.todo) - 1 /\ Len(c.todo) \in Nat
    BY <1>2, <2>1 DEF ToSet
  <2>4. ScanOne \/ RemoveFromOne
    BY <1>1, <2>2 DEF StopRound, EndRound, Free
  <2>5. status \in {"removed", "skipped", "out"} => member'[i] # c.name
    BY <2>1, <2>4, EntrySays
  <2> HIDE DEF i
  <2>6. Handled(c)' = Handled(c) \cup {i} /\ Gone(c)' \subseteq Gone(c) \cup {i}
        /\ (i \in Gone(c)' => status \in {"removed", "skipped", "out"})
    BY <2>1, <2>2 DEF Handled, Gone
  <2>7. /\ IsFiniteSet(Handled(c)') /\ Cardinality(Handled(c)') <= Cardinality(Handled(c)) + 1
        /\ Cardinality(Handled(c)) \in Nat /\ Cardinality(Handled(c)') \in Nat
    <3>1. IsFiniteSet(Handled(c)) /\ Cardinality(Handled(c)) \in Nat
      BY <1>2, FS_CardinalityType DEF RoundOn
    <3>2. \A S : IsFiniteSet(S) =>
            /\ IsFiniteSet(S \cup {i}) /\ Cardinality(S \cup {i}) \in Nat
            /\ Cardinality(S \cup {i}) <= Cardinality(S) + 1
      <4> SUFFICES ASSUME NEW S, IsFiniteSet(S)
                   PROVE  /\ IsFiniteSet(S \cup {i}) /\ Cardinality(S \cup {i}) \in Nat
                          /\ Cardinality(S \cup {i}) <= Cardinality(S) + 1
        OBVIOUS
      <4>1. IsFiniteSet(S \cup {i}) /\ Cardinality(S) \in Nat
        BY FS_AddElement, FS_CardinalityType
      <4>2. Cardinality(S \cup {i}) \in {Cardinality(S), Cardinality(S) + 1}
        BY FS_AddElement
      <4>3. QED
        BY <4>1, <4>2
    <3>3. QED
      BY <2>6, <3>1, <3>2
  <2>8. StayGone(c)'
    BY <1>3, <2>2, <2>5, <2>6 DEF StayGone
  <2>9. (Cardinality(Handled(c)) + Len(c.todo) <= RoundLimit)' /\ Cardinality(Handled(c)') <= RoundLimit
    BY <1>2, <2>2, <2>3, <2>7, ShelfGiven
  <2>10. RoundOn(c)' /\ (ToSet(c.todo) \subseteq ToSet(c.asked))'
    BY <1>2, <2>2, <2>3, <2>6, <2>7, <2>8, <2>9 DEF RoundOn
  <2>11. QED
    BY <2>2, <2>9, <2>10, ToldRoundStays DEF RoundInv
<1>6. QED
  BY <1>1, <1>4, <1>5 DEF RoundStep

LEMMA RoundKeeps ==
  ASSUME ShelfTyped, TwinInv, RoundInv, TaskNext
  PROVE  RoundInv'
<1>1. CASE UNCHANGED <<c, told>>
  <2>1. c.at = "round" => \A i \in Gone(c) : member'[i] # c.name \/ doubt'["note"][c.name] > 0
    BY <1>1, SaidStays DEF RoundInv
  <2>2. c.at = "round" => RoundOn(c)'
    BY <1>1, <2>1 DEF RoundInv, RoundOn, StayGone, Gone, Handled
  <2>3. QED
    BY <1>1, <2>2, ToldRoundStays DEF RoundInv, Handled
<1>2. CASE BeginCreate
  <2>1. c'.at = "look" /\ told' = Unsaid
    BY <1>2 DEF BeginCreate, AskCreate, Free
  <2>2. QED
    BY <2>1 DEF RoundInv, Unsaid
<1>3. CASE BeginRound
  BY <1>3, RoundBegins
<1>4. CASE CreateSteps \/ KillTask
  <2>1. c'.at # "round"
    <3>1. Ends \/ GoesOn \/ KillTask
      BY <1>4, CreateMoves
    <3>2. Ends \/ KillTask => c' = Free
      BY DEF Ends, KillTask, Tell
    <3>3. GoesOn => c'.at # "round"
      BY GoesOnTypes DEF GoesOn, ShelfTyped
    <3>4. QED
      BY <3>1, <3>2, <3>3 DEF Free
  <2>2. UNCHANGED told \/ told'.verdict # "round"
    <3>1. Ends \/ KillTask => told'.verdict # "round"
      BY DEF Ends, KillTask, Tell
    <3>2. QED
      BY <1>4, <3>1, CreateMoves DEF GoesOn
  <2>3. QED
    BY <2>1, <2>2, ToldRoundStays DEF RoundInv
<1>5. CASE ScanOne \/ RemoveFromOne \/ StopRound
  BY <1>5, RoundGoesOn
<1>6. BeginEdit \/ UNCHANGED shelfVars \/ (\E g \in coming : Created(g) \/ NeverCreated(g))
        \/ (\E i \in leaving : TakenOut(i) \/ NeverTakenOut(i)) => UNCHANGED <<c, told>>
  BY DEF BeginEdit, shelfVars, Created, NeverCreated, TakenOut, NeverTakenOut
<1>7. QED
  BY <1>1, <1>2, <1>3, <1>4, <1>5, <1>6 DEF TaskNext, TaskStep, ShelfStep, CreateSteps

(***************************************************************************)
(* The card of the candidate meant                                         *)
(***************************************************************************)

(* Those of a set of positions up to one of them are fewer than up to a later one. *)
UpTo(S, k) == {j \in S : j <= k}

LEMMA PlacesDiffer ==
  ASSUME NEW S \in SUBSET Nat, IsFiniteSet(S), NEW a \in S, NEW b \in S,
         Cardinality(UpTo(S, a)) = Cardinality(UpTo(S, b))
  PROVE  a = b
<1>1. ASSUME NEW x \in S, NEW y \in S, x < y PROVE Cardinality(UpTo(S, x)) # Cardinality(UpTo(S, y))
  <2>1. UpTo(S, x) \subseteq UpTo(S, y) /\ y \in UpTo(S, y) /\ y \notin UpTo(S, x)
    <3>1. \A j \in S : j \in Nat
      OBVIOUS
    <3>2. \A j \in S : j <= x => j <= y
      BY <1>1, <3>1
    <3>3. ~(y <= x) /\ y <= y
      BY <1>1, <3>1
    <3>4. QED
      BY <3>2, <3>3 DEF UpTo
  <2>2. IsFiniteSet(UpTo(S, y))
    BY FS_Subset DEF UpTo
  <2>3. QED
    BY <2>1, <2>2, FS_Subset
<1>2. a \in Nat /\ b \in Nat
  OBVIOUS
<1>3. QED
  BY <1>1, <1>2

LEMMA CardAtPlace ==
  ASSUME NEW shown \in SUBSET Nat, IsFiniteSet(shown), NEW i \in shown
  PROVE  CardAt(shown, Cardinality(UpTo(shown, i))) = i
<1>1. \E card \in shown : Cardinality({j \in shown : j <= card}) = Cardinality(UpTo(shown, i))
  BY DEF UpTo
<1>2. \A card \in shown : Cardinality({j \in shown : j <= card}) = Cardinality(UpTo(shown, i)) => card = i
  BY PlacesDiffer DEF UpTo
<1>3. QED
  BY <1>1, <1>2 DEF CardAt

(* The positions of a list that are not in a set of them. *)
LEMMA OtherPositions ==
  ASSUME NEW n \in Nat, NEW S \in SUBSET (1..n)
  PROVE  /\ IsFiniteSet(S) /\ IsFiniteSet((1..n) \ S) /\ Cardinality(S) \in Nat
         /\ Cardinality((1..n) \ S) = n - Cardinality(S)
<1>1. IsFiniteSet(1..n) /\ Cardinality(1..n) = n
  BY FS_Interval
<1>2. IsFiniteSet(S) /\ Cardinality(S) \in Nat
  BY <1>1, FS_Subset, FS_CardinalityType
<1>3. (1..n) \cap S = S
  OBVIOUS
<1>4. IsFiniteSet((1..n) \ S) /\ Cardinality((1..n) \ S) = Cardinality(1..n) - Cardinality((1..n) \cap S)
  <2> DEFINE all == 1..n
  <2> HIDE DEF all
  <2>1. IsFiniteSet(all)
    BY <1>1 DEF all
  <2>2. IsFiniteSet(all \ S) /\ Cardinality(all \ S) = Cardinality(all) - Cardinality(all \cap S)
    BY <2>1, FS_Difference, FS_Subset
  <2>3. QED
    BY <2>2 DEF all
<1>5. QED
  BY <1>1, <1>2, <1>3, <1>4

LEMMA UntitledPick ==
  ASSUME NEW posted \in Lists, NEW shown \in SUBSET DOMAIN posted, NEW i \in DOMAIN posted, posted[i] = None
  PROVE  PickUntitled(posted, shown, i) \in {0, i}
<1> DEFINE U == Unseen(posted, shown)
           n == Len(posted)
<1>0. posted \in Seq(Names \cup {None})
  BY ListsGiven
<1>1. n \in Nat /\ DOMAIN posted = 1..n
  BY <1>0
<1>2. /\ IsFiniteSet(shown) /\ IsFiniteSet((1..n) \ shown)
      /\ Cardinality((1..n) \ shown) = n - Cardinality(shown)
  BY <1>1, OtherPositions
<1>3. U \subseteq 1..n /\ i \notin U /\ U \cap shown = {}
  BY <1>1 DEF Unseen, Shows
<1>4. SUFFICES ASSUME Cardinality(U) = n - Cardinality(shown)
               PROVE  PickUntitled(posted, shown, i) \in {0, i}
  BY DEF PickUntitled
<1>5. U = (1..n) \ shown
  <2>2. U \in SUBSET ((1..n) \ shown)
    BY <1>3
  <2>3. QED
    BY <1>2, <1>4, <2>2, FS_Subset
<1>6. i \in shown /\ i \in 1..n
  BY <1>1, <1>3, <1>5
<1>7. i - Cardinality({j \in U : j < i}) = Cardinality(UpTo(shown, i))
  <2>1. {j \in U : j < i} = (1..i) \ UpTo(shown, i)
    BY <1>1, <1>5, <1>6 DEF UpTo
  <2>2. UpTo(shown, i) \in SUBSET (1..i) /\ i \in Nat
    BY <1>1, <1>6 DEF UpTo
  <2>3. Cardinality((1..i) \ UpTo(shown, i)) = i - Cardinality(UpTo(shown, i)) /\ Cardinality(UpTo(shown, i)) \in Nat
    BY <2>2, OtherPositions
  <2> DEFINE place == Cardinality(UpTo(shown, i))
  <2>4. Cardinality({j \in U : j < i}) = i - place
    BY <2>1, <2>3
  <2> HIDE DEF U, place
  <2>5. i - Cardinality({j \in U : j < i}) = place
    BY <2>2, <2>3, <2>4 DEF place
  <2>6. QED
    BY <2>5 DEF U, place
<1>8. shown \in SUBSET Nat
  BY <1>1
<1>9. CardAt(shown, i - Cardinality({j \in U : j < i})) = i
  BY <1>2, <1>6, <1>7, <1>8, CardAtPlace
<1>10. QED
  BY <1>9 DEF PickUntitled

LEMMA PicksAreMeant == PickIsMeant
<1> SUFFICES ASSUME NEW posted \in Lists, NEW shown \in SUBSET DOMAIN posted, NEW i \in DOMAIN posted,
                    posted[i] = None \/ i \in shown
             PROVE  Pick(posted, shown, i) \in {0, i}
  BY DEF PickIsMeant
<1>1. CASE posted[i] = None
  BY <1>1, UntitledPick DEF Pick
<1>2. CASE posted[i] # None /\ i \in shown
  <2> DEFINE hits == {k \in shown : Shows(posted[k], posted[i])}
  <2>1. i \in hits
    BY <1>2 DEF Shows
  <2>2. ASSUME Cardinality(hits) = 1 PROVE (CHOOSE k \in hits : TRUE) = i
    <3>1. IsFiniteSet(hits)
      <4>1. posted \in Seq(Names \cup {None})
        BY ListsGiven
      <4>2. IsFiniteSet(DOMAIN posted)
        <5>1. DOMAIN posted = 1..Len(posted) /\ Len(posted) \in Nat
          BY <4>1
        <5>2. QED
          BY <5>1, FS_Interval
      <4>3. QED
        BY <4>2, FS_Subset
    <3>2. \A k \in hits : k = i
      <4>1. ASSUME NEW k \in hits, k # i PROVE FALSE
        <5>1. IsFiniteSet({i}) /\ Cardinality({i}) = 1
          BY FS_Singleton
        <5>2. {i} \in SUBSET hits
          BY <2>1
        <5>3. {i} = hits
          BY <2>2, <3>1, <5>1, <5>2, FS_Subset
        <5>4. QED
          BY <4>1, <5>3
      <4>2. QED
        BY <4>1
    <3>3. QED
      BY <2>1, <3>2
  <2>3. QED
    BY <1>2, <2>2 DEF Pick, PickTitled
<1>3. QED
  BY <1>1, <1>2

(***************************************************************************)
(* Theorem                                                                 *)
(***************************************************************************)

(* No second collection of a name comes without a creation in doubt, a reported one *)
(* is there, what a round tells of each note is so, and the card of a candidate is     *)
(* that of the note meant: whatever is asked of the account, in whatever order.     *)
THEOREM ShelfIsTrue == TaskSpec => []ShelfTrue
<1> DEFINE Inv == ShelfTyped /\ TwinInv /\ DoneInv /\ RoundInv
<1>1. TaskInit => Inv
  <2>1. ShelfInit => DoneInv /\ RoundInv
    BY DEF ShelfInit, DoneInv, RoundInv, Free, Unsaid
  <2>2. QED
    BY <2>1, ShelfInitTypes, TwinInit DEF TaskInit
<1>2. Inv /\ [TaskNext]_taskVars => Inv'
  <2>1. Inv /\ TaskNext => Inv'
    BY ShelfStepTypes, TwinStep, DoneStep, RoundKeeps
  <2>2. Inv /\ UNCHANGED taskVars => Inv'
    BY DEF taskVars, shelfVars, ShelfTyped, TwinInv, OnTheWay, DoneInv, Listed,
           RoundInv, RoundOn, StayGone, Gone, Handled
  <2>3. QED
    BY <2>1, <2>2
<1>3. Inv => ShelfTrue
  <2>1. Inv => NoTwins
    <3>1. ASSUME Inv, NEW n \in Names PROVE have["note"][n] <= 1 + doubt["note"][n]
      BY <3>1, OnTheWayFinite DEF TwinInv
    <3>2. QED
      BY <3>1 DEF NoTwins, DoneInv
  <2>2. Inv => RoundTrue
    BY DEF RoundInv, RoundTrue, RoundOn, Handled, StayGone, Gone, ToSet
  <2>3. QED
    BY <2>1, <2>2, PicksAreMeant DEF ShelfTrue
<1>4. QED
  BY <1>1, <1>2, <1>3, PTL DEF TaskSpec

(***************************************************************************)
(* EDITING A NOTE                                                          *)
(***************************************************************************)

(* Two notes that differ in no field but those of F. *)
Alike(m, n, F) ==
  \A f \in {"title", "content", "gone", "more", "collection", "quote", "activity", "original", "cover",
            "topics", "permission", "video"} \ F : m[f] = n[f]

LEMMA GivesOne ==
  ASSUME NEW ed, NEW S, NEW o \in Gives(ed, S)
  PROVE  o.ed = ed /\ o.status \in S
BY DEF Gives, Out

LEMMA OutIs ==
  ASSUME NEW status, NEW ed
  PROVE  Out(status, ed).ed = ed /\ Out(status, ed).status = status
BY DEF Out

LEMMA AlikeSelf == ASSUME NEW n, NEW F PROVE Alike(n, n, F)
BY DEF Alike

LEMMA FieldSet ==
  ASSUME NEW ed \in Notes
  PROVE  /\ \A v \in TextStates : LET n == [ed EXCEPT !.title = v] IN
              n \in Notes /\ Alike(n, ed, {"title"}) /\ n.title = v
         /\ \A v \in TextStates : LET n == [ed EXCEPT !.content = v, !.topics = {}] IN
              n \in Notes /\ Alike(n, ed, {"content", "topics"}) /\ n.content = v /\ n.topics = {}
         /\ \A v \in Nat : LET n == [ed EXCEPT !.gone = v] IN
              n \in Notes /\ Alike(n, ed, {"gone"}) /\ n.gone = v
         /\ \A v \in Nat : LET n == [ed EXCEPT !.more = v] IN
              n \in Notes /\ Alike(n, ed, {"more"}) /\ n.more = v
<1>1. ASSUME NEW v \in TextStates
      PROVE  LET n == [ed EXCEPT !.title = v] IN
             n \in Notes /\ Alike(n, ed, {"title"}) /\ n.title = v
  BY DEF Notes, Alike
<1>2. ASSUME NEW v \in TextStates PROVE LET n == [ed EXCEPT !.content = v, !.topics = {}] IN
              n \in Notes /\ Alike(n, ed, {"content", "topics"}) /\ n.content = v /\ n.topics = {}
  BY DEF Notes, Alike
<1>3. ASSUME NEW v \in Nat
      PROVE  LET n == [ed EXCEPT !.gone = v] IN
             n \in Notes /\ Alike(n, ed, {"gone"}) /\ n.gone = v
  BY DEF Notes, Alike
<1>4. ASSUME NEW v \in Nat
      PROVE  LET n == [ed EXCEPT !.more = v] IN
             n \in Notes /\ Alike(n, ed, {"more"}) /\ n.more = v
  BY DEF Notes, Alike
<1> QED BY <1>1, <1>2, <1>3, <1>4

LEMMA WidgetSet ==
  ASSUME NEW ed \in Notes
  PROVE  /\ \A v \in Names \cup {None} : LET n == [ed EXCEPT !.collection = v] IN
              n \in Notes /\ Alike(n, ed, {"collection"}) /\ n.collection = v
         /\ \A v \in {"other", "wanted"} : LET n == [ed EXCEPT !.quote = v] IN
              n \in Notes /\ Alike(n, ed, {"quote"}) /\ n.quote = v
         /\ \A v \in {"ours"} : LET n == [ed EXCEPT !.cover = v] IN
              n \in Notes /\ Alike(n, ed, {"cover"}) /\ n.cover = v
         /\ \A v \in SUBSET Topics : LET n == [ed EXCEPT !.topics = v] IN
              n \in Notes /\ Alike(n, ed, {"topics"}) /\ n.topics = v
<1>1. ASSUME NEW v \in Names \cup {None}
      PROVE  LET n == [ed EXCEPT !.collection = v] IN
             n \in Notes /\ Alike(n, ed, {"collection"}) /\ n.collection = v
  BY DEF Notes, Alike
<1>2. ASSUME NEW v \in {"other", "wanted"}
      PROVE  LET n == [ed EXCEPT !.quote = v] IN
             n \in Notes /\ Alike(n, ed, {"quote"}) /\ n.quote = v
  BY DEF Notes, Alike
<1>3. ASSUME NEW v \in {"ours"}
      PROVE  LET n == [ed EXCEPT !.cover = v] IN
             n \in Notes /\ Alike(n, ed, {"cover"}) /\ n.cover = v
  BY DEF Notes, Alike
<1>4. ASSUME NEW v \in SUBSET Topics
      PROVE  LET n == [ed EXCEPT !.topics = v] IN
             n \in Notes /\ Alike(n, ed, {"topics"}) /\ n.topics = v
  BY DEF Notes, Alike
<1> QED BY <1>1, <1>2, <1>3, <1>4

LEMMA SwitchSet ==
  ASSUME NEW ed \in Notes
  PROVE  /\ \A v \in BOOLEAN : LET n == [ed EXCEPT !.activity = v] IN
              n \in Notes /\ Alike(n, ed, {"activity"}) /\ n.activity = v
         /\ \A v \in BOOLEAN : LET n == [ed EXCEPT !.original = v] IN
              n \in Notes /\ Alike(n, ed, {"original"}) /\ n.original = v
<1>1. ASSUME NEW v \in BOOLEAN
      PROVE  LET n == [ed EXCEPT !.activity = v] IN
             n \in Notes /\ Alike(n, ed, {"activity"}) /\ n.activity = v
  BY DEF Notes, Alike
<1>2. ASSUME NEW v \in BOOLEAN
      PROVE  LET n == [ed EXCEPT !.original = v] IN
             n \in Notes /\ Alike(n, ed, {"original"}) /\ n.original = v
  BY DEF Notes, Alike
<1> QED BY <1>1, <1>2

LEMMA ImagesRemoved ==
  ASSUME NEW ed \in Notes, NEW n \in Nat, NEW o \in RemoveImages(ed, n)
  PROVE  /\ o.ed \in Notes /\ Alike(o.ed, ed, {"gone"}) /\ o.status \in {"done", "error"}
         /\ o.status = "done" => o.ed.gone = ed.gone + n
<1>1. PICK k \in 0..n - 1 : o \in RemoveOne(Without(ed, k))
  BY DEF RemoveImages
<1>2. o.status = "done" => o.ed = Without(ed, n)
  BY DEF RemoveImages
<1>3. ASSUME NEW j \in Nat
      PROVE  Without(ed, j) \in Notes /\ Alike(Without(ed, j), ed, {"gone"}) /\ Without(ed, j).gone = ed.gone + j
  <2>1. ed.gone + j \in Nat
    BY DEF Notes
  <2>2. Without(ed, j) = [ed EXCEPT !.gone = ed.gone + j]
    BY DEF Without
  <2>3. LET m == [ed EXCEPT !.gone = ed.gone + j] IN
              m \in Notes /\ Alike(m, ed, {"gone"}) /\ m.gone = ed.gone + j
    BY <2>1, FieldSet
  <2>4. QED BY <2>2, <2>3
<1>4. CASE o.status = "done"
  BY <1>2, <1>3, <1>4
<1>5. CASE o.status # "done"
  <2>1. o \in Gives(Without(ed, k), {"error"})
    BY <1>1, <1>5, OutIs DEF RemoveOne
  <2>2. o.ed = Without(ed, k) /\ o.status = "error"
    BY <2>1, GivesOne
  <2>3. QED
    BY <2>2, <1>3
<1>6. QED
  BY <1>4, <1>5

LEMMA ImagesAdded ==
  ASSUME NEW ed \in Notes, NEW n \in Nat, NEW o \in AddImages(ed, n)
  PROVE  /\ o.ed \in Notes /\ Alike(o.ed, ed, {"more"}) /\ o.status \in {"done", "error"}
         /\ o.status = "done" => o.ed.more = ed.more + n
<1>1. ASSUME NEW j \in Nat
      PROVE  LET m == [ed EXCEPT !.more = @ + j] IN
             m \in Notes /\ Alike(m, ed, {"more"}) /\ m.more = ed.more + j
  <2>1. ed.more + j \in Nat
    BY DEF Notes
  <2>3. QED BY <2>1, FieldSet
<1>2. CASE o = Out("done", [ed EXCEPT !.more = @ + n])
  <2>1. LET m == [ed EXCEPT !.more = @ + n] IN m \in Notes /\ Alike(m, ed, {"more"}) /\ m.more = ed.more + n
    BY <1>1
  <2>2. o.ed = [ed EXCEPT !.more = @ + n] /\ o.status = "done"
    BY <1>2, OutIs
  <2>3. QED
    BY <2>1, <2>2, Zenon
<1>3. ASSUME NEW j \in 0..n, o = Out("error", [ed EXCEPT !.more = @ + j]) 
      PROVE  o.ed \in Notes /\ Alike(o.ed, ed, {"more"}) /\ o.status \in {"done", "error"} /\ o.status # "done"
  BY <1>1, <1>3, OutIs
<1>4. o = Out("done", [ed EXCEPT !.more = @ + n]) \/ \E j \in 0..n : o = Out("error", [ed EXCEPT !.more = @ + j])
  BY Zenon DEF AddImages
<1>5. QED
  BY <1>2, <1>3, <1>4, Zenon

LEMMA TitleTyped ==
  ASSUME NEW ed \in Notes, NEW o \in TypeTitle(ed)
  PROVE  /\ o.ed \in Notes /\ Alike(o.ed, ed, {"title"}) /\ o.status \in {"done", "error"}
         /\ o.status = "done" => o.ed.title = "new"
<1>1. CASE o \in Gives(ed, {"error"})
  BY <1>1, GivesOne, AlikeSelf
<1>2. ASSUME NEW f \in TypeInto(ed.title), o \in ReadBackIs(f, [ed EXCEPT !.title = f.text])
      PROVE  /\ o.ed \in Notes /\ Alike(o.ed, ed, {"title"}) /\ o.status \in {"done", "error"}
             /\ o.status = "done" => o.ed.title = "new"
  <2>1. f.text \in TextStates
    BY DEF TypeInto, TextStates, Notes
  <2> DEFINE m == [ed EXCEPT !.title = f.text]
  <2>2. m \in Notes /\ Alike(m, ed, {"title"}) /\ m.title = f.text
    BY <2>1, FieldSet
  <2>3. \/ f.text = "new" /\ o \in Gives(m, {"done", "error"})
        \/ o \in Gives(m, {"error"})
    BY <1>2, Zenon DEF ReadBackIs
  <2> HIDE DEF m
  <2>4. o.ed = m /\ o.status \in {"done", "error"} /\ (o.status = "done" => f.text = "new")
    BY <2>3, GivesOne
  <2>5. QED
    BY <2>2, <2>4
<1>3. QED
  BY <1>1, <1>2 DEF TypeTitle

LEMMA ContentTyped ==
  ASSUME NEW ed \in Notes, NEW o \in TypeContent(ed)
  PROVE  /\ o.ed \in Notes /\ Alike(o.ed, ed, {"content", "topics"}) /\ o.status \in {"done", "error"}
         /\ o.ed.topics \in {{}, ed.topics}
         /\ o.status = "done" => o.ed.content = "new"
<1>1. CASE o \in Gives(ed, {"error"})
  BY <1>1, GivesOne, AlikeSelf
<1>2. ASSUME NEW f \in TypeInto(ed.content), o \in ReadBackIs(f, [ed EXCEPT !.content = f.text, !.topics = {}])
      PROVE  /\ o.ed \in Notes /\ Alike(o.ed, ed, {"content", "topics"}) /\ o.status \in {"done", "error"}
             /\ o.ed.topics = {}
             /\ o.status = "done" => o.ed.content = "new"
  <2>1. f.text \in TextStates
    BY DEF TypeInto, TextStates, Notes
  <2> DEFINE m == [ed EXCEPT !.content = f.text, !.topics = {}]
  <2>2. m \in Notes /\ Alike(m, ed, {"content", "topics"}) /\ m.content = f.text /\ m.topics = {}
    BY <2>1, FieldSet
  <2>3. \/ f.text = "new" /\ o \in Gives(m, {"done", "error"})
        \/ o \in Gives(m, {"error"})
    BY <1>2, Zenon DEF ReadBackIs
  <2> HIDE DEF m
  <2>4. o.ed = m /\ o.status \in {"done", "error"} /\ (o.status = "done" => f.text = "new")
    BY <2>3, GivesOne
  <2>5. QED
    BY <2>2, <2>4
<1>3. QED
  BY <1>1, <1>2 DEF TypeContent

LEMMA CollectionLeft ==
  ASSUME NEW ed \in Notes, NEW r, NEW label, NEW o \in RemoveCollection(ed, r, label)
  PROVE  /\ o.ed \in Notes /\ Alike(o.ed, ed, {"collection"})
         /\ o.status \in {"done", "skipped", "error", "modal"}
         /\ o.ed.collection = ed.collection \/ (ed.collection = r.unjoin /\ o.ed.collection = None)
         /\ o.status = "skipped" => ed.collection = None \/ ed.collection # r.unjoin \/ label = "unread"
<1> DEFINE off == [ed EXCEPT !.collection = None]
<1>1. off \in Notes /\ Alike(off, ed, {"collection"}) /\ off.collection = None
  BY WidgetSet
<1> HIDE DEF off
<1>2. \/ o \in Gives(ed, {"skipped"}) /\ ed.collection = None
      \/ o \in Gives(ed, {"error"})
      \/ ed.collection = r.unjoin /\ o \in Gives(ed, {"error", "modal"})
      \/ ed.collection = r.unjoin /\ o \in Gives(off, {"done", "modal"})
      \/ o \in Gives(ed, {"skipped"}) /\ ed.collection # r.unjoin
      \/ label = "unread" /\ o \in Gives(ed, {"skipped"})
      \/ o \in Gives(ed, {"done"})
  <2>1. CASE label = "unread"
    <3>1. o \in Gives(ed, {"skipped"}) \cup (IF ed.collection = r.unjoin THEN Gives(ed, {"done"}) ELSE {})
      BY <2>1, Zenon DEF RemoveCollection
    <3>2. QED
      BY <2>1, <3>1, Zenon
  <2>2. CASE label # "unread"
    <3>1. PICK known \in NameKnown(r) :
            o \in CASE ed.collection = None -> Gives(ed, {"skipped"})
             [] ed.collection # None /\ ~known -> Gives(ed, {"error"})
             [] ed.collection = r.unjoin /\ known ->
                  Gives(ed, {"error", "modal"}) \cup Gives(off, {"done", "modal"})
             [] OTHER -> Gives(ed, {IF Shows(ed.collection, r.unjoin) THEN "error" ELSE "skipped"})
      BY <2>2, Zenon DEF RemoveCollection, off
    <3>2. QED
      BY <3>1, Zenon
  <2>3. QED
    BY <2>1, <2>2
<1>3. QED
  BY <1>1, <1>2, GivesOne, AlikeSelf

LEMMA CollectionJoined ==
  ASSUME NEW ed \in Notes, NEW r \in Requests, NEW o \in SetCollection(ed, r)
  PROVE  /\ o.ed \in Notes /\ Alike(o.ed, ed, {"collection"}) /\ o.status \in {"done", "skipped", "error"}
<1> DEFINE on == [ed EXCEPT !.collection = r.join]
<1>1. on \in Notes /\ Alike(on, ed, {"collection"})
  BY WidgetSet DEF Requests
<1> HIDE DEF on
<1>2. \/ o \in Gives(ed, {"error"}) \/ o \in Gives(on, {"done", "error"})
      \/ o \in Gives(ed, {"skipped", "error"})
  <2>1. o \in IF ed.collection = None THEN Gives(ed, {"error"}) \cup Gives(on, {"done", "error"})
             ELSE Gives(ed, IF Shows(ed.collection, r.join) THEN {"skipped", "error"} ELSE {"error"})
    BY Zenon DEF SetCollection, on
  <2>2. CASE ed.collection = None
    BY <2>1, <2>2
  <2>3. CASE ed.collection # None /\ Shows(ed.collection, r.join)
    BY <2>1, <2>3
  <2>4. CASE ed.collection # None /\ ~Shows(ed.collection, r.join)
    BY <2>1, <2>4
  <2>5. QED
    BY <2>2, <2>3, <2>4
<1>3. QED
  BY <1>1, <1>2, GivesOne, AlikeSelf

(* What trying to choose a card leaves in the editor. *)
Quoted(ed, o) == o.ed \in Notes /\ Alike(o.ed, ed, {"quote"}) /\ o.status \in {"done", "error"}

LEMMA CardClicked ==
  ASSUME NEW reach \in SUBSET {"wanted", "other"}, NEW ed \in Notes, NEW o \in Select(ed, reach)
  PROVE  Quoted(ed, o)
<1>1. PICK a \in SelectCard(reach) : o \in IF a[1] = "done" THEN Confirm(ed, a[2]) ELSE Gives(ed, {"error"})
  BY Zenon DEF Select
<1>2. CASE a[1] # "done"
  BY <1>1, <1>2, GivesOne, AlikeSelf DEF Quoted
<1>3. CASE a[1] = "done"
  <2>1. ASSUME NEW card \in {None, "wanted", "other"}, a \in CardClick(reach, card)
        PROVE  a[2] \in {"wanted", "other"}
    <3>1. \/ a = <<"offscreen", card>> \/ a \in {"rejected", "not_applied"} \X ({card} \cup reach)
          \/ a \in {"done"} \X (({card} \cup reach) \ {None})
      BY <2>1, Zenon DEF CardClick
    <3>2. a[1] = "done" /\ a \in {"done"} \X (({card} \cup reach) \ {None})
      BY <3>1, <1>3
    <3>3. QED
      BY <3>2
  <2>2. a[2] \in {"wanted", "other"}
    <3>1. PICK b \in CardClick(reach, None) :
            a \in IF b[1] = "not_applied" THEN CardClick(reach, b[2]) ELSE {b}
      BY Zenon DEF SelectCard
    <3>2. CASE b[1] # "not_applied"
      BY <3>1, <3>2, <2>1
    <3>3. CASE b[1] = "not_applied"
      <4>1. \/ b = <<"offscreen", None>> \/ b \in {"rejected", "not_applied"} \X ({None} \cup reach)
            \/ b \in {"done"} \X (({None} \cup reach) \ {None})
        BY <3>1, Zenon DEF CardClick
      <4>2. b[2] \in {None} \cup reach
        BY <4>1
      <4>3. QED
        BY <4>2, <3>1, <3>3, <2>1
    <3>4. QED
      BY <3>2, <3>3
  <2> DEFINE on == [ed EXCEPT !.quote = a[2]]
  <2>3. on \in Notes /\ Alike(on, ed, {"quote"})
    BY <2>2, WidgetSet
  <2> HIDE DEF on
  <2>4. o \in Gives(ed, {"done", "error"}) \/ o \in Gives(on, {"done", "error"})
    <3>1. o \in Confirm(ed, a[2])
      BY <1>1, <1>3
    <3>2. QED
      BY <3>1 DEF Confirm, on, Gives
  <2>5. QED
    BY <2>3, <2>4, GivesOne, AlikeSelf DEF Quoted
<1>4. QED
  BY <1>2, <1>3

LEMMA QuoteSet ==
  ASSUME NEW ed \in Notes, NEW r, NEW o \in SetQuote(ed, r)
  PROVE  Quoted(ed, o)
<1>1. ASSUME NEW p \in InModal(ed) PROVE Quoted(ed, p) \/ p.status \in ListRead \ {"none", "hit"}
  <2>1. PICK l \in ListRead : p \in CASE l = "none" -> Gives(ed, {"error"})
           [] l = "hit" -> Gives(ed, {"error"}) \cup Select(ed, {"wanted", "other"})
           [] OTHER -> Gives(ed, {l})
    BY <1>1, Zenon DEF InModal
  <2>2. p \in Gives(ed, {"error"}) => Quoted(ed, p)
    BY GivesOne, AlikeSelf DEF Quoted
  <2>3. p \in Select(ed, {"wanted", "other"}) => Quoted(ed, p)
    BY CardClicked
  <2>4. CASE l \in {"none", "hit"}
    BY <2>1, <2>2, <2>3, <2>4, Zenon
  <2>5. CASE l \notin {"none", "hit"}
    <3>1. p \in Gives(ed, {l})
      BY <2>1, <2>5, Zenon
    <3>2. QED
      BY <3>1, <2>5, GivesOne
  <2>6. QED
    BY <2>4, <2>5
<1>2. ASSUME o \in ByOtherTab(ed) PROVE Quoted(ed, o)
  <2>1. o \in Gives(ed, {"error"}) \/ o \in Select(ed, {"wanted"})
    BY <1>2, Zenon DEF ByOtherTab
  <2>2. QED
    BY <2>1, GivesOne, AlikeSelf, CardClicked DEF Quoted
<1>3. PICK p \in InModal(ed) :
        o \in IF p.status \in {"done", "error"} THEN {p}
              ELSE IF Blocked(r, p.status) THEN Gives(ed, {"error"}) ELSE ByOtherTab(ed)
  BY Zenon DEF SetQuote
<1>4. CASE p.status \in {"done", "error"}
  <2>1. o = p
    BY <1>3, <1>4, Zenon
  <2>2. QED
    BY <2>1, <1>1, <1>4 DEF ListRead
<1>5. CASE p.status \notin {"done", "error"}
  <2>1. o \in Gives(ed, {"error"}) \/ o \in ByOtherTab(ed)
    BY <1>3, <1>5, Zenon
  <2>2. QED
    BY <2>1, <1>2, GivesOne, AlikeSelf DEF Quoted
<1>6. QED
  BY <1>4, <1>5

LEMMA ActivitySet ==
  ASSUME NEW ed \in Notes, NEW o \in SetActivity(ed)
  PROVE  o.ed \in Notes /\ Alike(o.ed, ed, {"activity"}) /\ o.status \in {"done", "skipped", "error"}
<1> DEFINE on == [ed EXCEPT !.activity = TRUE]
<1>1. on \in Notes /\ Alike(on, ed, {"activity"})
  BY SwitchSet
<1> HIDE DEF on
<1>2. o \in Gives(ed, {"skipped"}) \/ o \in Gives(ed, {"error"}) \/ o \in Gives(on, {"done", "error"})
  BY Zenon DEF SetActivity, on
<1>3. QED
  BY <1>1, <1>2, GivesOne, AlikeSelf

LEMMA OriginalSet ==
  ASSUME NEW ed \in Notes, NEW o \in SetOriginal(ed)
  PROVE  /\ o.ed \in Notes /\ Alike(o.ed, ed, {"original"}) /\ o.status \in {"done", "skipped", "error"}
         /\ o.status = "skipped" => ed.original
<1> DEFINE Switched(n) == n \in Notes /\ Alike(n, ed, {"original"})
<1>1. ASSUME NEW n, Switched(n), NEW b \in BOOLEAN PROVE Switched([n EXCEPT !.original = b])
  BY <1>1 DEF Notes, Alike
<1>2. ASSUME NEW n, Switched(n), NEW p \in Toggle(n)
      PROVE  Switched(p.ed) /\ p.status \in {"done", "error", "again"}
  <2> DEFINE on == [n EXCEPT !.original = TRUE]
  <2> DEFINE flipped == [n EXCEPT !.original = ~@]
  <2>1. Switched(on) /\ Switched(flipped)
    BY <1>1, <1>2
  <2>2. \/ p \in Gives(n, {"error"}) \/ p \in Gives(on, {"done", "error"})
        \/ p \in Gives(flipped, {"done"}) \/ p \in Gives(n, {"again"}) \/ p \in Gives(flipped, {"again"})
    BY Zenon DEF Toggle, Consent
  <2> HIDE DEF on, flipped
  <2>3. QED
    BY <2>1, <2>2, <1>2, GivesOne
<1>3. Switched(ed)
  BY AlikeSelf
<1> HIDE DEF Switched
<1>4. CASE ed.original
  <2>1. o \in Gives(ed, {"skipped"})
    BY <1>4, Zenon DEF SetOriginal
  <2>2. QED
    BY <2>1, <1>3, <1>4, GivesOne DEF Switched
<1>5. CASE ~ed.original
  <2>1. CASE o \in Gives(ed, {"error"})
    BY <2>1, <1>3, GivesOne DEF Switched
  <2>2. ASSUME NEW p \in Toggle(ed),
               o \in IF p.status # "again" THEN {p}
                     ELSE {IF r.status = "again" THEN Out("error", r.ed) ELSE r : r \in Toggle(p.ed)}
        PROVE  Switched(o.ed) /\ o.status \in {"done", "error"}
    <3>1. CASE p.status # "again"
      <4>1. o = p
        BY <2>2, <3>1, Zenon
      <4>2. QED
        BY <4>1, <3>1, <1>2, <1>3
    <3>2. CASE p.status = "again"
      <4>1. PICK r \in Toggle(p.ed) : o = IF r.status = "again" THEN Out("error", r.ed) ELSE r
        BY <2>2, <3>2, Zenon
      <4>2. Switched(r.ed) /\ r.status \in {"done", "error", "again"}
        BY <1>2, <1>3
      <4>3. QED
        BY <4>1, <4>2, OutIs
    <3>3. QED
      BY <3>1, <3>2
  <2>3. o \in Gives(ed, {"error"}) \/ \E p \in Toggle(ed) :
          o \in IF p.status # "again" THEN {p}
                ELSE {IF r.status = "again" THEN Out("error", r.ed) ELSE r : r \in Toggle(p.ed)}
    BY <1>5, Zenon DEF SetOriginal
  <2>4. QED
    BY <2>1, <2>2, <2>3 DEF Switched
<1>6. QED
  BY <1>4, <1>5

LEMMA CoverSet ==
  ASSUME NEW ed \in Notes, NEW o \in SetCover(ed)
  PROVE  /\ o.ed \in Notes /\ Alike(o.ed, ed, {"cover"}) /\ o.status \in {"done", "skipped", "error"}
         /\ ed.cover # "frame" => o.ed.cover = ed.cover
<1> DEFINE on == [ed EXCEPT !.cover = "ours"]
<1>1. on \in Notes /\ Alike(on, ed, {"cover"})
  BY WidgetSet
<1> HIDE DEF on
<1>2. PICK read \in CoverRead(ed) : o \in CASE read = "unknown" -> Gives(ed, {"error"})
           [] read = "frame" -> Gives(ed, {"error"}) \cup Gives(on, {"done", "error"})
           [] OTHER -> Gives(ed, {"skipped"})
  BY Zenon DEF SetCover, on
<1>3. \/ o \in Gives(ed, {"error"}) \/ o \in Gives(ed, {"skipped"})
      \/ read = "frame" /\ o \in Gives(on, {"done", "error"})
  BY <1>2, Zenon
<1>4. read = "frame" => ed.cover = "frame"
  BY DEF CoverRead
<1>5. QED
  BY <1>1, <1>3, <1>4, GivesOne, AlikeSelf

LEMMA TopicsAddedIs ==
  ASSUME NEW ed \in Notes, NEW lacking \in SUBSET Topics, NEW o \in AddTopics(ed, lacking)
  PROVE  /\ o.ed \in Notes /\ Alike(o.ed, ed, {"topics"}) /\ o.chosen \subseteq lacking
         /\ o.ed.topics \subseteq ed.topics \cup lacking /\ ed.topics \subseteq o.ed.topics
<1>1. PICK chosen \in SUBSET lacking : \E there \in SUBSET chosen :
        o = [status |-> IF chosen = {} THEN "error" ELSE "done", chosen |-> chosen,
             ed |-> [ed EXCEPT !.topics = @ \cup there]]
  BY DEF AddTopics
<1>0. PICK there \in SUBSET chosen :
        o = [status |-> IF chosen = {} THEN "error" ELSE "done", chosen |-> chosen,
             ed |-> [ed EXCEPT !.topics = @ \cup there]]
  BY <1>1
<1> DEFINE more == ed.topics \cup there
<1>2. more \in SUBSET Topics
  BY DEF Notes
<1>3. o.ed = [ed EXCEPT !.topics = more] /\ o.chosen = chosen
  BY <1>0
<1> HIDE DEF more
<1>4. o.ed \in Notes /\ Alike(o.ed, ed, {"topics"}) /\ o.ed.topics = more
  <2>1. LET n == [ed EXCEPT !.topics = more] IN n \in Notes /\ Alike(n, ed, {"topics"}) /\ n.topics = more
    BY <1>2, WidgetSet
  <2>2. QED
    BY <2>1, <1>3
<1>5. QED
  BY <1>3, <1>4 DEF more

EditSessions ==
  [at: {"idle", "open", "steps", "click", "wait", "verify", "restore", "record"}, next: 1..12,
   loaded: Notes, ed: Notes, out: [Keys -> {"none", "done", "skipped", "error"}],
   clicked: BOOLEAN, answered: BOOLEAN, alone: BOOLEAN, sure: BOOLEAN,
   add: SUBSET Topics, chosen: SUBSET Topics, read: TextStates, label: {"seen", "unread"}]
EditEnds == {"none", "refused", "aborted", "noop", "nothing", "read", "unknown"}
EditReports ==
  [kind: EditEnds, applied: [Keys -> {"none", "true", "false"}], topics: SUBSET Topics,
   status: {"none", "done", "partially_applied", "failed"}, preserved: BOOLEAN]

EditTyped ==
  /\ q \in Asked /\ note \in Notes /\ first \in Starts /\ pending \subseteq Notes
  /\ ledger \in TextStates /\ es \in EditSessions /\ es.chosen \subseteq es.add /\ result \in EditReports
  /\ asked \in 0..MaxAsked /\ upsets \in 0..MaxUpsets

LEMMA Given ==
  ASSUME EditTyped
  PROVE  q \in Requests /\ Acceptable(q) /\ first \in Notes /\ first.gone = 0 /\ first.more = 0
BY EditsGiven DEF EditTyped

(* The session is as before but for the fields of F. *)
KeptBut(F) ==
  \A f \in {"at", "next", "loaded", "ed", "out", "clicked", "answered", "alone", "sure", "add", "chosen",
            "read", "label"} \ F :
    es'[f] = es[f]

LEMMA AtIs ==
  ASSUME es \in EditSessions, NEW step \in {"idle", "open", "steps", "click", "wait", "verify", "restore", "record"},
         es' = [es EXCEPT !.at = step]
  PROVE  es' \in EditSessions /\ KeptBut({"at"}) /\ es'.at = step
BY DEF EditSessions, KeptBut

LEMMA NothingTyped ==
  Nothing \in [Keys -> {"none", "true", "false"}] /\ Nothing \in [Keys -> {"none", "done", "skipped", "error"}]
BY DEF Nothing

LEMMA IdleIs ==
  ASSUME NEW n \in Notes
  PROVE  /\ Idle(n) \in EditSessions /\ Idle(n).at = "idle" /\ Idle(n).next = 1 /\ Idle(n).loaded = n /\ Idle(n).ed = n
         /\ Idle(n).add = {} /\ Idle(n).chosen = {} /\ ~Idle(n).clicked /\ ~Idle(n).alone /\ ~Idle(n).sure
         /\ Idle(n).out = Nothing /\ Idle(n).label = "seen"
<1>1. Idle(n) \in EditSessions
  <2>1. 1 \in 1..12 /\ n.title \in TextStates
    BY DEF Notes
  <2>2. QED
    BY <2>1, NothingTyped, Zenon DEF Idle, EditSessions
<1>2. QED
  BY <1>1 DEF Idle

LEMMA OverallTyped ==
  ASSUME NEW applied, NEW topics
  PROVE  Overall(applied, topics) \in {"done", "partially_applied", "failed"}
BY Zenon DEF Overall

LEMMA EndEditIs ==
  ASSUME EditTyped, NEW how \in EditEnds, NEW applied \in [Keys -> {"none", "true", "false"}], NEW kept \in BOOLEAN,
         EndEdit(how, applied, kept)
  PROVE  /\ es' \in EditSessions /\ KeptBut({"at"}) /\ es'.at = "idle"
         /\ result' \in EditReports /\ result'.kind = how /\ result'.applied = applied
         /\ result'.status = IF how \in {"noop", "nothing"}
              THEN Overall(applied, es.ed.topics \ es.add) ELSE "failed"
<1>1. es \in EditSessions
  BY DEF EditTyped
<1>2. es' \in EditSessions /\ KeptBut({"at"}) /\ es'.at = "idle"
  BY <1>1, AtIs DEF EndEdit
<1> DEFINE status == IF how \in {"noop", "nothing"} THEN Overall(applied, es.ed.topics \ es.add) ELSE "failed"
<1>3. status \in {"none", "done", "partially_applied", "failed"}
  BY OverallTyped
<1>4. es.ed.topics \ es.add \in SUBSET Topics
  BY <1>1 DEF EditSessions, Notes
<1>5. result' = [kind |-> how, applied |-> applied, topics |-> es.ed.topics \ es.add,
                preserved |-> kept, status |-> status]
  BY DEF EndEdit
<1> HIDE DEF status
<1>6. result' \in EditReports
  BY <1>3, <1>4, <1>5, Zenon DEF EditReports
<1>7. result'.kind = how /\ result'.applied = applied /\ result'.status = status
  BY <1>5
<1>8. QED
  BY <1>2, <1>6, <1>7 DEF status

LEMMA SilentIs ==
  /\ Silent \in EditReports /\ Silent.kind = "none" /\ Silent.applied = Nothing /\ Silent.status = "none"
  /\ \A how \in EditEnds : LET r == [Silent EXCEPT !.kind = how] IN
       r \in EditReports /\ r.kind = how /\ r.applied = Nothing /\ r.status = "none"
<1>1. Silent \in EditReports
  BY NothingTyped, Zenon DEF Silent, EditReports, EditEnds
<1>2. ASSUME NEW how \in EditEnds
      PROVE  LET r == [Silent EXCEPT !.kind = how] IN
              r \in EditReports /\ r.kind = how /\ r.applied = Nothing /\ r.status = "none"
  <2>1. LET r == [Silent EXCEPT !.kind = how] IN r \in EditReports
    BY <1>1, Zenon DEF EditReports
  <2>2. QED
    BY <2>1 DEF Silent
<1>3. QED
  BY <1>1, <1>2 DEF Silent

(***************************************************************************)
(* What an item does to the editor                                         *)
(***************************************************************************)

ItemDoes(k, o, label) ==
  /\ o.ed \in Notes /\ o.status \in {"done", "skipped", "error", "modal"}
  /\ o.ed.permission = es.ed.permission
  /\ IF k = "image_remove" THEN o.status = "done" => o.ed.gone = es.ed.gone + q.remove ELSE o.ed.gone = es.ed.gone
  /\ IF k = "image_add" THEN o.status = "done" => o.ed.more = es.ed.more + q.add ELSE o.ed.more = es.ed.more
  /\ IF k = "title" THEN o.status = "done" => o.ed.title = "new" ELSE o.ed.title = es.ed.title
  /\ IF k = "content" THEN o.status = "done" => o.ed.content = "new" ELSE o.ed.content = es.ed.content
  /\ \/ o.ed.collection = es.ed.collection \/ k = "join"
     \/ k = "unjoin" /\ es.ed.collection = q.unjoin /\ o.ed.collection = None
  /\ k = "unjoin" /\ o.status = "skipped" =>
       es.ed.collection = None \/ es.ed.collection # q.unjoin \/ label = "unread"
  /\ o.ed.quote = es.ed.quote \/ k = "quote"
  /\ o.ed.activity = es.ed.activity \/ k = "activity"
  /\ o.ed.original = es.ed.original \/ k = "original"
  /\ k = "original" /\ o.status = "skipped" => es.ed.original
  /\ o.ed.cover = es.ed.cover \/ (k = "cover" /\ es.ed.cover = "frame")
  /\ o.ed.topics = es.ed.topics \/ (k = "content" /\ o.ed.topics = {})

LEMMA ItemMoves ==
  ASSUME EditTyped, NEW k \in Keys, NEW label, NEW o \in ItemOutcomes(k, label)
  PROVE  ItemDoes(k, o, label)
<1>0. es.ed \in Notes /\ q \in Requests /\ q.remove \in Nat /\ q.add \in Nat
  BY Given DEF EditTyped, EditSessions, Requests
<1>1. CASE k = "image_remove"
  <2>1. o \in RemoveImages(es.ed, q.remove)
    BY <1>1, Zenon DEF ItemOutcomes
  <2>2. QED
    BY <1>0, <1>1, <2>1, ImagesRemoved DEF ItemDoes, Alike
<1>2. CASE k = "image_add"
  <2>1. o \in AddImages(es.ed, q.add)
    BY <1>2, Zenon DEF ItemOutcomes
  <2>2. QED
    BY <1>0, <1>2, <2>1, ImagesAdded DEF ItemDoes, Alike
<1>3. CASE k = "title"
  <2>1. o \in TypeTitle(es.ed)
    BY <1>3, Zenon DEF ItemOutcomes
  <2>2. QED
    BY <1>0, <1>3, <2>1, TitleTyped DEF ItemDoes, Alike
<1>4. CASE k = "content"
  <2>1. o \in TypeContent(es.ed)
    BY <1>4, Zenon DEF ItemOutcomes
  <2>2. QED
    BY <1>0, <1>4, <2>1, ContentTyped DEF ItemDoes, Alike
<1>5. CASE k = "unjoin"
  <2>1. o \in RemoveCollection(es.ed, q, label)
    BY <1>5, Zenon DEF ItemOutcomes
  <2>2. QED
    BY <1>0, <1>5, <2>1, CollectionLeft DEF ItemDoes, Alike
<1>6. CASE k = "join"
  <2>1. o \in SetCollection(es.ed, q)
    BY <1>6, Zenon DEF ItemOutcomes
  <2>2. QED
    BY <1>0, <1>6, <2>1, CollectionJoined DEF ItemDoes, Alike
<1>7. CASE k = "quote"
  <2>1. o \in SetQuote(es.ed, q)
    BY <1>7, Zenon DEF ItemOutcomes
  <2>2. QED
    BY <1>0, <1>7, <2>1, QuoteSet DEF ItemDoes, Alike, Quoted
<1>8. CASE k = "activity"
  <2>1. o \in SetActivity(es.ed)
    BY <1>8, Zenon DEF ItemOutcomes
  <2>2. QED
    BY <1>0, <1>8, <2>1, ActivitySet DEF ItemDoes, Alike
<1>9. CASE k = "original"
  <2>1. o \in SetOriginal(es.ed)
    BY <1>9, Zenon DEF ItemOutcomes
  <2>2. QED
    BY <1>0, <1>9, <2>1, OriginalSet DEF ItemDoes, Alike
<1>10. CASE k = "cover"
  <2>1. o \in SetCover(es.ed)
    BY <1>10, Zenon DEF ItemOutcomes
  <2>2. QED
    BY <1>0, <1>10, <2>1, CoverSet DEF ItemDoes, Alike
<1>11. QED
  BY <1>1, <1>2, <1>3, <1>4, <1>5, <1>6, <1>7, <1>8, <1>9, <1>10 DEF Keys, EditKeys
(***************************************************************************)
(* Steps                                                                   *)
(***************************************************************************)

(* An item of the request tried, and what came of it kept. *)
Tries(i, o) ==
  LET k == Order[i] IN
  /\ es.at = "steps" /\ IsNext(i) /\ i \in 1..10 /\ k \in Keys /\ Wants(k)
  /\ o.status \in {"done", "skipped", "error"} /\ (k \in EditKeys => o.status = "done")
  /\ Gated(k) => ImageGate(es.loaded)
  /\ \E label \in {"seen", "unread"} :
       /\ ItemDoes(k, o, label) /\ (k # "unjoin" => label = es.label)
       /\ es' = [es EXCEPT !.next = i + 1, !.ed = o.ed, !.out[k] = o.status, !.label = label]
  /\ UNCHANGED result

LEMMA OrderIs ==
  /\ Len(Order) = 11
  /\ Order[1] = "image_remove" /\ Order[2] = "image_add" /\ Order[3] = "title" /\ Order[4] = "content"
  /\ Order[5] = "unjoin" /\ Order[6] = "join" /\ Order[7] = "quote" /\ Order[8] = "activity"
  /\ Order[9] = "original" /\ Order[10] = "cover" /\ Order[11] = "topics"
BY DEF Order

LEMMA OrderKeys == \A i \in 1..11 : (i = 11 <=> Order[i] = "topics") /\ (i # 11 => Order[i] \in Keys)
<1>1. ASSUME NEW i \in 1..11 PROVE (i = 11 <=> Order[i] = "topics") /\ (i # 11 => Order[i] \in Keys)
  <2>1. i \in {1, 2, 3, 4, 5, 6, 7, 8, 9, 10, 11}
    OBVIOUS
  <2>2. QED
    BY <2>1, OrderIs DEF Keys, EditKeys
<1>2. QED
  BY <1>1

EditOver == EndEdit("refused", Nothing, FALSE) \/ EndEdit("aborted", Nothing, TRUE)

LEMMA StepItemIs ==
  ASSUME EditTyped, StepItem
  PROVE  /\ es.at = "steps" /\ UNCHANGED <<q, note, ledger, pending, asked, upsets, first>>
         /\ EditOver \/ \E i \in 1..10 : \E o : Tries(i, o)
<1>1. es.at = "steps" /\ UNCHANGED <<q, note, ledger, pending, asked, upsets, first>>
  BY DEF StepItem
<1>2. PICK i \in Untried : /\ IsNext(i) /\ Order[i] # "topics"
       /\ \E label \in IF Order[i] = "unjoin" THEN Labels(es.ed) ELSE {es.label} : \E o \in Results(Order[i], label) :
            \/ o.status = "modal" /\ EndEdit("refused", Nothing, FALSE)
            \/ o.status # "modal" /\ Aborts(Order[i], o.status) /\ EndEdit("aborted", Nothing, TRUE)
            \/ /\ o.status # "modal" /\ ~Aborts(Order[i], o.status)
               /\ es' = [es EXCEPT !.next = i + 1, !.ed = o.ed, !.out[Order[i]] = o.status, !.label = label]
               /\ UNCHANGED result
  BY Zenon DEF StepItem
<1>3. i \in 1..10 /\ Order[i] \in Keys /\ Wants(Order[i])
  <2>1. es.next \in 1..12
    BY DEF EditTyped, EditSessions
  <2>2. i \in es.next..11 /\ Wants(Order[i])
    BY <1>2, OrderIs DEF Untried
  <2>3. i \in 1..11
    BY <2>1, <2>2
  <2>4. QED
    BY <1>2, <2>2, <2>3, OrderKeys
<1>4a. PICK label \in IF Order[i] = "unjoin" THEN Labels(es.ed) ELSE {es.label} : \E o \in Results(Order[i], label) :
            \/ o.status = "modal" /\ EndEdit("refused", Nothing, FALSE)
            \/ o.status # "modal" /\ Aborts(Order[i], o.status) /\ EndEdit("aborted", Nothing, TRUE)
            \/ /\ o.status # "modal" /\ ~Aborts(Order[i], o.status)
               /\ es' = [es EXCEPT !.next = i + 1, !.ed = o.ed, !.out[Order[i]] = o.status, !.label = label]
               /\ UNCHANGED result
  BY <1>2
<1>4b. label \in {"seen", "unread"} /\ (Order[i] # "unjoin" => label = es.label)
  BY <1>4a DEF Labels, EditTyped, EditSessions
<1>4. PICK o \in Results(Order[i], label) :
            \/ o.status = "modal" /\ EndEdit("refused", Nothing, FALSE)
            \/ o.status # "modal" /\ Aborts(Order[i], o.status) /\ EndEdit("aborted", Nothing, TRUE)
            \/ /\ o.status # "modal" /\ ~Aborts(Order[i], o.status)
               /\ es' = [es EXCEPT !.next = i + 1, !.ed = o.ed, !.out[Order[i]] = o.status, !.label = label]
               /\ UNCHANGED result
  BY <1>4a
<1>5. CASE o.status = "modal" \/ Aborts(Order[i], o.status)
  BY <1>1, <1>4, <1>5, Zenon DEF EditOver
<1>6. CASE o.status # "modal" /\ ~Aborts(Order[i], o.status)
  <2>1. /\ es' = [es EXCEPT !.next = i + 1, !.ed = o.ed, !.out[Order[i]] = o.status, !.label = label]
        /\ UNCHANGED result
    BY <1>4, <1>6, Zenon
  <2>2. Order[i] \in EditKeys => o.status = "done"
    BY <1>6, Zenon DEF Aborts
  <2>3. Gated(Order[i]) => ImageGate(es.loaded) /\ o \in ItemOutcomes(Order[i], label)
    <3>1. SUFFICES ASSUME Gated(Order[i]) PROVE ImageGate(es.loaded) /\ o \in ItemOutcomes(Order[i], label)
      OBVIOUS
    <3>2. Order[i] \in EditKeys
      BY <3>1 DEF Gated, EditKeys
    <3>3. o # Out("error", es.ed)
      BY <3>2, <2>2, OutIs
    <3>4. o \in {Out("error", es.ed)} \/ (ImageGate(es.loaded) /\ o \in ItemOutcomes(Order[i], label))
      BY <1>4, <3>1, Zenon DEF Results
    <3>5. QED
      BY <3>3, <3>4
  <2>4. ~Gated(Order[i]) => o \in ItemOutcomes(Order[i], label)
    BY <1>4, Zenon DEF Results
  <2>5. ItemDoes(Order[i], o, label)
    BY <1>3, <2>3, <2>4, ItemMoves, Zenon
  <2>6. o.status \in {"done", "skipped", "error"}
    BY <2>5, <1>6 DEF ItemDoes
  <2>7. Tries(i, o)
    BY <1>1, <1>2, <1>3, <1>4b, <2>1, <2>2, <2>3, <2>5, <2>6, Zenon DEF Tries
  <2>8. QED
    BY <1>1, <1>3, <2>7, Zenon
<1>7. QED
  BY <1>5, <1>6, Zenon

LEMMA TriesIs ==
  ASSUME EditTyped, NEW i \in 1..10, NEW o, Tries(i, o)
  PROVE  /\ es' \in EditSessions /\ KeptBut({"next", "ed", "out", "label"}) /\ ItemDoes(Order[i], o, es'.label)
         /\ Order[i] # "unjoin" => es'.label = es.label
         /\ es'.next = i + 1 /\ es'.ed = o.ed /\ es'.out = [es.out EXCEPT ![Order[i]] = o.status]
<1>0. PICK label \in {"seen", "unread"} :
        /\ ItemDoes(Order[i], o, label) /\ (Order[i] # "unjoin" => label = es.label)
        /\ es' = [es EXCEPT !.next = i + 1, !.ed = o.ed, !.out[Order[i]] = o.status, !.label = label]
  BY DEF Tries
<1>1. es \in EditSessions /\ Order[i] \in Keys /\ o.ed \in Notes /\ o.status \in {"done", "skipped", "error"}
  BY <1>0 DEF EditTyped, Tries, ItemDoes
<1> DEFINE no == i + 1
<1> DEFINE outs == [es.out EXCEPT ![Order[i]] = o.status]
<1>2. no \in 1..12
  OBVIOUS
<1>3. outs \in [Keys -> {"none", "done", "skipped", "error"}]
  BY <1>1 DEF EditSessions
<1>4. es' = [es EXCEPT !.next = no, !.ed = o.ed, !.out = outs, !.label = label]
  BY <1>0
<1> HIDE DEF no, outs
<1>5. es' \in EditSessions
  BY <1>1, <1>2, <1>3, <1>4, Zenon DEF EditSessions
<1>6. /\ KeptBut({"next", "ed", "out", "label"})
      /\ es'.next = no /\ es'.ed = o.ed /\ es'.out = outs /\ es'.label = label
  BY <1>1, <1>4 DEF EditSessions, KeptBut
<1>7. ItemDoes(Order[i], o, es'.label) /\ (Order[i] # "unjoin" => es'.label = es.label)
  BY <1>0, <1>6
<1>8. QED
  BY <1>5, <1>6, <1>7 DEF no, outs

(* The topics added. *)
Adds(lacking, o) ==
  /\ es.at = "steps" /\ IsNext(11) /\ lacking \subseteq q.topics \ es.ed.topics
  /\ o.ed \in Notes /\ Alike(o.ed, es.ed, {"topics"})
  /\ o.ed.topics \subseteq es.ed.topics \cup lacking /\ es.ed.topics \subseteq o.ed.topics
  /\ es' \in EditSessions /\ KeptBut({"next", "ed", "add", "chosen"})
  /\ es'.next = 12 /\ es'.ed = o.ed /\ es'.add = lacking /\ es'.chosen \subseteq es'.add

LEMMA StepTopicsIs ==
  ASSUME EditTyped, StepTopics
  PROVE  /\ UNCHANGED <<q, note, ledger, pending, result, asked, upsets, first>>
         /\ \E lacking, o : Adds(lacking, o)
<1>1. es.at = "steps" /\ UNCHANGED <<q, note, ledger, pending, result, asked, upsets, first>>
  BY DEF StepTopics
<1>2. PICK i \in Untried : IsNext(i) /\ Order[i] = "topics" /\
       \E lacking \in Missing(es.ed, q) : \E o \in AddTopics(es.ed, lacking) :
         es' = [es EXCEPT !.next = i + 1, !.ed = o.ed, !.add = lacking, !.chosen = o.chosen]
  BY DEF StepTopics
<1>3. PICK lacking \in Missing(es.ed, q) : \E o \in AddTopics(es.ed, lacking) :
         es' = [es EXCEPT !.next = i + 1, !.ed = o.ed, !.add = lacking, !.chosen = o.chosen]
  BY <1>2
<1>4. PICK o \in AddTopics(es.ed, lacking) :
         es' = [es EXCEPT !.next = i + 1, !.ed = o.ed, !.add = lacking, !.chosen = o.chosen]
  BY <1>3
<1>5. i = 11
  <2>1. es.next \in 1..12
    BY DEF EditTyped, EditSessions
  <2>2. i \in es.next..11
    BY OrderIs DEF Untried
  <2>3. i \in 1..11
    BY <2>1, <2>2
  <2>4. QED
    BY <1>2, <2>3, OrderKeys
<1>6. lacking \subseteq q.topics \ es.ed.topics /\ lacking \in SUBSET Topics
  <2>1. q.topics \subseteq Topics
    BY Given DEF Requests
  <2>2. lacking \subseteq q.topics \ es.ed.topics
    BY DEF Missing
  <2>3. QED
    BY <2>1, <2>2
<1>7. es \in EditSessions /\ es.ed \in Notes
  BY DEF EditTyped, EditSessions
<1>8. /\ o.ed \in Notes /\ Alike(o.ed, es.ed, {"topics"}) /\ o.chosen \subseteq lacking
      /\ o.ed.topics \subseteq es.ed.topics \cup lacking /\ es.ed.topics \subseteq o.ed.topics
  BY <1>4, <1>6, <1>7, TopicsAddedIs
<1>13. es' = [es EXCEPT !.next = 12, !.ed = o.ed, !.add = lacking, !.chosen = o.chosen]
  BY <1>4, <1>5
<1>9. es' \in EditSessions
  <2>1. 12 \in 1..12 /\ o.chosen \in SUBSET Topics
    BY <1>6, <1>8
  <2>2. QED
    BY <2>1, <1>13, <1>6, <1>7, <1>8, Zenon DEF EditSessions
<1>10. /\ KeptBut({"next", "ed", "add", "chosen"})
       /\ es'.next = 12 /\ es'.ed = o.ed /\ es'.add = lacking /\ es'.chosen = o.chosen
  BY <1>13, <1>7 DEF EditSessions, KeptBut
<1>11. Adds(lacking, o)
  <2>1. IsNext(11)
    BY <1>2, <1>5
  <2>2. QED
    BY <1>1, <2>1, <1>6, <1>8, <1>9, <1>10 DEF Adds
<1>12. QED
  BY <1>1, <1>11

EditNext == Begin \/ EditStep

(* The session looks at the note afresh; it is at another step; it ends. *)
Afresh(S) ==
  /\ es' \in EditSessions /\ es'.at \in S /\ es'.next = 1 /\ es'.loaded = note /\ es'.ed = note
  /\ es'.add = {} /\ es'.chosen = {} /\ es'.out = Nothing /\ ~es'.clicked /\ ~es'.sure
GoesTo(step) ==
  es' \in EditSessions /\ KeptBut({"at", "clicked", "answered", "sure", "read", "label"}) /\ es'.at = step
Begins ==
  /\ es.at = "idle" /\ Afresh({"open", "idle"}) /\ ~es'.alone /\ asked < MaxAsked /\ asked' = asked + 1
  /\ UNCHANGED <<note, pending, upsets>>
Opens == es.at = "open" /\ Afresh({"steps"}) /\ UNCHANGED <<note, pending, asked, upsets>>
Works ==
  /\ es.at = "steps" /\ UNCHANGED <<note, pending, asked, upsets>>
  /\ (\E i \in 1..10 : \E o : Tries(i, o)) \/ (\E lacking, o : Adds(lacking, o))
Rests == GoesTo("idle") /\ UNCHANGED <<note, pending, asked>> /\ (UNCHANGED upsets \/ Slip)
Decides == es.at = "steps" /\ Untried = {} /\ GoesTo("click") /\ UNCHANGED <<note, pending, asked, upsets>>
Clicks ==
  es.at = "click" /\ GoesTo("wait") /\ pending' = pending \cup {es.ed} /\ UNCHANGED <<note, asked, upsets>>
ReadsOn ==
  /\ es.at \in {"wait", "verify", "restore"} /\ \E step \in {"verify", "restore", "record"} : GoesTo(step)
  /\ UNCHANGED <<pending, asked, upsets>>
  /\ \/ UNCHANGED note
     \/ es.loaded.permission \in Levels /\ note' = [note EXCEPT !.permission = es.loaded.permission]
Lands(n) ==
  /\ n \in pending /\ pending' = pending \ {n} /\ UNCHANGED <<es, asked>>
  /\ \E p \in Levels \cup {"other"} :
       /\ note' = [n EXCEPT !.permission = p, !.collection = IF p = "private" THEN None ELSE @]
       /\ IF p = n.permission THEN UNCHANGED upsets ELSE Slip
Loses(n) == n \in pending /\ pending' = pending \ {n} /\ UNCHANGED <<es, note, asked>> /\ Slip

LEMMA BeginMoves ==
  ASSUME EditTyped, Begin
  PROVE  /\ Begins /\ UNCHANGED <<q, first, ledger>>
         /\ result' \in EditReports /\ result'.status = "none" /\ result'.applied = Nothing
         /\ result'.kind \in {"none", "refused"} /\ (es'.at = "open" => result'.kind = "none")
<1>1. /\ es.at = "idle" /\ asked < MaxAsked /\ asked' = asked + 1
      /\ UNCHANGED <<q, note, ledger, pending, upsets, first>>
      /\ \/ es' = [Idle(note) EXCEPT !.at = "open"] /\ result' = Silent
         \/ es' = Idle(note) /\ result' = [Silent EXCEPT !.kind = "refused"]
  BY DEF Begin
<1>2. note \in Notes
  BY DEF EditTyped
<1>3. Afresh({"open", "idle"}) /\ ~es'.alone
  <2>1. CASE es' = Idle(note)
    BY <1>2, <2>1, IdleIs DEF Afresh
  <2>2. CASE es' = [Idle(note) EXCEPT !.at = "open"]
    <3>1. es' \in EditSessions
      BY <1>2, <2>2, IdleIs DEF EditSessions
    <3>2. QED
      BY <1>2, <3>1, <2>2 DEF Afresh, Idle
  <2>3. QED
    BY <1>1, <2>1, <2>2
<1>4. result' \in EditReports /\ result'.status = "none" /\ result'.applied = Nothing /\ result'.kind \in {"none", "refused"}
  <2>1. "refused" \in EditEnds
    BY DEF EditEnds
  <2>2. LET r == [Silent EXCEPT !.kind = "refused"] IN
          r \in EditReports /\ r.kind = "refused" /\ r.applied = Nothing /\ r.status = "none"
    BY <2>1, SilentIs
  <2>3. QED
    BY <1>1, <2>2, SilentIs
<1>5. es'.at = "open" => result'.kind = "none"
  BY <1>1, <1>2, IdleIs, SilentIs
<1>6. QED
  BY <1>1, <1>3, <1>4, <1>5 DEF Begins

LEMMA OverMoves ==
  ASSUME EditTyped, NEW how \in EditEnds, NEW applied \in [Keys -> {"none", "true", "false"}], NEW kept \in BOOLEAN,
         EndEdit(how, applied, kept)
  PROVE  GoesTo("idle")
BY EndEditIs DEF GoesTo, KeptBut

LEMMA OpenMoves ==
  ASSUME EditTyped, OpenPage
  PROVE  /\ UNCHANGED <<q, first, ledger, note, pending, asked, upsets>> /\ es.at = "open"
         /\ \/ Opens /\ UNCHANGED result /\ (es'.alone <=> pending = {})
            \/ Rests /\ EndEdit("refused", Nothing, FALSE)
<1>1. /\ es.at = "open" /\ UNCHANGED <<q, note, ledger, pending, asked, upsets, first>>
      /\ \/ es' = [Idle(note) EXCEPT !.at = "steps", !.alone = pending = {}] /\ UNCHANGED result
         \/ EndEdit("refused", Nothing, FALSE)
  BY DEF OpenPage
<1>2. CASE es' = [Idle(note) EXCEPT !.at = "steps", !.alone = pending = {}] /\ UNCHANGED result
  <2>0. note \in Notes /\ Idle(note) \in EditSessions
    BY IdleIs DEF EditTyped
  <2>1. PICK b \in BOOLEAN : b <=> pending = {}
    BY Zenon
  <2>2. es' = [Idle(note) EXCEPT !.at = "steps", !.alone = b]
    BY <1>2, <2>1, Zenon
  <2>3. es' \in EditSessions
    BY <2>0, <2>2 DEF EditSessions
  <2>4. Afresh({"steps"}) /\ (es'.alone <=> pending = {})
    BY <2>3, <1>2 DEF Afresh, Idle
  <2>5. QED
    BY <1>1, <1>2, <2>4 DEF Opens
<1>3. CASE EndEdit("refused", Nothing, FALSE)
  BY <1>1, <1>3, OverMoves, NothingTyped DEF Rests, EditEnds
<1>4. QED
  BY <1>1, <1>2, <1>3

LEMMA StepMoves ==
  ASSUME EditTyped, StepItem \/ StepTopics
  PROVE  /\ UNCHANGED <<q, first, ledger, note, pending, asked, upsets>> /\ es.at = "steps"
         /\ (Works /\ UNCHANGED result) \/ (Rests /\ EditOver)
<1>1. CASE StepItem
  <2>1. CASE EditOver
    BY <1>1, <2>1, StepItemIs, OverMoves, NothingTyped DEF EditOver, Rests, EditEnds
  <2>2. CASE ~EditOver
    <3>1a. PICK i \in 1..10 : \E o : Tries(i, o)
      BY <1>1, <2>2, StepItemIs
    <3>1. PICK o : Tries(i, o)
      BY <3>1a
    <3>2. UNCHANGED result
      BY <3>1 DEF Tries
    <3>3. QED
      BY <1>1, <3>1, <3>2, StepItemIs DEF Works
  <2>3. QED
    BY <2>1, <2>2
<1>2. CASE StepTopics
  <2>1. PICK lacking, o : Adds(lacking, o)
    BY <1>2, StepTopicsIs
  <2>2. es.at = "steps"
    BY <1>2 DEF StepTopics
  <2>3. QED
    BY <1>2, <2>1, <2>2, StepTopicsIs DEF Works
<1>3. QED
  BY <1>1, <1>2

NoopMap == [k \in Keys |-> IF k \in Skipped THEN "true" ELSE "none"]

LEMMA DecideMoves ==
  ASSUME EditTyped, Decide
  PROVE  /\ UNCHANGED <<q, first, ledger, note, pending, asked, upsets>> /\ es.at = "steps" /\ Untried = {}
         /\ \/ Decides /\ UNCHANGED result /\ es'.clicked = es.clicked /\ es'.sure = es.sure /\ es'.label = es.label
            \/ Rests /\ \E how \in {"noop", "nothing"} : EndEdit(how, NoopMap, TRUE)
<1>1. /\ es.at = "steps" /\ Untried = {} /\ UNCHANGED <<q, note, ledger, pending, asked, upsets, first>>
      /\ \/ EndEdit(IF Skipped # {} THEN "noop" ELSE "nothing", NoopMap, TRUE)
         \/ es' = [es EXCEPT !.at = "click"] /\ UNCHANGED result
  BY Zenon DEF Decide, NoopMap
<1>2. CASE es' = [es EXCEPT !.at = "click"] /\ UNCHANGED result
  BY <1>1, <1>2, AtIs DEF EditTyped, Decides, GoesTo, KeptBut
<1>3. CASE EndEdit(IF Skipped # {} THEN "noop" ELSE "nothing", NoopMap, TRUE)
  <2>1. PICK how \in {"noop", "nothing"} : EndEdit(how, NoopMap, TRUE)
    BY <1>3, Zenon
  <2>2. NoopMap \in [Keys -> {"none", "true", "false"}]
    BY DEF NoopMap
  <2>3. GoesTo("idle")
    BY <2>1, <2>2, OverMoves DEF EditEnds
  <2>4. QED
    BY <1>1, <2>1, <2>3 DEF Rests
<1>4. QED
  BY <1>1, <1>2, <1>3

LEMMA ClickMoves ==
  ASSUME EditTyped, ClickPublish
  PROVE  /\ UNCHANGED <<q, first, ledger, note, asked, upsets>> /\ es.at = "click"
         /\ \/ Clicks /\ UNCHANGED result /\ es'.clicked /\ es'.sure = es.sure /\ es'.label = es.label
            \/ Rests /\ EndEdit("refused", Nothing, FALSE)
<1>1. /\ es.at = "click" /\ UNCHANGED <<q, note, ledger, asked, upsets, first>>
      /\ \/ EndEdit("refused", Nothing, FALSE) /\ UNCHANGED pending
         \/ /\ es' = [es EXCEPT !.at = "wait", !.clicked = TRUE]
            /\ pending' = pending \cup {es.ed}
            /\ UNCHANGED result
  BY DEF ClickPublish
<1>2. CASE /\ es' = [es EXCEPT !.at = "wait", !.clicked = TRUE]
           /\ pending' = pending \cup {es.ed}
           /\ UNCHANGED result
  <2>1. es \in EditSessions
    BY DEF EditTyped
  <2>2. es' \in EditSessions /\ KeptBut({"at", "clicked"}) /\ es'.at = "wait" /\ es'.clicked
    BY <1>2, <2>1 DEF EditSessions, KeptBut
  <2>3. QED
    BY <1>1, <1>2, <2>2 DEF Clicks, GoesTo, KeptBut
<1>3. CASE EndEdit("refused", Nothing, FALSE) /\ UNCHANGED pending
  BY <1>1, <1>3, OverMoves, NothingTyped DEF Rests, EditEnds
<1>4. QED
  BY <1>1, <1>2, <1>3

LEMMA AnswerMoves ==
  ASSUME EditTyped, Answer
  PROVE  /\ UNCHANGED <<q, first, ledger, note, pending, result, asked, upsets>> /\ es.at = "wait"
         /\ ReadsOn /\ es'.at = "verify" /\ es'.clicked = es.clicked /\ es'.sure = es.sure
<1>1. PICK b \in BOOLEAN : es' = [es EXCEPT !.at = "verify", !.answered = b]
  BY DEF Answer
<1>2. es \in EditSessions
  BY DEF EditTyped
<1>3. es' \in EditSessions /\ KeptBut({"at", "answered"}) /\ es'.at = "verify"
  BY <1>1, <1>2 DEF EditSessions, KeptBut
<1>4. QED
  BY <1>3 DEF Answer, ReadsOn, GoesTo, KeptBut

LEMMA RestMoves ==
  ASSUME EditTyped, Raise \/ Record \/ Kill
  PROVE  /\ UNCHANGED <<q, first>> /\ Rests /\ KeptBut({"at"}) /\ es.at # "idle"
<1>1. CASE Raise
  <2>1. EndEdit("unknown", Nothing, FALSE) /\ Slip /\ UNCHANGED <<q, note, pending, asked, first>> /\ es.at = "verify"
    BY <1>1 DEF Raise
  <2>2. KeptBut({"at"})
    BY <2>1, EndEditIs, NothingTyped DEF EditEnds
  <2>3. QED
    BY <2>1, <2>2, OverMoves, NothingTyped DEF Rests, EditEnds
<1>2. CASE Record
  BY <1>2, AtIs DEF EditTyped, Record, Rests, GoesTo, KeptBut
<1>3. CASE Kill
  BY <1>3, AtIs DEF EditTyped, Kill, Rests, GoesTo, KeptBut
<1>4. QED
  BY <1>1, <1>2, <1>3

LEMMA RestoreMoves ==
  ASSUME EditTyped, Restore
  PROVE  /\ UNCHANGED <<q, first, ledger, result, pending, asked, upsets>> /\ es.at = "restore"
         /\ ReadsOn /\ es'.at = "record" /\ KeptBut({"at"})
<1>1. es' = [es EXCEPT !.at = "record"] /\ es \in EditSessions
  BY DEF Restore, EditTyped
<1>2. es' \in EditSessions /\ KeptBut({"at"}) /\ es'.at = "record"
  BY <1>1, AtIs
<1>3. QED
  BY <1>2 DEF Restore, ReadsOn, GoesTo, KeptBut
(* What the read-back tells, if the page opened and but for the items in unread. *)
Seen(opened, unread, look) ==
  [k \in Keys |-> IF opened /\ Wants(k) /\ k \notin unread THEN ReadBack(k, look) ELSE "none"]
TopicsSeen(opened) ==
  IF ~es.answered THEN es.ed.topics \ es.add ELSE IF opened THEN note.topics ELSE {}

LEMMA SeenTyped ==
  ASSUME NEW opened, NEW unread, NEW look
  PROVE  Seen(opened, unread, look) \in [Keys -> {"none", "true", "false"}]
<1>1. ASSUME NEW k \in Keys PROVE ReadBack(k, look) \in {"none", "true", "false"}
  <2>1. \A b : Is(b) \in {"true", "false"}
    BY Zenon DEF Is
  <2>2. k \in {"unjoin", "join", "quote", "activity", "original", "cover", "title", "content", "image_remove", "image_add"}
    BY DEF Keys, EditKeys
  <2>3. ImagesRead \in {"true", "false"}
    BY <2>1, Zenon DEF ImagesRead
  <2>4. QED
    BY <2>1, <2>2, <2>3, Zenon DEF ReadBack
<1>2. QED
  BY <1>1 DEF Seen

LEMMA VerifyMoves ==
  ASSUME EditTyped, Verify
  PROVE  /\ UNCHANGED <<q, first, ledger, note, pending, asked, upsets>> /\ es.at = "verify"
         /\ ReadsOn /\ es'.at \in {"restore", "record"} /\ es'.clicked = es.clicked /\ (es'.sure <=> pending = {})
         /\ es'.read = note.title
         /\ result' \in EditReports /\ result'.kind = "read" /\ (result'.preserved => PermissionKept)
         /\ \E opened \in BOOLEAN, unread \in SUBSET Keys, look \in Looks :
              /\ es'.label = look.label /\ result'.applied = Seen(opened, unread, look)
              /\ result'.status = Overall(Seen(opened, unread, look), TopicsSeen(opened))
<1>1. PICK opened \in BOOLEAN, look \in Looks,
           unread \in {{}, {"title", "content", "original", "image_remove", "image_add"}} :
        /\ es' = [es EXCEPT !.at = IF opened /\ ~PermissionKept THEN "restore" ELSE "record", !.sure = pending = {},
                            !.read = note.title, !.label = look.label]
        /\ result' = [kind |-> "read", applied |-> Seen(opened, unread, look), topics |-> TopicsSeen(opened),
                      status |-> Overall(Seen(opened, unread, look), TopicsSeen(opened)),
                      preserved |-> opened /\ PermissionKept]
  BY Zenon DEF Verify, Seen, TopicsSeen
<1>2. es.at = "verify" /\ UNCHANGED <<q, note, ledger, pending, asked, upsets, first>>
  BY DEF Verify
<1>3. es \in EditSessions /\ note \in Notes
  BY DEF EditTyped
<1>4. PICK step \in {"restore", "record"} : step = IF opened /\ ~PermissionKept THEN "restore" ELSE "record"
  BY Zenon
<1>5. PICK b \in BOOLEAN : b <=> pending = {}
  BY Zenon
<1>d. note.title \in TextStates /\ look.label \in {"seen", "unread"}
  BY <1>3 DEF Notes, Looks, Labels
<1>6. es' = [es EXCEPT !.at = step, !.sure = b, !.read = note.title, !.label = look.label]
  BY <1>1, <1>4, <1>5, Zenon
<1>7. /\ es' \in EditSessions /\ KeptBut({"at", "sure", "read", "label"}) /\ es'.at = step
      /\ (es'.sure <=> pending = {}) /\ es'.read = note.title /\ es'.label = look.label
  BY <1>3, <1>5, <1>6, <1>d DEF EditSessions, KeptBut
<1>8. TopicsSeen(opened) \in SUBSET Topics
  BY <1>3 DEF TopicsSeen, EditSessions, Notes
<1>9. PICK p \in BOOLEAN : p <=> opened /\ PermissionKept
  BY Zenon
<1>10. result' = [kind |-> "read", applied |-> Seen(opened, unread, look), topics |-> TopicsSeen(opened),
                  status |-> Overall(Seen(opened, unread, look), TopicsSeen(opened)), preserved |-> p]
  BY <1>1, <1>9, Zenon
<1>11. result' \in EditReports
  <2>1. "read" \in EditEnds
    BY DEF EditEnds
  <2>2. Seen(opened, unread, look) \in [Keys -> {"none", "true", "false"}]
    BY SeenTyped
  <2>3. Overall(Seen(opened, unread, look), TopicsSeen(opened)) \in {"none", "done", "partially_applied", "failed"}
    BY OverallTyped
  <2>4. QED
    BY <1>8, <1>10, <2>1, <2>2, <2>3, Zenon DEF EditReports
<1>12. /\ result'.kind = "read" /\ (result'.preserved => PermissionKept)
       /\ result'.applied = Seen(opened, unread, look)
       /\ result'.status = Overall(Seen(opened, unread, look), TopicsSeen(opened))
  BY <1>9, <1>10
<1>13. unread \in SUBSET Keys
  BY DEF Keys, EditKeys
<1>14. ReadsOn
  BY <1>2, <1>7 DEF ReadsOn, GoesTo, KeptBut
<1>15. es'.at \in {"restore", "record"} /\ es'.clicked = es.clicked
  BY <1>7 DEF KeptBut
<1>16. \E o \in BOOLEAN, u \in SUBSET Keys, w \in Looks :
         /\ es'.label = w.label /\ result'.applied = Seen(o, u, w)
         /\ result'.status = Overall(Seen(o, u, w), TopicsSeen(o))
  BY <1>7, <1>12, <1>13, Zenon
<1>17. result'.preserved => PermissionKept
  BY <1>12, Zenon
<1>18. QED
  BY <1>2, <1>7, <1>11, <1>12, <1>14, <1>15, <1>16, <1>17, Zenon

LEMMA SiteMoves ==
  ASSUME EditTyped, NEW n \in pending, Land(n) \/ Lose(n)
  PROVE  /\ UNCHANGED <<q, first, ledger, result, es, asked>>
         /\ Lands(n) \/ Loses(n)
BY DEF Land, Lose, Lands, Loses

LEMMA LandsIs ==
  ASSUME EditTyped, NEW n \in pending, Lands(n)
  PROVE  /\ note' \in Notes /\ n \in Notes /\ Alike(note', n, {"permission", "collection"})
         /\ (note'.permission = n.permission /\ UNCHANGED upsets) \/ Slip
         /\ note'.collection = n.collection \/ (note'.collection = None /\ note'.permission = "private")
<1>1. n \in Notes
  BY DEF EditTyped
<1>2. PICK p \in Levels \cup {"other"} :
       /\ note' = [n EXCEPT !.permission = p, !.collection = IF p = "private" THEN None ELSE @]
       /\ IF p = n.permission THEN UNCHANGED upsets ELSE Slip
  BY DEF Lands
<1>3. note' \in Notes /\ Alike(note', n, {"permission", "collection"}) /\ note'.permission = p
      /\ note'.collection = IF p = "private" THEN None ELSE n.collection
  BY <1>1, <1>2 DEF Notes, Alike
<1>4. QED
  BY <1>1, <1>2, <1>3

LEMMA RestoredIs ==
  ASSUME note \in Notes, NEW p \in Levels, note' = [note EXCEPT !.permission = p]
  PROVE  note' \in Notes /\ Alike(note', note, {"permission"}) /\ note'.permission = p
BY DEF Notes, Alike

(***************************************************************************)
(* Types                                                                   *)
(***************************************************************************)

LEMMA InitTyped == EditInit => EditTyped
<1> SUFFICES ASSUME EditInit PROVE EditTyped
  OBVIOUS
<1>1. first \in Starts /\ note = first /\ note \in Notes /\ q \in Asked
  BY EditsGiven DEF EditInit
<1>2. es \in EditSessions /\ es.chosen = {} /\ result \in EditReports
  BY <1>1, IdleIs, SilentIs DEF EditInit
<1>3. asked \in 0..MaxAsked /\ upsets \in 0..MaxUpsets
  BY EditsGiven DEF EditInit
<1>4. ledger \in TextStates
  BY DEF EditInit, TextStates
<1>5. QED
  BY <1>1, <1>2, <1>3, <1>4 DEF EditInit, EditTyped

Counted == asked' \in 0..MaxAsked /\ upsets' \in 0..MaxUpsets

LEMMA Counts ==
  ASSUME EditTyped, UNCHANGED asked \/ (asked < MaxAsked /\ asked' = asked + 1), UNCHANGED upsets \/ Slip
  PROVE  Counted
BY EditsGiven DEF EditTyped, Counted, Slip

LEMMA NextTyped ==
  ASSUME EditTyped, EditNext
  PROVE  EditTyped'
<1>0. /\ q \in Asked /\ note \in Notes /\ first \in Starts /\ pending \subseteq Notes
      /\ ledger \in TextStates /\ es \in EditSessions /\ es.chosen \subseteq es.add /\ result \in EditReports
  BY DEF EditTyped
<1>e. ASSUME /\ q' \in Asked /\ note' \in Notes /\ first' \in Starts /\ pending' \subseteq Notes
             /\ ledger' \in TextStates /\ es' \in EditSessions /\ es'.chosen \subseteq es'.add
             /\ result' \in EditReports /\ Counted
      PROVE  EditTyped'
  BY <1>e DEF EditTyped, Counted
<1>1. ASSUME Begin PROVE EditTyped'
  BY <1>0, <1>1, <1>e, BeginMoves, Counts DEF Begins, Afresh
<1>2. ASSUME OpenPage PROVE EditTyped'
  <2>1. CASE Opens /\ UNCHANGED result
    BY <1>0, <1>2, <1>e, <2>1, OpenMoves, Counts DEF Opens, Afresh
  <2>2. CASE EndEdit("refused", Nothing, FALSE)
    <3>1. es' \in EditSessions /\ KeptBut({"at"}) /\ result' \in EditReports
      BY <2>2, EndEditIs, NothingTyped DEF EditEnds
    <3>2. QED
      BY <1>0, <1>2, <1>e, <3>1, OpenMoves, Counts DEF KeptBut
  <2>3. QED
    BY <1>2, <2>1, <2>2, OpenMoves
<1>3. ASSUME StepItem \/ StepTopics PROVE EditTyped'
  <2>1. CASE EditOver
    <3>1. es' \in EditSessions /\ KeptBut({"at"}) /\ result' \in EditReports
      BY <2>1, EndEditIs, NothingTyped DEF EditEnds, EditOver
    <3>2. QED
      BY <1>0, <1>3, <1>e, <3>1, StepMoves, Counts DEF KeptBut
  <2>2. ASSUME NEW i \in 1..10, NEW o, Tries(i, o) PROVE EditTyped'
    <3>1. es' \in EditSessions /\ KeptBut({"next", "ed", "out", "label"}) /\ UNCHANGED result
      BY <1>0, <2>2, TriesIs DEF Tries
    <3>2. QED
      BY <1>0, <1>3, <1>e, <3>1, StepMoves, Counts DEF KeptBut
  <2>3. ASSUME NEW lacking, NEW o, Adds(lacking, o), UNCHANGED result PROVE EditTyped'
    BY <1>0, <1>3, <1>e, <2>3, StepMoves, Counts DEF Adds
  <2>4. QED
    BY <1>3, <2>1, <2>2, <2>3, StepMoves DEF Works
<1>4. ASSUME Decide PROVE EditTyped'
  <2>1. CASE Decides /\ UNCHANGED result
    BY <1>0, <1>4, <1>e, <2>1, DecideMoves, Counts DEF Decides, GoesTo, KeptBut
  <2>2. ASSUME NEW how \in {"noop", "nothing"}, EndEdit(how, NoopMap, TRUE) PROVE EditTyped'
    <3>1. NoopMap \in [Keys -> {"none", "true", "false"}]
      BY DEF NoopMap
    <3>2. es' \in EditSessions /\ KeptBut({"at"}) /\ result' \in EditReports
      BY <2>2, <3>1, EndEditIs DEF EditEnds
    <3>3. QED
      BY <1>0, <1>4, <1>e, <3>2, DecideMoves, Counts DEF KeptBut
  <2>3. QED
    BY <1>4, <2>1, <2>2, DecideMoves
<1>5. ASSUME ClickPublish PROVE EditTyped'
  <2>1. CASE Clicks /\ UNCHANGED result
    <3>1. es.ed \in Notes
      BY <1>0 DEF EditSessions
    <3>2. QED
      BY <1>0, <1>5, <1>e, <2>1, <3>1, ClickMoves, Counts DEF Clicks, GoesTo, KeptBut
  <2>2. CASE Rests /\ EndEdit("refused", Nothing, FALSE)
    <3>1. es' \in EditSessions /\ KeptBut({"at"}) /\ result' \in EditReports
      BY <2>2, EndEditIs, NothingTyped DEF EditEnds
    <3>2. QED
      BY <1>0, <1>5, <1>e, <2>2, <3>1, ClickMoves, Counts DEF KeptBut, Rests
  <2>3. QED
    BY <1>5, <2>1, <2>2, ClickMoves
<1>6. ASSUME Answer PROVE EditTyped'
  BY <1>0, <1>6, <1>e, AnswerMoves, Counts DEF ReadsOn, GoesTo, KeptBut
<1>7. ASSUME Verify PROVE EditTyped'
  <2>1. es' \in EditSessions /\ es'.chosen \subseteq es'.add
    BY <1>0, <1>7, VerifyMoves DEF ReadsOn, GoesTo, KeptBut
  <2>2. QED
    BY <1>0, <1>7, <1>e, <2>1, VerifyMoves, Counts
<1>8. ASSUME Restore PROVE EditTyped'
  <2>1. es' \in EditSessions /\ es'.chosen \subseteq es'.add
    BY <1>0, <1>8, RestoreMoves DEF ReadsOn, GoesTo, KeptBut
  <2>2. note' \in Notes
    BY <1>0, <1>8, RestoreMoves, RestoredIs DEF ReadsOn
  <2>3. QED
    BY <1>0, <1>8, <1>e, <2>1, <2>2, RestoreMoves, Counts
<1>9. ASSUME Raise \/ Record \/ Kill PROVE EditTyped'
  <2>1. es' \in EditSessions /\ es'.chosen \subseteq es'.add
    BY <1>0, <1>9, RestMoves DEF Rests, GoesTo, KeptBut
  <2>2. result' \in EditReports /\ ledger' \in TextStates
    <3>1. CASE Raise
      <4>1. EndEdit("unknown", Nothing, FALSE) /\ UNCHANGED ledger
        BY <3>1 DEF Raise
      <4>2. QED
        BY <1>0, <4>1, EndEditIs, NothingTyped DEF EditEnds
    <3>2. CASE Record
      <4>1. es.read \in TextStates
        BY <1>0 DEF EditSessions
      <4>2. QED
        BY <1>0, <3>2, <4>1 DEF Record
    <3>3. CASE Kill
      <4>1. "unknown" \in EditEnds
        BY DEF EditEnds
      <4>2. LET r == [Silent EXCEPT !.kind = "unknown"] IN r \in EditReports
        BY <4>1, SilentIs
      <4>3. QED
        BY <1>0, <3>3, <4>2 DEF Kill
    <3>4. QED
      BY <1>9, <3>1, <3>2, <3>3
  <2>3. QED
    BY <1>0, <1>9, <1>e, <2>1, <2>2, RestMoves, Counts DEF Rests
<1>10. ASSUME NEW n \in pending, Land(n) \/ Lose(n) PROVE EditTyped'
  <2>1. CASE Lands(n)
    <3>1. note' \in Notes /\ (UNCHANGED upsets \/ Slip)
      BY <2>1, LandsIs
    <3>2. QED
      BY <1>0, <1>10, <1>e, <2>1, <3>1, SiteMoves, Counts DEF Lands
  <2>2. CASE Loses(n)
    BY <1>0, <1>10, <1>e, <2>2, SiteMoves, Counts DEF Loses
  <2>3. QED
    BY <1>10, <2>1, <2>2, SiteMoves
<1>11. QED
  BY <1>1, <1>2, <1>3, <1>4, <1>5, <1>6, <1>7, <1>8, <1>9, <1>10 DEF EditNext, EditStep, SetComponents

EditSteps ==
  \/ Begins \/ Opens \/ Works \/ Rests \/ Decides \/ Clicks \/ ReadsOn
  \/ \E n \in pending : Lands(n) \/ Loses(n)

LEMMA EditMoves ==
  ASSUME EditTyped, EditNext
  PROVE  UNCHANGED <<q, first>> /\ EditSteps
<1>1. CASE Begin
  BY <1>1, BeginMoves DEF EditSteps
<1>2. CASE OpenPage
  BY <1>2, OpenMoves DEF EditSteps
<1>3. CASE StepItem \/ StepTopics
  BY <1>3, StepMoves DEF EditSteps
<1>4. CASE Decide
  BY <1>4, DecideMoves DEF EditSteps
<1>5. CASE ClickPublish
  BY <1>5, ClickMoves DEF EditSteps
<1>6. CASE Answer
  BY <1>6, AnswerMoves DEF EditSteps
<1>7. CASE Verify
  BY <1>7, VerifyMoves DEF EditSteps
<1>8. CASE Restore
  BY <1>8, RestoreMoves DEF EditSteps
<1>9. CASE Raise \/ Record \/ Kill
  BY <1>9, RestMoves DEF EditSteps
<1>10. CASE \E n \in pending : Land(n) \/ Lose(n)
  BY <1>10, SiteMoves DEF EditSteps
<1>11. QED
  BY <1>1, <1>2, <1>3, <1>4, <1>5, <1>6, <1>7, <1>8, <1>9, <1>10 DEF EditNext, EditStep, SetComponents

(***************************************************************************)
(* The editor                                                              *)
(***************************************************************************)

AtWork == {"steps", "click", "wait", "verify", "restore", "record"}

(* The editor as the items passed have made it out of the page as loaded. *)
TextsSo ==
  /\ es.next = 1 => es.ed = es.loaded
  /\ es.next = 2 => q.remove > 0
  /\ es.ed.gone = es.loaded.gone + (IF es.next > 1 THEN q.remove ELSE 0)
  /\ es.ed.more = es.loaded.more + (IF es.next > 2 THEN q.add ELSE 0)
  /\ es.ed.title = IF q.title /\ es.next > 3 THEN "new" ELSE es.loaded.title
  /\ es.ed.content = IF q.content /\ es.next > 4 THEN "new" ELSE es.loaded.content
  /\ (es.next > 1 /\ q.remove > 0) \/ (es.next > 2 /\ q.add > 0) => ImageGate(es.loaded)

(* The items after the texts: not touched before their turn, and skipped for a reason.  *)
PartsSo ==
  /\ es.next <= 5 => es.ed.collection = es.loaded.collection
  /\ es.next <= 9 => es.ed.original = es.loaded.original
  /\ es.at = "steps" /\ es.out["unjoin"] = "skipped" =>
       es.loaded.collection = None \/ es.loaded.collection # q.unjoin \/ es.label = "unread"
  /\ es.out["original"] = "skipped" => es.loaded.original
  /\ es.next <= 11 => es.add = {}
  /\ es.ed.topics \ es.add \subseteq es.loaded.topics

EditorInv ==
  /\ es.at \in AtWork => TextsSo /\ PartsSo
  /\ es.at \in AtWork \ {"steps"} => Untried = {}

(* What is not tried before an item was not asked for. *)
LEMMA PassedOver ==
  ASSUME EditTyped, NEW i \in 1..11, IsNext(i)
  PROVE  /\ es.next \in 1..i /\ \A j \in es.next..i - 1 : ~Wants(Order[j])
         /\ Wants(Order[i])
<1>1. es.next \in 1..12
  BY DEF EditTyped, EditSessions
<1>2. i \in es.next..11 /\ Wants(Order[i])
  BY OrderIs DEF IsNext, Untried
<1>3. ASSUME NEW j \in es.next..i - 1, Wants(Order[j]) PROVE FALSE
  <2>1. j \in Untried
    BY <1>1, <1>2, <1>3, OrderIs DEF Untried
  <2>2. i <= j
    BY <2>1 DEF IsNext
  <2>3. QED
    BY <1>1, <1>2, <2>2
<1>4. QED
  BY <1>1, <1>2, <1>3

LEMMA WantsIs ==
  /\ Wants("image_remove") <=> q.remove > 0
  /\ Wants("image_add") <=> q.add > 0
  /\ Wants("title") <=> q.title
  /\ Wants("content") <=> q.content
  /\ Wants("unjoin") <=> q.unjoin # None
  /\ Wants("join") <=> q.join # None
  /\ Wants("quote") <=> q.quote
  /\ Wants("activity") <=> q.activity
  /\ Wants("original") <=> q.original
  /\ Wants("cover") <=> q.cover
  /\ Wants("topics") <=> q.topics # {}
BY DEF Wants

LEMMA Passed ==
  ASSUME EditTyped, NEW i \in 1..11, IsNext(i)
  PROVE  /\ es.next \in 1..i
         /\ i = 1 => q.remove > 0
         /\ es.next = 1 /\ i > 1 => q.remove = 0
         /\ es.next <= 2 /\ i > 2 => q.add = 0
         /\ i = 3 => q.title
         /\ es.next <= 3 /\ i > 3 => ~q.title
         /\ i = 4 => q.content
         /\ es.next <= 4 /\ i > 4 => ~q.content
<1>1. q.remove \in Nat /\ q.add \in Nat
  BY Given DEF Requests
<1>2. /\ es.next \in 1..i /\ \A j \in es.next..i - 1 : ~Wants(Order[j])
      /\ Wants(Order[i])
  BY PassedOver
<1>3. es.next = 1 /\ i > 1 => ~Wants("image_remove")
  BY <1>2, OrderIs
<1>4. es.next <= 2 /\ i > 2 => ~Wants("image_add")
  BY <1>2, OrderIs
<1>5. es.next <= 3 /\ i > 3 => ~Wants("title")
  BY <1>2, OrderIs
<1>6. es.next <= 4 /\ i > 4 => ~Wants("content")
  BY <1>2, OrderIs
<1>7. (i = 1 => Wants("image_remove")) /\ (i = 3 => Wants("title")) /\ (i = 4 => Wants("content"))
  BY <1>2, OrderIs
<1>8. es.next = 1 /\ i > 1 => q.remove = 0
  BY <1>1, <1>3, WantsIs
<1>9. es.next <= 2 /\ i > 2 => q.add = 0
  BY <1>1, <1>4, WantsIs
<1>10. (es.next <= 3 /\ i > 3 => ~q.title) /\ (es.next <= 4 /\ i > 4 => ~q.content)
  BY <1>5, <1>6, WantsIs, Zenon
<1>11. (i = 1 => q.remove > 0) /\ (i = 3 => q.title) /\ (i = 4 => q.content)
  BY <1>7, WantsIs, Zenon
<1>12. QED
  BY <1>2, <1>8, <1>9, <1>10, <1>11

(* The effect of the item at a place in Order. *)
LEMMA PlaceDoes ==
  ASSUME NEW i \in 1..10, NEW o, NEW label, ItemDoes(Order[i], o, label), Order[i] \in EditKeys => o.status = "done"
  PROVE  /\ IF i = 1 THEN o.ed.gone = es.ed.gone + q.remove ELSE o.ed.gone = es.ed.gone
         /\ IF i = 2 THEN o.ed.more = es.ed.more + q.add ELSE o.ed.more = es.ed.more
         /\ IF i = 3 THEN o.ed.title = "new" ELSE o.ed.title = es.ed.title
         /\ IF i = 4 THEN o.ed.content = "new" ELSE o.ed.content = es.ed.content
         /\ \/ o.ed.collection = es.ed.collection \/ i = 6
            \/ i = 5 /\ es.ed.collection = q.unjoin /\ o.ed.collection = None
         /\ i = 5 /\ o.status = "skipped" =>
              es.ed.collection = None \/ es.ed.collection # q.unjoin \/ label = "unread"
         /\ o.ed.quote = es.ed.quote \/ i = 7
         /\ o.ed.activity = es.ed.activity \/ i = 8
         /\ o.ed.original = es.ed.original \/ i = 9
         /\ i = 9 /\ o.status = "skipped" => es.ed.original
         /\ o.ed.cover = es.ed.cover \/ (i = 10 /\ es.ed.cover = "frame")
         /\ o.ed.topics = es.ed.topics \/ (i = 4 /\ o.ed.topics = {})
         /\ o.ed.permission = es.ed.permission /\ o.ed \in Notes
<1>1. \A j \in {1, 2, 3, 4, 5, 6, 7, 8, 9, 10} :
        /\ (Order[j] = "image_remove" <=> j = 1) /\ (Order[j] = "image_add" <=> j = 2)
        /\ (Order[j] = "title" <=> j = 3) /\ (Order[j] = "content" <=> j = 4)
        /\ (Order[j] = "unjoin" <=> j = 5) /\ (Order[j] = "join" <=> j = 6)
        /\ (Order[j] = "quote" <=> j = 7) /\ (Order[j] = "activity" <=> j = 8)
        /\ (Order[j] = "original" <=> j = 9) /\ (Order[j] = "cover" <=> j = 10)
  BY OrderIs
<1>2. i \in {1, 2, 3, 4, 5, 6, 7, 8, 9, 10}
  OBVIOUS
<1>3. /\ (Order[i] = "image_remove" <=> i = 1) /\ (Order[i] = "image_add" <=> i = 2)
      /\ (Order[i] = "title" <=> i = 3) /\ (Order[i] = "content" <=> i = 4)
      /\ (Order[i] = "unjoin" <=> i = 5) /\ (Order[i] = "join" <=> i = 6)
      /\ (Order[i] = "quote" <=> i = 7) /\ (Order[i] = "activity" <=> i = 8)
      /\ (Order[i] = "original" <=> i = 9) /\ (Order[i] = "cover" <=> i = 10)
  BY <1>1, <1>2
<1>4. i \in {1, 2, 3, 4} => o.status = "done"
  BY <1>3 DEF EditKeys
<1>5. QED
  BY <1>3, <1>4 DEF ItemDoes

LEMMA TextsTried ==
  ASSUME EditTyped, TextsSo, NEW i \in 1..10, NEW o, Tries(i, o), UNCHANGED q
  PROVE  TextsSo'
<1>1. /\ es'.next = i + 1 /\ es'.ed = o.ed /\ es'.loaded = es.loaded
  BY TriesIs DEF KeptBut
<1>2. /\ IsNext(i) /\ ItemDoes(Order[i], o, es'.label) /\ (Order[i] \in EditKeys => o.status = "done")
      /\ Gated(Order[i]) => ImageGate(es.loaded)
  BY TriesIs DEF Tries
<1>3. q.remove \in Nat /\ q.add \in Nat /\ es.ed \in Notes /\ es.loaded \in Notes
  BY Given DEF Requests, EditTyped, EditSessions
<1>4. es.ed.gone \in Nat /\ es.loaded.gone \in Nat /\ es.ed.more \in Nat /\ es.loaded.more \in Nat
  BY <1>3 DEF Notes
<1> USE <1>1, <1>2, <1>3, <1>4
<1>5. es'.next > 1 /\ (es'.next = 2 => q.remove > 0)
  BY Passed
<1>6. o.ed.gone = es.loaded.gone + q.remove
  BY Passed, PlaceDoes DEF TextsSo
<1>7. o.ed.more = es.loaded.more + (IF i > 1 THEN q.add ELSE 0)
  BY Passed, PlaceDoes DEF TextsSo
<1>8. o.ed.title = IF q.title /\ i > 2 THEN "new" ELSE es.loaded.title
  BY Passed, PlaceDoes DEF TextsSo
<1>9. o.ed.content = IF q.content /\ i > 3 THEN "new" ELSE es.loaded.content
  BY Passed, PlaceDoes DEF TextsSo
<1>10. q.remove > 0 \/ (i > 1 /\ q.add > 0) => ImageGate(es.loaded)
  <2>1. i \in {1, 2} => Order[i] \in {"image_remove", "image_add"}
    BY OrderIs
  <2>2. i \in {1, 2} /\ es.next = 1 => ImageGate(es.loaded)
    BY <2>1 DEF Gated, TextsSo
  <2>3. QED
    BY <2>2, Passed DEF TextsSo
<1>11. ImageGate(es.loaded)' <=> ImageGate(es.loaded)
  BY DEF ImageGate, Count
<1>12. (q.title <=> q'.title) /\ (q.content <=> q'.content)
  BY Zenon
<1>13. QED
  BY <1>5, <1>6, <1>7, <1>8, <1>9, <1>10, <1>11, <1>12 DEF TextsSo

LEMMA PartsTried ==
  ASSUME EditTyped, PartsSo, NEW i \in 1..10, NEW o, Tries(i, o), UNCHANGED q
  PROVE  PartsSo'
<1>1. /\ es'.next = i + 1 /\ es'.ed = o.ed /\ es'.loaded = es.loaded /\ es'.add = es.add
      /\ es'.out = [es.out EXCEPT ![Order[i]] = o.status]
  BY TriesIs DEF KeptBut
<1>2. /\ IsNext(i) /\ ItemDoes(Order[i], o, es'.label) /\ (Order[i] \in EditKeys => o.status = "done")
      /\ Order[i] # "unjoin" => es'.label = es.label
  BY TriesIs DEF Tries
<1>3. es.out \in [Keys -> {"none", "done", "skipped", "error"}]
  BY DEF EditTyped, EditSessions
<1> USE <1>1, <1>2
<1>4. es.next \in 1..i
  BY Passed
<1>5. i + 1 <= 5 => o.ed.collection = es.loaded.collection
  BY <1>4, PlaceDoes DEF PartsSo
<1>6. i + 1 <= 9 => o.ed.original = es.loaded.original
  BY <1>4, PlaceDoes DEF PartsSo
<1>7. es'.out["unjoin"] = "skipped" =>
        es.loaded.collection = None \/ es.loaded.collection # q.unjoin \/ es'.label = "unread"
  <2>1. CASE i = 5
    <3>1. Order[i] = "unjoin" /\ Order[i] \in Keys
      BY <2>1, OrderIs DEF Keys
    <3>2. es'.out["unjoin"] = o.status
      BY <3>1, <1>3
    <3>3. o.status = "skipped" => es.ed.collection = None \/ es.ed.collection # q.unjoin \/ es'.label = "unread"
      BY <2>1, PlaceDoes
    <3>4. es.ed.collection = es.loaded.collection
      BY <2>1, <1>4 DEF PartsSo
    <3>5. QED
      BY <3>2, <3>3, <3>4
  <2>2. CASE i # 5
    <3>1. Order[i] # "unjoin"
      <4>1. i \in {1, 2, 3, 4, 6, 7, 8, 9, 10}
        BY <2>2
      <4>2. QED
        BY <4>1, OrderIs
    <3>2. es'.out["unjoin"] = es.out["unjoin"] /\ es'.label = es.label
      BY <3>1, <1>2, <1>3 DEF Keys
    <3>3. es.at = "steps"
      BY DEF Tries
    <3>4. QED
      BY <3>2, <3>3 DEF PartsSo
  <2>3. QED
    BY <2>1, <2>2
<1>8. es'.out["original"] = "skipped" => es.loaded.original
  <2>1. CASE i = 9
    <3>1. es'.out["original"] = "skipped" => o.status = "skipped"
      BY <2>1, <1>3, OrderIs DEF Keys
    <3>2. es.ed.original = es.loaded.original
      BY <2>1, <1>4 DEF PartsSo
    <3>3. o.status = "skipped" => es.ed.original
      BY <2>1, PlaceDoes
    <3>4. QED
      BY <3>1, <3>2, <3>3, Zenon
  <2>2. CASE i # 9
    <3>1. Order[i] # "original"
      <4>1. i \in {1, 2, 3, 4, 5, 6, 7, 8, 10}
        BY <2>2
      <4>2. QED
        BY <4>1, OrderIs
    <3>2. es'.out["original"] = es.out["original"]
      BY <3>1, <1>3 DEF Keys
    <3>3. QED
      BY <3>2, Zenon DEF PartsSo
  <2>3. QED
    BY <2>1, <2>2
<1>9. es'.next <= 11 => es'.add = {}
  BY <1>4 DEF PartsSo
<1>10. o.ed.topics \ es.add \subseteq es.loaded.topics
  BY PlaceDoes DEF PartsSo
<1>11. QED
  BY <1>5, <1>6, <1>7, <1>8, <1>9, <1>10 DEF PartsSo
LEMMA TextsAdded ==
  ASSUME EditTyped, TextsSo, NEW lacking, NEW o, Adds(lacking, o), UNCHANGED q
  PROVE  TextsSo'
<1>1. /\ es'.next = 12 /\ es'.ed = o.ed /\ es'.loaded = es.loaded
      /\ o.ed.gone = es.ed.gone /\ o.ed.more = es.ed.more /\ o.ed.title = es.ed.title
      /\ o.ed.content = es.ed.content
  BY DEF Adds, KeptBut, Alike
<1>2. IsNext(11)
  BY DEF Adds
<1>3. q.remove \in Nat /\ q.add \in Nat /\ es.ed \in Notes /\ es.loaded \in Notes
  BY Given DEF Requests, EditTyped, EditSessions
<1>4. es.ed.gone \in Nat /\ es.loaded.gone \in Nat /\ es.ed.more \in Nat /\ es.loaded.more \in Nat
  BY <1>3 DEF Notes
<1> USE <1>1, <1>2, <1>3, <1>4
<1>6. o.ed.gone = es.loaded.gone + q.remove
  BY Passed DEF TextsSo
<1>7. o.ed.more = es.loaded.more + q.add
  BY Passed DEF TextsSo
<1>8. o.ed.title = IF q.title THEN "new" ELSE es.loaded.title
  BY Passed DEF TextsSo
<1>9. o.ed.content = IF q.content THEN "new" ELSE es.loaded.content
  BY Passed DEF TextsSo
<1>10. q.remove > 0 \/ q.add > 0 => ImageGate(es.loaded)
  BY Passed DEF TextsSo
<1>11. ImageGate(es.loaded)' <=> ImageGate(es.loaded)
  BY DEF ImageGate, Count
<1>12. (q.title <=> q'.title) /\ (q.content <=> q'.content)
  BY Zenon
<1>13. QED
  BY <1>6, <1>7, <1>8, <1>9, <1>10, <1>11, <1>12 DEF TextsSo

LEMMA PartsAdded ==
  ASSUME EditTyped, PartsSo, NEW lacking, NEW o, Adds(lacking, o), UNCHANGED q
  PROVE  PartsSo'
<1>1. /\ es'.next = 12 /\ es'.ed = o.ed /\ es'.loaded = es.loaded /\ es'.add = lacking /\ es'.out = es.out
      /\ o.ed.topics \subseteq es.ed.topics \cup lacking
  BY DEF Adds, KeptBut
<1>2. es.next \in 1..11
  BY Passed DEF Adds
<1>3. o.ed.topics \ lacking \subseteq es.loaded.topics
  BY <1>1, <1>2 DEF PartsSo
<1>4. es.out["original"] = "skipped" => es.loaded.original
  BY Zenon DEF PartsSo
<1>5. es'.label = es.label
  BY DEF Adds, KeptBut
<1>6. QED
  BY <1>1, <1>2, <1>3, <1>4, <1>5 DEF PartsSo, Adds

(* Nothing of this changes while what the session edits stays as it is. *)
LEMMA EditorStays ==
  ASSUME UNCHANGED q, UNCHANGED <<es>> \/ (\E step : step # "steps" /\ GoesTo(step))
  PROVE  (TextsSo => TextsSo') /\ (PartsSo => PartsSo') /\ Untried' = Untried
<1>1. /\ es'.next = es.next /\ es'.ed = es.ed /\ es'.loaded = es.loaded /\ es'.add = es.add /\ es'.out = es.out
  BY DEF GoesTo, KeptBut
<1>a. UNCHANGED es \/ es'.at # "steps"
  BY DEF GoesTo
<1>2. ImageGate(es.loaded)' <=> ImageGate(es.loaded)
  BY <1>1 DEF ImageGate, Count
<1>3. \A k : Wants(k)' <=> Wants(k)
  BY Zenon DEF Wants
<1>4. Untried' = Untried
  BY <1>1, <1>3 DEF Untried
<1>5. TextsSo => TextsSo'
  BY <1>1, <1>2, Zenon DEF TextsSo
<1>6. PartsSo => PartsSo'
  BY <1>1, <1>a, Zenon DEF PartsSo
<1>7. QED
  BY <1>4, <1>5, <1>6

LEMMA EditorAfresh ==
  ASSUME EditTyped, UNCHANGED q, NEW S, Afresh(S)
  PROVE  TextsSo' /\ PartsSo'
<1>1. /\ es'.next = 1 /\ es'.loaded = note /\ es'.ed = note /\ es'.add = {} /\ es'.out = Nothing
  BY DEF Afresh
<1>2. note.gone \in Nat /\ note.more \in Nat
  BY DEF EditTyped, Notes
<1>3. Nothing["unjoin"] = "none" /\ Nothing["original"] = "none"
  BY DEF Nothing, Keys
<1>4. TextsSo'
  BY <1>1, <1>2 DEF TextsSo
<1>5. PartsSo'
  BY <1>1, <1>3 DEF PartsSo
<1>6. QED
  BY <1>4, <1>5

LEMMA EditorKept ==
  ASSUME EditTyped, EditorInv, EditSteps, UNCHANGED <<q, first>>
  PROVE  EditorInv'
<1>0. UNCHANGED q
  OBVIOUS
<1>1. CASE Begins
  BY <1>1 DEF Begins, Afresh, EditorInv, AtWork
<1>2. CASE Opens
  BY <1>0, <1>2, EditorAfresh DEF Opens, Afresh, EditorInv, AtWork
<1>3. CASE Works
  <2>1. TextsSo /\ PartsSo
    BY <1>3 DEF Works, EditorInv, AtWork
  <2>2. ASSUME NEW i \in 1..10, NEW o, Tries(i, o) PROVE EditorInv'
    <3>1. es'.at = "steps"
      BY <2>2, TriesIs DEF KeptBut, Tries
    <3>2. QED
      BY <1>0, <2>1, <2>2, <3>1, TextsTried, PartsTried DEF EditorInv, AtWork
  <2>3. ASSUME NEW lacking, NEW o, Adds(lacking, o) PROVE EditorInv'
    <3>1. es'.at = "steps"
      BY <2>3 DEF KeptBut, Adds
    <3>2. QED
      BY <1>0, <2>1, <2>3, <3>1, TextsAdded, PartsAdded DEF EditorInv, AtWork
  <2>4. QED
    BY <1>3, <2>2, <2>3 DEF Works
<1>4. CASE Rests
  BY <1>4 DEF Rests, GoesTo, EditorInv, AtWork
<1>5. CASE Decides
  BY <1>0, <1>5, EditorStays DEF Decides, EditorInv, AtWork
<1>6. CASE Clicks
  BY <1>0, <1>6, EditorStays DEF Clicks, EditorInv, AtWork
<1>7. CASE ReadsOn
  BY <1>0, <1>7, EditorStays DEF ReadsOn, EditorInv, AtWork
<1>8. CASE \E n \in pending : Lands(n) \/ Loses(n)
  <2>1. UNCHANGED <<es>>
    BY <1>8 DEF Lands, Loses
  <2>2. QED
    BY <1>0, <2>1, EditorStays DEF EditorInv, AtWork
<1>9. QED
  BY <1>1, <1>2, <1>3, <1>4, <1>5, <1>6, <1>7, <1>8 DEF EditSteps

(***************************************************************************)
(* How often the edits have been made                                      *)
(***************************************************************************)

(* The note after the edits have been made to it k times: setting a text twice is      *)
(* setting it once, removing or adding images is not.  A request that changes how many *)
(* images there are passes the image gate once only.                                 *)
Made(n, k) ==
  /\ n.title = IF q.title /\ k > 0 THEN "new" ELSE first.title
  /\ n.content = IF q.content /\ k > 0 THEN "new" ELSE first.content
  /\ n.gone = k * q.remove /\ n.more = k * q.add
  /\ q.remove # q.add => k <= 1

(* The note, the page a session loaded and what was submitted have had the edits made  *)
(* no more often than sessions were begun; the session at work makes them once more.   *)
Rounds == IF es.at \in {"open", "steps", "click"} THEN asked - 1 ELSE asked
MadeWithin(n, m) == \E k \in 0..m : Made(n, k)
RoundsInv == \A n \in {note, es.loaded} \cup pending : MadeWithin(n, Rounds)

LEMMA Times == ASSUME NEW k \in Nat, NEW r \in Nat PROVE (k + 1) * r = k * r + r
OBVIOUS

LEMMA MadeAlike ==
  ASSUME NEW n, NEW m, NEW k, NEW F, Alike(n, m, F), F \cap {"title", "content", "gone", "more"} = {}, Made(m, k)
  PROVE  Made(n, k)
BY DEF Alike, Made

LEMMA MadeMore ==
  ASSUME NEW n, NEW m \in Int, NEW r \in Int, m <= r, MadeWithin(n, m)
  PROVE  MadeWithin(n, r)
BY DEF MadeWithin

(* What a session submits has had them made once more than the page it loaded. *)
LEMMA MadeOnceMore ==
  ASSUME EditTyped, TextsSo, Untried = {}, NEW k \in Nat, Made(es.loaded, k)
  PROVE  Made(es.ed, k + 1)
<1>1. q.remove \in Nat /\ q.add \in Nat /\ es.next \in 1..12 /\ Images \in Nat
  BY Given, EditsGiven DEF Requests, EditTyped, EditSessions
<1>2. \A j \in es.next..11 : ~Wants(Order[j])
  BY OrderIs DEF Untried
<1>3. /\ es.next = 1 => q.remove = 0
      /\ es.next <= 2 => q.add = 0
  BY <1>1, <1>2, OrderIs, WantsIs
<1>4. (es.next <= 3 => ~q.title) /\ (es.next <= 4 => ~q.content)
  <2>1. (es.next <= 3 => ~Wants("title")) /\ (es.next <= 4 => ~Wants("content"))
    BY <1>1, <1>2, OrderIs
  <2>2. QED
    BY <2>1, WantsIs, Zenon
<1>5. es.ed.title = IF q.title THEN "new" ELSE first.title
  <2>1. es.ed.title = IF q.title THEN "new" ELSE es.loaded.title
    BY <1>1, <1>4 DEF TextsSo
  <2>2. QED
    BY <2>1, Zenon DEF Made
<1>6. es.ed.content = IF q.content THEN "new" ELSE first.content
  <2>1. es.ed.content = IF q.content THEN "new" ELSE es.loaded.content
    BY <1>1, <1>4 DEF TextsSo
  <2>2. QED
    BY <2>1, Zenon DEF Made
<1>7. es.ed.gone = es.loaded.gone + q.remove /\ es.ed.more = es.loaded.more + q.add
  <2>1. es.loaded.gone \in Nat /\ es.loaded.more \in Nat
    BY DEF EditTyped, EditSessions, Notes
  <2>2. QED
    BY <1>1, <1>3, <2>1 DEF TextsSo
<1>8. (k + 1) * q.remove = k * q.remove + q.remove /\ (k + 1) * q.add = k * q.add + q.add
  BY <1>1, Times
<1>9. es.loaded.gone = k * q.remove /\ es.loaded.more = k * q.add
  BY DEF Made
<1>10. es.ed.gone = (k + 1) * q.remove /\ es.ed.more = (k + 1) * q.add
  BY <1>7, <1>8, <1>9
<1>11. q.remove # q.add => k = 0
  <2>1. SUFFICES ASSUME q.remove # q.add PROVE k = 0
    OBVIOUS
  <2>2. ImageGate(es.loaded)
    BY <2>1, <1>1, <1>3 DEF TextsSo
  <2>3. k \in {0, 1}
    BY <2>1 DEF Made
  <2>4. CASE k = 1
    <3>1. es.loaded.gone = q.remove /\ es.loaded.more = q.add
      BY <1>1, <1>9, <2>4
    <3>2. Images - q.remove + q.add = Images
      BY <2>2, <3>1 DEF ImageGate, Count
    <3>3. QED
      BY <1>1, <2>1, <3>2
  <2>5. QED
    BY <2>3, <2>4
<1>12. k + 1 > 0
  OBVIOUS
<1>13. QED
  BY <1>5, <1>6, <1>10, <1>11, <1>12 DEF Made

LEMMA RoundsKept ==
  ASSUME EditTyped, EditorInv, RoundsInv, EditSteps, UNCHANGED <<q, first>>
  PROVE  RoundsInv'
<1>0. asked \in Nat
  BY EditsGiven DEF EditTyped
<1>1. Rounds \in Int /\ MadeWithin(note, Rounds) /\ MadeWithin(es.loaded, Rounds)
      /\ \A n \in pending : MadeWithin(n, Rounds)
  BY <1>0 DEF RoundsInv, Rounds
<1>2. ASSUME NEW n, MadeWithin(n, Rounds') PROVE MadeWithin(n, Rounds)'
  BY <1>2, Zenon DEF MadeWithin, Made
<1>3. ASSUME Rounds' \in Int, Rounds <= Rounds', MadeWithin(note', Rounds'), MadeWithin(es'.loaded, Rounds'),
             \A n \in pending' : MadeWithin(n, Rounds')
      PROVE  RoundsInv'
  BY <1>2, <1>3, Zenon DEF RoundsInv
<1>4. ASSUME NEW n, NEW m, NEW F, Alike(n, m, F), F \cap {"title", "content", "gone", "more"} = {}, NEW r \in Int,
             MadeWithin(m, r)
      PROVE  MadeWithin(n, r)
  BY <1>4, MadeAlike, Zenon DEF MadeWithin
<1>5. ASSUME Rounds' \in Int, Rounds <= Rounds', UNCHANGED <<note, pending>>, es'.loaded \in {note, es.loaded}
      PROVE  RoundsInv'
  BY <1>1, <1>3, <1>5, MadeMore
<1>6. CASE Begins
  BY <1>0, <1>5, <1>6 DEF Begins, Afresh, Rounds
<1>7. CASE Opens
  BY <1>0, <1>5, <1>7 DEF Opens, Afresh, Rounds
<1>8. CASE Works
  <2>1. es'.at = "steps" /\ es'.loaded = es.loaded
    BY <1>8, TriesIs DEF Works, Tries, Adds, KeptBut
  <2>2. QED
    BY <1>0, <1>5, <1>8, <2>1 DEF Works, Rounds
<1>9. CASE Rests
  BY <1>0, <1>5, <1>9 DEF Rests, GoesTo, KeptBut, Rounds
<1>10. CASE Decides
  BY <1>0, <1>5, <1>10 DEF Decides, GoesTo, KeptBut, Rounds
<1>11. CASE Clicks
  <2>1. /\ es.at = "click" /\ es'.at = "wait" /\ es'.loaded = es.loaded /\ pending' = pending \cup {es.ed}
        /\ UNCHANGED <<note, asked>>
    BY <1>11 DEF Clicks, GoesTo, KeptBut
  <2>2. Rounds' = Rounds + 1
    BY <1>0, <2>1 DEF Rounds
  <2>3. TextsSo /\ Untried = {}
    BY <2>1 DEF EditorInv, AtWork
  <2>4. PICK k \in 0..Rounds : Made(es.loaded, k)
    BY <1>1 DEF MadeWithin
  <2>5. Made(es.ed, k + 1) /\ k + 1 \in 0..Rounds'
    BY <1>1, <2>2, <2>3, <2>4, MadeOnceMore
  <2>6. MadeWithin(es.ed, Rounds')
    BY <2>5 DEF MadeWithin
  <2>7. QED
    BY <1>1, <1>3, <2>1, <2>2, <2>6, MadeMore
<1>12. CASE ReadsOn
  <2>1. Rounds' = Rounds /\ es'.loaded = es.loaded /\ pending' = pending
    BY <1>0, <1>12 DEF ReadsOn, GoesTo, KeptBut, Rounds
  <2>2. MadeWithin(note', Rounds)
    <3>1. CASE UNCHANGED note
      BY <1>1, <3>1
    <3>2. CASE es.loaded.permission \in Levels /\ note' = [note EXCEPT !.permission = es.loaded.permission]
      <4>1. Alike(note', note, {"permission"})
        BY <3>2, RestoredIs DEF EditTyped
      <4>2. QED
        BY <1>1, <1>4, <4>1
    <3>3. QED
      BY <1>12, <3>1, <3>2 DEF ReadsOn
  <2>3. QED
    BY <1>1, <1>3, <2>1, <2>2
<1>13. ASSUME NEW n \in pending, Lands(n) PROVE RoundsInv'
  <2>1. Alike(note', n, {"permission", "collection"}) /\ UNCHANGED <<es, asked>> /\ pending' \subseteq pending
    BY <1>13, LandsIs DEF Lands
  <2>2. Rounds' = Rounds /\ es'.loaded = es.loaded
    BY <2>1 DEF Rounds
  <2>3. MadeWithin(note', Rounds)
    BY <1>1, <1>4, <2>1
  <2>4. QED
    BY <1>1, <1>3, <2>1, <2>2, <2>3
<1>14. ASSUME NEW n \in pending, Loses(n) PROVE RoundsInv'
  <2>1. UNCHANGED <<es, asked, note>> /\ pending' \subseteq pending
    BY <1>14 DEF Loses
  <2>2. Rounds' = Rounds /\ es'.loaded = es.loaded
    BY <2>1 DEF Rounds
  <2>3. QED
    BY <1>1, <1>3, <2>1, <2>2
<1>15. QED
  BY <1>6, <1>7, <1>8, <1>9, <1>10, <1>11, <1>12, <1>13, <1>14 DEF EditSteps

(***************************************************************************)
(* What an edit leaves alone                                               *)
(***************************************************************************)

(* Only what is asked for differs from the note at first. *)
OnlyAsked(n) ==
  /\ q.join = None /\ q.unjoin # first.collection =>
       \/ n.collection = first.collection
       \/ n.collection = None /\ (upsets > 0 \/ first.permission = "private")
  /\ ~q.quote => n.quote = first.quote
  /\ ~q.activity => n.activity = first.activity
  /\ ~q.original => n.original = first.original
  /\ first.cover # "frame" \/ ~q.cover => n.cover = first.cover
  /\ n.topics \subseteq first.topics \cup q.topics
  /\ ~q.content => first.topics \subseteq n.topics
  /\ n.permission = first.permission \/ upsets > 0

OnlyInv == \A n \in {note, es.loaded, es.ed} \cup pending : OnlyAsked(n)

LEMMA OnlyTried ==
  ASSUME EditTyped, OnlyAsked(es.ed), NEW i \in 1..10, NEW o, Tries(i, o)
  PROVE  OnlyAsked(o.ed)
<1>1. /\ Wants(Order[i]) /\ ItemDoes(Order[i], o, es'.label) /\ (Order[i] \in EditKeys => o.status = "done")
  BY TriesIs DEF Tries
<1>2. /\ i = 5 => q.unjoin # None
      /\ i = 6 => q.join # None
  BY <1>1, OrderIs, WantsIs
<1>3. /\ i = 4 => Wants("content")
      /\ i = 7 => Wants("quote")
      /\ i = 8 => Wants("activity")
      /\ i = 9 => Wants("original")
      /\ i = 10 => Wants("cover")
  BY <1>1, OrderIs
<1>4. /\ i = 4 => q.content
      /\ i = 7 => q.quote
      /\ i = 8 => q.activity
      /\ i = 9 => q.original
      /\ i = 10 => q.cover
  BY <1>3, WantsIs, Zenon
<1>5. q.join = None /\ q.unjoin # first.collection =>
       \/ o.ed.collection = first.collection
       \/ o.ed.collection = None /\ (upsets > 0 \/ first.permission = "private")
  BY <1>1, <1>2, PlaceDoes DEF OnlyAsked
<1>6. ~q.quote => o.ed.quote = first.quote
  BY <1>1, <1>4, PlaceDoes DEF OnlyAsked
<1>7. ~q.activity => o.ed.activity = first.activity
  BY <1>1, <1>4, PlaceDoes DEF OnlyAsked
<1>8. ~q.original => o.ed.original = first.original
  BY <1>1, <1>4, PlaceDoes DEF OnlyAsked
<1>9. first.cover # "frame" \/ ~q.cover => o.ed.cover = first.cover
  BY <1>1, <1>4, PlaceDoes DEF OnlyAsked
<1>10. o.ed.topics \subseteq first.topics \cup q.topics
  BY <1>1, PlaceDoes DEF OnlyAsked
<1>11. ~q.content => first.topics \subseteq o.ed.topics
  BY <1>1, <1>4, PlaceDoes DEF OnlyAsked
<1>12. o.ed.permission = first.permission \/ upsets > 0
  BY <1>1, PlaceDoes DEF OnlyAsked
<1>13. QED
  BY <1>5, <1>6, <1>7, <1>8, <1>9, <1>10, <1>11, <1>12, Zenon DEF OnlyAsked

LEMMA OnlyAdded ==
  ASSUME EditTyped, OnlyAsked(es.ed), NEW lacking, NEW o, Adds(lacking, o)
  PROVE  OnlyAsked(o.ed)
<1>1. /\ o.ed.collection = es.ed.collection /\ o.ed.quote = es.ed.quote /\ o.ed.activity = es.ed.activity
      /\ o.ed.original = es.ed.original /\ o.ed.cover = es.ed.cover /\ o.ed.permission = es.ed.permission
  BY DEF Adds, Alike
<1>2. o.ed.topics \subseteq es.ed.topics \cup q.topics /\ es.ed.topics \subseteq o.ed.topics
  BY DEF Adds
<1>3. o.ed.topics \subseteq first.topics \cup q.topics
  BY <1>2 DEF OnlyAsked
<1>4. ~q.content => first.topics \subseteq o.ed.topics
  BY <1>2 DEF OnlyAsked
<1>5. (~q.activity => o.ed.activity = first.activity) /\ (~q.original => o.ed.original = first.original)
  BY <1>1, Zenon DEF OnlyAsked
<1>6. QED
  BY <1>1, <1>3, <1>4, <1>5, Zenon DEF OnlyAsked

LEMMA OnlyLanded ==
  ASSUME EditTyped, NEW n \in pending, OnlyAsked(n), Lands(n), UNCHANGED <<q, first>>
  PROVE  OnlyAsked(note)'
<1>1. /\ note'.collection = n.collection \/ (note'.collection = None /\ note'.permission = "private")
      /\ (note'.permission = n.permission /\ UNCHANGED upsets) \/ Slip
      /\ note'.quote = n.quote /\ note'.activity = n.activity /\ note'.original = n.original
      /\ note'.cover = n.cover /\ note'.topics = n.topics
  BY LandsIs DEF Alike
<1>2. upsets \in Nat
  BY EditsGiven DEF EditTyped
<1>3. (upsets > 0 => upsets' > 0) /\ (note'.permission = n.permission \/ upsets' > 0)
  BY <1>1, <1>2 DEF Slip
<1>4. note'.permission = first.permission \/ upsets' > 0
  BY <1>3 DEF OnlyAsked
<1>5. q.join = None /\ q.unjoin # first.collection =>
       \/ note'.collection = first.collection
       \/ note'.collection = None /\ (upsets' > 0 \/ first.permission = "private")
  BY <1>1, <1>3, <1>4 DEF OnlyAsked
<1>6. /\ ~q.quote => note'.quote = first.quote
      /\ ~q.activity => note'.activity = first.activity
      /\ ~q.original => note'.original = first.original
      /\ first.cover # "frame" \/ ~q.cover => note'.cover = first.cover
      /\ note'.topics \subseteq first.topics \cup q.topics
      /\ ~q.content => first.topics \subseteq note'.topics
  BY <1>1, Zenon DEF OnlyAsked
<1>7. q' = q /\ first' = first
  OBVIOUS
<1>8. QED
  BY <1>4, <1>5, <1>6, <1>7, Zenon DEF OnlyAsked

LEMMA OnlyKept ==
  ASSUME EditTyped, OnlyInv, EditSteps, UNCHANGED <<q, first>>
  PROVE  OnlyInv'
<1>0. upsets \in Nat /\ q' = q /\ first' = first
  BY EditsGiven DEF EditTyped
<1>1. OnlyAsked(note) /\ OnlyAsked(es.loaded) /\ OnlyAsked(es.ed) /\ \A n \in pending : OnlyAsked(n)
  BY DEF OnlyInv
<1>2. ASSUME NEW n, UNCHANGED upsets \/ Slip, OnlyAsked(n) PROVE OnlyAsked(n)'
  <2>1. upsets > 0 => upsets' > 0
    BY <1>0, <1>2 DEF Slip
  <2>2. QED
    BY <1>0, <1>2, <2>1, Zenon DEF OnlyAsked
<1>3. ASSUME UNCHANGED upsets \/ Slip, OnlyAsked(note)', OnlyAsked(es'.loaded), OnlyAsked(es'.ed), \A n \in pending' : OnlyAsked(n)
      PROVE  OnlyInv'
  BY <1>2, <1>3, Zenon DEF OnlyInv
<1>4. ASSUME UNCHANGED upsets \/ Slip, OnlyAsked(note'), OnlyAsked(es'.loaded), OnlyAsked(es'.ed), \A n \in pending' : OnlyAsked(n)
      PROVE  OnlyInv'
  BY <1>2, <1>4, Zenon DEF OnlyInv
<1>6. CASE Begins
  BY <1>1, <1>4, <1>6 DEF Begins, Afresh
<1>7. CASE Opens
  BY <1>1, <1>4, <1>7 DEF Opens, Afresh
<1>8. CASE Works
  <2>1. ASSUME NEW i \in 1..10, NEW o, Tries(i, o) PROVE OnlyInv'
    <3>1. es'.ed = o.ed /\ es'.loaded = es.loaded
      BY <2>1, TriesIs DEF KeptBut
    <3>2. OnlyAsked(o.ed)
      BY <1>1, <2>1, OnlyTried
    <3>3. QED
      BY <1>1, <1>4, <1>8, <3>1, <3>2 DEF Works
  <2>2. ASSUME NEW lacking, NEW o, Adds(lacking, o) PROVE OnlyInv'
    <3>1. es'.ed = o.ed /\ es'.loaded = es.loaded
      BY <2>2 DEF KeptBut, Adds
    <3>2. OnlyAsked(o.ed)
      BY <1>1, <2>2, OnlyAdded
    <3>3. QED
      BY <1>1, <1>4, <1>8, <3>1, <3>2 DEF Works
  <2>3. QED
    BY <1>8, <2>1, <2>2 DEF Works
<1>9. CASE Rests
  BY <1>1, <1>4, <1>9 DEF Rests, GoesTo, KeptBut
<1>10. CASE Decides
  BY <1>1, <1>4, <1>10 DEF Decides, GoesTo, KeptBut
<1>11. CASE Clicks
  BY <1>1, <1>4, <1>11 DEF Clicks, GoesTo, KeptBut
<1>12. CASE ReadsOn
  <2>1. es'.loaded = es.loaded /\ es'.ed = es.ed /\ pending' = pending /\ UNCHANGED upsets
    BY <1>12 DEF ReadsOn, GoesTo, KeptBut
  <2>2. CASE UNCHANGED note
    BY <1>1, <1>4, <2>1, <2>2
  <2>3. CASE es.loaded.permission \in Levels /\ note' = [note EXCEPT !.permission = es.loaded.permission]
    <3>1. Alike(note', note, {"permission"}) /\ note'.permission = es.loaded.permission
      BY <2>3, RestoredIs DEF EditTyped
    <3>2. /\ note'.collection = note.collection /\ note'.quote = note.quote /\ note'.activity = note.activity
          /\ note'.original = note.original /\ note'.cover = note.cover /\ note'.topics = note.topics
      BY <3>1 DEF Alike
    <3>3. OnlyAsked(note')
      BY <1>1, <3>1, <3>2, Zenon DEF OnlyAsked
    <3>4. QED
      BY <1>1, <1>4, <2>1, <3>3
  <2>4. QED
    BY <1>12, <2>2, <2>3 DEF ReadsOn
<1>13. ASSUME NEW n \in pending, Lands(n) PROVE OnlyInv'
  <2>1. UNCHANGED es /\ pending' \subseteq pending /\ (UNCHANGED upsets \/ Slip)
    BY <1>13, LandsIs DEF Lands
  <2>2. OnlyAsked(note)'
    BY <1>1, <1>13, OnlyLanded
  <2>3. QED
    BY <1>1, <1>3, <2>1, <2>2
<1>14. ASSUME NEW n \in pending, Loses(n) PROVE OnlyInv'
  BY <1>1, <1>4, <1>14 DEF Loses
<1>15. QED
  BY <1>6, <1>7, <1>8, <1>9, <1>10, <1>11, <1>12, <1>13, <1>14 DEF EditSteps

(***************************************************************************)
(* The session and its report                                              *)
(***************************************************************************)

(* What a session has told, and whether it has clicked, goes with where it is. *)
SessionInv ==
  /\ es.at \in {"open", "steps", "click"} => ~es.clicked /\ ~es.sure /\ result.status = "none" /\ result.kind = "none"
  /\ es.at \in {"wait", "verify"} => es.clicked /\ ~es.sure /\ result.status = "none" /\ result.kind = "none"
  /\ es.at \in {"restore", "record"} => es.clicked /\ result.kind = "read"
  /\ result.kind \in {"refused", "aborted", "noop", "nothing"} => ~es.clicked
  /\ es.sure => es.clicked /\ pending = {} /\ es.at \in {"idle", "restore", "record"}

(* A session that nothing else lands beside knows all there is to be submitted. *)
AloneInv ==
  /\ es.at = "open" => ~es.alone
  /\ es.alone /\ ~es.clicked => pending = {} /\ note = es.loaded
  /\ es.alone /\ es.clicked => pending \subseteq {es.ed} /\ note.topics \in {es.loaded.topics, es.ed.topics}

LEMMA SessionKept ==
  ASSUME EditTyped, SessionInv, EditNext
  PROVE  SessionInv'
<1> DEFINE quiet == result'.status = "none" /\ result'.kind = "none"
<1>1. CASE Begin
  <2>1. es'.at \in {"open", "idle"} /\ ~es'.clicked /\ ~es'.sure
    BY <1>1, BeginMoves DEF Begins, Afresh
  <2>2. QED
    BY <1>1, <2>1, BeginMoves DEF SessionInv
<1>e. ASSUME NEW how \in EditEnds, NEW applied \in [Keys -> {"none", "true", "false"}], NEW kept \in BOOLEAN,
             EndEdit(how, applied, kept), pending' = pending,
             es.at \in {"open", "steps", "click"} \/ (how = "unknown" /\ es.at = "verify")
      PROVE  SessionInv'
  <2>1. es'.at = "idle" /\ es'.clicked = es.clicked /\ es'.sure = es.sure /\ result'.kind = how
    BY <1>e, EndEditIs DEF KeptBut
  <2>2. ~es.sure /\ (es.at # "verify" => ~es.clicked)
    BY <1>e DEF SessionInv
  <2>3. QED
    BY <1>e, <2>1, <2>2 DEF SessionInv
<1>2. CASE OpenPage
  <2>1. CASE Opens /\ UNCHANGED result
    <3>1. es'.at = "steps" /\ ~es'.clicked /\ ~es'.sure
      BY <2>1 DEF Opens, Afresh
    <3>2. result'.kind = "none" /\ result'.status = "none"
      BY <2>1 DEF Opens, SessionInv
    <3>3. QED
      BY <3>1, <3>2 DEF SessionInv
  <2>2. CASE EndEdit("refused", Nothing, FALSE)
    BY <1>2, <1>e, <2>2, OpenMoves, NothingTyped DEF EditEnds
  <2>3. QED
    BY <1>2, <2>1, <2>2, OpenMoves
<1>3. CASE StepItem \/ StepTopics
  <2>1. CASE EditOver
    BY <1>3, <1>e, <2>1, StepMoves, NothingTyped DEF EditEnds, EditOver
  <2>2. CASE Works /\ UNCHANGED result
    <3>1. es'.at = "steps" /\ es'.clicked = es.clicked /\ es'.sure = es.sure /\ es.at = "steps"
      BY <2>2, TriesIs DEF Works, Tries, Adds, KeptBut
    <3>2. result'.kind = "none" /\ result'.status = "none" /\ ~es.clicked /\ ~es.sure
      BY <2>2, <3>1 DEF SessionInv
    <3>3. QED
      BY <3>1, <3>2 DEF SessionInv
  <2>3. QED
    BY <1>3, <2>1, <2>2, StepMoves
<1>4. CASE Decide
  <2>1. CASE Decides /\ UNCHANGED result /\ es'.clicked = es.clicked /\ es'.sure = es.sure
    <3>1. es'.at = "click" /\ es'.clicked = es.clicked /\ es'.sure = es.sure /\ es.at = "steps"
      BY <2>1 DEF Decides, GoesTo
    <3>2. QED
      BY <2>1, <3>1 DEF SessionInv
  <2>2. ASSUME NEW how \in {"noop", "nothing"}, EndEdit(how, NoopMap, TRUE) PROVE SessionInv'
    <3>1. NoopMap \in [Keys -> {"none", "true", "false"}]
      BY DEF NoopMap
    <3>2. QED
      BY <1>4, <1>e, <2>2, <3>1, DecideMoves DEF EditEnds
  <2>3. QED
    BY <1>4, <2>1, <2>2, DecideMoves
<1>5. CASE ClickPublish
  <2>1. CASE Clicks /\ UNCHANGED result /\ es'.clicked /\ es'.sure = es.sure
    <3>1. es'.at = "wait" /\ es'.clicked /\ es'.sure = es.sure /\ es.at = "click"
      BY <2>1 DEF Clicks, GoesTo
    <3>2. ~es.sure /\ result.kind = "none" /\ result.status = "none"
      BY <3>1 DEF SessionInv
    <3>3. QED
      BY <2>1, <3>1, <3>2 DEF SessionInv
  <2>2. CASE Rests /\ EndEdit("refused", Nothing, FALSE)
    <3>1. pending' = pending /\ es.at = "click"
      BY <1>5, <2>2, ClickMoves DEF Rests
    <3>2. QED
      BY <1>e, <2>2, <3>1, NothingTyped DEF EditEnds
  <2>3. QED
    BY <1>5, <2>1, <2>2, ClickMoves
<1>6. CASE Answer
  BY <1>6, AnswerMoves DEF SessionInv
<1>7. CASE Verify
  <2>1. /\ es.at = "verify" /\ es'.at \in {"restore", "record"} /\ es'.clicked = es.clicked
        /\ (es'.sure <=> pending = {}) /\ pending' = pending /\ result'.kind = "read"
    BY <1>7, VerifyMoves
  <2>2. es.clicked
    BY <2>1 DEF SessionInv
  <2>3. QED
    BY <2>1, <2>2 DEF SessionInv
<1>8. CASE Restore
  BY <1>8, RestoreMoves DEF SessionInv, KeptBut
<1>9. CASE Raise
  BY <1>9, <1>e, NothingTyped DEF EditEnds, Raise
<1>10. CASE Record
  <2>1. es'.at = "idle" /\ es'.clicked = es.clicked /\ es'.sure = es.sure /\ pending' = pending /\ result' = result
    BY <1>10, RestMoves DEF KeptBut, Rests, GoesTo, Record
  <2>2. QED
    BY <2>1 DEF SessionInv
<1>11. CASE Kill
  <2>1. es'.at = "idle" /\ es'.clicked = es.clicked /\ es'.sure = es.sure /\ pending' = pending
    BY <1>11, RestMoves DEF KeptBut, Rests, GoesTo
  <2>2. result'.kind = "unknown"
    BY <1>11 DEF Kill, Silent
  <2>3. QED
    BY <2>1, <2>2 DEF SessionInv
<1>12. ASSUME NEW n \in pending, Land(n) \/ Lose(n) PROVE SessionInv'
  <2>1. pending # {} /\ es' = es /\ result' = result
    BY <1>12, SiteMoves
  <2>2. ~es.sure
    BY <2>1 DEF SessionInv
  <2>3. QED
    BY <2>1, <2>2 DEF SessionInv
<1>13. QED
  BY <1>1, <1>2, <1>3, <1>4, <1>5, <1>6, <1>7, <1>8, <1>9, <1>10, <1>11, <1>12
  DEF EditNext, EditStep, SetComponents

LEMMA AloneKept ==
  ASSUME EditTyped, SessionInv, AloneInv, EditNext
  PROVE  AloneInv'
<1>k. ASSUME KeptBut({"at"}), es'.at # "open", UNCHANGED <<note, pending>>
      PROVE  AloneInv'
  <2>1. es'.loaded = es.loaded /\ es'.ed = es.ed /\ es'.alone = es.alone /\ es'.clicked = es.clicked
    BY <1>k DEF KeptBut
  <2>2. QED
    BY <1>k, <2>1 DEF AloneInv
<1>1. CASE Begin
  <2>1. ~es'.alone
    BY <1>1, BeginMoves DEF Begins
  <2>2. QED
    BY <2>1 DEF AloneInv
<1>2. CASE OpenPage
  <2>1. CASE Opens /\ UNCHANGED result /\ (es'.alone <=> pending = {})
    <3>1. es'.at = "steps" /\ ~es'.clicked /\ es'.loaded = note /\ UNCHANGED <<note, pending>>
      BY <2>1 DEF Opens, Afresh
    <3>2. QED
      BY <2>1, <3>1 DEF AloneInv
  <2>2. CASE Rests /\ EndEdit("refused", Nothing, FALSE)
    BY <1>2, <1>k, <2>2, EndEditIs, OpenMoves, NothingTyped DEF EditEnds
  <2>3. QED
    BY <1>2, <2>1, <2>2, OpenMoves
<1>3. CASE StepItem \/ StepTopics
  <2>1. CASE EditOver
    BY <1>3, <1>k, <2>1, EndEditIs, StepMoves, NothingTyped DEF EditEnds, EditOver
  <2>2. CASE Works /\ UNCHANGED result
    <3>1. /\ es'.at = "steps" /\ es'.clicked = es.clicked /\ es'.alone = es.alone /\ es'.loaded = es.loaded
          /\ es.at = "steps" /\ UNCHANGED <<note, pending>>
      BY <2>2, TriesIs DEF Works, Tries, Adds, KeptBut
    <3>2. ~es.clicked
      BY <3>1 DEF SessionInv
    <3>3. QED
      BY <3>1, <3>2 DEF AloneInv
  <2>3. QED
    BY <1>3, <2>1, <2>2, StepMoves
<1>4. CASE Decide
  <2>1. CASE Decides /\ UNCHANGED result /\ es'.clicked = es.clicked /\ es'.sure = es.sure
    <3>1. /\ es'.at = "click" /\ es'.alone = es.alone /\ es'.loaded = es.loaded /\ es'.ed = es.ed
          /\ UNCHANGED <<note, pending>>
      BY <2>1 DEF Decides, GoesTo, KeptBut
    <3>2. QED
      BY <2>1, <3>1 DEF AloneInv
  <2>2. ASSUME NEW how \in {"noop", "nothing"}, EndEdit(how, NoopMap, TRUE) PROVE AloneInv'
    <3>1. NoopMap \in [Keys -> {"none", "true", "false"}]
      BY DEF NoopMap
    <3>2. KeptBut({"at"}) /\ es'.at = "idle"
      BY <2>2, <3>1, EndEditIs DEF EditEnds
    <3>3. QED
      BY <1>4, <1>k, <3>2, DecideMoves
  <2>3. QED
    BY <1>4, <2>1, <2>2, DecideMoves
<1>5. CASE ClickPublish
  <2>1. CASE Clicks /\ UNCHANGED result /\ es'.clicked /\ es'.sure = es.sure
    <3>1. /\ es'.at = "wait" /\ es'.alone = es.alone /\ es'.loaded = es.loaded /\ es'.ed = es.ed
          /\ note' = note /\ pending' = pending \cup {es.ed} /\ es.at = "click"
      BY <2>1 DEF Clicks, GoesTo, KeptBut
    <3>2. ~es.clicked
      BY <3>1 DEF SessionInv
    <3>3. QED
      BY <2>1, <3>1, <3>2 DEF AloneInv
  <2>2. CASE Rests /\ EndEdit("refused", Nothing, FALSE)
    <3>1. KeptBut({"at"}) /\ es'.at = "idle" /\ UNCHANGED <<note, pending>>
      BY <2>2, EndEditIs, NothingTyped DEF EditEnds, Rests
    <3>2. QED
      BY <1>k, <3>1
  <2>3. QED
    BY <1>5, <2>1, <2>2, ClickMoves
<1>6. CASE Answer
  <2>1. /\ es'.at = "verify" /\ es'.clicked = es.clicked /\ es'.alone = es.alone /\ es'.loaded = es.loaded
        /\ es'.ed = es.ed /\ UNCHANGED <<note, pending>>
    BY <1>6, AnswerMoves DEF ReadsOn, GoesTo, KeptBut
  <2>2. QED
    BY <2>1 DEF AloneInv
<1>7. CASE Verify
  <2>1. /\ es'.at # "open" /\ es'.clicked = es.clicked /\ es'.alone = es.alone /\ es'.loaded = es.loaded
        /\ es'.ed = es.ed /\ UNCHANGED <<note, pending>>
    BY <1>7, VerifyMoves DEF ReadsOn, GoesTo, KeptBut
  <2>2. QED
    BY <2>1 DEF AloneInv
<1>8. CASE Restore
  <2>1. /\ es'.at = "record" /\ es'.clicked = es.clicked /\ es'.alone = es.alone /\ es'.loaded = es.loaded
        /\ es'.ed = es.ed /\ UNCHANGED pending /\ es.at = "restore"
    BY <1>8, RestoreMoves DEF KeptBut
  <2>2. note'.topics = note.topics
    BY <1>8, RestoreMoves, RestoredIs DEF ReadsOn, Alike, EditTyped
  <2>3. es.clicked
    BY <2>1 DEF SessionInv
  <2>4. QED
    BY <2>1, <2>2, <2>3 DEF AloneInv
<1>9. CASE Raise \/ Record \/ Kill
  BY <1>9, <1>k, RestMoves DEF Rests, GoesTo
<1>10. ASSUME NEW n \in pending, Land(n) \/ Lose(n) PROVE AloneInv'
  <2>1. es' = es /\ pending' \subseteq pending /\ (note' = note \/ note'.topics = n.topics)
    BY <1>10, SiteMoves, LandsIs DEF Lands, Loses, Alike
  <2>2. es.alone => es.clicked
    BY DEF AloneInv
  <2>3. es.alone => n = es.ed
    BY <2>2 DEF AloneInv
  <2>4. QED
    BY <2>1, <2>2, <2>3 DEF AloneInv
<1>11. QED
  BY <1>1, <1>2, <1>3, <1>4, <1>5, <1>6, <1>7, <1>8, <1>9, <1>10
  DEF EditNext, EditStep, SetComponents

(***************************************************************************)
(* What the read-back tells                                                *)
(***************************************************************************)

LEMMA IsTrue == \A b : Is(b) = "true" => b
BY Zenon DEF Is

(* An item seen is there, if no submission takes it away again. *)
LEMMA SeenIsThere ==
  ASSUME EditTyped, RoundsInv, NEW opened, NEW unread, NEW look \in Looks, NEW k \in Keys,
         Seen(opened, unread, look)[k] = "true"
  PROVE  Wants(k) /\ ConfirmedIsThere(k, look.label)
<1>1. Wants(k) /\ ReadBack(k, look) = "true"
  BY DEF Seen
<1>2. CASE k \in {"image_remove", "image_add"}
  <2>1. ImagesRead = "true"
    BY <1>1, <1>2, Zenon DEF ReadBack
  <2>2. Count(note) = Count(es.loaded) - q.remove + q.add
    BY <2>1, IsTrue, Zenon DEF ImagesRead
  <2>3. q.remove # q.add => note.gone = q.remove /\ note.more = q.add
    <3>1. SUFFICES ASSUME q.remove # q.add PROVE note.gone = q.remove /\ note.more = q.add
      OBVIOUS
    <3>2. PICK m \in 0..Rounds : Made(note, m)
      BY DEF RoundsInv, MadeWithin
    <3>3. PICK j \in 0..Rounds : Made(es.loaded, j)
      BY DEF RoundsInv, MadeWithin
    <3>4. Rounds \in Int /\ q.remove \in Nat /\ q.add \in Nat /\ Images \in Nat
      BY Given, EditsGiven DEF Rounds, EditTyped, Requests
    <3>5. m \in {0, 1} /\ j \in {0, 1}
      BY <3>1, <3>2, <3>3, <3>4 DEF Made
    <3>6. /\ note.gone = (IF m = 1 THEN q.remove ELSE 0) /\ note.more = (IF m = 1 THEN q.add ELSE 0)
          /\ es.loaded.gone = (IF j = 1 THEN q.remove ELSE 0) /\ es.loaded.more = (IF j = 1 THEN q.add ELSE 0)
      BY <3>2, <3>3, <3>4, <3>5 DEF Made
    <3>7. QED
      BY <2>2, <3>1, <3>4, <3>5, <3>6 DEF Count
  <2>4. QED
    BY <1>1, <1>2, <2>3, Zenon DEF ConfirmedIsThere
<1>3. CASE k \in {"title", "content"}
  <2>1. CASE k = "title"
    <3>1. note.title = look.title
      BY <1>1, <2>1, IsTrue, Zenon DEF ReadBack
    <3>2. ~q.quote => look.title = "new"
      BY DEF Looks
    <3>3. QED
      BY <1>1, <2>1, <3>1, <3>2, Zenon DEF ConfirmedIsThere
  <2>2. CASE k = "content"
    <3>1. note.content = "new"
      BY <1>1, <2>2, IsTrue, Zenon DEF ReadBack
    <3>2. QED
      BY <1>1, <2>2, <3>1, Zenon DEF ConfirmedIsThere
  <2>3. QED
    BY <1>3, <2>1, <2>2, Zenon
<1>4. CASE k = "unjoin"
  <2>1. (IF note.collection = None \/ look.label = "unread" THEN "true"
         ELSE IF look.named THEN Is(note.collection # q.unjoin) ELSE "none") = "true"
    BY <1>1, <1>4, Zenon DEF ReadBack
  <2>2. q.unjoin # None
    BY <1>1, <1>4, WantsIs
  <2>3. CASE note.collection = None \/ look.label = "unread"
    <3>1. look.label = "seen" => note.collection # q.unjoin
      BY <2>2, <2>3
    <3>2. QED
      BY <1>1, <1>4, <3>1, Zenon DEF ConfirmedIsThere
  <2>4. CASE ~(note.collection = None \/ look.label = "unread")
    <3>1. CASE look.named
      <4>1. Is(note.collection # q.unjoin) = "true"
        BY <2>1, <2>4, <3>1, Zenon
      <4>2. QED
        BY <1>1, <1>4, <4>1, IsTrue, Zenon DEF ConfirmedIsThere
    <3>2. CASE ~look.named
      <4>1. "none" = "true"
        BY <2>1, <2>4, <3>2, Zenon
      <4>2. QED
        BY <4>1
    <3>3. QED
      BY <3>1, <3>2, Zenon
  <2>5. QED
    BY <2>3, <2>4, Zenon
<1>5. CASE k = "join"
  <2>1. Is(/\ look.label = "seen" /\ es.out[k] # "error"
           /\ note.collection # None /\ Shows(note.collection, q.join)) = "true"
    BY <1>1, <1>5, Zenon DEF ReadBack
  <2>2. note.collection # None /\ Shows(note.collection, q.join)
    BY <2>1, IsTrue, Zenon
  <2>3. QED
    BY <1>1, <1>5, <2>2, Zenon DEF ConfirmedIsThere
<1>6. CASE k \in {"quote", "activity", "original"}
  <2>1. CASE k = "quote"
    <3>1. Is(note.quote # "none") = "true"
      BY <1>1, <2>1, Zenon DEF ReadBack
    <3>2. QED
      BY <1>1, <2>1, <3>1, IsTrue, Zenon DEF ConfirmedIsThere
  <2>2. CASE k = "activity"
    <3>1. Is(note.activity) = "true"
      BY <1>1, <2>2, Zenon DEF ReadBack
    <3>2. note.activity
      BY <3>1, Zenon DEF Is
    <3>3. QED
      BY <1>1, <2>2, <3>2, Zenon DEF ConfirmedIsThere
  <2>3. CASE k = "original"
    <3>1. Is(note.original) = "true"
      BY <1>1, <2>3, Zenon DEF ReadBack
    <3>2. note.original
      BY <3>1, Zenon DEF Is
    <3>3. QED
      BY <1>1, <2>3, <3>2, Zenon DEF ConfirmedIsThere
  <2>4. QED
    BY <1>6, <2>1, <2>2, <2>3, Zenon
<1>7. CASE k = "cover"
  <2>1. Is(CoverVerified(es.out[k], es.loaded.cover, note.cover)) = "true"
    BY <1>1, <1>7, Zenon DEF ReadBack
  <2>2. note.cover # es.loaded.cover
    BY <2>1, IsTrue, Zenon DEF CoverVerified
  <2>3. QED
    BY <1>1, <1>7, <2>2, Zenon DEF ConfirmedIsThere
<1>8. QED
  BY <1>2, <1>3, <1>4, <1>5, <1>6, <1>7 DEF Keys, EditKeys

(* A session that had the note to itself and calls everything done is right. *)
LEMMA OverallDone ==
  ASSUME NEW applied, NEW topics, Overall(applied, topics) = "done"
  PROVE  (\A k \in Keys : Wants(k) => applied[k] = "true") /\ (\A t \in es.add : t \in topics) /\ Cut = {}
<1>1. Units(applied, topics) = {TRUE}
  BY Zenon DEF Overall
<1>2. ASSUME NEW k \in Keys, Wants(k) PROVE applied[k] = "true"
  <2>1. (applied[k] = "true") \in Units(applied, topics)
    BY <1>2, Zenon DEF Units
  <2>2. QED
    BY <2>1, <1>1, Zenon
<1>3. ASSUME NEW t \in es.add PROVE t \in topics
  <2>1. (t \in topics) \in Units(applied, topics)
    BY <1>3, Zenon DEF Units
  <2>2. QED
    BY <2>1, <1>1, Zenon
<1>4. ASSUME NEW t \in Cut PROVE FALSE
  <2>1. FALSE \in Units(applied, topics)
    BY <1>4, Zenon DEF Units
  <2>2. QED
    BY <2>1, <1>1, Zenon
<1>5. QED
  BY <1>2, <1>3, <1>4, Zenon

LEMMA AllSeen ==
  ASSUME EditTyped, EditorInv, RoundsInv, SessionInv, AloneInv, es.at = "verify", es.alone,
         NEW opened, NEW unread, NEW look \in Looks,
         Overall(Seen(opened, unread, look), TopicsSeen(opened)) = "done"
  PROVE  EverythingAsked(look.label)
<1>1. \A k \in Keys : Wants(k) => Seen(opened, unread, look)[k] = "true"
  BY OverallDone, Zenon
<1>2. \A k \in Keys : Wants(k) => ConfirmedIsThere(k, look.label)
  BY <1>1, SeenIsThere, Zenon
<1>3. (\A t \in es.add : t \in TopicsSeen(opened)) /\ Cut = {}
  BY OverallDone, Zenon
<1>4. es.clicked
  BY DEF SessionInv
<1>5. note.topics \in {es.loaded.topics, es.ed.topics}
  BY <1>4, Zenon DEF AloneInv
<1>6. es.ed.topics \ es.add \subseteq es.loaded.topics
  BY DEF EditorInv, AtWork, PartsSo
<1>7. q.topics \subseteq es.add \cup (es.ed.topics \ es.add)
  BY <1>3 DEF Cut
<1>8. es.add \subseteq note.topics
  <2>1. CASE es.answered
    BY <1>3, <2>1 DEF TopicsSeen
  <2>2. CASE ~es.answered
    BY <1>3, <2>2 DEF TopicsSeen
  <2>3. QED
    BY <2>1, <2>2
<1>9. q.topics \subseteq note.topics
  BY <1>5, <1>6, <1>7, <1>8
<1>10. QED
  BY <1>2, <1>9 DEF EverythingAsked

LEMMA NothingNeeded ==
  ASSUME EditTyped, EditorInv, SessionInv, AloneInv, es.at = "steps", es.alone,
         Overall(NoopMap, es.ed.topics \ es.add) = "done"
  PROVE  EverythingAsked(es.label)
<1>1. ~es.clicked
  BY DEF SessionInv
<1>2. note = es.loaded
  BY <1>1 DEF AloneInv
<1>3. PartsSo
  BY DEF EditorInv, AtWork
<1>4. (\A t \in es.add : t \in es.ed.topics \ es.add) /\ Cut = {}
  BY OverallDone, Zenon
<1>5. q.topics \subseteq note.topics
  BY <1>2, <1>3, <1>4 DEF Cut, PartsSo
<1>6. ASSUME NEW k \in Keys, Wants(k) PROVE ConfirmedIsThere(k, es.label)
  <2>1. NoopMap[k] = "true"
    BY <1>6, OverallDone, Zenon
  <2>2. k \in Skipped
    BY <1>6, <2>1, Zenon DEF NoopMap
  <2>3. k \in {"unjoin", "original", "cover"} /\ es.out[k] = "skipped"
    BY <2>2 DEF Skipped, NoopKeys
  <2>4. CASE k = "unjoin"
    <3>1. q.unjoin # None
      BY <1>6, <2>4, WantsIs
    <3>2. es.label = "seen" => note.collection # q.unjoin
      BY <1>2, <1>3, <2>3, <2>4, <3>1 DEF PartsSo
    <3>3. QED
      BY <1>6, <2>4, <3>2, Zenon DEF ConfirmedIsThere
  <2>5. CASE k = "original"
    <3>1. note.original
      BY <1>2, <1>3, <2>3, <2>5, Zenon DEF PartsSo
    <3>2. QED
      BY <1>6, <2>5, <3>1, Zenon DEF ConfirmedIsThere
  <2>6. CASE k = "cover"
    BY <1>1, <1>6, <2>6, Zenon DEF ConfirmedIsThere
  <2>7. QED
    BY <2>3, <2>4, <2>5, <2>6
<1>7. QED
  BY <1>5, <1>6, Zenon DEF EverythingAsked

(* What is there stays while only the permission changes. *)
LEMMA StaysThere ==
  ASSUME UNCHANGED q, es'.loaded = es.loaded, es'.clicked = es.clicked, Alike(note', note, {"permission"}),
         NEW label, es'.label = label
  PROVE  /\ \A k \in Keys : ConfirmedIsThere(k, label) => ConfirmedIsThere(k, es.label)'
         /\ EverythingAsked(label) => EverythingAsked(es.label)'
<1>1. /\ note'.title = note.title /\ note'.content = note.content /\ note'.gone = note.gone
      /\ note'.more = note.more /\ note'.collection = note.collection /\ note'.quote = note.quote
      /\ note'.activity = note.activity /\ note'.original = note.original /\ note'.cover = note.cover
      /\ note'.topics = note.topics
  BY DEF Alike
<1>2. ASSUME NEW k \in Keys, ConfirmedIsThere(k, label) PROVE ConfirmedIsThere(k, es.label)'
  BY <1>1, <1>2, Zenon DEF ConfirmedIsThere
<1>3. \A k \in Keys : Wants(k)' <=> Wants(k)
  BY Zenon DEF Wants
<1>4. EverythingAsked(label) => EverythingAsked(es.label)'
  BY <1>1, <1>2, <1>3, Zenon DEF EverythingAsked
<1>5. QED
  BY <1>2, <1>4, Zenon
(***************************************************************************)
(* What a session tells                                                    *)
(***************************************************************************)

(* The title is read, or written to the ledger, once it is on the note for good, and      *)
(* called set only when it was asked for.                                          *)
TitleInv ==
  /\ q.title => \A n \in pending : n.title = "new"
  /\ result.applied["title"] = "true" => q.title
  /\ ledger = "new" => q.title /\ note.title = "new"
  /\ q.title /\ es.read = "new" /\ es.at \in {"restore", "record"} => note.title = "new"

(* What a session sure of its own submission has read back is still so: nothing is left *)
(* that may land, and the next session that begins takes the certainty with it.       *)
SureInv ==
  /\ es.sure => \A k \in Keys : result.applied[k] = "true" => ConfirmedIsThere(k, es.label)
  /\ es.sure /\ result.preserved => note.permission = es.loaded.permission

CalledDoneInv == es.alone /\ (es.sure \/ ~es.clicked) /\ result.status = "done" => EverythingAsked(es.label)

LEMMA NothingTold == Nothing["title"] = "none" /\ NoopMap["title"] = "none" /\ \A k \in Keys : Nothing[k] # "true"
BY DEF Nothing, NoopMap, Keys, EditKeys, Skipped, NoopKeys

LEMMA TitleKept ==
  ASSUME EditTyped, EditorInv, TitleInv, RoundsInv, EditNext
  PROVE  TitleInv'
<1>0. /\ q.title => \A n \in pending : n.title = "new"
      /\ ledger = "new" => q.title /\ note.title = "new"
      /\ result.applied["title"] = "true" => q.title
      /\ q.title /\ es.read = "new" /\ es.at \in {"restore", "record"} => note.title = "new"
  BY Zenon DEF TitleInv
<1>q. UNCHANGED q
  BY EditMoves
<1>t. q.title' <=> q.title
  BY <1>q, Zenon
<1>n. ASSUME UNCHANGED <<note, ledger>>, pending' \subseteq pending,
             result'.applied["title"] # "true" \/ UNCHANGED result,
             es'.at \notin {"restore", "record"}
      PROVE  TitleInv'
  <2>1. q.title => \A n \in pending' : n.title = "new"
    BY <1>0, <1>n
  <2>2. /\ result'.applied["title"] = "true" => q.title
        /\ ledger' = "new" => q.title /\ note'.title = "new"
    BY <1>0, <1>n
  <2>3. QED
    BY <1>t, <1>n, <2>1, <2>2, Zenon DEF TitleInv
<1>1. CASE Begin
  <2>1. es'.at \in {"open", "idle"}
    BY <1>1, BeginMoves DEF Begins, Afresh
  <2>2. QED
    BY <1>1, <1>n, <2>1, BeginMoves, NothingTold DEF Begins
<1>2. CASE OpenPage
  <2>1. es'.at \in {"steps", "idle"}
    BY <1>2, OpenMoves DEF Opens, Afresh, Rests, GoesTo
  <2>2. QED
    BY <1>2, <1>n, <2>1, OpenMoves, EndEditIs, NothingTyped, NothingTold DEF EditEnds
<1>3. CASE StepItem \/ StepTopics
  <2>1. es'.at \in {"steps", "idle"}
    BY <1>3, StepMoves, TriesIs DEF Works, Tries, Adds, KeptBut, Rests, GoesTo
  <2>2. QED
    BY <1>3, <1>n, <2>1, StepMoves, EndEditIs, NothingTyped, NothingTold DEF EditEnds, EditOver
<1>4. CASE Decide
  <2>1. NoopMap \in [Keys -> {"none", "true", "false"}]
    BY DEF NoopMap
  <2>2. UNCHANGED result \/ result'.applied = NoopMap
    BY <1>4, <2>1, DecideMoves, EndEditIs DEF EditEnds
  <2>3. UNCHANGED <<note, ledger, pending>>
    BY <1>4, DecideMoves
  <2>5. es'.at \in {"click", "idle"}
    BY <1>4, DecideMoves DEF Decides, Rests, GoesTo
  <2>4. QED
    BY <1>n, <2>2, <2>3, <2>5, NothingTold
<1>5. CASE ClickPublish
  <2>1. CASE Clicks /\ UNCHANGED result /\ es'.clicked /\ es'.sure = es.sure
    <3>1. /\ pending' = pending \cup {es.ed} /\ es.at = "click" /\ es'.at = "wait"
          /\ UNCHANGED <<note, result, ledger>>
      BY <1>5, <2>1, ClickMoves DEF Clicks, GoesTo
    <3>2. q.title => es.ed.title = "new"
      <4>1. TextsSo /\ Untried = {}
        BY <3>1 DEF EditorInv, AtWork
      <4>2. PICK k \in 0..Rounds : Made(es.loaded, k)
        BY DEF RoundsInv, MadeWithin
      <4>3. Made(es.ed, k + 1) /\ k + 1 > 0
        BY <4>1, <4>2, MadeOnceMore DEF Rounds
      <4>4. QED
        BY <4>3, Zenon DEF Made
    <3>3. q.title => \A n \in pending' : n.title = "new"
      BY <1>0, <3>1, <3>2
    <3>4. QED
      BY <1>0, <1>t, <3>1, <3>3, Zenon DEF TitleInv
  <2>2. CASE Rests /\ EndEdit("refused", Nothing, FALSE)
    <3>1. UNCHANGED <<note, pending, ledger>> /\ result'.applied = Nothing /\ es'.at = "idle"
      BY <1>5, <2>2, ClickMoves, EndEditIs, NothingTyped DEF EditEnds, Rests
    <3>2. QED
      BY <1>n, <3>1, NothingTold
  <2>3. QED
    BY <1>5, <2>1, <2>2, ClickMoves
<1>6. CASE Answer
  BY <1>6, <1>n, AnswerMoves
<1>7. CASE Verify
  <2>1. PICK opened \in BOOLEAN, unread \in SUBSET Keys, look \in Looks : result'.applied = Seen(opened, unread, look)
    BY <1>7, VerifyMoves
  <2>2. UNCHANGED <<note, pending, ledger>>
    BY <1>7, VerifyMoves
  <2>3. result'.applied["title"] = "true" => q.title
    <3>1. SUFFICES ASSUME Seen(opened, unread, look)["title"] = "true" PROVE q.title
      BY <2>1, Zenon
    <3>2. "title" \in Keys
      BY DEF Keys, EditKeys
    <3>3. Wants("title")
      BY <3>1, <3>2, SeenIsThere
    <3>4. QED
      BY <3>3, WantsIs, Zenon
  <2>4. es'.read = note.title
    BY <1>7, VerifyMoves
  <2>5. QED
    BY <1>0, <1>t, <2>2, <2>3, <2>4, Zenon DEF TitleInv
<1>8. CASE Restore
  <2>1. UNCHANGED <<result, pending, ledger>>
    BY <1>8, RestoreMoves
  <2>2. note'.title = note.title
    BY <1>8, RestoreMoves, RestoredIs DEF ReadsOn, Alike, EditTyped
  <2>4. es.at = "restore" /\ es'.read = es.read
    BY <1>8, RestoreMoves DEF KeptBut
  <2>3. QED
    BY <1>0, <1>t, <2>1, <2>2, <2>4, Zenon DEF TitleInv
<1>9. CASE Raise
  <2>1. UNCHANGED <<note, pending, ledger>> /\ result'.applied = Nothing /\ es'.at = "idle"
    BY <1>9, EndEditIs, NothingTyped DEF EditEnds, Raise
  <2>2. QED
    BY <1>n, <2>1, NothingTold
<1>10. CASE Record
  <2>1. UNCHANGED <<note, pending, result>>
    BY <1>10 DEF Record
  <2>2. UNCHANGED ledger \/ (result.applied["title"] = "true" /\ ledger' = es.read /\ es.at = "record")
    BY <1>10 DEF Record
  <2>3. ledger' = "new" => q.title /\ note.title = "new"
    BY <1>0, <2>2
  <2>5. es'.at = "idle"
    BY <1>10, RestMoves DEF Rests, GoesTo
  <2>4. QED
    BY <1>0, <1>t, <2>1, <2>3, <2>5 DEF TitleInv
<1>11. CASE Kill
  <2>1. UNCHANGED <<note, pending, ledger>> /\ result'.applied = Nothing
    BY <1>11 DEF Kill, Silent
  <2>3. es'.at = "idle"
    BY <1>11, RestMoves DEF Rests, GoesTo
  <2>2. QED
    BY <1>n, <2>1, <2>3, NothingTold
<1>12. ASSUME NEW n \in pending, Land(n) \/ Lose(n) PROVE TitleInv'
  <2>1. UNCHANGED <<es, result, ledger>> /\ pending' \subseteq pending /\ (note' = note \/ note'.title = n.title)
    BY <1>12, SiteMoves, LandsIs DEF Lands, Loses, Alike
  <2>2. q.title => \A m \in pending' : m.title = "new"
    BY <1>0, <2>1
  <2>3. q.title /\ note.title = "new" => note'.title = "new"
    BY <1>0, <2>1
  <2>4. QED
    BY <1>0, <1>t, <2>1, <2>2, <2>3, Zenon DEF TitleInv
<1>13. QED
  BY <1>1, <1>2, <1>3, <1>4, <1>5, <1>6, <1>7, <1>8, <1>9, <1>10, <1>11, <1>12
  DEF EditNext, EditStep, SetComponents

LEMMA TellsKept ==
  ASSUME EditTyped, EditorInv, RoundsInv, SessionInv, AloneInv, SureInv, CalledDoneInv, EditNext
  PROVE  SureInv' /\ CalledDoneInv'
<1>q. UNCHANGED q
  BY EditMoves
<1>0. SessionInv' /\ AloneInv'
  BY SessionKept, AloneKept
<1>a. ASSUME ~es'.sure, result'.status # "done" PROVE SureInv' /\ CalledDoneInv'
  BY <1>a, Zenon DEF SureInv, CalledDoneInv
(* Up to the read-back nothing is told of the items. *)
<1>b. ASSUME es'.at \in {"open", "steps", "click", "wait", "verify"} PROVE SureInv' /\ CalledDoneInv'
  <2>1. ~es'.sure /\ result'.status = "none"
    BY <1>0, <1>b DEF SessionInv
  <2>2. QED
    BY <1>a, <2>1
<1>e. ASSUME NEW how \in EditEnds \ {"noop", "nothing"}, NEW kept \in BOOLEAN, EndEdit(how, Nothing, kept),
             es.at \in {"open", "steps", "click", "verify"}
      PROVE  SureInv' /\ CalledDoneInv'
  <2>1. es'.sure = es.sure /\ result'.status = "failed"
    BY <1>e, EndEditIs, NothingTyped DEF KeptBut
  <2>2. ~es.sure
    BY <1>e DEF SessionInv
  <2>3. QED
    BY <1>a, <2>1, <2>2
<1>s. ASSUME Alike(note', note, {"permission"}), KeptBut({"at"}) PROVE
        /\ es'.sure = es.sure /\ es'.loaded = es.loaded /\ es'.alone = es.alone /\ es'.clicked = es.clicked
        /\ (\A k \in Keys : ConfirmedIsThere(k, es.label) => ConfirmedIsThere(k, es.label)') /\ (EverythingAsked(es.label) => EverythingAsked(es.label)')
  <2>1. /\ es'.sure = es.sure /\ es'.loaded = es.loaded /\ es'.alone = es.alone /\ es'.clicked = es.clicked
        /\ es'.label = es.label
    BY <1>s DEF KeptBut
  <2>2. QED
    BY <1>q, <1>s, <2>1, StaysThere
<1>1. CASE Begin
  BY <1>1, <1>a, BeginMoves DEF Begins, Afresh
<1>2. CASE OpenPage
  <2>1. CASE Opens
    BY <1>b, <2>1 DEF Opens, Afresh
  <2>2. CASE EndEdit("refused", Nothing, FALSE)
    BY <1>2, <1>e, <2>2, OpenMoves DEF EditEnds
  <2>3. QED
    BY <1>2, <2>1, <2>2, OpenMoves
<1>3. CASE StepItem \/ StepTopics
  <2>1. CASE EditOver
    BY <1>3, <1>e, <2>1, StepMoves DEF EditEnds, EditOver
  <2>2. CASE Works
    <3>1. es'.at = "steps"
      BY <2>2, TriesIs DEF Works, Tries, Adds, KeptBut
    <3>2. QED
      BY <1>b, <3>1
  <2>3. QED
    BY <1>3, <2>1, <2>2, StepMoves
<1>4. CASE Decide
  <2>1. CASE Decides
    BY <1>b, <2>1 DEF Decides, GoesTo
  <2>2. ASSUME NEW how \in {"noop", "nothing"}, EndEdit(how, NoopMap, TRUE) PROVE SureInv' /\ CalledDoneInv'
    <3>1. NoopMap \in [Keys -> {"none", "true", "false"}]
      BY DEF NoopMap
    <3>2. KeptBut({"at"}) /\ result'.status = Overall(NoopMap, es.ed.topics \ es.add)
      BY <2>2, <3>1, EndEditIs DEF EditEnds
    <3>3. es.at = "steps" /\ ~es.sure /\ note' = note
      BY <1>4, DecideMoves DEF SessionInv
    <3>4. Alike(note', note, {"permission"})
      BY <3>3, AlikeSelf
    <3>5. SureInv'
      <4>1. ~es'.sure
        BY <1>s, <3>2, <3>3, <3>4
      <4>2. QED
        BY <4>1, Zenon DEF SureInv
    <3>6. es.alone /\ result'.status = "done" => EverythingAsked(es.label)
      BY <3>2, <3>3, NothingNeeded
    <3>7. CalledDoneInv'
      <4>1. es'.alone = es.alone /\ (EverythingAsked(es.label) => EverythingAsked(es.label)')
        BY <1>s, <3>2, <3>4
      <4>2. QED
        BY <3>6, <4>1, Zenon DEF CalledDoneInv
    <3>8. QED
      BY <3>5, <3>7
  <2>3. QED
    BY <1>4, <2>1, <2>2, DecideMoves
<1>5. CASE ClickPublish
  <2>1. CASE Clicks
    BY <1>b, <2>1 DEF Clicks, GoesTo
  <2>2. CASE EndEdit("refused", Nothing, FALSE)
    BY <1>5, <1>e, <2>2, ClickMoves DEF EditEnds
  <2>3. QED
    BY <1>5, <2>1, <2>2, ClickMoves
<1>6. CASE Answer
  BY <1>6, <1>b, AnswerMoves
<1>7. CASE Verify
  <2>1. PICK opened \in BOOLEAN, unread \in SUBSET Keys, look \in Looks :
          /\ es'.label = look.label /\ result'.applied = Seen(opened, unread, look)
          /\ result'.status = Overall(Seen(opened, unread, look), TopicsSeen(opened))
    BY <1>7, VerifyMoves
  <2>2. /\ es.at = "verify" /\ note' = note /\ es'.clicked = es.clicked /\ es'.loaded = es.loaded
        /\ es'.alone = es.alone /\ (result'.preserved => PermissionKept)
    BY <1>7, VerifyMoves DEF ReadsOn, GoesTo, KeptBut
  <2>3. /\ \A k \in Keys : ConfirmedIsThere(k, look.label) => ConfirmedIsThere(k, es.label)'
        /\ EverythingAsked(look.label) => EverythingAsked(es.label)'
    BY <1>q, <2>1, <2>2, AlikeSelf, StaysThere
  <2>4. \A k \in Keys : result'.applied[k] = "true" => ConfirmedIsThere(k, es.label)'
    BY <2>1, <2>3, SeenIsThere
  <2>5. result'.preserved => note'.permission = es'.loaded.permission
    BY <2>2, Zenon DEF PermissionKept
  <2>6. es.alone /\ result'.status = "done" => EverythingAsked(look.label)
    BY <2>1, <2>2, AllSeen
  <2>7. SureInv'
    BY <2>4, <2>5, Zenon DEF SureInv
  <2>8. CalledDoneInv'
    BY <2>2, <2>3, <2>6, Zenon DEF CalledDoneInv
  <2>9. QED
    BY <2>7, <2>8
<1>8. CASE Restore
  <2>1. KeptBut({"at"}) /\ UNCHANGED result
    BY <1>8, RestoreMoves
  <2>2. \/ note' = note
        \/ Alike(note', note, {"permission"}) /\ note'.permission = es.loaded.permission
    BY <1>8, RestoreMoves, RestoredIs DEF ReadsOn, EditTyped
  <2>3. Alike(note', note, {"permission"})
    BY <2>2, AlikeSelf
  <2>4. note.permission = es.loaded.permission => note'.permission = es.loaded.permission
    BY <2>2
  <2>5. /\ es'.sure = es.sure /\ es'.loaded = es.loaded /\ es'.alone = es.alone /\ es'.clicked = es.clicked
        /\ (\A k \in Keys : ConfirmedIsThere(k, es.label) => ConfirmedIsThere(k, es.label)') /\ (EverythingAsked(es.label) => EverythingAsked(es.label)')
    BY <1>s, <2>1, <2>3
  <2>6. SureInv'
    BY <2>1, <2>4, <2>5, Zenon DEF SureInv
  <2>7. CalledDoneInv'
    BY <2>1, <2>5, Zenon DEF CalledDoneInv
  <2>8. QED
    BY <2>6, <2>7
<1>9. CASE Raise
  <2>1. EndEdit("unknown", Nothing, FALSE) /\ es.at = "verify"
    BY <1>9 DEF Raise
  <2>2. QED
    BY <1>e, <2>1 DEF EditEnds
<1>10. CASE Record
  <2>1. KeptBut({"at"}) /\ UNCHANGED <<result, note>>
    BY <1>10, RestMoves DEF Record
  <2>2. Alike(note', note, {"permission"})
    BY <2>1, AlikeSelf
  <2>3. /\ es'.sure = es.sure /\ es'.loaded = es.loaded /\ es'.alone = es.alone /\ es'.clicked = es.clicked
        /\ (\A k \in Keys : ConfirmedIsThere(k, es.label) => ConfirmedIsThere(k, es.label)') /\ (EverythingAsked(es.label) => EverythingAsked(es.label)')
    BY <1>s, <2>1, <2>2
  <2>4. SureInv'
    BY <2>1, <2>3, Zenon DEF SureInv
  <2>5. CalledDoneInv'
    BY <2>1, <2>3, Zenon DEF CalledDoneInv
  <2>6. QED
    BY <2>4, <2>5
<1>11. CASE Kill
  <2>1. result' = [Silent EXCEPT !.kind = "unknown"]
    BY <1>11 DEF Kill
  <2>2. result'.status = "none" /\ result'.applied = Nothing /\ ~result'.preserved
    BY <2>1 DEF Silent
  <2>3. SureInv'
    BY <2>2, NothingTold, Zenon DEF SureInv
  <2>4. CalledDoneInv'
    BY <2>2, Zenon DEF CalledDoneInv
  <2>5. QED
    BY <2>3, <2>4
<1>12. ASSUME NEW n \in pending, Land(n) \/ Lose(n) PROVE SureInv' /\ CalledDoneInv'
  <2>1. es' = es
    BY <1>12, SiteMoves
  <2>2. ~es.sure /\ (es.alone => es.clicked)
    BY DEF SessionInv, AloneInv
  <2>3. ~es'.sure /\ (es'.alone => es'.clicked)
    BY <2>1, <2>2, Zenon
  <2>4. QED
    BY <2>3, Zenon DEF SureInv, CalledDoneInv
<1>13. QED
  BY <1>1, <1>2, <1>3, <1>4, <1>5, <1>6, <1>7, <1>8, <1>9, <1>10, <1>11, <1>12
  DEF EditNext, EditStep, SetComponents

(***************************************************************************)
(* The theorems                                                            *)
(***************************************************************************)

EditInv ==
  /\ EditTyped /\ EditorInv /\ RoundsInv /\ OnlyInv
  /\ SessionInv /\ AloneInv /\ TitleInv /\ SureInv /\ CalledDoneInv

LEMMA EditInvInit == EditInit => EditInv
<1> SUFFICES ASSUME EditInit PROVE EditInv
  OBVIOUS
<1>1. EditTyped
  BY InitTyped
<1>2. /\ note = first /\ note \in Notes /\ pending = {} /\ es = Idle(note) /\ result = Silent
      /\ asked = 0 /\ ledger = "old"
  BY <1>1 DEF EditInit, EditTyped
<1>3. /\ es.at = "idle" /\ es.loaded = note /\ es.ed = note /\ ~es.clicked /\ ~es.alone /\ ~es.sure
  BY <1>2, IdleIs
<1>4. result.kind = "none" /\ result.applied = Nothing /\ result.status = "none"
  BY <1>2, SilentIs
<1>5. EditorInv
  BY <1>3 DEF EditorInv, AtWork
<1>6. RoundsInv
  <2>1. q.remove \in Nat /\ q.add \in Nat /\ first.gone = 0 /\ first.more = 0
    BY <1>1, Given DEF Requests
  <2>2. 0 * q.remove = 0 /\ 0 * q.add = 0
    BY <2>1
  <2>3. Made(first, 0)
    BY <2>1, <2>2 DEF Made
  <2>4. 0 \in 0..Rounds
    BY <1>2, <1>3 DEF Rounds
  <2>5. QED
    BY <1>2, <1>3, <2>3, <2>4 DEF RoundsInv, MadeWithin
<1>7. OnlyInv
  <2>1. OnlyAsked(first)
    BY Zenon DEF OnlyAsked
  <2>2. QED
    BY <1>2, <1>3, <2>1 DEF OnlyInv
<1>8. SessionInv /\ AloneInv
  BY <1>3, <1>4 DEF SessionInv, AloneInv
<1>9. TitleInv
  <2>1. ledger # "new" /\ result.applied["title"] # "true"
    BY <1>2, <1>4, NothingTold
  <2>2. es.at \notin {"restore", "record"}
    BY <1>3
  <2>3. QED
    BY <1>2, <2>1, <2>2, Zenon DEF TitleInv
<1>10. SureInv /\ CalledDoneInv
  BY <1>3, <1>4, Zenon DEF SureInv, CalledDoneInv
<1>11. QED
  BY <1>1, <1>5, <1>6, <1>7, <1>8, <1>9, <1>10 DEF EditInv

LEMMA EditInvStep == EditInv /\ EditNext => EditInv'
<1> SUFFICES ASSUME EditInv, EditNext PROVE EditInv'
  OBVIOUS
<1>1. EditTyped /\ EditorInv /\ RoundsInv /\ OnlyInv /\ SessionInv /\ AloneInv /\ TitleInv /\ SureInv /\ CalledDoneInv
  BY DEF EditInv
<1>2. UNCHANGED <<q, first>> /\ EditSteps
  BY <1>1, EditMoves
<1>3. EditTyped'
  BY <1>1, NextTyped
<1>4. EditorInv' /\ RoundsInv' /\ OnlyInv'
  BY <1>1, <1>2, EditorKept, RoundsKept, OnlyKept
<1>5. SessionInv' /\ AloneInv' /\ TitleInv'
  BY <1>1, SessionKept, AloneKept, TitleKept
<1>6. SureInv' /\ CalledDoneInv'
  BY <1>1, TellsKept
<1>7. QED
  BY <1>3, <1>4, <1>5, <1>6 DEF EditInv

LEMMA EditInvStutter == EditInv /\ UNCHANGED editVars => EditInv'
<1> SUFFICES ASSUME EditInv, UNCHANGED editVars PROVE EditInv'
  OBVIOUS
<1>1. /\ q' = q /\ note' = note /\ ledger' = ledger /\ pending' = pending /\ es' = es /\ result' = result
      /\ asked' = asked /\ upsets' = upsets /\ first' = first
  BY DEF editVars
<1>2. /\ EditTyped /\ EditorInv /\ RoundsInv /\ OnlyInv
      /\ SessionInv /\ AloneInv /\ TitleInv /\ SureInv /\ CalledDoneInv
  BY DEF EditInv
<1>3. EditTyped'
  BY <1>1, <1>2, Zenon DEF EditTyped
<1>4. EditorInv'
  <2>1. (TextsSo => TextsSo') /\ (PartsSo => PartsSo') /\ Untried' = Untried
    BY <1>1, EditorStays
  <2>2. QED
    BY <1>1, <1>2, <2>1 DEF EditorInv
<1>5. RoundsInv'
  BY <1>1, <1>2, Zenon DEF RoundsInv, Rounds, MadeWithin, Made
<1>6. OnlyInv'
  BY <1>1, <1>2, Zenon DEF OnlyInv, OnlyAsked
<1>7. SessionInv' /\ AloneInv' /\ TitleInv'
  BY <1>1, <1>2, Zenon DEF SessionInv, AloneInv, TitleInv
<1>8. /\ \A k \in Keys : ConfirmedIsThere(k, es.label) => ConfirmedIsThere(k, es.label)'
      /\ EverythingAsked(es.label) => EverythingAsked(es.label)'
  BY <1>1, AlikeSelf, StaysThere
<1>9. SureInv' /\ CalledDoneInv'
  BY <1>1, <1>2, <1>8, Zenon DEF SureInv, CalledDoneInv
<1>10. QED
  BY <1>3, <1>4, <1>5, <1>6, <1>7, <1>9 DEF EditInv

LEMMA EditInvHolds == TaskSpec => []EditInv
<1>1. TaskInit => EditInv
  BY EditInvInit DEF TaskInit
<1>2. EditInv /\ [TaskNext]_taskVars => EditInv'
  <2> SUFFICES ASSUME EditInv, [TaskNext]_taskVars PROVE EditInv'
    OBVIOUS
  <2>1. EditNext \/ UNCHANGED editVars
    BY DEF TaskNext, TaskStep, BeginEdit, BeginCreate, BeginRound, EditNext, taskVars
  <2>2. QED
    BY <2>1, EditInvStep, EditInvStutter
<1>3. QED
  BY <1>1, <1>2, PTL DEF TaskSpec

LEMMA EditsAreTrue == EditInv => EditsTrue
<1> SUFFICES ASSUME EditInv PROVE EditsTrue
  OBVIOUS
<1>1. EditTyped /\ RoundsInv /\ OnlyInv
  BY DEF EditInv
<1>2. EditsWholeOrNot
  <2>1. PICK k \in 0..Rounds : Made(note, k)
    BY <1>1 DEF RoundsInv, MadeWithin
  <2>2. k \in 0..asked
    BY <1>1, EditsGiven DEF Rounds, EditTyped
  <2>3. <<note.title, note.content, note.gone, note.more>> = AfterEdits(k) /\ (q.remove # q.add => k <= 1)
    BY <2>1, Zenon DEF Made, AfterEdits
  <2>4. QED
    BY <2>2, <2>3 DEF EditsWholeOrNot
<1>3. OnlyTheAsked
  <2>1. OnlyAsked(note)
    BY <1>1 DEF OnlyInv
  <2>2. q.join = None /\ q.unjoin # first.collection =>
          note.collection \in {first.collection} \cup (IF upsets > 0 \/ first.permission = "private"
                                                 THEN {None} ELSE {})
    BY <2>1 DEF OnlyAsked
  <2>3. QED
    BY <2>1, <2>2, Zenon DEF OnlyAsked, OnlyTheAsked
<1>4. QED
  BY <1>2, <1>3 DEF EditsTrue

LEMMA ClaimsAreTrue == EditInv => ClaimsHold
<1> SUFFICES ASSUME EditInv PROVE ClaimsHold
  OBVIOUS
<1>1. SureInv /\ CalledDoneInv /\ SessionInv /\ TitleInv
  BY DEF EditInv
<1>2. ledger = "new" => note.title = "new"
  BY <1>1, Zenon DEF TitleInv
<1>3. result.kind \in {"refused", "aborted", "noop", "nothing"} => ~es.clicked
  BY <1>1 DEF SessionInv
<1>4. QED
  BY <1>1, <1>2, <1>3, Zenon DEF SureInv, CalledDoneInv, ClaimsHold

LEMMA TypesFollow == EditInv => EditTypeOK
<1> SUFFICES ASSUME EditInv PROVE EditTypeOK
  OBVIOUS
<1>1. EditTyped
  BY DEF EditInv
<1>2. QED
  BY <1>1 DEF EditTyped, EditTypeOK, EditSessions, EditReports, EditEnds

(* Type correctness of the note, its sessions and what they report. *)
THEOREM EditTypes == TaskSpec => []EditTypeOK
BY EditInvHolds, TypesFollow, PTL

(* However often an edit is asked for, whatever submissions get lost or land late and   *)
(* wherever a session fails: title, text and images are as they were or all as asked   *)
(* for, once unless as many images are added as removed, and nothing that was not      *)
(* asked for differs from the note as it was.                                        *)
THEOREM EditsAreWhole == TaskSpec => []EditsTrue
BY EditInvHolds, EditsAreTrue, PTL

(* What an edit tells is so.  While no other submission can land, an item confirmed is   *)
(* on the note and a permission called preserved is the one it had; done says that      *)
(* everything asked for is there; a session that says it submitted nothing did not;     *)
(* and a title in the ledger is the note's.  Two things confirmed may be untrue, and the  *)
(* theorem does not claim them: a title set beside a quote, which is compared with the     *)
(* quoted note's, and a collection left of which no label was read.                    *)
THEOREM ClaimsAreSo == TaskSpec => []ClaimsHold
BY EditInvHolds, ClaimsAreTrue, PTL
=============================================================================
