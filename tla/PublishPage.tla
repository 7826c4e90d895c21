----------------------------- MODULE PublishPage -----------------------------
(***************************************************************************)
(* One publish job on the creator site: publish_note of                      *)
(* browser/sync_client.py over the steps of browser/atomic_tasks.py, session  *)
(* after session as decide_finish of publish/policy.py allows.  A session     *)
(* knows of the site only what the page shows when it looks.                  *)
(*                                                                         *)
(*   kind     what the job uploads                                          *)
(*   site     the page (upload form, editor, success page), the editor, and   *)
(*            what the page says of the last click: it is loading, a receipt  *)
(*            of unknown meaning (Network Error), a refusal, a ban           *)
(*   drafts   the account's drafts, the newest last                          *)
(*   notes    history: what the platform has published                       *)
(*   s        the session: its step, its clicks on the button, and (history)   *)
(*            the notes it made                                             *)
(*   verdict  of the last session                                           *)
(***************************************************************************)
EXTENDS Naturals, Sequences

CONSTANTS OldDrafts,     \* drafts there may be in the beginning
          ReceiptsLast,  \* what answers a click stays on the page to be seen
          MaxTries,      \* PUBLISH_RETRY_DELAYS_S: sessions of a job
          MaxFaults      \* bound: resets of the editor, receipts that fade

Texts == {"none", "own", "part", "mixed", "other"}
Drafts == [media: {"none", "own", "other"}, title: Texts, body: Texts, ready: BOOLEAN]
Blank == [media |-> "none", title |-> "none", body |-> "none", ready |-> FALSE]

ASSUME PageAssumption ==
  /\ OldDrafts \subseteq Seq(Drafts) /\ ReceiptsLast \in BOOLEAN
  /\ MaxTries \in Nat /\ MaxFaults \in Nat

VARIABLES kind, site, drafts, notes, s, verdict, tries, faults
vars == <<kind, site, drafts, notes, s, verdict, tries, faults>>

Clean == [page |-> "upload", ed |-> Blank, answer |-> "none"]

Init ==
  /\ kind \in {"images", "video", "audio"}
  /\ site = Clean /\ drafts \in OldDrafts /\ notes = <<>>
  /\ s = [at |-> "idle", clicks |-> 0, made |-> 0]
  /\ verdict = "none" /\ tries = 0 /\ faults = 0

Fault == faults < MaxFaults /\ faults' = faults + 1
To(step) == s' = [s EXCEPT !.at = step]

(* The session ends; the site may keep what is in the editor as a draft. *)
End(v) ==
  /\ To("idle") /\ verdict' = v
  /\ \/ UNCHANGED drafts
     \/ site.page = "editor" /\ drafts' = Append(drafts, site.ed)

Goes(step) == To(step) /\ UNCHANGED <<drafts, verdict>>

(***************************************************************************)
(* Up to the editor                                                        *)
(***************************************************************************)

(* decide_finish: neither a dead login nor a banned account is tried again. *)
Retried == {"none", "failed"}

(* The browser may not start.  Ways to the publish page, and where they may     *)
(* end: by its address, by the button on the main site, by single sign-on, by *)
(* its address once more.                                                   *)
Starting == {"failed"}
Direct == {"upload"}
ByButton == {"upload", "failed"}
BySignOn == {"upload", "login"}
Again == {"upload", "login", "failed"}

(* Every way but the last may lead to the next. *)
Open ==
  /\ s.at = "idle" /\ verdict \in Retried /\ tries < MaxTries
  /\ tries' = tries + 1 /\ site' = Clean /\ UNCHANGED drafts
  /\ \E way \in Starting \cup Direct \cup ByButton \cup BySignOn \cup Again :
       /\ s' = [at |-> IF way = "upload" THEN "upload" ELSE "idle", clicks |-> 0, made |-> 0]
       /\ verdict' = IF way = "upload" THEN "none" ELSE way
  /\ UNCHANGED <<kind, notes, faults>>

(* Images and videos go into a hidden input of the form, which then becomes the *)
(* editor; of images one must be rendered.  An audio file goes into a modal.   *)
TakesImages == kind = "images" /\ site' = [site EXCEPT !.page = "editor", !.ed.media = "own"]
TakesVideo == kind = "video" /\ site' = [site EXCEPT !.page = "editor", !.ed.media = "own"]
TakesAudio == kind = "audio" /\ site' = [site EXCEPT !.ed.media = "own"]

(* Tab, input or modal may not be found; only the image step reports a dead    *)
(* login.                                                                   *)
NoForm == UNCHANGED site /\ End("failed")
NoLogin == UNCHANGED site /\ kind = "images" /\ End("login")

Upload ==
  /\ s.at = "upload"
  /\ \/ (TakesImages \/ TakesVideo \/ TakesAudio) /\ Goes("wait")
     \/ NoForm \/ NoLogin
  /\ UNCHANGED <<kind, notes, tries, faults>>

(* The newest draft.  (Names ending in _m are mutants.)                       *)
Newest_m(ds) == ds[1]
Newest(ds) == ds[Len(ds)]

(* _recover_editor_from_draft *)
FromDrafts ==
  /\ site.page = "upload" /\ drafts # <<>>
  /\ site' = [site EXCEPT !.page = "editor", !.ed = Newest(drafts)]

(* Images: the editor is there, or is got back from the drafts, or is not.     *)
(* The rest: the page has said, twice, that the media are ready.             *)
GetsImages == kind = "images" /\ ((site.page = "editor" /\ UNCHANGED site) \/ FromDrafts)
Processed == site.ed.ready
GetsVideo == kind = "video" /\ site.page = "editor" /\ Processed /\ UNCHANGED site
GetsAudio == kind = "audio" /\ Processed /\ site' = [site EXCEPT !.page = "editor"]

(* The images' editor does not come, nor a button that leads to it; video or    *)
(* audio are not ready in time.                                              *)
NoEditor == kind = "images" /\ UNCHANGED site /\ End("failed")
NotReady == kind # "images" /\ UNCHANGED site /\ End("failed")

Wait ==
  /\ s.at = "wait"
  /\ \/ (GetsImages \/ GetsVideo \/ GetsAudio) /\ Goes("fill")
     \/ NoEditor \/ NotReady
  /\ UNCHANGED <<kind, notes, tries, faults>>

(* _type_into_robust: the first attempt types into what is there, a further one *)
(* clears it; an attempt fails when it raises, after some keys or none.       *)
Typed(old) == IF old = "none" THEN {"own"} ELSE {"own", "mixed"}
TypedInPart(old) == {old, "part"}

(* ensure_editor_interactable: the title of a video or an audio file is out of   *)
(* sight or covered, and nothing is typed.                                   *)
NotInteractable == kind # "images" /\ UNCHANGED site /\ End("failed")

Fill ==
  /\ s.at = "fill"
  /\ \/ NotInteractable
     \/ /\ \E t \in Typed(site.ed.title), b \in Typed(site.ed.body) :
             site' = [site EXCEPT !.ed.title = t, !.ed.body = b]
        /\ Goes("options")
     \/ /\ \E t \in TypedInPart(site.ed.title) : site' = [site EXCEPT !.ed.title = t]
        /\ End("failed")
     \/ /\ \E t \in Typed(site.ed.title), b \in TypedInPart(site.ed.body) :
             site' = [site EXCEPT !.ed.title = t, !.ed.body = b]
        /\ End("failed")
  /\ UNCHANGED <<kind, notes, tries, faults>>

(* wait_for_submit_enabled *)
SubmitEnabled == site.ed.ready

(* Topics, cover, collection, components and the declaration of originality    *)
(* never stop a publication; a button that stays disabled does.              *)
Options ==
  /\ s.at = "options"
  /\ \/ (kind = "images" \/ SubmitEnabled) /\ Goes("find")
     \/ kind # "images" /\ End("failed")
  /\ UNCHANGED <<kind, site, notes, tries, faults>>

(***************************************************************************)
(* The click                                                               *)
(***************************************************************************)

(* A click on the button hits it or misses; while it loads it is dead. *)
Pressed == {site} \cup IF site.page = "editor" THEN {[site EXCEPT !.answer = "loading"]} ELSE {}

Refused == site.answer \in {"notice", "ban"}
Barred == End(IF site.answer = "ban" THEN "banned" ELSE "failed")

(* _published: the button or the address is gone.  (Mutant: so is a button     *)
(* that loads.)                                                             *)
Left_m == site.page # "editor" \/ site.answer = "loading"
Left == site.page # "editor"

(* _click_registered: a toast, or a button that loads.  (Mutant: not asked.)   *)
Registered_m == FALSE
Registered == Left \/ site.answer \in {"loading", "toast"}

(* Clicks on a button in a closed shadow tree. *)
Attempts == 3

(* The button is found, and clicked once; or hides in the shadow tree; or is    *)
(* looked for by other means, or not found.                                 *)
Find ==
  /\ s.at = "find"
  /\ \/ /\ site' \in Pressed
        /\ \E step \in {"heal", "settle"} : s' = [s EXCEPT !.at = step, !.clicks = 1]
        /\ UNCHANGED <<drafts, verdict>>
     \/ Goes("click") /\ UNCHANGED site
     \/ End("failed") /\ UNCHANGED site
  /\ UNCHANGED <<kind, notes, tries, faults>>

Click ==
  /\ s.at = "click"
  /\ IF s.clicks > 0 /\ Registered THEN Goes("settle") /\ UNCHANGED site
     ELSE /\ site' \in Pressed
          /\ s' = [s EXCEPT !.at = "watch", !.clicks = @ + 1]
          /\ UNCHANGED <<drafts, verdict>>
  /\ UNCHANGED <<kind, notes, tries, faults>>

(* Twelve looks, one a second: a refusal, a success, and in the end whether the *)
(* click has shown any effect.                                              *)
Watch ==
  /\ s.at = "watch"
  /\ \/ Refused /\ Barred
     \/ ~Refused /\ Left /\ End("success")
     \/ ~Refused /\ ~Left
          /\ Goes(IF Registered \/ s.clicks >= Attempts THEN "settle" ELSE "click")
  /\ UNCHANGED <<kind, site, notes, tries, faults>>

(* The button found by other means: one look after two seconds. *)
Healed ==
  /\ s.at = "heal"
  /\ IF Left THEN End("success") ELSE Goes("settle")
  /\ UNCHANGED <<kind, site, notes, tries, faults>>

(* Half a minute of looks for a refusal or the success page, then a timeout. *)
TimesOut == ~Refused /\ site.page # "success" /\ End("failed")
Settle ==
  /\ s.at = "settle"
  /\ \/ Refused /\ Barred
     \/ ~Refused /\ site.page = "success" /\ End("success")
     \/ TimesOut
  /\ UNCHANGED <<kind, site, notes, tries, faults>>

(***************************************************************************)
(* The site                                                                *)
(***************************************************************************)

(* Upload and transcoding come to an end. *)
Process ==
  /\ (site.page = "editor" \/ site.ed.media = "own") /\ ~site.ed.ready
  /\ site' = [site EXCEPT !.ed.ready = TRUE]
  /\ UNCHANGED <<kind, drafts, notes, s, verdict, tries, faults>>

(* A 401 of another service just after the editor has opened: the form is       *)
(* reset, what was in the editor becomes a draft.                           *)
Reset ==
  /\ s.at = "wait" /\ kind = "images" /\ site.page = "editor" /\ site.ed.title = "none"
  /\ Fault
  /\ drafts' = Append(drafts, site.ed) /\ site' = Clean
  /\ UNCHANGED <<kind, notes, s, verdict, tries>>

(* A click that hit is answered, during the session or after it.  An accepted   *)
(* one makes a note, whether it shows the success page or a receipt.         *)
Respond ==
  /\ site.answer = "loading"
  /\ \/ /\ site.ed.ready
        /\ notes' = Append(notes, site.ed)
        /\ s' = [s EXCEPT !.made = @ + 1]
        /\ \/ site' = [site EXCEPT !.page = "success", !.answer = "none"]
           \/ site' = [site EXCEPT !.answer = "toast"]
     \/ /\ \E a \in {"notice", "ban"} : site' = [site EXCEPT !.answer = a]
        /\ UNCHANGED <<notes, s>>
  /\ UNCHANGED <<kind, drafts, verdict, tries, faults>>

(* A toast goes after some seconds, the success page returns to the form. *)
Fade ==
  /\ ~ReceiptsLast \/ s.at = "idle"
  /\ Fault
  /\ \/ site.answer \in {"toast", "notice", "ban"} /\ site' = [site EXCEPT !.answer = "none"]
     \/ site.page = "success" /\ site' = Clean
  /\ UNCHANGED <<kind, drafts, notes, s, verdict, tries>>

Session ==
  \/ Open \/ Upload \/ Wait \/ Fill \/ Options
  \/ Find \/ Click \/ Watch \/ Healed \/ Settle
Site == Process \/ Reset \/ Respond \/ Fade

Next == Session \/ Site

Spec == Init /\ [][Next]_vars

(***************************************************************************)
(* Properties                                                              *)
(***************************************************************************)

TypeOK ==
  /\ site.page \in {"upload", "editor", "success"} /\ site.ed \in Drafts
  /\ site.answer \in {"none", "loading", "toast", "notice", "ban"}
  /\ drafts \in Seq(Drafts) /\ notes \in Seq(Drafts)
  /\ s.at \in {"idle", "upload", "wait", "fill", "options", "find", "click", "watch", "heal", "settle"}
  /\ s.clicks \in 0..3 /\ s.made <= s.clicks
  /\ verdict \in {"none", "success", "failed", "login", "banned"}
  /\ tries \in 0..MaxTries /\ faults \in 0..MaxFaults

(* A session publishes one note at most, however often it clicks: a click that   *)
(* was taken is never followed by another (atomic_tasks.py:2389).            *)
OneNotePerSession == s.made <= 1

(* What is published is the job's own: its media and its texts, each once,       *)
(* whatever earlier sessions and other jobs have left in the drafts.         *)
OwnNote == \A i \in DOMAIN notes : notes[i] = [media |-> "own", title |-> "own", body |-> "own", ready |-> TRUE]

(* A verdict that ends the job is so: a success has made a note, a dead login or  *)
(* a ban has not, as nobody will look again.                                *)
VerdictTrue ==
  /\ verdict = "success" => s.made > 0
  /\ verdict \in {"login", "banned"} => s.made = 0
=============================================================================
