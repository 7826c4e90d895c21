---------------------------- MODULE PublishNote ----------------------------
(***************************************************************************)
(* The publication of PublishPage with what a note is dressed with before the   *)
(* click: topics, cover, collections, quoted note, activity and declaration of  *)
(* originality (publish_note of browser/sync_client.py), and what publish_once *)
(* tells the job of them.  No component stops a publication.                  *)
(*                                                                         *)
(*   want      the components the job asks for                              *)
(*   dress     what the form carries                                        *)
(*   todo      what this session has still to do                             *)
(*   out       what this session tells of each component, and the topics it  *)
(*             calls applied                                                *)
(*   bare      whether each draft carries nothing of the kind                 *)
(*   worn      history: the dress of each published note                       *)
(***************************************************************************)
EXTENDS PublishPage, FiniteSets, SequencesExt

CONSTANTS Wanted,       \* sets of components jobs ask for
          TopicNames,   \* the topics of a job
          Null

ASSUME NoteAssumption == Null \notin {"asked", "other"}

VARIABLES want, dress, todo, out, bare, worn
dressVars == <<want, dress, todo, out, bare, worn>>
noteVars == <<vars, dressVars>>

W == INSTANCE NoteWidgets WITH
       Names <- {"asked", "other"}, Within <- {}, Topics <- TopicNames,
       MaxTopics <- Cardinality(TopicNames), Images <- 1, Levels <- {}, None <- Null

Components == {"topics", "cover", "album", "collection", "quote", "activity", "original"}
Bare == [topics |-> {}, cover |-> "frame", album |-> FALSE, collection |-> Null,
         quote |-> "none", activity |-> FALSE, original |-> FALSE]
Foreign == [Bare EXCEPT !.collection = "other", !.quote = "other", !.activity = TRUE]
Untold == [k \in Components |-> "none"]

(* The components in the order of publish_note; the declaration is always made.   *)
Due(k) ==
  CASE k = "original" -> TRUE
    [] k = "cover" -> k \in want /\ kind = "video"
    [] k = "album" -> k \in want /\ kind = "audio"
    [] k \in {"collection", "quote", "activity"} -> k \in want /\ kind # "audio"
    [] OTHER -> k \in want
Step(k) == IF Due(k) THEN <<k>> ELSE <<>>
Steps == Step("topics") \o Step("cover") \o Step("album") \o Step("collection") \o Step("quote")
           \o Step("activity") \o Step("original")

NoteInit ==
  /\ Init /\ want \in Wanted
  /\ dress = Bare /\ todo = <<>> /\ out = [status |-> Untold, topics |-> {}]
  /\ bare = [i \in DOMAIN drafts |-> FALSE] /\ worn = <<>>

(***************************************************************************)
(* Topics                                                                  *)
(***************************************************************************)

(* What lies over the page when a topic has been typed: layers that mirror the     *)
(* text, that hang on the editor, with so many options that look like topics,     *)
(* one of them the topic, or the topic and more.                             *)
Layers == [mirror : BOOLEAN, anchored : BOOLEAN, options : 0..2, hit : {"none", "near", "exact"}]
Possible == {l \in Layers : l.hit # "none" => l.options > 0}

(* select_topic_option: never the mirror; by the editor's place where it is       *)
(* known, else by the number of options; the topic itself before a longer one.   *)
Accepted(l, placed) == ~l.mirror /\ IF placed THEN l.anchored ELSE l.options >= 2
SelectTopic(layers, placed) ==
  LET ok == {l \in layers : Accepted(l, placed)} IN
  CASE \E l \in ok : l.hit = "exact" -> "exact"
    [] (\E l \in ok : l.hit = "near") /\ ~\E l \in ok : l.hit = "exact" -> "near"
    [] OTHER -> "failed"
TopicOutcomes == {SelectTopic({l}, placed) : l \in Possible, placed \in BOOLEAN}

(* step6_set_publish_options: nothing without the body in focus; then each topic   *)
(* is typed and its option clicked, or taken back.  A click counts, whether or not *)
(* the chip arrives; an exception ends it.                                    *)
TopicRuns == {[t \in T |-> o[t]] : T \in SUBSET TopicNames, o \in [TopicNames -> TopicOutcomes]}
Clicked(run) == {t \in DOMAIN run : run[t] # "failed"}
Chips(run, hit) == {IF run[t] = "exact" THEN t ELSE "near" : t \in hit}
SetTopics ==
  \E run \in TopicRuns : \E hit \in SUBSET Clicked(run) :
    /\ dress' = [dress EXCEPT !.topics = @ \cup Chips(run, hit)]
    /\ out' = [out EXCEPT !.topics = Clicked(run)]

(***************************************************************************)
(* The other components                                                    *)
(***************************************************************************)

(* publish_note passes ids only: the collection's name is read, if it can be.   *)
Ask == [join |-> "asked", named |-> FALSE, own |-> FALSE]

(* The form's own input, which a hover or a click of its entry may have to mount:  *)
(* it may not be found.                                                      *)
NoCoverInput(d) == W!Gives(d, {"error"})

(* apply_video_cover: the file goes into that input; done when an image more shows *)
(* in the cover's section, which may be one of the platform's frames.            *)
PreviewCover(d) ==
  NoCoverInput(d) \cup W!Gives(d, {"error", "done"})
    \cup W!Gives([d EXCEPT !.cover = "ours"], {"error", "done"})

(* select_podcast_collection: the option of that very name, seen afterwards       *)
(* somewhere on the page.                                                    *)
ChooseAlbum(d) ==
  W!Gives(d, {"error", "done"}) \cup W!Gives([d EXCEPT !.album = TRUE], {"error", "done"})

(* _set_audio_cover, while the audio is uploaded: not read back. *)
AudioCover(d) == W!Gives(d, {"error", "done"}) \cup W!Gives([d EXCEPT !.cover = "ours"], {"done"})

Outcomes(k) ==
  CASE k = "cover" -> PreviewCover(dress)
    [] k = "album" -> ChooseAlbum(dress)
    [] k = "collection" -> W!SetCollection(dress, Ask)
    [] k = "quote" -> W!SetQuote(dress, Ask)
    [] k = "activity" -> W!SetActivity(dress)
    [] k = "original" -> W!SetOriginal(dress)

(* One component, once the texts are in; an exception of it is an error of its own. *)
Dress ==
  /\ s.at = "options" /\ todo # <<>>
  /\ todo' = Tail(todo)
  /\ IF Head(todo) = "topics" THEN SetTopics
     ELSE \E o \in Outcomes(Head(todo)) :
            dress' = o.ed /\ out' = [out EXCEPT !.status[Head(todo)] = o.status]
  /\ UNCHANGED <<vars, want, bare, worn>>

(***************************************************************************)
(* The session                                                             *)
(***************************************************************************)

(* What the site keeps as a draft, or publishes, it keeps and publishes dressed. *)
Kept ==
  /\ bare' = IF drafts' = drafts THEN bare ELSE Append(bare, dress = Bare)
  /\ worn' = IF notes' = notes THEN worn ELSE Append(worn, dress)

(* A session starts with nothing told and an empty form.  (Mutant: the telling of   *)
(* the one before goes on.)                                                  *)
OpenNote ==
  /\ Open
  /\ dress' = Bare /\ todo' = Steps /\ out' = [status |-> Untold, topics |-> {}]
  /\ UNCHANGED <<want, bare, worn>>

UploadNote ==
  /\ Upload /\ Kept
  /\ IF kind = "audio" /\ "cover" \in want /\ s'.at = "wait"
     THEN \E o \in AudioCover(dress) :
            dress' = o.ed /\ out' = [out EXCEPT !.status["cover"] = o.status]
     ELSE UNCHANGED <<dress, out>>
  /\ UNCHANGED <<want, todo>>

(* A draft that is got back brings what it carries, of whatever note that is. *)
WaitNote ==
  /\ Wait /\ Kept
  /\ dress' = IF site.page = "upload" /\ kind = "images" /\ s'.at = "fill" /\ ~Last(bare)
              THEN Foreign ELSE dress
  /\ UNCHANGED <<want, todo, out>>

(* The button is waited for when everything has been tried. *)
OptionsNote == todo = <<>> /\ Options /\ Kept /\ UNCHANGED <<want, dress, todo, out>>

ClickNote ==
  /\ Fill \/ Find \/ Click \/ Watch \/ Healed \/ Settle
  /\ Kept /\ UNCHANGED <<want, dress, todo, out>>

SiteNote ==
  /\ Process \/ Respond \/ Fade \/ Reset
  /\ Kept /\ dress' = IF site' = Clean THEN Bare ELSE dress
  /\ UNCHANGED <<want, todo, out>>

NoteNext == OpenNote \/ UploadNote \/ WaitNote \/ Dress \/ OptionsNote \/ ClickNote \/ SiteNote
NoteSpec == NoteInit /\ [][NoteNext]_noteVars

(***************************************************************************)
(* Properties                                                              *)
(***************************************************************************)

Wears(d, k) ==
  CASE k = "collection" -> d.collection = "asked"
    [] k = "quote" -> d.quote # "none"
    [] k = "activity" -> d.activity
    [] k = "original" -> d.original

(* What the job is told of its note is so, whatever earlier sessions tried, told    *)
(* and left in the drafts: a collection, a quote, an activity or a declaration     *)
(* called done is on the note published, and no note wears what was not asked for.  *)
(* (Topics, covers and podcast collections are called done on less than that.)     *)
WearsWhatIsTold ==
  /\ verdict = "success" =>
       \A k \in {"collection", "quote", "activity", "original"} :
         out.status[k] = "done" => Wears(Last(worn), k)
  /\ \A i \in DOMAIN worn :
       /\ \A k \in {"collection", "quote", "activity"} : Wears(worn[i], k) => k \in want
       /\ worn[i].collection # "other" /\ (worn[i].album => "album" \in want)
       /\ worn[i].cover = "ours" => "cover" \in want
=============================================================================
