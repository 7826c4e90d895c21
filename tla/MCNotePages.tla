---------------------------- MODULE MCNotePages ----------------------------
(* Small instances of PublishNote and NoteTasks for TLC.  A behaviour publishes a   *)
(* note (kind is that of the job), or edits one, or works on the collections: they    *)
(* share the account's lock and nothing that the properties speak of, so that all     *)
(* of them together would only multiply the states.                               *)
EXTENDS PublishNote, NoteTasks

(* No drafts, or one that another job has left. *)
SomeDrafts == {<<>>, <<[media |-> "other", title |-> "other", body |-> "other", ready |-> TRUE]>>}

SomeWanted == {{"topics", "cover"}, {"cover", "album"}, {"collection", "activity"}, {"quote"}}

(* Each component with a medium that has it; old drafts where drafts are got back. *)
Fits ==
  CASE kind = "images" -> want \in {{"collection", "activity"}, {"quote"}}
    [] kind = "video" -> want = {"topics", "cover"} /\ drafts = <<>>
    [] kind = "audio" -> want = {"cover", "album"} /\ drafts = <<>>

Shelved == {1, 2}
TheNames == {"science", "science_album"}

AnAsk(title, content, remove, add, unjoin, join, named, quote, own, activity, original, cover, topics) ==
  [title |-> title, content |-> content, remove |-> remove, add |-> add, unjoin |-> unjoin,
   join |-> join, named |-> named, quote |-> quote, own |-> own, activity |-> activity,
   original |-> original, cover |-> cover, topics |-> topics]
NothingAsked == AnAsk(FALSE, FALSE, 0, 0, None, None, TRUE, FALSE, FALSE, FALSE, FALSE, FALSE, {})

(* All edits; what is idempotent; the three components; a title and a quote; images swapped. *)
Mix ==
  {[NothingAsked EXCEPT !.title = TRUE, !.content = TRUE, !.remove = 2, !.add = 1, !.topics = {"t1"}],
   [NothingAsked EXCEPT !.unjoin = "science", !.original = TRUE, !.cover = TRUE],
   [NothingAsked EXCEPT !.join = "science", !.named = FALSE, !.activity = TRUE, !.topics = {"t1", "t2"}],
   [NothingAsked EXCEPT !.title = TRUE, !.quote = TRUE, !.own = TRUE],
   [NothingAsked EXCEPT !.content = TRUE, !.remove = 1, !.add = 1]}

Fresh == [title |-> "old", content |-> "old", gone |-> 0, more |-> 0, collection |-> None,
          quote |-> "none", activity |-> FALSE, original |-> FALSE, cover |-> "frame",
          topics |-> {}, permission |-> "public", video |-> FALSE]
Used == {Fresh,
         [Fresh EXCEPT !.collection = "science", !.video = TRUE],
         [Fresh EXCEPT !.collection = "science_album", !.cover = "custom", !.permission = "other",
                       !.video = TRUE],
         [Fresh EXCEPT !.collection = "science", !.quote = "other", !.topics = {"t2"},
                       !.permission = "private"]}

(* Lists of up to four candidates. *)
FewLists == UNION {[1..n -> {None, "science", "science_album"}] : n \in 1..4}
OneWithin == {<<"science", "science_album">>}

(* What a behaviour does not do rests as it is in the beginning. *)
NoJob ==
  /\ kind = Null /\ site = Clean /\ drafts = <<>> /\ notes = <<>>
  /\ s = [at |-> "idle", clicks |-> 0, made |-> 0] /\ verdict = "none" /\ tries = 0 /\ faults = 0
  /\ want = {} /\ dress = Bare /\ todo = <<>> /\ out = [status |-> Untold, topics |-> {}]
  /\ bare = <<>> /\ worn = <<>>
NoTask == q = [NothingAsked EXCEPT !.title = TRUE, !.quote = TRUE, !.own = TRUE] /\ note = Fresh
Empty == [k \in {"note", "podcast"} |-> [n \in Names |-> 0]]

PublishesNote == kind # Null
EditsNote == ~PublishesNote /\ asks = 0 /\ have = Empty
WorksOnShelf == ~PublishesNote /\ asked = 0 /\ NoTask

MCInit ==
  \/ NoteInit /\ Fits /\ TaskInit /\ NoTask /\ have = Empty
  \/ NoJob /\ TaskInit /\ (EditsNote \/ WorksOnShelf)
MCNext ==
  \/ PublishesNote /\ NoteNext /\ UNCHANGED <<editVars, shelfVars>>
  \/ EditsNote /\ BeginEdit /\ UNCHANGED noteVars
  \/ WorksOnShelf /\ (BeginCreate \/ BeginRound) /\ UNCHANGED noteVars
  \/ ~PublishesNote /\ TaskStep /\ UNCHANGED noteVars
MCSpec == MCInit /\ [][MCNext]_<<noteVars, editVars, shelfVars>>

=============================================================================
