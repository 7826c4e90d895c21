--------------------------- MODULE NoteVisibility ---------------------------
(***************************************************************************)
(* Who may see a note of an account: set_note_visibility of                   *)
(* browser/note_visibility.py over the list of browser/creator_note_list.py,   *)
(* and the task around it in services/note_visibility.py.  The request names a *)
(* note by id; the cards of the note manager bear titles only.               *)
(*                                                                         *)
(*   shown    the notes' titles on the platform now, "" for none              *)
(*   privacy  who may see them;  coming  submissions that may take effect yet  *)
(*   entered  what the ledger says of them                                    *)
(*   task     its step, its note and level, the title it was given,           *)
(*            the one it looks for, the card it found, and (history) whether it *)
(*            looked for a given title, or among some of the cards, or while    *)
(*            somebody retitled a note                                       *)
(*   told     its result, until somebody else changes a level                 *)
(***************************************************************************)
EXTENDS Naturals, FiniteSets

CONSTANTS Posted, Named,    \* the notes, and their titles in the ledger
          CardTitles,       \* titles on the platform, "" for none
          MaxTasks, MaxTurns,   \* bounds: tasks; what their holder does meanwhile
          Void

ASSUME VisibilityGiven ==
  /\ IsFiniteSet(Posted) /\ Named \in [Posted -> CardTitles] /\ "" \in CardTitles
  /\ MaxTasks \in Nat /\ MaxTurns \in Nat

VARIABLES shown, privacy, coming, entered, task, told, tasks, turns
viewVars == <<shown, privacy, coming, entered, task, told, tasks, turns>>

(* The two levels that can be asked for, and the rest. *)
SUPPORTED_PRIVACY == {"public", "private"}
Levels == SUPPORTED_PRIVACY \cup {"some"}

Free == [at |-> "idle", note |-> Void, target |-> Void, given |-> "", look |-> "", card |-> Void,
         blind |-> FALSE]
Untold == [status |-> "none", of |-> Free]

VisibilityInit ==
  /\ shown = Named /\ privacy \in [Posted -> Levels]
  /\ coming = {} /\ entered = privacy /\ task = Free /\ told = Untold /\ tasks = 0 /\ turns = 0

(* The task ends; what is done is entered in the ledger, if the note has a row and *)
(* the write succeeds.                                                       *)
Ends(status) == task' = Free /\ told' = [status |-> status, of |-> task]
TaskFails == Ends("error") /\ UNCHANGED <<shown, privacy, coming, entered, tasks, turns>>
Records == entered' \in {entered, [entered EXCEPT ![task.note] = task.target]}

(* start_change: the endpoint takes a title along, or none. *)
Ask ==
  /\ task.at = "idle" /\ tasks < MaxTasks /\ tasks' = tasks + 1
  /\ \E n \in Posted, target \in SUPPORTED_PRIVACY : \E given \in {"", Named[n]} :
       task' = [Free EXCEPT !.at = "list", !.note = n, !.target = target, !.given = given]
  /\ told' = Untold
  /\ UNCHANGED <<shown, privacy, coming, entered, turns>>

(***************************************************************************)
(* The list                                                                *)
(***************************************************************************)

(* fetch_posted_notes: the responses merged by id, until they stop coming, an      *)
(* empty one or too many: any notes.  Without a first response it raises, which is  *)
(* taken for an empty list.                                                   *)
Lists == SUBSET Posted

(* _resolve_locating_title: the title the list has for the id, else the given one;  *)
(* after an empty list the note manager is opened once more, which may fail.      *)
Resolve ==
  /\ task.at = "list"
  /\ \E list \in Lists :
       LET listed == task.note \in list /\ shown[task.note] # "" IN
       \/ /\ listed \/ task.given # ""
          /\ task' = [task EXCEPT !.at = "card", !.look = IF listed THEN shown[task.note] ELSE task.given,
                            !.blind = ~listed]
          /\ UNCHANGED <<shown, privacy, coming, entered, told, tasks, turns>>
       \/ ~listed /\ task.given = "" /\ TaskFails
       \/ list = {} /\ TaskFails

(***************************************************************************)
(* The card                                                                *)
(***************************************************************************)

(* _load_all_cards: all, unless the scrolls are used up or one brings nothing new in *)
(* its time.  _locate_card: exactly one of them.  (Mutant: the first of them.)    *)
Hits(cards, look) == {n \in cards : shown[n] = look}
Unique_m(hits) == hits # {}
Unique(hits) == Cardinality(hits) = 1

Locate ==
  /\ task.at = "card"
  /\ \E cards \in SUBSET Posted :
       LET hits == Hits(cards, task.look) IN
       \/ /\ Unique(hits)
          /\ task' = [task EXCEPT !.at = "modal", !.card = CHOOSE n \in hits : TRUE,
                            !.blind = @ \/ cards # Posted]
          /\ UNCHANGED <<shown, privacy, coming, entered, told, tasks, turns>>
       \/ ~Unique(hits) /\ TaskFails

(* _action_buttons, _open_permission_modal: four buttons in their order, and the     *)
(* modal is that of permissions; else nothing has been changed, and the modal is    *)
(* cancelled.                                                                *)
OpenModal ==
  /\ task.at = "modal"
  /\ \/ task' = [task EXCEPT !.at = "choose"]
        /\ UNCHANGED <<shown, privacy, coming, entered, told, tasks, turns>>
     \/ TaskFails

(* _current_label of the card's note, if it can be told: nothing to do when it is     *)
(* the target.                                                               *)
Skips ==
  /\ task.at = "choose" /\ privacy[task.card] = task.target
  /\ Ends("skipped") /\ UNCHANGED <<shown, privacy, coming, entered, tasks, turns>>

(* _select_and_confirm: the option of that very label and the button may be missing;  *)
(* the click takes effect at once, or later, or never.                           *)
Confirm ==
  /\ task.at = "choose"
  /\ \/ TaskFails
     \/ /\ task' = [task EXCEPT !.at = "verify"]
        /\ \/ privacy' = [privacy EXCEPT ![task.card] = task.target] /\ UNCHANGED coming
           \/ coming' = coming \cup {<<task.card, task.target>>} /\ UNCHANGED privacy
           \/ UNCHANGED <<privacy, coming>>
        /\ UNCHANGED <<shown, entered, told, tasks, turns>>

(* _verify, by the id in a list read anew. *)
Verify ==
  /\ task.at = "verify"
  /\ \/ privacy[task.note] = task.target /\ Ends("done") /\ Records
        /\ UNCHANGED <<shown, privacy, coming, tasks, turns>>
     \/ TaskFails

(***************************************************************************)
(* Meanwhile                                                               *)
(***************************************************************************)

Land(c) ==
  /\ coming' = coming \ {c} /\ privacy' = [privacy EXCEPT ![c[1]] = c[2]]
  /\ told' = Untold
  /\ UNCHANGED <<shown, entered, task, tasks, turns>>

Turn == turns < MaxTurns /\ turns' = turns + 1

Retitle(n) ==
  /\ Turn /\ \E t \in CardTitles \ {shown[n]} : shown' = [shown EXCEPT ![n] = t]
  /\ task' = [task EXCEPT !.blind = @ \/ task.at # "idle"]
  /\ UNCHANGED <<privacy, coming, entered, told, tasks>>

SetByHand(n) ==
  /\ Turn
  /\ \E l \in Levels \ {privacy[n]} : privacy' = [privacy EXCEPT ![n] = l]
  /\ told' = Untold
  /\ UNCHANGED <<shown, coming, entered, task, tasks>>

(* The child is killed: a task of this kind is not run again. *)
Kill == task.at # "idle" /\ Turn /\ Ends("error") /\ UNCHANGED <<shown, privacy, coming, entered, tasks>>

Step == Ask \/ Resolve \/ Locate \/ OpenModal \/ Skips \/ Confirm \/ Verify
VisibilityNext ==
  \/ Step \/ Kill
  \/ \E c \in coming : Land(c)
  \/ \E n \in Posted : Retitle(n) \/ SetByHand(n)
VisibilitySpec == VisibilityInit /\ [][VisibilityNext]_viewVars

(***************************************************************************)
(* Properties                                                              *)
(***************************************************************************)

Tasks == [at : {"idle", "list", "card", "modal", "choose", "verify"}, note : Posted \cup {Void},
          target : SUPPORTED_PRIVACY \cup {Void}, given : CardTitles, look : CardTitles,
          card : Posted \cup {Void}, blind : BOOLEAN]
VisibilityTypeOK ==
  /\ shown \in [Posted -> CardTitles]
  /\ privacy \in [Posted -> Levels] /\ entered \in [Posted -> Levels]
  /\ coming \subseteq Posted \X SUPPORTED_PRIVACY
  /\ task \in Tasks /\ told \in [status : {"none", "done", "skipped", "error"}, of : Tasks]
  /\ tasks \in 0 .. MaxTasks /\ turns \in 0 .. MaxTurns

(* A task that looks for the note's own title among all the cards does not touch     *)
(* another note, though the cards bear no ids; and the caller is told that his note   *)
(* is done, or was so before, only when it is.                                  *)
OnlyTheNamed ==
  /\ task.at \in {"modal", "choose", "verify"} => task.blind \/ task.card = task.note
  /\ told.status = "done" => privacy[told.of.note] = told.of.target
  /\ told.status = "skipped" /\ ~told.of.blind => privacy[told.of.note] = told.of.target
=============================================================================
