----------------------------- MODULE FilmEdits -----------------------------
(***************************************************************************)
(* What the video pipeline does to the lines of a film: the rewriting of      *)
(* pipeline/remake/rewriter.py, the edits of a revision                       *)
(* (pipeline/remake/revision.py), the new time axis                           *)
(* (pipeline/remake/timeline.py) and the voices (pipeline/dubber.py).         *)
(*                                                                         *)
(* A line is its Chinese text, whether it is read aloud, its place on the       *)
(* present axis, and its place on the original film's (0: not yet recorded).  *)
(***************************************************************************)
EXTENDS Naturals, Sequences, FiniteSets, SequencesExt

CONSTANT Notice,        \* original times that the notice card of a film covers
         CLOSING_LINE   \* the text that closes a film

Line(zh, at) == [zh |-> zh, quiet |-> FALSE, start |-> at, orig |-> 0]
Origin(line) == IF line.orig = 0 THEN line.start ELSE line.orig
(* The lines that are read, each at its place among all.                       *)
Aloud(lines) == {i \in DOMAIN lines : ~lines[i].quiet}
Spoken(lines) == [i \in Aloud(lines) |-> lines[i]]
Texts(lines) == [i \in DOMAIN lines |-> lines[i].zh]

(***************************************************************************)
(* Rewriting a new film                                                    *)
(***************************************************************************)

(* The model may ask for a closing line; its wording is the constant.        *)
AppendClosing(lines) ==
  Append(lines, [lines[Len(lines)] EXCEPT !.zh = CLOSING_LINE, !.quiet = FALSE])

(* mark_no_dub, then anchor_closing_line: what the notice shows is not read,    *)
(* the closing line always is.                                              *)
MarkNoDub(lines, facts) ==
  [i \in DOMAIN lines |->
     [lines[i] EXCEPT !.quiet = \/ lines[i].quiet
                                \/ facts = "notice" /\ Origin(lines[i]) \in Notice]]
AnchorClosing(lines) ==
  IF lines[Len(lines)].zh # CLOSING_LINE THEN lines
  ELSE [lines EXCEPT ![Len(lines)].quiet = FALSE]

(***************************************************************************)
(* The edits of a revision                                                 *)
(***************************************************************************)
NoOverrides == [ball |-> "film", closing |-> "film"]

(* An edit names its line, or the parameter it sets.                          *)
Scripted == {"edit", "delete", "insert"}
EditKey(op) == IF op.type = "insert" THEN <<op.type, op.at, op.text>>
               ELSE IF op.type \in Scripted THEN <<op.type, op.at>>
               ELSE <<op.type>>
Keys(plan) == {EditKey(plan[i]) : i \in DOMAIN plan}

(* validate_edit_plan *)
ValidPlan(plan, lines) ==
  \A i \in DOMAIN plan : plan[i].type \in Scripted => plan[i].at \in DOMAIN lines

(* The pairs of P in their order, the first number counting more.               *)
NotAfter(r, p) == r[1] < p[1] \/ (r[1] = p[1] /\ r[2] <= p[2])
InOrder(P) ==
  [n \in 1..Cardinality(P) |-> CHOOSE p \in P : Cardinality({r \in P : NotAfter(r, p)}) = n]

(* _reflect_coverage adds what the first reading has left out, each once.       *)
LeftOut(first, second) ==
  {<<i, 0>> : i \in {i \in DOMAIN second :
     /\ EditKey(second[i]) \notin Keys(first)
     /\ \A k \in 1..i - 1 : EditKey(second[k]) # EditKey(second[i])}}
Covered(first, second) ==
  LET more == InOrder(LeftOut(first, second))
  IN first \o [n \in DOMAIN more |-> second[more[n][1]]]

Inserted(line, text) == [line EXCEPT !.zh = text, !.quiet = FALSE]

(* apply_edits: one pass over the lines as they were, each followed by what is      *)
(* inserted after it, also when it is deleted; the last edit of a line counts.      *)
OpsAt(plan, type, i) == {k \in DOMAIN plan : plan[k].type = type /\ plan[k].at = i}
Pieces(plan, lines) ==
  {p \in (DOMAIN lines) \X ({0} \cup DOMAIN plan) :
     IF p[2] = 0 THEN OpsAt(plan, "delete", p[1]) = {}
     ELSE p[2] \in OpsAt(plan, "insert", p[1])}
Piece(plan, lines, p) ==
  LET line == lines[p[1]]
      new == OpsAt(plan, "edit", p[1])
  IN CASE p[2] # 0 -> Inserted(line, plan[p[2]].text)
       [] p[2] = 0 /\ new = {} -> line
       [] OTHER -> [line EXCEPT !.zh = plan[CHOOSE k \in new : \A m \in new : m <= k].text]
Edited(plan, lines) ==
  LET places == InOrder(Pieces(plan, lines))
  IN [n \in DOMAIN places |-> Piece(plan, lines, places[n])]

Overridden(plan, over) ==
  FoldLeft(LAMBDA o, op : IF op.type \in DOMAIN o THEN [o EXCEPT ![op.type] = op.text] ELSE o,
           over, plan)

ClosingOf(over) == IF over.closing = "film" THEN CLOSING_LINE ELSE over.closing

(* Only this revision's closing line is put in, in place of the one before it.  *)
Closed(plan, lines, over) ==
  LET new == {k \in DOMAIN plan : plan[k].type = "closing"} IN
  IF new = {} \/ lines = <<>> THEN lines
  ELSE IF Last(lines).zh # ClosingOf(over) THEN lines
  ELSE [lines EXCEPT ![Len(lines)].zh = plan[CHOOSE k \in new : \A m \in new : k <= m].text]

Revised(plan, lines, over) == Closed(plan, Edited(plan, lines), over)

(***************************************************************************)
(* The new axis and the voices                                             *)
(***************************************************************************)

(* Every spoken line delays those that follow it on the original axis; the axis *)
(* is always computed from the original one, so computing it again changes     *)
(* nothing.                                                                *)
Retimed(lines) ==
  LET Before(i) == {k \in DOMAIN lines :
        /\ ~lines[k].quiet
        /\ \/ Origin(lines[k]) < Origin(lines[i])
           \/ Origin(lines[k]) = Origin(lines[i]) /\ k < i}
      New(i) == [lines[i] EXCEPT !.orig = Origin(lines[i]),
                   !.start = IF lines[i].quiet THEN lines[i].start
                             ELSE Origin(lines[i]) + Cardinality(Before(i))]
  IN [i \in DOMAIN lines |-> New(i)]

(* _name_by_hash: a remake's clips are named by place and text.               *)
ClipName(mode, i, line) == IF mode = "remake" THEN <<i, line.zh>> ELSE <<i>>


(* _synth_pass: a clip whose file exists is not made again.                    *)
Synthesized(mode, lines, tts) ==
  tts \cup {[name |-> ClipName(mode, i, lines[i]), says |-> lines[i].zh] :
              i \in {k \in DOMAIN lines :
                       /\ ~lines[k].quiet
                       /\ \A c \in tts : c.name # ClipName(mode, k, lines[k])}}

Said(name, tts) == (CHOOSE c \in tts : c.name = name).says

(* The track: each spoken line's clip, where the line starts.                  *)
ClipNames(mode, lines) == [i \in DOMAIN lines |-> ClipName(mode, i, lines[i])]
Track(lines, clips, tts) ==
  [i \in Aloud(lines) |-> [says |-> Said(clips[i], tts), at |-> lines[i].start]]
=============================================================================
