----------------------------- MODULE Storyboards -----------------------------
(***************************************************************************)
(* The storyboard of a remade film: pipeline/remake/storyboard.py and the      *)
(* axis of pipeline/remake/timeline.py, whose cards and ball exercises are      *)
(* laid out anew around the lines that are spoken.  While a line is spoken      *)
(* the ball rests, and it stops and starts only in the middle of the picture:    *)
(* at multiples of half its period.                                         *)
(*                                                                         *)
(* Times are whole tenths of a second, and so is the half period: the rounding  *)
(* to frames then changes nothing.  Arithmetic is exact where the code's floats   *)
(* decide a tie by their last bit.  Colours and texts are left out.             *)
(*                                                                         *)
(* A fact is a scene of the original film, [kind, t0, t1]; a line of it is        *)
(* [at, to, dur, quiet, check]: its place on the original axis, how long the new   *)
(* voice takes, whether it is not read, whether it asks the viewer something.    *)
(* A scene of the storyboard is [kind, t0, t1] with kind "card", "moving" or       *)
(* "resting"; a line is placed at a start and an end.                        *)
(***************************************************************************)
EXTENDS Integers, Sequences, FiniteSets, SequencesExt

LEAD == 5
GAP == 10
TAIL == 15
FUNCTIONAL_PAUSE_MIN == 80
MIN_CARD == 40
MIN_CLOSING_CARD == 80
MIN_SPEECH_GAP == 3
SPEECH_WINDOW_TAIL == 5
MIN_STATIC == 20
SPEECH_BRIDGE_GAP == 60
POST_SPEECH_MOTION_DELAY == 20
REORCH_REST_MIN == 80

Larger(a, b) == IF a > b THEN a ELSE b
Smaller(a, b) == IF a < b THEN a ELSE b
Ceil(t, h) == -((-t) \div h)
RoundHalfEven(a, b) ==
  LET q == a \div b
      r == 2 * (a % b)
  IN IF r > b \/ (r = b /\ q % 2 = 1) THEN q + 1 ELSE q
PhaseFloor(t, h) == h * (t \div h)
PhaseCeil(t, h) == h * Ceil(t, h)

Scene(kind, t0, t1) == [kind |-> kind, t0 |-> t0, t1 |-> t1]
Ball(sc) == sc.kind \in {"moving", "resting"}
UpTo(n) == [i \in 1 .. n |-> i]

(***************************************************************************)
(* The new axis (timeline.relayout)                                        *)
(***************************************************************************)

(* _assign_block: the scene a line begins in, or the one nearest to it.       *)
BlockOf(facts, at) ==
  LET Dist(i) == IF at < facts[i].t0 THEN facts[i].t0 - at
                 ELSE IF at >= facts[i].t1 THEN at - facts[i].t1 + 1 ELSE 0
  IN CHOOSE i \in DOMAIN facts : \A k \in DOMAIN facts :
       Dist(i) < Dist(k) \/ (Dist(i) = Dist(k) /\ i <= k)

LinesOf(facts, lines, b) ==
  SelectSeq(UpTo(Len(lines)), LAMBDA i : ~lines[i].quiet /\ BlockOf(facts, lines[i].at) = b)

(* _closing_card_idx: a card that no exercise follows. *)
Closing(facts, b) ==
  facts[b].kind = "card" /\ \A k \in DOMAIN facts : k > b => facts[k].kind = "other"

(* A line never begins before the one spoken last has ended.                  *)
Placed(axis, lines, i, wanted) ==
  LET start == IF axis.spoken < 0 THEN wanted ELSE Larger(wanted, axis.spoken + MIN_SPEECH_GAP)
  IN [axis EXCEPT !.start = [@ EXCEPT ![i] = start], !.spoken = start + lines[i].dur]

(* In an exercise a line keeps its distance from the beginning of the scene; one    *)
(* that outlasts the scene is only warned of.                                   *)
BallBlock(axis, facts, lines, b, ids) ==
  LET t0 == axis.cur
      t1 == t0 + facts[b].t1 - facts[b].t0
      said == FoldLeft(LAMBDA a, i : Placed(a, lines, i, t0 + lines[i].at - facts[b].t0), axis, ids)
  IN [said EXCEPT !.cur = t1, !.blocks = Append(@, <<t0, t1>>)]

(* On a card the lines follow each other, long pauses of the original kept; the   *)
(* card stays until they are through, or as long as a revision has said.        *)
CardBlock(axis, facts, lines, b, ids, set) ==
  LET t0 == axis.cur
      Pause(k) == LET was == lines[ids[k]].at - lines[ids[k - 1]].to IN
                  IF set = 0 /\ was >= FUNCTIONAL_PAUSE_MIN THEN was ELSE GAP
      said == FoldLeftDomain(
                LAMBDA a, k : Placed(a, lines, ids[k], IF k = 1 THEN t0 + LEAD ELSE a.spoken + Pause(k)),
                axis, ids)
      closing == Closing(facts, b)
      length == IF set # 0 THEN set
                ELSE IF ids = <<>>
                THEN Larger(IF closing THEN MIN_CLOSING_CARD ELSE 0, facts[b].t1 - facts[b].t0)
                ELSE Larger(IF closing THEN MIN_CLOSING_CARD ELSE MIN_CARD, said.spoken + TAIL - t0)
  IN [said EXCEPT !.cur = t0 + length, !.blocks = Append(@, <<t0, t0 + length>>)]

(* set gives the duration a revision has set for a card, or 0.  A line that is not   *)
(* read keeps the place it had on the original axis.                            *)
Relayout(facts, lines, set) ==
  FoldLeftDomain(
    LAMBDA axis, b : LET ids == LinesOf(facts, lines, b) IN
      IF Ball(facts[b]) THEN BallBlock(axis, facts, lines, b, ids)
      ELSE CardBlock(axis, facts, lines, b, ids, set[b]),
    [cur |-> 0, spoken |-> -1, blocks |-> <<>>,
     start |-> [i \in DOMAIN lines |-> lines[i].at]],
    facts)

(***************************************************************************)
(* Rests cut into the movement                                             *)
(***************************************************************************)

(* _merge_intervals *)
Merged(windows) ==
  FoldLeft(LAMBDA out, w :
             IF out # <<>> /\ w[1] <= Last(out)[2]
             THEN [out EXCEPT ![Len(out)] = <<@[1], Larger(@[2], w[2])>>]
             ELSE Append(out, w),
           <<>>,
           SetToSortSeq(windows, LAMBDA v, w : v[1] < w[1] \/ (v[1] = w[1] /\ v[2] < w[2])))

(* _snap_static_window: outwards to the grid, then at both ends in turn, the lower   *)
(* first, until it is long enough; never beyond the movement it is cut out of.     *)
Snapped(w, t0, t1, h) ==
  LET short == Larger(0, Ceil(MIN_STATIC, h) - (Ceil(w[2], h) - w[1] \div h))
  IN <<Larger(t0, h * (w[1] \div h - (short + 1) \div 2)),
       Smaller(t1, h * (Ceil(w[2], h) + short \div 2))>>

RECURSIVE Widened(_, _, _, _)
Widened(windows, t0, t1, h) ==
  LET wider == Merged({Snapped(w, t0, t1, h) : w \in ToSet(windows)}) IN
  IF Len(wider) = Len(windows) THEN wider ELSE Widened(wider, t0, t1, h)

(* carve_motion_for_speech *)
Carved(t0, t1, windows, h) ==
  LET within == {<<Larger(w[1], t0), Smaller(w[2], t1)>> :
                   w \in {v \in windows : Smaller(v[2], t1) > Larger(v[1], t0)}}
      rests == Widened(Merged(within), t0, t1, h)
      Moving(a, b) == IF b > a THEN <<Scene("moving", a, b)>> ELSE <<>>
      Before(k) == IF k = 1 THEN t0 ELSE rests[k - 1][2]
      cut == [k \in DOMAIN rests |->
                Moving(Before(k), rests[k][1]) \o <<Scene("resting", rests[k][1], rests[k][2])>>]
  IN IF within = {} THEN <<Scene("moving", t0, t1)>>
     ELSE FlattenSeq(cut) \o Moving(Last(rests)[2], t1)

(* _split_motion_by_periods: a new colour at every span from the beginning of the   *)
(* run, and no piece at either end shorter than half of one.                    *)
Split(t0, t1, ref, span) ==
  LET inner == {t \in t0 + 1 .. t1 - 1 : (t - ref) % span = 0}
      late == {t \in inner : \A u \in inner : u <= t}
      cut1 == IF \E t \in late : 2 * (t1 - t) < span THEN inner \ late ELSE inner
      early == {t \in cut1 : \A u \in cut1 : t <= u}
      cut2 == IF \E t \in early : 2 * (t - t0) < span THEN cut1 \ early ELSE cut1
      at == <<t0>> \o SelectSeq([k \in 1 .. t1 - t0 |-> t0 + k], LAMBDA t : t \in cut2) \o <<t1>>
  IN IF span = 0 \/ t1 - t0 < span THEN <<Scene("moving", t0, t1)>>
     ELSE [k \in 1 .. Len(at) - 1 |-> Scene("moving", at[k], at[k + 1])]

(***************************************************************************)
(* The scenes before the rhythm is put right (build_storyboard)              *)
(***************************************************************************)

(* Runs of resting facts become one scene, a moving fact is cut for the lines     *)
(* spoken in it, and its pieces again for the colours (_emit_cycle_motion_run).    *)
RunStart(facts, b) ==
  CHOOSE a \in 1 .. b : /\ \A k \in a .. b : facts[k].kind = facts[b].kind
                        /\ a = 1 \/ facts[a - 1].kind # facts[b].kind

Assembled(facts, blocks, windows, h, span) ==
  LET Pieces(b) ==
        LET t0 == blocks[b][1]
            t1 == blocks[b][2]
            cut == Carved(t0, t1, windows, h)
            ref == blocks[RunStart(facts, b)][1]
        IN IF ~Ball(facts[b]) THEN <<Scene("card", t0, t1)>>
           ELSE IF facts[b].kind = "resting"
           THEN IF b < Len(facts) /\ facts[b + 1].kind = "resting" THEN <<>>
                ELSE <<Scene("resting", ref, t1)>>
           ELSE FlattenSeq([k \in DOMAIN cut |->
                  IF cut[k].kind = "resting" THEN <<cut[k]>>
                  ELSE Split(cut[k].t0, cut[k].t1, ref, span)])
  IN FlattenSeq([b \in DOMAIN facts |-> Pieces(b)])

(***************************************************************************)
(* The rhythm put right                                                    *)
(***************************************************************************)

(* _static_touches_speech *)
Speech(sc, windows) == \E w \in windows : w[1] < sc.t1 /\ w[2] > sc.t0

(* _bridge_speech_gaps: between two rests with lines, a short movement rests too.  *)
Bridged(board, windows) ==
  LET Between(i, j) == /\ j > i + 1 /\ \A k \in i + 1 .. j - 1 : board[k].kind = "moving"
                       /\ board[i].kind = "resting" /\ board[j].kind = "resting"
                       /\ board[j].t0 - board[i + 1].t0 <= SPEECH_BRIDGE_GAP
                       /\ Speech(board[i], windows) /\ Speech(board[j], windows)
  IN [k \in DOMAIN board |->
        IF \E i, j \in DOMAIN board : i < k /\ k < j /\ Between(i, j)
        THEN [board[k] EXCEPT !.kind = "resting"] ELSE board[k]]

(* _merge_adjacent_statics *)
OneRest(board) ==
  FoldLeft(LAMBDA out, sc :
             IF out # <<>> /\ Last(out).kind = "resting" /\ sc.kind = "resting"
             THEN [out EXCEPT ![Len(out)].t1 = sc.t1] ELSE Append(out, sc),
           <<>>, board)

(* _snap_ball_boundaries: rests grow to the grid, movements swallowed whole go, and   *)
(* again until none goes.                                                   *)
SnapPass(board, h) ==
  FoldLeft(LAMBDA b, k :
    LET x == b[k].kind
        y == b[k + 1].kind
        Moved(t) == [b EXCEPT ![k].t1 = t, ![k + 1].t0 = t]
    IN IF x = "moving" /\ y = "resting" THEN Moved(Larger(PhaseFloor(b[k].t1, h), b[k].t0))
       ELSE IF x = "resting" /\ y = "moving"
       THEN Moved(Smaller(PhaseCeil(b[k].t1, h), b[k + 1].t1))
       ELSE b,
    board, UpTo(Len(board) - 1))

SnappedBoard_m(board, h) ==
  SelectSeq(SnapPass(board, h), LAMBDA sc : ~(sc.kind = "moving" /\ sc.t1 <= sc.t0))
RECURSIVE SnappedBoard(_, _)
SnappedBoard(board, h) ==
  LET moved == SnapPass(board, h)
      left == SelectSeq(moved, LAMBDA sc : ~(sc.kind = "moving" /\ sc.t1 <= sc.t0))
  IN IF Len(left) = Len(board) THEN left ELSE SnappedBoard(left, h)

(* _trim_static_speech_tails: a rest ends soon after the last line in it.      *)
Trimmed(board, windows, h) ==
  FoldLeft(LAMBDA b, k :
    LET ends == {w[2] - SPEECH_WINDOW_TAIL : w \in {v \in windows : v[1] < b[k].t1 /\ v[2] > b[k].t0}}
        last == CHOOSE e \in ends : \A f \in ends : f <= e
        end == Smaller(Larger(PhaseFloor(last + POST_SPEECH_MOTION_DELAY, h), b[k].t0), b[k].t1)
    IN IF /\ b[k].kind = "resting" /\ b[k + 1].kind = "moving" /\ ends # {}
          /\ b[k].t1 - last > POST_SPEECH_MOTION_DELAY
       THEN [b EXCEPT ![k].t1 = end, ![k + 1].t0 = end] ELSE b,
    board, UpTo(Len(board) - 1))

(***************************************************************************)
(* Sets of a number of rounds (_reorchestrate_rounds)                       *)
(***************************************************************************)

Centre(sc) == sc.t0 + sc.t1   \* doubled
FirstNearest(board, among, at) ==
  LET Dist(i) == IF Centre(board[i]) > 2 * at THEN Centre(board[i]) - 2 * at ELSE 2 * at - Centre(board[i])
  IN CHOOSE i \in among : \A k \in among : Dist(i) < Dist(k) \/ (Dist(i) = Dist(k) /\ i <= k)

(* _assign_segments_to_scenes: the scene a line begins in; not a moving one.    *)
SceneOf(board, at, quiet) ==
  LET in == {i \in DOMAIN board : board[i].t0 <= at /\ at < board[i].t1}
      rests == {i \in DOMAIN board : board[i].kind = "resting"}
      best == FirstNearest(board, IF in = {} THEN DOMAIN board ELSE in, at)
  IN IF ~quiet /\ board[best].kind = "moving" /\ rests # {} THEN FirstNearest(board, rests, at) ELSE best

(* _reorch_build_groups: a set ends with a long rest without lines or a rest whose    *)
(* lines ask something; other lines go to the beginning of their set, those after   *)
(* the last movement stay where they are.                                     *)
NoSet == [narr |-> <<>>, motion |-> 0, pending |-> <<>>, bound |-> <<>>]
Folded(g) == [g EXCEPT !.narr = @ \o g.pending, !.pending = <<>>]
Groups(board, zone, linesIn, lines) ==
  LET Step(acc, i) ==
        LET g == acc.cur
            ids == linesIn[i]
            length == board[i].t1 - board[i].t0
            End(bound) == [done |-> Append(acc.done, [Folded(g) EXCEPT !.bound = bound]), cur |-> NoSet]
        IN IF board[i].kind = "moving"
           THEN [acc EXCEPT !.cur = [Folded(g) EXCEPT !.motion = @ + length]]
           ELSE IF ids = <<>> /\ length >= REORCH_REST_MIN THEN End(<<"rest", length>>)
           ELSE IF \E k \in DOMAIN ids : lines[ids[k]].check THEN End(<<"speech", ids>>)
           ELSE [acc EXCEPT !.cur.pending = @ \o ids]
      all == FoldLeft(Step, [done |-> <<>>, cur |-> NoSet], zone)
  IN IF all.cur = NoSet THEN all.done ELSE Append(all.done, all.cur)

(* _emit_static_window: a rest long enough for the lines, from the grid to the grid.  *)
Window(out, ids, lines, h) ==
  LET Dur(k) == lines[ids[k]].dur
      said == FoldLeftDomain(LAMBDA o, k :
                [o EXCEPT !.at = @ + Dur(k) + GAP, !.start = [@ EXCEPT ![ids[k]] = o.at]],
                [at |-> out.cur + LEAD, start |-> out.start], ids)
      need == IF ids = <<>> THEN LEAD + TAIL ELSE said.at - GAP + TAIL - out.cur
      end == PhaseCeil(out.cur + Larger(need, MIN_STATIC), h)
  IN [out EXCEPT !.start = said.start, !.cur = end,
                 !.board = Append(@, Scene("resting", out.cur, end))]

(* _clamp_rounds *)
Rounds(motion, h, range) ==
  Smaller(Larger(RoundHalfEven(motion, 2 * h), range[1]), range[2])

Reorchestrated(board, start, lines, h, span, range) ==
  LET linesIn == [k \in DOMAIN board |->
        SelectSeq(UpTo(Len(lines)), LAMBDA i : SceneOf(board, start[i], lines[i].quiet) = k)]
      Zone(k) == LET end == CHOOSE e \in k .. Len(board) :
                       /\ \A i \in k .. e : Ball(board[i])
                       /\ e = Len(board) \/ ~Ball(board[e + 1])
                 IN [i \in 1 .. end - k + 1 |-> k + i - 1]
      Card(out, k) ==
        LET delta == out.cur - board[k].t0 IN
        [out EXCEPT !.start = [i \in DOMAIN start |->
                                 IF i \in ToSet(linesIn[k]) THEN out.start[i] + delta ELSE out.start[i]],
                    !.cur = board[k].t1 + delta,
                    !.board = Append(@, Scene("card", out.cur, board[k].t1 + delta))]
      Motion(out, g) ==
        LET t1 == h * (RoundHalfEven(out.cur, h) + 2 * Rounds(g.motion, h, range)) IN
        IF g.motion = 0 THEN out
        ELSE [out EXCEPT !.board = @ \o Split(out.cur, t1, out.cur, span), !.cur = t1]
      Rest(out, g) ==
        LET end == PhaseCeil(out.cur + g.bound[2], h) IN
        [out EXCEPT !.cur = end, !.board = Append(@, Scene("resting", out.cur, end))]
      Set(out, g) ==
        LET led == Motion(IF g.narr = <<>> THEN out ELSE Window(out, g.narr, lines, h), g) IN
        IF g.bound = <<>>
        THEN IF g.pending = <<>> THEN led ELSE Window(led, g.pending, lines, h)
        ELSE IF g.bound[1] = "rest" THEN Rest(led, g) ELSE Window(led, g.bound[2], lines, h)
      Unit(out, k) ==
        IF ~Ball(board[k]) THEN Card(out, k)
        ELSE IF k > 1 /\ Ball(board[k - 1]) THEN out
        ELSE FoldLeft(Set, out, Groups(board, Zone(k), linesIn, lines))
      all == FoldLeft(Unit, [cur |-> 0, start |-> start, board |-> <<>>], UpTo(Len(board)))
  IN [board |-> OneRest(all.board), start |-> all.start]

(***************************************************************************)
(* The whole, and its check                                                *)
(***************************************************************************)

(* build_storyboard: the windows of the lines on the new axis, the scenes around them,  *)
(* and their rhythm; rounds is the range of a revision, or empty.               *)
Windows(axis, lines) ==
  {<<axis.start[i], axis.start[i] + lines[i].dur + SPEECH_WINDOW_TAIL>> :
     i \in {k \in DOMAIN lines : ~lines[k].quiet}}
Uneven(facts, axis, windows, h, span) ==
  OneRest(Bridged(Assembled(facts, axis.blocks, windows, h, span), windows))
Storyboard(still, axis, lines, windows, h, span, rounds) ==
  IF rounds # <<>>
  THEN Reorchestrated(still, axis.start, lines, h, IF span = 0 THEN 2 * h ELSE span, rounds)
  ELSE [board |-> Trimmed(SnappedBoard(still, h), windows, h), start |-> axis.start]

(* validate_storyboard, _validate_ball_phase_grid *)
Valid(board, total, h) ==
  /\ board # <<>> /\ board[1].t0 = 0 /\ Last(board).t1 = total
  /\ \A k \in DOMAIN board : board[k].t1 > board[k].t0
  /\ \A k \in 1 .. Len(board) - 1 :
       /\ board[k].t1 = board[k + 1].t0
       /\ {board[k].kind, board[k + 1].kind} = {"moving", "resting"} => board[k].t1 % h = 0

(***************************************************************************)
(* Properties                                                              *)
(***************************************************************************)

(* The storyboard of a film is one its check accepts, or the job would fail.      *)
Accepted(film) ==
  Valid(film.made.board,
        IF film.rounds = <<>> THEN film.axis.cur ELSE Last(film.made.board).t1, film.h)

(* No two lines are spoken at once, and the ball rests while one is: a line never   *)
(* falls into a movement.  One line is left out, which the code lets run where it     *)
(* will: with sets of a number of rounds, a line that those before it have pushed out  *)
(* of its exercise.  It is moved with the scene it now begins in, and may be spoken    *)
(* into the set that follows.                                                *)
Pushed(film, i) ==
  LET b == BlockOf(film.facts, film.lines[i].at) IN
  Ball(film.facts[b]) /\ film.axis.start[i] >= film.axis.blocks[b][2]
Restful(film) ==
  LET board == film.made.board
      read == {i \in DOMAIN film.lines :
                 ~film.lines[i].quiet /\ ~(film.rounds # <<>> /\ Pushed(film, i))}
      From(i) == film.made.start[i]
      To(i) == From(i) + film.lines[i].dur
  IN /\ \A i, k \in read : i # k => To(i) <= From(k) \/ To(k) <= From(i)
     /\ \A i \in read, k \in DOMAIN board : board[k].kind = "moving" =>
          board[k].t1 <= From(i) \/ To(i) <= board[k].t0
=============================================================================
