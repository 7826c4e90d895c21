---------------------------- MODULE MCVideoJobs ----------------------------
(* Small instances of VideoJobs for TLC, and of Storyboards: a behaviour works   *)
(* on jobs, or takes a film, one line after another, whose storyboard is made.    *)
EXTENDS VideoJobs, Storyboards

(* The model reads two plans, or one as the supplement of the other. *)
SomePlans ==
  {<<[type |-> "edit", at |-> 2, text |-> "dos"], [type |-> "delete", at |-> 1],
     [type |-> "ball", text |-> "low"]>>,
   <<[type |-> "insert", at |-> 1, text |-> "more"], [type |-> "closing", text |-> "bye"]>>}
Literal == {<<"one", "two">>}

VARIABLE film

(* Films of up to three scenes; a period of 1.6 or 2.4 seconds, colours of a scene   *)
(* or of a period, with or without a revision's range of rounds.  Lines of the film   *)
(* follow each other: a short question, a long line, one that is not read.          *)
MaxScenes == 3
Kinds == {<<"card", 20>>, <<"moving", 10>>, <<"moving", 121>>, <<"resting", 90>>}
Begins(kinds, k) == FoldLeft(LAMBDA t, i : t + kinds[i][2], 0, UpTo(k - 1))
FactsOf(kinds) ==
  [k \in DOMAIN kinds |-> Scene(kinds[k][1], Begins(kinds, k), Begins(kinds, k + 1))]
Films ==
  {[facts |-> FactsOf(kinds), lines |-> <<>>, set |-> [k \in DOMAIN kinds |-> 0],
    h |-> ball[1], span |-> ball[2], rounds |-> rounds, axis |-> <<>>, made |-> <<>>] :
     kinds \in {ks \in UNION {[1 .. n -> Kinds] : n \in 1 .. MaxScenes} :
                  \E k \in DOMAIN ks : ks[k][1] = "moving"},
     ball \in {<<8, 0>>, <<12, 24>>}, rounds \in {<<>>, <<2, 3>>}}
Places == {4, 29, 97, 109}
MaxLines == 3
Voice == {[dur |-> 9, quiet |-> FALSE, check |-> TRUE],
          [dur |-> 40, quiet |-> FALSE, check |-> FALSE],
          [dur |-> 12, quiet |-> TRUE, check |-> FALSE]}

TakeFilm == film = <<>> /\ film' \in Films
AddLine ==
  /\ film # <<>> /\ film.axis = <<>> /\ Len(film.lines) < MaxLines
  /\ \E at \in Places, voice \in Voice :
       /\ \A k \in DOMAIN film.lines : film.lines[k].to <= at
       /\ at + 12 <= Last(film.facts).t1
       /\ film' = [film EXCEPT !.lines = Append(@,
                     [at |-> at, to |-> at + 12, dur |-> voice.dur,
                      quiet |-> voice.quiet, check |-> voice.check])]

(* The axis is laid out and the storyboard drawn, whether its lines fit their scenes  *)
(* or not.                                                                  *)
Lay ==
  /\ film # <<>> /\ film.axis = <<>>
  /\ film' = [film EXCEPT !.axis = Relayout(film.facts, film.lines, film.set)]
Draw ==
  /\ film # <<>> /\ film.axis # <<>> /\ film.made = <<>>
  /\ \E windows \in {Windows(film.axis, film.lines)} :
     \E still \in {Uneven(film.facts, film.axis, windows, film.h, film.span)} :
       film' = [film EXCEPT !.made =
                  Storyboard(still, film.axis, film.lines, windows, film.h, film.span, film.rounds)]

(* A film that was revised has used up its recoveries; beside one that was not, and    *)
(* stays as it is, the storyboards are made.                                  *)
Finishes == VideoInit /\ past[1].lost = IF disk[1].over = {} THEN 0 ELSE MaxRetries
Aside == Finishes /\ disk[1].over = {} /\ Len(disk[1].rewritten) = 2
MCInit == Finishes /\ film = <<>>
MCNext ==
  \/ film = <<>> /\ VideoNext /\ UNCHANGED film
  \/ Aside /\ (TakeFilm \/ AddLine \/ Lay \/ Draw) /\ UNCHANGED videoVars
MCSpec == MCInit /\ [][MCNext]_<<videoVars, film>> /\ Fairness

(* The storyboard of a film is one its check accepts; the ball rests while a line is  *)
(* spoken, and one line is spoken at a time.  Not so, with sets of a number of rounds,  *)
(* a line that was pushed out of its exercise (Pushed): the films have such lines, and  *)
(* some are spoken over the next set or another line.                             *)
BoardSound == film # <<>> /\ film.made # <<>> => Accepted(film) /\ Restful(film)
=============================================================================
