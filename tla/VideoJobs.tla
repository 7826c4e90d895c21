----------------------------- MODULE VideoJobs -----------------------------
(***************************************************************************)
(* Video jobs: the handlers of http/video_rest.py, the scheduler of          *)
(* video/scheduler.py, which runs one job at a time in a process of its own,  *)
(* and the stages of video/stages.py, which find their input on disk.         *)
(*                                                                         *)
(*   job      the video_jobs rows; beat is the heartbeat's age                *)
(*   disk     the files of each job                                         *)
(*   hand     the job the worker holds, and how far it is with the stage       *)
(*   ask      the revision a request is making                               *)
(*   dying    jobs whose files a DELETE has removed and whose rows it has not   *)
(*   past     history: workers lost, troubles of other making, and for a       *)
(*            revision the lines it revises, the overrides of the film it      *)
(*            revises and its own                                            *)
(*   mishaps  what has gone wrong                                            *)
(***************************************************************************)
EXTENDS FilmEdits

CONSTANTS MaxJobs,      \* bound: rows ever made
          Plans,        \* edits the language model may read in a request
          Wording,      \* texts the model may rewrite a line to
          MaxRetries,   \* _MAX_RETRIES: recoveries of a job
          MaxMishaps,   \* bound: crashes and troubles
          MaxRequests,  \* bound: jobs created, retried, revised or deleted
          Troubles      \* whether stages may fail for reasons of their own

ASSUME VideoGiven == {MaxJobs, MaxRetries, MaxMishaps, MaxRequests} \subseteq Nat
ASSUME PlansAreLists == \A plan \in Plans : plan \in Seq({plan[i] : i \in DOMAIN plan})

Jobs == 1..MaxJobs
VARIABLES job, disk, hand, ask, dying, past, mishaps, requests
videoVars == <<job, disk, hand, ask, dying, past, mishaps, requests>>

(***************************************************************************)
(* Rows, files and stages                                                  *)
(***************************************************************************)
Order(mode) ==
  IF mode = "remake"
  THEN <<"download", "analyze", "transcript", "resegment", "translate", "rewrite", "dub",
         "storyboard", "render", "compose", "deliver">>
  ELSE <<"download", "transcript", "resegment", "translate", "dub", "mux", "deliver">>
Inherited == {"download", "analyze", "transcript", "resegment", "translate"}

NoJob == [status |-> "none", mode |-> "none", done |-> {}, beat |-> "null", retries |-> 0,
          parent |-> 0, plan |-> <<>>]
Unborn == {j \in Jobs : job[j].status = "none"}
NewId == CHOOSE j \in Unborn : \A k \in Unborn : j <= k
Terminal == {"completed", "failed"}

FirstIncomplete(row) ==
  LET order == Order(row.mode)
      open == {i \in DOMAIN order : order[i] \notin row.done}
  IN IF open = {} THEN Last(order) ELSE order[CHOOSE i \in open : \A k \in open : i <= k]

(* Files of records are sets: empty, or of what the file holds.  The source       *)
(* video and the transcript are alike in all films.                           *)
Empty == [video |-> "none", facts |-> "none", segments |-> <<>>, translated |-> <<>>,
          rewritten |-> <<>>, base |-> <<>>, seed |-> {}, over |-> {}, tts |-> {},
          clips |-> <<>>, board |-> {}, scenes |-> {}, muxed |-> {}, final |-> {},
          subs |-> <<>>]
Overrides(file) == IF file = {} THEN NoOverrides ELSE CHOOSE over \in file : TRUE

NoAsk == [at |-> "none", of |-> 0, child |-> 0, plan |-> <<>>, basis |-> <<>>]
Idle == [job |-> 0, at |-> "idle", stage |-> "none"]
Born == [lost |-> 0, troubled |-> FALSE, basis |-> <<>>, was |-> NoOverrides, is |-> NoOverrides]

Source == <<Line("one", 1), Line("two", 3)>>
Rewrites(lines, facts, words) ==
  LET said == [i \in DOMAIN lines |-> [lines[i] EXCEPT !.zh = words[i]]]
  IN {AnchorClosing(MarkNoDub(more, facts)) : more \in {said, AppendClosing(said)}}
Film(lines, clips, tts, over) ==
  [track |-> Track(lines, clips, tts), titles |-> Spoken(lines), over |-> over]

(* In the beginning there is a finished remake; it may have been revised before. *)
Finished(lines, over) ==
  LET timed == Retimed(lines)
      tts == Synthesized("remake", lines, {})
      clips == ClipNames("remake", lines)
  IN [Empty EXCEPT !.video = "source", !.facts = "notice", !.segments = Source,
        !.translated = Source, !.rewritten = timed, !.over = over, !.tts = tts,
        !.clips = clips, !.board = {Overrides(over)},
        !.final = {Film(timed, clips, tts, Overrides(over))}, !.subs = Spoken(timed)]

VideoInit ==
  /\ \E lines \in Rewrites(Source, "notice", Texts(Source)), plan \in Plans \cup {<<>>},
        lost \in 0 .. MaxRetries :
       LET over == IF plan = <<>> THEN {} ELSE {Overridden(plan, NoOverrides)}
           film == Finished(Closed(plan, lines, NoOverrides), over)
       IN /\ job = [j \in Jobs |->
               IF j = 1 THEN [NoJob EXCEPT !.status = "completed", !.mode = "remake", !.beat = "fresh",
                                !.done = {Order("remake")[i] : i \in DOMAIN Order("remake")},
                                !.retries = lost]
               ELSE NoJob]
          /\ disk = [j \in Jobs |-> IF j = 1 THEN film ELSE Empty]
          /\ past = [j \in Jobs |-> IF j = 1 THEN [Born EXCEPT !.is = Overrides(over), !.lost = lost]
                                 ELSE Born]
  /\ hand = Idle /\ ask = NoAsk /\ dying = {} /\ mishaps = 0 /\ requests = 0

Mishap == mishaps < MaxMishaps /\ mishaps' = mishaps + 1
Request == requests < MaxRequests /\ requests' = requests + 1

(***************************************************************************)
(* Requests                                                                *)
(***************************************************************************)
Create(mode) ==
  /\ Request /\ Unborn # {}
  /\ job' = [job EXCEPT ![NewId] = [NoJob EXCEPT !.status = "queued", !.mode = mode]]
  /\ UNCHANGED <<disk, hand, ask, dying, past, mishaps>>

(* reset_to_queued *)
Reset(row) == [row EXCEPT !.status = "queued", !.beat = "fresh"]

Retry(j) ==
  /\ job[j].status \in Terminal /\ Request
  /\ job' = [job EXCEPT ![j] = Reset(@)]
  /\ UNCHANGED <<disk, hand, ask, dying, past, mishaps>>

(* The lines and the storyboard of a finished remake are read; the model's plan *)
(* is validated against them.                                               *)
Revise(j) ==
  /\ ask = NoAsk /\ Request
  /\ job[j].mode = "remake" /\ job[j].status = "completed"
  /\ disk[j].rewritten # <<>> /\ disk[j].board # {}
  /\ \E first \in Plans, second \in Plans \cup {<<>>} :
       LET plan == Covered(first, second) IN
       /\ ValidPlan(plan, disk[j].rewritten)
       /\ ask' = [NoAsk EXCEPT !.at = "spawn", !.of = j, !.plan = plan,
                                !.basis = disk[j].rewritten]
  /\ UNCHANGED <<job, disk, hand, dying, past, mishaps>>

(* create_revision_job: born running and without a heartbeat, so that neither    *)
(* the scan nor the recovery finds it.                                       *)
Newborn(parent, plan) ==
  [NoJob EXCEPT !.status = "running", !.mode = "remake", !.parent = parent, !.plan = plan]

Spawn ==
  /\ ask.at = "spawn" /\ Unborn # {}
  /\ job' = [job EXCEPT ![NewId] = Newborn(ask.of, ask.plan)]
  /\ past' = [past EXCEPT ![NewId] =
                [Born EXCEPT !.basis = ask.basis, !.was = past[ask.of].is,
                             !.is = Overridden(ask.plan, past[ask.of].is)]]
  /\ ask' = [ask EXCEPT !.at = "inherit", !.child = NewId]
  /\ UNCHANGED <<disk, hand, dying, mishaps, requests>>

(* inherit_artifacts: without the parent's video it raises, and the child stays. *)
Heir(parent) ==
  [Empty EXCEPT !.video = parent.video, !.facts = parent.facts,
     !.translated = parent.translated, !.rewritten = parent.rewritten,
     !.base = parent.rewritten, !.seed = parent.over, !.tts = parent.tts]
Inherit ==
  /\ ask.at = "inherit"
  /\ IF disk[ask.of].video = "none" THEN ask' = NoAsk /\ UNCHANGED disk
     ELSE /\ disk' = [disk EXCEPT ![ask.child] = Heir(disk[ask.of])]
          /\ ask' = [ask EXCEPT !.at = "mark"]
  /\ UNCHANGED <<job, hand, dying, past, mishaps, requests>>

(* mark_stages_inherited and _enrich_inherited_stats, then the only way into the *)
(* queue.  A DELETE may have taken the child in between.                       *)
Mark ==
  /\ ask.at = "mark"
  /\ IF job[ask.child].status = "gone" THEN ask' = NoAsk /\ UNCHANGED job
     ELSE /\ job' = [job EXCEPT ![ask.child].done = Inherited]
          /\ ask' = [ask EXCEPT !.at = "queue"]
  /\ UNCHANGED <<disk, hand, dying, past, mishaps, requests>>
Requeue ==
  /\ ask.at = "queue" /\ ask' = NoAsk
  /\ job' = [job EXCEPT ![ask.child] = IF @.status = "gone" THEN @ ELSE Reset(@)]
  /\ UNCHANGED <<disk, hand, dying, past, mishaps, requests>>

ApiDies ==
  /\ ask # NoAsk \/ dying # {}
  /\ Mishap
  /\ ask' = NoAsk /\ dying' = {}
  /\ UNCHANGED <<job, disk, hand, past, requests>>

(* DELETE: what a worker may hold is refused; the files go first.  A worker that   *)
(* has taken the job meanwhile goes on with the row it has loaded.               *)
Deletable(row) ==
  \/ row.status \in {"queued"} \cup Terminal
  \/ row.status = "running" /\ row.beat = "null"
DeleteFiles(j) ==
  /\ Deletable(job[j]) /\ j \notin dying /\ Request
  /\ disk' = [disk EXCEPT ![j] = Empty] /\ dying' = dying \cup {j}
  /\ past' = [past EXCEPT ![j].troubled = TRUE]
  /\ UNCHANGED <<job, hand, ask, mishaps>>
DeleteRow(j) ==
  /\ j \in dying /\ dying' = dying \ {j}
  /\ job' = [job EXCEPT ![j].status = "gone"]
  /\ UNCHANGED <<disk, hand, ask, past, mishaps, requests>>

(***************************************************************************)
(* The worker                                                              *)
(***************************************************************************)

(* mark_running: taken if it is still queued; from here on the worker has it in  *)
(* _in_flight.                                                              *)
ClaimedQuietly_m(row) == [row EXCEPT !.status = "running", !.beat = "null"]
TakenUp(row) == [row EXCEPT !.status = "running", !.beat = "fresh"]
Take(j) ==
  /\ hand = Idle /\ job[j].status = "queued"
  /\ job' = [job EXCEPT ![j] = TakenUp(@)]
  /\ hand' = [job |-> j, at |-> "row", stage |-> FirstIncomplete(job[j])]
  /\ UNCHANGED <<disk, ask, dying, past, mishaps, requests>>

Lets == hand' = Idle
At(step) == hand.at = step
Goes(step) == hand' = [hand EXCEPT !.at = step]
Mine == job[hand.job]
Files == disk[hand.job]

(* A row that is gone, or that has ended, ends the chain of stages.            *)
Enter ==
  /\ At("row")
  /\ IF Mine.status \in Terminal \cup {"gone"} THEN Lets /\ UNCHANGED job
     ELSE /\ Goes("work")
          /\ job' = [job EXCEPT ![hand.job].status = "running", ![hand.job].beat = "fresh"]
  /\ UNCHANGED <<disk, ask, dying, past, mishaps, requests>>

(* What a stage opens: without it the stage raises.                            *)
Lines(row, d) == IF row.mode = "remake" THEN d.rewritten ELSE d.translated
Ready(stage, row, d) ==
  CASE stage = "download"   -> TRUE
    [] stage \in {"analyze", "transcript"} -> d.video # "none"
    [] stage \in {"resegment", "translate"} -> d.segments # <<>>
    [] stage = "rewrite"    -> IF row.parent # 0 THEN d.base # <<>> \/ d.rewritten # <<>>
                               ELSE d.translated # <<>> /\ d.facts # "none"
    [] stage = "dub"        -> Lines(row, d) # <<>>
    [] stage = "storyboard" -> d.rewritten # <<>> /\ d.facts # "none" /\ d.clips # <<>>
    [] stage = "render"     -> d.board # {}
    [] stage = "compose"    -> d.board # {} /\ d.scenes # {} /\ d.rewritten # <<>>
    [] stage = "mux"        -> d.translated # <<>> /\ d.video # "none" /\ d.clips # <<>>
    [] stage = "deliver"    -> Lines(row, d) # <<>> /\ d.muxed # {}

(* A revision always starts from the lines and the overrides it inherited, never *)
(* from those it has written.                                                *)
BaseWritten_m(d) == IF d.rewritten # <<>> THEN d.rewritten ELSE d.base
Base(d) == IF d.base # <<>> THEN d.base ELSE d.rewritten
Revision(row, d) == Revised(row.plan, Base(d), Overrides(d.seed))

(* The first of two files of a stage ... *)
Begun(stage, row, d) ==
  CASE stage = "dub" -> [d EXCEPT !.tts = Synthesized(row.mode, Lines(row, d), @)]
    [] stage = "storyboard" -> [d EXCEPT !.rewritten = Retimed(@)]
    [] stage = "rewrite" /\ row.parent # 0 -> [d EXCEPT !.rewritten = Revision(row, d)]
    [] stage = "deliver" -> [d EXCEPT !.final = d.muxed, !.muxed = {}]
    [] OTHER -> d

(* ... and its last. *)
Ended(stage, row, d) ==
  CASE stage = "download" -> {[d EXCEPT !.video = "source"]}
    [] stage = "analyze" -> {[d EXCEPT !.facts = f] : f \in {"plain", "notice"}}
    [] stage \in {"transcript", "resegment"} -> {[d EXCEPT !.segments = Source]}
    [] stage = "translate" -> {[d EXCEPT !.translated = d.segments]}
    [] stage = "rewrite" /\ row.parent = 0 ->
         {[d EXCEPT !.rewritten = lines] :
            lines \in UNION {Rewrites(d.translated, d.facts, words) : words \in Wording}}
    [] stage = "rewrite" /\ row.parent # 0 ->
         {[d EXCEPT !.over = {Overridden(row.plan, Overrides(d.seed))}]}
    [] stage = "dub" ->
         {[d EXCEPT !.clips = ClipNames(row.mode, Lines(row, d)),
                    !.translated = IF row.mode = "remake" THEN @ ELSE Retimed(@)]}
    [] stage = "storyboard" -> {[d EXCEPT !.board = {Overrides(d.over)}]}
    [] stage = "render" -> {[d EXCEPT !.scenes = d.board]}
    [] stage \in {"compose", "mux"} ->
         {[d EXCEPT !.muxed = {Film(Lines(row, d), d.clips, d.tts, Overrides(d.scenes))}]}
    [] stage = "deliver" ->
         {[d EXCEPT !.subs = Spoken(Lines(row, d)), !.scenes = {}]}

Begin ==
  /\ At("work") /\ Ready(hand.stage, Mine, Files) /\ Goes("half")
  /\ disk' = [disk EXCEPT ![hand.job] = Begun(hand.stage, Mine, @)]
  /\ UNCHANGED <<job, ask, dying, past, mishaps, requests>>
Complete ==
  /\ At("half") /\ Goes("made")
  /\ \E d \in Ended(hand.stage, Mine, Files) : disk' = [disk EXCEPT ![hand.job] = d]
  /\ UNCHANGED <<job, ask, dying, past, mishaps, requests>>

(* A stage that raises fails its job: for want of a file, or (Troubles) because a *)
(* site, a model or a tool let it down.                                      *)
Fails ==
  /\ Lets
  /\ job' = [job EXCEPT ![hand.job].status = IF @ = "gone" THEN @ ELSE "failed"]
  /\ UNCHANGED <<disk, ask, dying, requests>>
Raise ==
  \/ At("work") /\ ~Ready(hand.stage, Mine, Files) /\ Fails /\ UNCHANGED <<past, mishaps>>
  \/ /\ At("work") \/ At("half")
     /\ Troubles /\ Mishap /\ Fails
     /\ past' = [past EXCEPT ![hand.job].troubled = TRUE]

(* The stage is done; the last one is followed by finish_job, a commit of its own. *)
Done ==
  /\ At("made")
  /\ IF Mine.status = "gone" THEN Lets /\ UNCHANGED job
     ELSE LET row == [Mine EXCEPT !.done = @ \cup {hand.stage}, !.beat = "fresh"] IN
          /\ job' = [job EXCEPT ![hand.job] = row]
          /\ IF hand.stage = "deliver" THEN Goes("end")
             ELSE hand' = [hand EXCEPT !.at = "row", !.stage = FirstIncomplete(row)]
  /\ UNCHANGED <<disk, ask, dying, past, mishaps, requests>>
Finish ==
  /\ At("end") /\ Lets
  /\ job' = [job EXCEPT ![hand.job].status = IF @ = "gone" THEN @ ELSE "completed"]
  /\ UNCHANGED <<disk, ask, dying, past, mishaps, requests>>

(* The process dies, or is stopped for a deployment; it is started again.       *)
WorkerDies ==
  /\ hand # Idle /\ Mishap /\ Lets
  /\ past' = [past EXCEPT ![hand.job].lost = @ + 1]
  /\ UNCHANGED <<job, disk, ask, dying, requests>>

(* A heartbeat grows old once its worker is lost, or while the pump cannot write. *)
Lapse(j) ==
  /\ job[j].status = "running" /\ job[j].beat = "fresh"
  /\ IF hand.job = j THEN Mishap ELSE UNCHANGED mishaps
  /\ job' = [job EXCEPT ![j].beat = "stale"]
  /\ UNCHANGED <<disk, hand, ask, dying, past, requests>>

(* recover_stale *)
StaleHeld_m(j) == job[j].status = "running" /\ job[j].beat = "stale"
Stale(j) == job[j].status = "running" /\ job[j].beat = "stale" /\ hand.job # j
Recover(j) ==
  /\ Stale(j)
  /\ job' = [job EXCEPT ![j] =
       IF @.retries >= MaxRetries THEN [@ EXCEPT !.status = "failed"]
       ELSE [Reset(@) EXCEPT !.retries = job[j].retries + 1]]
  /\ UNCHANGED <<disk, hand, ask, dying, past, mishaps, requests>>

Worker == (\E j \in Jobs : Take(j)) \/ Enter \/ Begin \/ Complete \/ Raise \/ Done \/ Finish
Api == Spawn \/ Inherit \/ Mark \/ Requeue
VideoNext ==
  \/ \E mode \in {"remake", "transport"} : Create(mode)
  \/ \E j \in Jobs : Retry(j) \/ Revise(j) \/ DeleteFiles(j) \/ DeleteRow(j)
  \/ Api \/ ApiDies \/ Worker \/ WorkerDies
  \/ \E j \in Jobs : Lapse(j) \/ Recover(j)

(* The worker, its clock and its poll go on; requests are made by people.        *)
Fairness ==
  /\ WF_videoVars(Worker)
  /\ \A j \in Jobs : WF_videoVars(Recover(j)) /\ WF_videoVars(hand.job # j /\ Lapse(j))
VideoSpec == VideoInit /\ [][VideoNext]_videoVars /\ Fairness

(***************************************************************************)
(* Properties                                                              *)
(***************************************************************************)

(* The film a finished job delivers shows and says the lines it was to have, each  *)
(* once, in the places of the new axis, whatever died while it was made: those of  *)
(* the revised film with the edits of this revision, under the overrides of the    *)
(* whole chain of revisions.                                                    *)
Wanted(j) ==
  IF job[j].parent = 0 THEN Retimed(Lines(job[j], disk[j]))
  ELSE Retimed(Revised(job[j].plan, past[j].basis, past[j].was))
FilmsArePlanned ==
  \A j \in Jobs : job[j].status = "completed" /\ disk[j].final # {} =>
    LET lines == Spoken(Wanted(j)) IN
    /\ disk[j].subs = lines
    /\ disk[j].final =
         {[track |-> [i \in DOMAIN lines |-> [says |-> lines[i].zh, at |-> lines[i].start]],
           titles |-> lines, over |-> past[j].is]}

(* Only a lost worker costs a job one of its recoveries: a slow stage does not.    *)
RetriesAreLosses == \A j \in Jobs : job[j].retries <= past[j].lost

(* Every queued job is completed, failed or deleted in the end.                    *)
EveryJobSettles ==
  \A j \in Jobs : job[j].status = "queued" ~> job[j].status \in Terminal \cup {"gone"}

(* A job fails because a stage was let down, its files were deleted, or it lost its  *)
(* worker too often: "重试失败/已完成的任务（从首个未完成阶段续跑）".                    *)
FailsForACause ==
  \A j \in Jobs : job[j].status = "failed" => past[j].troubled \/ past[j].lost > MaxRetries
=============================================================================
