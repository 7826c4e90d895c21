# NBDPSY server: a TLA+ development

The server publishes notes to a social platform, and runs other browser jobs
(editing, deletions, visibility, collections, interactions, clips, remade videos) for
many accounts and several operators, through real browsers with one profile per
account. What can go wrong is seldom in one function. It is in the order in which
a REST request, a scan, a child process, a recovery and the platform take their
steps, and in what is left when one of them dies. This directory models that
part in TLA+, checks it with TLC and proves the central results with TLAPS.

Contents: 1 the system · 2 the components · 3 the modules and the code · 4 the
runs · 5 fairness · 6 where code and documentation disagree · 7 seen while
modelling · 8 the proofs · 9 abstractions · 10 what is not modelled · 11 plan.

Run a configuration with `tlc -workers 2 -config worker_publish.cfg MCAccounts`,
and check the proofs with `tlapm PublishWorker_proofs.tla`. `PROJECT.json` lists
components, runs, mutants, the source lines of every definition, findings,
hazards and theorems.

## 1. The system

Two deployments of the same code:

- **Split** (`NBDPSY_ROLE=api` and `NBDPSY_ROLE=worker`, what production uses).
  The API process only writes rows. The worker is a *supervisor*
  (`app/worker.py`): every five seconds it recovers stale rows, lists due work,
  counts recent browser sessions and spawns one `app.account_worker` *child* per
  account with a batch of job ids; it reaps children and kills those that exceed
  their hard timeout. A child runs its batch one job at a time and owns the
  account's browser while it lives. The Dreamina loop, the video worker and the
  daily schedulers (onboarding, backfill, retention, note ledger) run beside it.
- **Single process** (`NBDPSY_ROLE=all`). REST handlers, poll loop and worker
  coroutines share one event loop; publish jobs go through an in-memory queue
  (`app/publish/queue.py`), browser jobs are tasks spawned by the request.

All durable state is in one SQL database and in the files of the media jobs. No
lock spans processes: what holds the system together is conditional updates
(`UPDATE ... WHERE status=...`, row count 1 means "mine"), heartbeats, unique keys,
and recovery of rows that look abandoned.

    REST ──insert/patch/cancel──► publish_jobs ◄──claim, verdict── child ──► platform
      │                                ▲                             ▲        (page)
      ├──enqueue──► browser_jobs ◄─────┼──claim, heartbeat, finish───┤
      │                 ▲  ▲           │                             │ spawn, kill,
      │                 │  └──list, count, recover── supervisor ─────┘ reap
      │                 └──── schedulers: backfill, retention, ledger, onboarding
      ├──insert/revive──► video_clips ◄── Dreamina loop ──► CLI
      └──insert/retry/revise/delete──► video_jobs, files ◄── video worker

## 2. The components

`PROJECT.json` lists all 29 with their files and status. Those with concurrency,
failure or time of their own, what is hard about them, and what makes them correct:

- **The browser_jobs ledger** (`services/browser_jobs_repo.py`). Rows with status,
  owner tag, heartbeat, result. Executors die between any two steps, are declared
  dead while alive, report late; recovery's SELECT and flush are not one
  transaction. Correct when a job that must not be repeated runs at most once, a
  live job has one executor, "outcome unknown" stays, and no job is lost.
- **publish_jobs and its handlers** (`http/publish_rest.py`, `publish/policy.py`).
  Rows with status, schedule, retries, content. Requests race the executor; cancel
  checks and writes in two round trips.
- **Publishing by children** (`worker.py`, `account_worker.py`). The platform may have
  a note that is reported as failed; gate and claim are two transactions; `finally`
  rewrites a row without knowing who owns it. Correct when nobody takes a row from
  the child that is publishing it, a note is repeated only if an outcome was really
  lost, cooldown and daily cap hold, and every job ends.
- **Publishing in one process** (`publish/scheduler.py`, `publish/queue.py`). Every poll
  submits every due id again, a restart loses the queue, publish threads outlive
  `PUBLISH_JOB_TIMEOUT`, `finish` is a read and a write. As above, and one browser
  per account.
- **Dispatch and session caps** (`worker.py`, `services/queue_status.py`). Counts are
  taken before spawns that each await. Correct when the hourly caps hold as well as
  they can and no account starves.
- **A publishing session on the page** (`browser/sync_client.py`,
  `browser/atomic_tasks.py`). The script knows of the site only what the page shows:
  receipts fade, clicks miss, the platform answers late, drafts come back. Correct
  when a session makes one note, its own, dressed as it tells, and its verdict is true.
- **Editing, collections, visibility** (`browser/note_components.py`,
  `browser/note_editing*.py`, `browser/podcast.py`, `services/note_collection_batch.py`,
  `browser/note_visibility.py`). Scripts fail half way, submissions are lost or land
  late, the caller asks again; the manager's cards carry titles only. Correct when an
  edit is whole or absent, nothing else changes, and what is reported is so.
- **Dreamina clips** (`services/dreamina.py`, `http/dreamina_rest.py`). A paid CLI
  whose answer may be lost; replays and revivals; a reaper of files. Correct when a
  clip is paid for once.
- **Interactions** (`services/matrix_interact.py`, `services/interaction_backfill*.py`).
  Notes are merged into queued jobs that a child may be claiming; limits apply at
  planning and at execution. Correct when each note reaches each account once, or is
  reported as given up, and the daily cap counts what was really done.
- **Note ledger, retention** (`services/note_ledger.py`,
  `services/retention_scheduler.py`). Rows are linked to notes by title and time; a
  daily plan deletes what is above a ceiling. Correct when a note and a publication
  have one row, links are near, and no account falls below its ceiling.
- **Accounts** (`services/cookie_service.py`, `cookie_check.py`,
  `onboarding_scheduler.py`, `placeholder_reaper.py`). Each reads a row in one
  transaction and writes it in a later one. Correct when an account's cookies are its
  own person's and nothing recognised is reaped.
- **Video jobs** (`video/scheduler.py`, `video/stages.py`, `http/video_rest.py`) and the
  **pipeline's arithmetic** (`pipeline/remake/*`). Stages find their input on disk, a
  dead worker's jobs are recovered with a budget, revisions inherit files. Correct
  when a delivered film is the planned one and every job settles.

What is left out, and why: section 10.

## 3. The modules and the code

| module | models | code |
|---|---|---|
| `BrowserJobs` | the ledger and its executors | `browser_jobs_repo.py`, `account_worker.run_browser_job`, `worker.py` |
| `JobPromise` | what the ledger promises a submitter (abstract) | `models/browser_job.py` |
| `PublishRows` | table, REST handlers, verdict rules, time | `publish_rest.py`, `policy.py`, shared updates |
| `PublishWorker` | extends PublishRows: supervisor and children | `worker.py`, `account_worker.py` |
| `PublishInline` | extends PublishRows: the single process | `scheduler.py`, `queue.py` |
| `PublishPromise` | what both promise operators (abstract) | `scheduler.py`, `account_worker.py` |
| `Supervisor` | scans, rotation, caps, children | `worker.py`, `queue_status.py` |
| `Accounts` | imports, checks, onboarding, reaper | `cookie_service.py`, `cookie_check.py`, `onboarding_scheduler.py`, `placeholder_reaper.py` |
| `PublishPage` | one publishing session on the page | `sync_client.py`, `atomic_tasks.py` |
| `PublishNote` | extends PublishPage: what the note is dressed with | the same |
| `NoteEditor`, `NoteWidgets` | the scripts of the update page | `note_editing*.py`, `note_components.py` |
| `NoteEditing` | one note edited, again and again | `note_components.py` (browser and service) |
| `Collections` | collections created, rounds that empty them | `podcast.py`, `note_collection_batch.py` |
| `NoteTasks` | both under the account's lock | the tasks' `execute` |
| `NoteVisibility` | who may see a note | `note_visibility.py`, `creator_note_list.py` |
| `DreaminaForms` | which requests pass, which CLI arguments result | `dreamina_rest.py`, `dreamina.py` |
| `DreaminaClips` | extends it: the life of clips | the same |
| `Interactions` | matrix sessions and backfill rounds | `matrix_interact.py`, `interaction_backfill*.py` |
| `NoteLedger` | rows of notes, synchronisation | `note_ledger.py` |
| `Retention` | rounds that delete | `retention_scheduler.py`, `managed_accounts_rest.py`, `note_delete.py` |
| `FilmEdits` | plans, revisions, lines | `rewriter.py`, `revision.py`, `dubber.py` |
| `Storyboards` | where lines, rests and the ball are | `storyboard.py`, `timeline.py` |
| `VideoJobs` | extends FilmEdits: jobs, stages, recovery | `video/scheduler.py`, `stages.py`, `video_rest.py` |
| `MC*` | instances for TLC; some put two machines that never meet side by side | |
| `*_proofs` | theorems | |

Every definition that stands for code is mapped to its lines in `PROJECT.json`.
Names ending in `_m` are mutants: a definition with a plausible bug, used only to
see that a property notices it. Every property of a passing run has one.

**BrowserJobs.** `row[j]` is the row; `exec[p][j]` is where process `p` stands
with it; `inbox[p]` are ids it was told to run; `snap` is what `recover_stale`
has read and not flushed. `Enqueue`, `Dispatch` (a batch for a child, tasks for
the supervisor), `Claim`/`LoseClaim` (row count 1 or 0), `Execute`, `Finish`
(guarded by status and owner), `FinishRaises` (database locked: a child tries
once more with "error", the others leave the row to recovery), `Heartbeat` (no
guard but the id, as in the code), `Tick`, `Crash`, `RecoverSelect` and
`RecoverFlush`. The flush writes what the ORM writes: only attributes that
differ from what was loaded. An owner tag is process and `epoch`, because a
restarted process has another pid. **JobPromise** has five actions (Submit, Take,
Settle, Vanish, GiveUp): only an abandoned job is given up on, which means
"waiting" again for an idempotent kind and "unknown", for ever, for the others.
`KeepsPromise` maps the ledger to it (`state` from status and result, `holder` from
the process that has the job in its hands).

**PublishRows.** One action per handler: `Create` (moved to tomorrow when today's
quota is used up), `Patch` (one guarded UPDATE), `CancelRead` and `CancelWrite`.
`Settled` is `decide_finish` with its UPDATEs, `RecoverRows` the stale recovery, both
shared by the deployments. `posts`, `attempts` and `lost` are history: notes on the
platform, executions begun, executions whose outcome never reached the row.
**PublishWorker** adds the supervisor (`Recover`, `ListDue`, `Spawn`, `Skip`,
`KillChild`, `RestartSupervisor`) and the child, one action per transaction or external
effect: `Load` → `GatePass`/`GateDeny` → `Claim`/`LoseClaim` → `Post` (the platform
has the note) → `Return` (what publish_once says, which may be "fail" although the
note is up) → `Apply` → `Finally`, with `WriteRaises` at each ledger write and
`rescue` for the except branch. **PublishInline**: `Scan` appends every due id to
`queue` on every poll; `Take`, `Lock`, gate, `Claim` (which reads the row after the
claim), `Post`, `Return`, `FinishRead` and `FinishWrite`, `FinishRaises`, `Restart`.
**PublishPromise** is what an operator may count on from either: a column `status`, the
set of `running` jobs, and the two histories. `Start` begins an execution of a pending
job, `Post` puts its note up if none is owed (`Owes`: a note that no lost outcome accounts
for), `Report` brings its verdict to the row, `Withdraw` ends it on a canceled row,
`Lose` ends executions without a trace in the row, `GiveBack` returns or gives up rows that
nobody executes. `running` maps to the jobs of children past their claim (`Executing`), or
to the ids in flight (`InFlight`); REST handlers are `Create`, `Cancel` or a stutter.

**Supervisor.** A scan is `List`, `Count`, one `Spawn` per account served, and
`EndScan`, and other actors move between any two. `Kept(a)` is the code's batch:
cut to the oldest `MaxBatch` first, then filtered by the caps, one session spent
for each job let through. A row ends with a trace (`ended`, counted until its
`clock` runs out) or without one (`gone`).

**PublishPage.** `site` is the page: which view, the editor's texts, what became of
the last click (loading, a receipt, a refusal, a ban). The session's steps are those
of `publish_note`; the site's (`Process` a click, `Respond`, `Fade`) come
between any two of them. Drafts of earlier failures come
back. **PublishNote** runs the same session with the components, each a script of
`NoteWidgets` whose outcome is a pair of what it reports and what it leaves.

**NoteEditor, NoteWidgets.** A script is the set of its outcomes on an editor:
status and resulting editor. **NoteEditing**'s session loads the page, runs the
scripts asked for in the code's order, submits the whole note and reads back;
submissions land later, in any order, or never. **Collections** has creation clicks
that may take effect later and rounds over notes.

**DreaminaClips.** Handlers: `Look` (one lookup per shot, before every gate), `Fetch`
(downloads), `Revive` (UPDATE by id whatever the row has become), `Insert` (the unique
key keeps what is there). Loop: `Heal`, `Sweep`, `Claim`, `Call` (the CLI, which may
take the task and not say so), `Record`, `Query`, `Settle`; `Reap`; `Kill` at any step.

**Interactions.** A hook or a session merges notes into a queued job in the steps of
`_merge_or_enqueue`; sessions like and collect by toggles, read back, and put back
what is left over; backfill rounds plan at request, at scan and again at the claim. A note's session has an
outcome (not found, not opened, or its icons tried) and then meets a wall or not; an
account whose cookies are valid again is given a round (`Welcome`).

**NoteLedger.** `Publish` makes a note (noticed or not), `Record`/`Forget` is the hook
(or its loss), `Fetch` takes the list under the account's lock, `Store` works through
it in one transaction outside the lock: `Synced[k]` is the ledger after the first k
notes of the list, each refreshed, adopted, discovered or left. **Retention** reads the
same rows in rounds whose checks, plan, audit row and jobs are separate transactions.

**VideoJobs.** `disk[j]` holds which artifacts exist and what they say; a job's
flags say which stages are done, the first that is not runs next, whatever files there are; `Revise`, `Spawn` and `Inherit` make a revision in the
API process while its row is staging; `Recover` spends the retry budget.

What one module needs of another is in its actions (a child that dies leaves its row
running, recovery puts it back). Composing all three views of one row would multiply
states without adding an interaction. Where two machines share a lock and nothing
that the properties speak of, an MC module checks them side by side: a behaviour is one
of the one or of the other (`MCAccounts`, `MCNotePages`, `MCNoteLedger`, `MCVideoJobs`).

## 4. The runs

Sizes are distinct states. Every counter that would grow for ever is bounded by a
constant named `Max...` in a guard, and no run uses a state constraint. Two runs use
symmetry, under which only invariants and action properties are checked: the workers
in `inline_publish`, the jobs in `note_ledger`. Both sets are interchangeable there
(no definition orders or names their members). Deadlock is off because a history in
which every job has ended, or nobody submits one, is a legitimate end.

**`ledger_reliable`** (`MCBrowserJobs`, 62,844, fair): two jobs, `read` (idempotent) and `del`
(not), and two processes, the supervisor and a child, each of which may be handed
either job: more overlap than any real kind has, so whatever holds here holds for
narrower consumers. A restart of each process and one failed write allow every order
of two failures; `StaleAge = 2` leaves a period in which a row is old but not stale.
A live process's heartbeat arrives in time; without that the proofs below say what
remains. `SoleExecution`, `NonIdempotentOnce`, `KeepsPromise`, `EveryJobSettles`.

**`worker_publish`** (`MCAccounts`, 2,004,495). Accounts share only the process cap, so
one account is enough for these properties (the proofs hold for any number). Two jobs
make cooldown, daily cap and batch order real, and a job that is requeued while the
other is in the batch; a tick stands for about ten minutes, the publish timeout. One
retry, a cooldown of two ticks, a cap of one note a day, one kill (of the child or of
everything), one failed write, endless days. `HeldWhilePublishing`, `DailyCapKept`, `ClaimsSpaced`. The other behaviours are of
`Accounts`: two imports of one person or of two with one nickname, one check at a time,
one trouble (an operator's change, or a fault). `OwnAccount`, `AccountsKept`.

**`worker_cancel`** (`MCPublishWorker`, 250,944, fair): job 1 may be canceled at any
moment, one kill, one failed write, batches of one, no retries but those of a recovery. `KeepsPublishPromise`,
`CanceledStays`, and `EveryJobEnds` for both jobs.

**`inline_publish`** (`MCPublishInline`, 2,067,709): two jobs, two coroutines, a queue of
two ids (enough for two copies of one), one trouble, a restart or a failed write; job 1
may be edited, rescheduled and canceled at any moment. `OneSessionPerAccount`,
`PostsCurrentText`.

**`supervisor_dispatch`** (`MCSupervisor`, 252,257, fair): four jobs, three of account 1
and one of account 2, compete for one child; system and operator jobs, publications and
browser jobs, jobs that recovery repeats and jobs it gives up; one kill, one failed
spawn or publication. A batch of one makes each account wait for its turn several
times; a cap of one session and a window of one tick make every job wait for the
window at least once. `SessionsNearCap`, `NotOvertakenTwice`, `QueueDrains`.

**`note_pages`** (`MCNotePages`, 4,072,414). Publishing: each medium with components it can
have, up to two sessions, one fault, no draft or one of another job; two sessions are
what it takes for a draft of the first to come back in the second. `OneNotePerSession`,
`OwnNote`, `VerdictTrue`, `WearsWhatIsTold`. Editing: four kinds of note, four mixes of
requests, asked twice, one fault. `EditsTrue` (whole or absent, only the asked),
`ClaimsHold` (what is told is so, but for a title set beside a quote and a collection
whose label was not read: section 7). Collections: two notes, two sessions, one removal a round. `ShelfTrue` (no
second collection of a name without a creation in doubt, rounds tell the truth, the
card picked is the one meant).

**`clips_paid`** (`MCDreaminaClips`, 1,478,772, fair): a batch of two shots and two replays of
the first (two overlapping replays are what it takes to revive a row that has gone on),
one kill, one fault. `PaidOncePerRevival`, `EveryClipSettles`; `FormsHold` examines
every form of a request in the first state, which is where TLC sees it.

**`interact_rounds`** (`MCInteractions`, 1,122,008): one actor, three notes, two of them
fresh, two rounds, limits of one, one fault, two half days. `CapKept`, `EachNoteOnce`,
`NeverUndone`. A second actor adds no step that two of these accounts share but the
merge, whose race with the claim is within one account.

**`note_ledger`** (`MCNoteLedger`, 2,826,880). The ledger: two publications of one title on
three days, at most three notes, one of them undated, windows of none and one day.
`OneRowEach`, `LinksNear`, `ListIsEntered`. Retention: three notes, the first and third
of one title, a daily maximum of one, ceilings 1 and 2, one change by others, one
death, two days. `RetentionHolds`, whose daily maximum is for rounds that do
not overlap (section 7 says what overlapping ones do), and `NeverBelowCeiling`, which weighs
one plan with the deletions already queued. Visibility: two notes of one title,
two tasks, one change by hand. `OnlyTheNamed`.

**`video_films`** (`MCVideoJobs`, 259,674, fair): a finished remake of two lines that may be
a revision, and then has used up its recoveries on earlier losses, so that one more loss
ends a retry of it; two jobs, two requests, one retry, one fault. `FilmsArePlanned`,
`RetriesAreLosses`, `EveryJobSettles`. Beside the jobs the films of up to three scenes
(a card shorter than a line, exercises shorter and longer than one, a rest) and three lines
are laid out, whether the lines fit or not, with and without sets of a number of rounds:
`BoardSound`. It leaves out one kind of line, of which the films have some that do move the
ball or talk over another (section 7).

**`retention_deletes`** and **`video_redeliver`** expect a violation: section 6.

What the less obvious properties say:

- `KeepsPublishPromise`: only an execution puts a note up, and only when every earlier
  note of the job is accounted for by a lost outcome (killed, unwritable, or reported as
  failed although the note is up); a row becomes published only when a note is up, and is
  given back or given up only when none is owed. So a note is on the platform at most
  once, plus once for every lost outcome (`RepostsNeedLoss`). It does not hold that every note appears once, and the code cannot
  make it hold: the platform has no idempotency key.
- `HeldWhilePublishing`: nobody but an operator who cancels changes the row of a
  job that is being published. Recovery, the unconditional reset in `finally` and the
  late writes of other executions are what could.
- `SessionsNearCap`: the exact cap does not hold. A child may work off a batch
  between the count and the spawn, so the bound is the cap plus one batch.
- `NotOvertakenTwice`: while an account could be served and waits, no other account is
  served twice.
- `PaidOncePerRevival`: paid at most once, plus once per revival written over a row
  that another replay had revived and the scheduler taken; and a row that was paid for
  never looks as if it had cost nothing.
- `VerdictTrue`: success means a note was made; a final "not logged in" or "banned"
  means none was. (A timeout means nothing: it is retried.)
- `EachNoteOnce`: of the notes owed to an account, each is in exactly one place: a job,
  a session, a merge, the reports, or the list of those given up with a report.
- `LinksNear`: a note said to be a publication's is dated within a day of one the
  publication made.
- `FilmsArePlanned`: a delivered film has the lines, voices and overrides its plan and
  its parent ask for, whatever was redone after which death.

## 5. Fairness

All fairness is in the modules.

- Scan, poll and worker loops run for ever and catch their exceptions, so their steps
  (`Recover`, `ListDue`, `Dispatch`, `Skip`, `Scan`, `ScanStep`, `LoopStep`, `Worker`) are
  weakly fair.
- A child's or coroutine's step returns: its waits have timeouts, and a child that
  does not return is killed at its hard timeout. Hence `WF(ChildStep(a))`,
  `WF(Run(w))`, `WF(Execute)`, `WF(Finish)`. Kills, restarts and failed writes
  have no fairness, and are bounded: the liveness results are about systems that
  stop failing.
- Time passes: `Tick`, `Midnight`, `Time` and `Lapse` are weakly fair; Dreamina
  finishes what it took (`Render`), which the CLI's own deadline stands for.
- `PublishWorker`: `SF` of a spawn that takes job j, since caps or failing spawns
  do not hold one job back for ever (`Supervisor` is where caps are modelled, and
  there the same is checked, not assumed).
- `Supervisor`: `SF(\E j : Recover(j))`, since recovery runs at the start of every
  scan, but in the model competes with `List` for the moments between scans.
- Users owe nothing: creating, patching, cancelling, asking have no fairness.

## 6. Where code and documentation disagree

1. `retention_deletes`: every `note_delete` job ends in error. `_delete_sync`, which
   runs in a thread, reads the name `payload` (`services/note_delete.py:148`), which
   exists neither among its parameters nor in the module; so neither retention nor an
   operator's request deletes anything.
2. `video_redeliver`: the deliver stage *moves* the muxed film
   (`video/pipeline/deliver.py:67`). A completed job that is retried, or one whose worker
   died between the move and its last write, runs deliver again and fails for ever,
   although `http/video_rest.py:113` offers the retry of completed jobs.

## 7. Seen while modelling

Behaviour that the models have, that a maintainer may not expect, and that no run
reports by itself.

*Publishing.* Cancel checks and writes in two round trips: a job that a child claims in
between becomes canceled while its note goes out (`publish_rest.py:779`, against "仅
pending 可取消" at 770). A child loads the row before gate and claim
(`account_worker.py:308`), so an acknowledged PATCH may not be in the note, and it does
not look at a changed schedule (312). The hooks run even when the guarded UPDATE hit no
row (197). One process tests the daily cap only at creation (`scheduler.py:81`,
against `config.py:53`); its `finish` may overwrite a cancel (338); and a job whose id is
queued twice can pass the gate while its row still says publishing after two failed
writes, be recovered, and be claimed without another look at the cooldown, so
`ClaimsSpaced` is a property of the split deployment only. A failed publication clears
`started_at` and is not counted as a session (`worker.py:579`).

*Dispatch and ledger.* The batch is cut before the caps filter it, so an operator's
job behind system jobs waits while the endpoint names no reason (`worker.py:550`,
632). `recover_stale` overwrites a finish between its SELECT and flush when the executor
missed its heartbeats (`browser_jobs_repo.py:157`, against `browser_job.py:4`).
Requeued idempotent jobs have no attempt counter (172). Under `NBDPSY_ROLE=all` nobody
dispatches requeued rows (`server.py:72`). The operator's quota is counted and spent
in two transactions (`quota.py:38`).

*On the page.* A Network Error receipt fades and the script clicks again
(`atomic_tasks.py:2163`, against "绝不补点" at 2391), or ends in a timeout that is
retried: a second note. The light-DOM path looks at the URL 6.7 s after the click while
the success page lasts 3 s. Any departure from the editor counts as published. A
recovered draft may be another note's. Login failures raised after the upload form are
retried, any exception during single sign-on is final. The note id is the first on the
creator page. Topics and some components are counted by clicks without a reading back.

*Editing.* What a session confirms is not always there (against "只有 True 才算数" at
`note_components.py:3581`). Any quote present confirms the quote (3456). When a title is
set beside a quote, the read-back overwrites the title asked for with the quoted note's
(3442), or with nothing when the quote failed, and compares what it reads with that
(3523): a title that never arrived is confirmed when the note's old one agrees, and one
that did arrive is called false. The ledger is spared, since it is given the title that
was read. A collection's label that cannot be read (577) counts as no collection: before
the click the item is skipped as already absent (946), after it and in the read-back the
removal is confirmed (1022, 3418, which calls that 强证据). The models do all this, and
`ClaimsHold` therefore claims neither of the two. A submission that lands late overwrites a later one, and a
visibility set on the phone. A collection is matched by containment of its name; after a
creation without a fresh list an old one is used and the new collection reported as
absent, and asking again makes a twin. A request that adds as many images as it removes
passes the image gate again (`note_editing_images.py:129`), so asking it again removes as
many once more, and the equation of the read-back (`note_components.py:3539`) calls it
confirmed even when the submission was lost. Visibility: with a stale or missing title another
note of the same title may be switched; the task says so only by "切换未生效".

*Clips.* Two overlapping replays of an error row pay twice (`dreamina_rest.py:1001`,
`dreamina.py:1091`); the reaper may delete references between the download and the
revival.

*Interactions.* A wall leaves other queued jobs of the account to run into it. Walled,
killed and unwritten rounds are not counted in the daily cap. A suppressed note is never
planned again although its docstring says it may be. A failed write may turn a "done" into an
"error".

*Note ledger and retention.* One pending row and two namesakes on the platform: linked
to the wrong note for ever (against "宁可留着 pending_id 等下次,也不认错笔记"). Two
pending rows of one title within half an hour stay so for ever. A daily scan and an
operator's round may overlap and exceed the daily maximum, and, if a score, a link or a
protection changes between their plans, go below the ceiling together: neither counts what
the other has planned and not queued; a plan whose process dies
after the audit row is lost for the day; protection set after a plan does not stop its
jobs; reconciliation by title marks a later namesake as deleted.

*Accounts.* A check that loaded cookies before its row changed writes its person over
the new row. An anonymous placeholder of a person who already has an account violates
the unique index in every check, and in the patrol it ends the round, so accounts with
higher ids are never patrolled. An API process dying between insert and grant leaves an
account that its importer may not refresh.

*Video.* An exercise keeps its length, so a line in it may be pushed past its end by those
before it; the code only warns (`timeline.py:184`). Without sets of a number of rounds this
does no harm: rests are cut wherever somebody speaks. With them, a line pushed out
of its exercise altogether belongs to the scene it begins in
(`_assign_segments_to_scenes`, `storyboard.py:506`). When that is a card shorter than the line, it is moved with
the card, whose length nobody adjusts, and is spoken into the set that follows:
while the ball moves (against "A2 说话时球停" at 784), or over that set's first
line. `Pushed` names these lines; nothing else overlaps. Retries by REST do not reset `retry_count`; a DELETE removes files before it
knows that the worker has not claimed the job; deleting a parent during a revision
leaves the child running for ever; a card edit by scene id drifts when ball scenes
split; a ball period above four seconds, which the checks of a revision let through, can
leave a rest of no length.

## 8. The proofs

Nothing is assumed but the named assumptions on the constants, which TLC evaluates in
every run. They say what the configuration guarantees: limits are natural numbers,
there are finitely many jobs, the lower cooldown is not above the upper one, a plan of edits is a
list.

**Ledger** (`BrowserJobs_proofs`). `LedgerTypes` is inductive by itself. `AtMostOnce` and
`UnknownIsFinal` need `OnceInv`: a non-idempotent job that is not yet taken has
never been started, and an "unknown" result belongs to such a job in state
error. That is inductive because the only way back to "queued" is recovery's
idempotent branch, however stale its snapshot. `ExecutionIsSole` and
`TerminalIsStable` assume `HeartbeatsReliable` and need `LiveInv`: a live
execution owns a running row whose age is below `StaleAge`, and recovery has not
got it in its hands; whatever recovery has in its hands is still running. The last
part is what the two-step recovery lacks without reliable heartbeats.
`LedgerKeepsPromise` is the refinement of `JobPromise` under the same assumption: the
initial states map to its initial state, and each step to one of its actions or a
stutter. `HolderIsTheOwner` makes the abstract holder the one process that executes;
steps that change neither what is shown nor who holds (`SameShown`, `SameHeld`) stutter.

**Publishing by children** (`PublishWorker_proofs`, which begins with lemmas on row updates,
as `PublishInline_proofs` does). `Invariant` proves `IInv`, which is

- `TypeOK`, and `CancelsOK` (requests are about editable jobs);
- `ChildOK(a)`: batch and current job belong to the account; the retries the child
  has loaded are the row's, until its verdict is written; past the gate the
  account is cooled; while executing, the row is publishing or canceled by an
  operator;
- `JobOK(j)`: posts and attempts are accounted for by retries and losses, with one
  unit to spare for a job that may still run.

A row is rewritten by REST handlers, by time, by recovery and by its own
account's child. What the first three may do is one formula, `Drift`:
retries stay, a live child's row keeps its status unless canceled, no row begins
or becomes younger, nothing becomes counted for today. `RestDrifts`,
`TimeDrifts` and `RecoverDrifts` show it of each, `DriftKeeps` that it preserves
`IInv`, and there is one lemma per child step and supervisor step. From `IInv`:
`WorkerTypes`, `RowIsHeld`, `NoNeedlessRepost`, `RetriesAreCounted` as invariants;
`EndsStay`, `CanceledIsFinal`, `CooldownIsKept` as action properties.
`DailyCapHolds` needs one more invariant, `CapOK`: between gate and write the
account has room for the note on its way. Only the account's own child can add to
the count and it gets past the gate only with room, so one child per account is exactly
what the cap rests on. `WorkerKeepsPromise` is the refinement of `PublishPromise`: recovery
gives back only rows that no live child executes (`Drift` again), a kill or a restart is
`Lose`, and the steps around the gate stutter. A verdict needs one more invariant,
`ReportsOK`: a child that says a note is up has posted it, and a cancel was read of a row that exists.

**Publishing in one process** (`PublishInline_proofs`). Here nothing ties an id to one
worker: the queue may hold it twice, and every poll adds copies. `IInv` has `LockOK` (two
workers past the account lock have different accounts), `WorkerOK(w)` (a worker past its
claim has a row that is publishing, and has loaded the row's text) and `JobOK(j)` (posts
and losses balance). What makes it inductive is that the stale recovery leaves out
the ids in flight (`InFlight`), and that the lock is released after the last write.
`SessionsAreSingle`, `RowStaysHeld`, `RepostsAreLosses` as invariants, `TextIsCurrent` as
an action property: an edit needs a pending row, and the text is loaded after the claim.
`InlineKeepsPromise` is the refinement of the same `PublishPromise`, which is therefore what
both deployments have in common. What they do not have in common it leaves open: the
single process's `finish` is a read and a write, so its verdict may overwrite a cancel that
came between, which the promise allows and `CanceledIsFinal` excludes for the children.

**A session on the page** (`PublishPage_proofs`). `ClicksInv` counts what a session can
still make: each click on the way is at most one note, and the script clicks again only
when the page shows that nothing came of the last. `OneNote` and `VerdictsAreTrue` assume
`ReceiptsLast`, as the run does: an answer stays until the script has looked (section 7
says what happens when it does not). `OwnIsPublished` needs no such assumption. Its
`OwnInv` says that the editor holds the session's own medium and no text until the texts are
typed, also when it was refilled from the drafts, because the newest draft is then the one
that this session's reset left; and that only an editor with both texts typed once is ever clicked.

`ToldIsWorn` is about `PublishNote`, whose steps are those of the page with a dress on
(`NotePlain`), so that the invariants above hold of it. What each component's script may
leave and report is a lemma of its own (`CollectionOutcome`, `QuoteOutcome`,
`OriginalOutcome`, ...): it changes its own component only, and reports done of what the
form then carries. `DressInv` adds what no script knows: nothing is told before the texts
are typed, which is when a form may still be replaced; the form that replaces it is the
draft of this session's reset, which was bare; what is told is true of the form as long
as the session runs or a click of it may be answered, and of the last note once it is
made. The last part needs `ReceiptsLast`, and that a form is given up only with its session.

**The shelf of collections** (in `PublishPage_proofs`). `NoTwins` counts what there is of a
name against the creations in doubt. It is inductive with what is on its way (`OnTheWay`,
`TwinInv`): a name has at most one collection there or coming more than is in doubt; and from
the moment a session has read the list without finding the name, everything there or coming
of it is in doubt, which pays for the click that follows. `RoundInv` says of a round and of
its report that what was handled is out of what remains, within the limit of the round, and
that a note called removed or not in the collection stays out: only a creation takes a note
in, it does so while in doubt (`ComersAreDoubted`), and rounds speak of names that exist.
`PickIsMeant` is a fact about lists: the card at the position that a note has among the
unseen is its own, because as many positions precede it in the list as on the page, which the
proof counts (`CardAt` is the k-th of a finite set of positions).

**Editing a note** (in `PublishPage_proofs`). `EditInv` has these parts.

- `EditorInv`: until the session ends, the editor is the page it loaded with the items
  passed done to it, in the code's order, and none is left once it decides. Each script of
  `NoteWidgets` has its lemma: what it changes (`Alike` but for its own fields), and what its
  outcome means.
- `RoundsInv`: the note, the page loaded and every submission on its way are the original
  with the edits made k times, for some k up to the number of sessions begun; k is at most one
  unless as many images are added as removed, because the image gate compares the count.
  Submissions overtake each other, so each has a k of its own.
- `OnlyInv`: each of them, and the editor, differs from the original only where the request or a
  slip of the platform's allows it.
- `SessionInv` and `AloneInv`: what has been clicked and told at each step; a session that found
  nothing on its way knows all that may still land. `TitleInv`: the ledger's title is on the
  note, no submission on its way has another, and a new title that a session has read stays.
- `SureInv` and `CalledDoneInv`: what was read back when nothing could land any more is so and stays
  so, and a verdict of done means everything asked for, topics too; both with the two exceptions of
  `ClaimsHold` (section 7), which the proof has to carry: the session remembers which title it read
  and whether it could read the label.

`EditsAreWhole` and `ClaimsAreSo` follow. The attempt changed the model: what is left to try is
a position in the code's order, not a sequence, and the session has a history variable
`alone`, which is what `done` rests on. It also showed a case that the invariant had to leave
out (section 7): a request that removes as many images as it adds.

**Clips** (`DreaminaClips_proofs`). "Paid once" is not inductive: a call under way and a
place in the queue are payments to come. `PaidInv` counts them (`Calling`, `Claimable`);
`TouchInv` says that what was ever given to the CLI carries `submitted_at`, which is
why a replay never takes a paid row for one that cost nothing. One lemma, `Unpaid`,
covers every step that opens no call and no place in the queue; `Claim`, `Call`,
`Record` and `Revive` are the others. `PaidOnce` holds for any number of rows, requests,
kills and lost writes. `FormsReachTheCLI` takes the forms operation by operation: what the
checks leave of the media fields (`Pictures`, at most two of them) is what the argument
list counts, so nothing that passes is dropped.

**Video jobs** (in `DreaminaClips_proofs`, after the clips). `VideoTypesHold`: rows, hand,
request and history have their types, and a request that is under way has the jobs it
speaks of. `RecoveriesAreEarned` needs `OrphansAreLosses`: a running job that nobody holds
has lost one more worker than was counted as a retry. That is what a recovery spends, and the
only step that makes such a job is a kill, because the worker's hand and its row change
together (`HandStep`) and the API writes only rows that nobody runs.

`FilmsAreMade` says that whatever is delivered is what was planned. `FilmInv` has, for each
job, what its row, its files and its history say of each other (`JobSo`): which lines each
file may hold (`LinesSo`: a stage that died and runs again finds its own output, and a
revision its inherited lines), which overrides (`OversSo`), that the clips there are say the
text they are named by (`VoicesSo`), and that nothing is dubbed, drawn or mixed before the
text is final (`StagesSo`). Its other parts are the half of a stage that is done (`HandSo`),
the child that a request is making and nobody else knows (`AskSo`) and the deletions under way
(`DyingSo`). Three facts about the operators carry the induction: the new axis made of a new
axis is the same (`RetimedAgain`), so repeating a storyboard changes nothing; a synthesis adds
voices and never takes one (`SynthesisVoices`), so what an earlier text left is in nobody's
way; and a film of clips that say what they are named by is the planned one
(`FilmIsPlanned`). Each stage has a lemma for its first and for its last file, each request one
of its own. A file that is missing is no hole in this: a DELETE may take all the files of a
job that runs, and `FilmInv` says only what is true of files that are there. The proof
changed the model: edits and supplements are now sets of places taken in their order
(`InOrder`) instead of nested folds, and `PlansAreLists`, which the
code has from `json.loads`, is an assumption. An invariant about the films of running jobs had
to distinguish the inherited lines from the written ones, which is what the `base` file of a
revision is for: without it (the mutant `BaseWritten_m`) a second run edits its own output.

**Note ledger** (`NoteLedger_proofs`). `IInv` is `TypeOK` with `BookOK`: a publication that is
begun made its notes (`BegunMade`), a row's publication is a finished one whose mark says
that it has a row (`RowsBegun`, `FilledTaken`), what waits carries its publication's time
(`WaitsFromStart`), no note and no publication has two rows (`OneEach`), and every link is near (`AllNear`);
while the hooks run it is still the day of the publication, which is what makes a link near at all.
Storing a list is a fold over its entries. The library's induction theorems cannot be
used, so the proof takes the least entry at which the claim fails: `Least` and `UpTo` are
facts about sets of naturals, and each entry is one lemma for each of its three branches
(`RefreshKeeps`, `AdoptKeeps`, `DiscoverKeeps`). `ListsAreEntered` (but for
notes whose title more than one row waits for) follows the same fold:
after k entries, `Through` says, the rows that wait are old rows, unchanged, whatever is
new comes from the list, and the first k entries are in the ledger. The assumptions say that the narrow
window is not wider than the wide one, and that nobody is not a publication. The proof
showed that a publication without a title, which the API accepts (`publish_rest.py` has no
minimum), leaves a row that no list ever links.

**Supervisor** (`Supervisor_proofs`). `CapInv` counts an account's sessions with those that a
batch in hand will still open (`Held`): the scan's count of sessions is stale by no more
than this one batch until the account's turn comes (`CountOK`), and the jobs that the spawn
keeps fit under the cap it has computed (`CapLeaves`). So the cap is passed by what was opened
since the count, and by no more. `TurnInv` is the argument for the
rotation: whoever is served ahead of a waiting account stands behind it, in this scan or in
the rotation of the next, which needs that no account is in the rotation, in
the turn or among the served twice. `RotationIsFair` is its consequence for
one waiting account and any other.

**Interactions** (`Interactions_proofs`). `Sound` is `TypeOK` with what hooks, merges and
sessions say of each other (`SessionSound`, `MergeSound`, `HookSound`): whoever is idle has
nothing in its hands, a matrix session's job is running, an account merges only what its
own session left over, a hook only its own note. `NeverUndone` follows from one
lemma about a step (`KeepsGiven`): an icon that is lit is left alone. `CapKept` needs `CapSound`: the
notes of the day by the ledger, by the report and by what the session has left
(`DayNotes`) are within the limit, and what was opened is among the first two or unseen. A plan is
made by the child that runs it, with no session of the account open, so nothing else adds
to that count (`CapClaim`). `EachNoteOnce` needs `NoteSound` of each account and note: the
note has at most one place, none if the account is not owed it, one if it is and the note was not
given up. A place is a tag and a position, so that one can count: every step either
leaves a note's places as they are (`Stays`) or takes it out of some and puts it into
as many others (`Moves`). A merge that writes must still find its job queued, which is
why a claim between its read and its write loses nothing. The assumptions used are that
accounts are not notes, that `None` is neither, and that the limits are positive.

**Accounts** (the last part of `BrowserJobs_proofs`).
`IInv` is `AccountsTypeOK` with three things: ids have a bound, so that a new one is above all
others (`NewIdIsNew`) and never one that an import or a check still has in its hands; a row
shows another's login only where it is mixed (`OwnRow`); and what an import has found or
made is still there, somebody's, open to its operator, and its person's or mixed
(`ImportOK`). The last part is inductive because of `Stays`, which is what no step but an
operator's takes from a row that is somebody's: imports and checks write one row
(`OneRow`), and the two DELETEs look again whether a row is nobody's (`DropKeeps`),
without which a row recognised after the selection would go. The assumption is `Given`: a
nickname is not a placeholder's name.

**Retention** (in `NoteLedger_proofs`). `RetInv` is `RetentionTypeOK` with two parts.
`RoundSound`: what was named for a day stands in the audit as a real round of that day;
a runner that is under way, unless two crossed, is the only one and finds nothing of its day
yet; what it holds fits its quota. That makes the daily maximum inductive, since a real round
of a day excludes the next one. `GhostSound`: only the first deletion has ever succeeded, its
key is one that its note has had, and no round names or holds that note again. The last part
rests on the reconciliation (`GhostIsOut`): the note's row is marked unless two rows answer to the
key, and then the note is not unmistakable, so that the plan leaves it out for another reason.
`CeilingIsKept` is about one plan and the deletions that are queued when it is made: `PlanStays`
counts, with the library's facts on cardinalities, that these and what is chosen leave the
ceiling. What the other runner has planned or promised is not in that count, as it is not
in the code's: two plans that cross may together go below (section 7).
The assumptions: finitely many notes, ceilings and limits that are natural numbers, at least one day.

**Visibility** (in `NoteLedger_proofs`). `TaskSound` says what a task's step implies: past the
list it has a note and a level and has told nothing; the title it looks for with open eyes
is still the note's. `LocateKeeps` is the argument: a set with one element that contains the
note is the note's alone. `EndsKeep` shows once, for every end, that what is told is so, and
`GoesOn` once, for every other step of a task, that it says nothing yet.

**Only model-checked.** Liveness under fairness (`EveryJobSettles`, `EveryJobEnds`,
`QueueDrains`, `EveryClipSettles`), which is beyond the prover. And one invariant, `BoardSound`:
its layouts of lines, rests and ball are chained folds over a whole film, and what a fold computes
would be an induction of its own for each of them; there is no state to reason about, only
values, which TLC enumerates.

## 9. Abstractions

- A scan's publish recovery is one step in `PublishRows`: it is one UPDATE. The
  ledger's recovery is two, because it is a SELECT and a flush.
- Time is relative: a row's age counts up to the largest limit it is compared with,
  waits count down, days pass independently of ticks (a day may be shorter than
  a cooldown, which only adds behaviour), a schedule is now, today or tomorrow.
- `GateDeny` may put a job off by any delay in the interval's range; the code draws
  the interval at random and adds jitter. The gate *may* open from `MinInterval`
  on and *must* from `MaxInterval` on.
- The children die with the supervisor (`KillMode=mixed` in
  `deploy/systemd/nbdpsy-worker.service`), and a killed child's browser dies with
  it, so no execution outlives its child.
- `Supervisor.Recover` recovers a row only if nobody executes it: the reliable
  heartbeats that `ledger_reliable` assumes.
- Two fields of a job's payload are left out of the ledger: `not_before` (a queued row
  that is not listed yet, which a dispatcher that may also not list it covers) and the
  notes of a matrix job, which `Interactions` has.
- Content is a version number (`text`), a result its class, a note's text "old", "new"
  or half typed; accounts and jobs are ids, five metrics are one number.
- On the update page a note in a collection shows no button to join one (the code takes
  that for granted, `note_components.py:1056`).
- A script on a page is the set of its outcomes (what it reports, what it leaves), read
  from its branches; an image's close button takes effect within the wait or never; the
  editor's drafts are remembered as bare or not.
- `Accounts`: a check's registration and its loading of cookies are one step; ages are
  fresh or not, after which the reaper may take a row (the 24 hours become any time).
- `NoteLedger`: one synchronisation at a time; hooks run within one narrow window of
  their publication; the account's lock covers a publication and its hooks, a list is
  stored outside it. `Retention`: one account, one operator's run at a time.
- `VideoJobs`: one worker (the default concurrency), one revision request at a time.
- `Storyboards`: times are tenths of a second, exactly; the code's floats decide ties by
  their last bit.

## 10. What is not modelled

Image generation, exports, comments, metrics, analytics, style profiles and archives
are sequential scripts, queries or calculations whose execution is a step of
`BrowserJobs`. Uploads are files. Authorization and operator quotas are one query and
one comparison each. The gates of `app/browser` are semaphores, except for the account
lock, which is in `PublishInline` and in what every page module takes for granted. REST
parsing, the MCP facade, manifests, migrations, deployment files and the browser
extension hold no protocol. The draft cleaner, egress guard and self-heal are periodic
maintenance around external services.

In modelled components: the batch's hard-timeout scaling, the backlog warning,
`op_images` in the supervisor's own process, broadcasts to several accounts, the clock
arithmetic of the next active window, `queue_status`'s position and
`window_resets_at`; the CLI's login and credit queries; the browser script of a
deletion (which is never reached, section 6); the weekly schedule of synchronisations;
reading a catalogue of components; media processing by external tools.

Liveness is checked with a bounded number of failures. An idempotent job that
always exceeds its hard timeout is executed for ever by the code, which counts no
attempts; no run can show it.

## 11. Plan

1. Proofs: `BoardSound`, fold by fold, with lemmas such as those of `Store`.
2. `queue_status` in full: position and `window_resets_at` against the supervisor's
   real order.
3. Chunked uploads and the audience cursor, if they earn a run's place.

The runs stay one per question; a new component may take the place of a run whose
question a larger one answers as well.
