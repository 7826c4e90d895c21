--------------------------- MODULE PublishInline ---------------------------
(***************************************************************************)
(* Publishing in the single process of NBDPSY_ROLE=all                      *)
(* (app/publish/scheduler.py, app/publish/queue.py): a poll loop and the    *)
(* REST handlers put job ids into one in-memory queue, PUBLISH_CONCURRENCY  *)
(* worker coroutines run them under a lock per account.                     *)
(*                                                                         *)
(*   queue      the asyncio.Queue of job ids; the same id may be in it       *)
(*              several times                                               *)
(*   pc[w]      "idle", "wait" (for the account lock), "gate", "claim",     *)
(*              "run" (publish_once before the platform has the note),      *)
(*              "posted" (after), "finish" (about to read the row), "write" *)
(*              (has read it, about to flush)                               *)
(*   cur[w]     the job; text[w], the version it was loaded with             *)
(*   verdict[w] what is to be recorded; rescue[w], TRUE in the except branch *)
(*   troubles   process restarts and failed ledger writes so far              *)
(***************************************************************************)
EXTENDS PublishRows, Sequences

CONSTANTS Workers,   \* the queue's worker coroutines
          MaxQueue,  \* bound: length of the queue
          MaxTroubles \* bound: process restarts and failed ledger writes

ASSUME InlineAssumption ==
  /\ MaxQueue \in Nat \ {0} /\ MaxTroubles \in Nat

VARIABLES queue, pc, cur, text, verdict, rescue, troubles

workerVars == <<pc, cur, text, verdict, rescue>>
vars == <<rowVars, queue, workerVars, troubles>>

AtWork == {"run", "posted", "finish", "write"}
Locked == {"gate", "claim"} \cup AtWork
Phases == {"idle", "wait"} \cup Locked

(* Holding the account's lock; scheduler._in_flight.  (Names ending in _m    *)
(* are mutants: no lock.)                                                    *)
LockFreeNone_m(a) == TRUE
LockFree(a) == \A w \in Workers : pc[w] \in Locked => Account[cur[w]] # a
InFlight == {cur[w] : w \in {v \in Workers : pc[v] \in AtWork}}

Trouble == troubles < MaxTroubles /\ troubles' = troubles + 1

Idle ==
  /\ pc = [w \in Workers |-> "idle"]
  /\ cur = [w \in Workers |-> Null]
  /\ text = [w \in Workers |-> 0]
  /\ verdict = [w \in Workers |-> Null]
  /\ rescue = [w \in Workers |-> FALSE]

Init == RowsInit /\ queue = <<>> /\ Idle /\ troubles = 0

(***************************************************************************)
(* The poll loop and the REST handlers                                     *)
(***************************************************************************)

(* recover_stale spares the jobs in flight. *)
Recover ==
  /\ RecoverRows(InFlight)
  /\ UNCHANGED <<cancels, posts, attempts, lost, queue, workerVars, troubles>>

(* scan_once, then submit for every id it returned, in ascending order.      *)
Ascending(S) ==
  {ids \in [1..Cardinality(S) -> S] : \A m, n \in DOMAIN ids : m < n => ids[m] < ids[n]}

Scan ==
  /\ \E found \in Ascending({j \in Jobs : Due(j)}) :
       /\ found # <<>> /\ Len(queue) + Len(found) <= MaxQueue
       /\ queue' = queue \o found
  /\ UNCHANGED <<rowVars, workerVars, troubles>>

(* A job created to go out at once, or whose schedule_time was cleared, is   *)
(* also submitted by the handler.                                            *)
Nudged(j) ==
  queue' = IF rows'[j].sched = 0 /\ Len(queue) < MaxQueue THEN Append(queue, j) ELSE queue

Rest ==
  /\ \E j \in Jobs :
       \/ \E when \in Schedule :
            \/ Create(j, when) /\ Nudged(j)
            \/ Patch(j, when) /\ (Nudged(j) \/ UNCHANGED queue)
       \/ (CancelRead(j) \/ CancelWrite(j)) /\ UNCHANGED queue
  /\ UNCHANGED <<workerVars, troubles>>

Time == (Tick \/ Midnight) /\ UNCHANGED <<queue, workerVars, troubles>>

(***************************************************************************)
(* publish_runner in worker w                                              *)
(***************************************************************************)

Goto(w, label) == pc' = [pc EXCEPT ![w] = label]

(* Take the next id; if its row is not pending any more, forget it.          *)
Take(w) ==
  /\ pc[w] = "idle" /\ queue # <<>>
  /\ queue' = Tail(queue)
  /\ IF rows[Head(queue)].status = "pending"
     THEN Goto(w, "wait") /\ cur' = [cur EXCEPT ![w] = Head(queue)]
     ELSE UNCHANGED <<pc, cur>>
  /\ UNCHANGED <<rowVars, text, verdict, rescue, troubles>>

Lock(w) ==
  /\ pc[w] = "wait" /\ LockFree(Account[cur[w]])
  /\ Goto(w, "gate")
  /\ UNCHANGED <<rowVars, queue, cur, text, verdict, rescue, troubles>>

(* account_cooldown_gate, under the lock.  The interval is drawn between the *)
(* two limits; a job that is not pending is let through to the claim.        *)
GatePass(w) ==
  /\ pc[w] = "gate"
  /\ rows[cur[w]].status # "pending" \/ Cooled(cur[w], MinInterval)
  /\ Goto(w, "claim")
  /\ UNCHANGED <<rowVars, queue, cur, text, verdict, rescue, troubles>>

GateDeny(w, interval) ==
  /\ pc[w] = "gate" /\ rows[cur[w]].status = "pending"
  /\ \E k \in Siblings(cur[w]) :
       /\ \A other \in Siblings(cur[w]) : rows[k].age <= rows[other].age
       /\ rows[k].age < interval
       /\ rows' = [rows EXCEPT ![cur[w]] = PutOff(@, interval - rows[k].age)]
  /\ Goto(w, "idle")
  /\ cur' = [cur EXCEPT ![w] = Null]
  /\ UNCHANGED <<cancels, posts, attempts, lost, queue, text, verdict, rescue, troubles>>

(* Mutant: what was submitted instead of what the row says.                  *)
TextSubmitted_m(w) == 0
TextToPublish(w) == rows[cur[w]].text

(* mark_publishing, then _in_flight.add and the load of the row.             *)
Claim(w) ==
  /\ pc[w] = "claim" /\ rows[cur[w]].status = "pending"
  /\ rows' = [rows EXCEPT ![cur[w]] = Claimed(@)]
  /\ attempts' = [attempts EXCEPT ![cur[w]] = @ + 1]
  /\ text' = [text EXCEPT ![w] = TextToPublish(w)]
  /\ Goto(w, "run")
  /\ UNCHANGED <<cancels, posts, lost, queue, cur, verdict, rescue, troubles>>

LoseClaim(w) ==
  /\ pc[w] = "claim" /\ rows[cur[w]].status # "pending"
  /\ Goto(w, "idle")
  /\ cur' = [cur EXCEPT ![w] = Null]
  /\ UNCHANGED <<rowVars, queue, text, verdict, rescue, troubles>>

(* The platform takes the note. *)
Post(w) ==
  /\ pc[w] = "run"
  /\ posts' = [posts EXCEPT ![cur[w]] = @ + 1]
  /\ Goto(w, "posted")
  /\ UNCHANGED <<rows, cancels, attempts, lost, queue, cur, text, verdict, rescue, troubles>>

(* publish_once returns, or something before it raised.                      *)
Return(w, v) ==
  /\ \/ pc[w] = "run" /\ v \in {"fail", "dead"} /\ UNCHANGED lost
     \/ pc[w] = "posted" /\ v = "ok" /\ UNCHANGED lost
     \/ pc[w] = "posted" /\ v = "fail" /\ lost' = [lost EXCEPT ![cur[w]] = @ + 1]
  /\ verdict' = [verdict EXCEPT ![w] = v]
  /\ Goto(w, "finish")
  /\ UNCHANGED <<rows, cancels, posts, attempts, queue, cur, text, rescue, troubles>>

(* The runner's finally: leave _in_flight and the account lock.              *)
Leave(w) ==
  /\ Goto(w, "idle")
  /\ cur' = [cur EXCEPT ![w] = Null]
  /\ text' = [text EXCEPT ![w] = 0]
  /\ verdict' = [verdict EXCEPT ![w] = Null]
  /\ rescue' = [rescue EXCEPT ![w] = FALSE]

(* finish reads the row and does nothing unless it is publishing; the commit *)
(* that follows is an UPDATE ... WHERE id.                                   *)
FinishRead(w) ==
  /\ pc[w] = "finish"
  /\ IF rows[cur[w]].status = "publishing"
     THEN Goto(w, "write") /\ UNCHANGED <<cur, text, verdict, rescue>>
     ELSE Leave(w)
  /\ UNCHANGED <<rowVars, queue, troubles>>

FinishWrite(w, wait) ==
  /\ pc[w] = "write"
  /\ rows' = [rows EXCEPT ![cur[w]] = Settled(@, verdict[w], @.retries, wait)]
  /\ Leave(w)
  /\ UNCHANGED <<cancels, posts, attempts, lost, queue, troubles>>

(* finish raises: the except branch calls it again with a failure; raised    *)
(* there it leaves the row publishing.                                       *)
FinishRaises(w) ==
  /\ pc[w] \in {"finish", "write"} /\ Trouble
  /\ IF rescue[w] THEN Leave(w) /\ UNCHANGED lost
     ELSE /\ lost' = [lost EXCEPT ![cur[w]] = @ + 1]
          /\ Goto(w, "finish")
          /\ verdict' = [verdict EXCEPT ![w] = "fail"]
          /\ rescue' = [rescue EXCEPT ![w] = TRUE]
          /\ UNCHANGED <<cur, text>>
  /\ UNCHANGED <<rows, cancels, posts, attempts, queue>>

(* The process dies, or stops and leaves its publish threads to end; queue,  *)
(* locks, _in_flight and open requests are gone.                             *)
Restart ==
  /\ Trouble
  /\ lost' = [j \in Jobs |-> IF \E w \in Workers : cur[w] = j /\ pc[w] \in AtWork /\ ~rescue[w]
                             THEN lost[j] + 1 ELSE lost[j]]
  /\ queue' = <<>> /\ cancels' = {}
  /\ pc' = [w \in Workers |-> "idle"]
  /\ cur' = [w \in Workers |-> Null]
  /\ text' = [w \in Workers |-> 0]
  /\ verdict' = [w \in Workers |-> Null]
  /\ rescue' = [w \in Workers |-> FALSE]
  /\ UNCHANGED <<rows, posts, attempts>>

Run(w) ==
  \/ Take(w) \/ Lock(w) \/ GatePass(w) \/ Claim(w) \/ LoseClaim(w) \/ Post(w) \/ FinishRead(w)
  \/ \E interval \in MinInterval..MaxInterval : GateDeny(w, interval)
  \/ \E v \in {"ok", "fail", "dead"} : Return(w, v)
  \/ \E wait \in RetryWaits : FinishWrite(w, wait)

Next ==
  \/ Rest \/ Time \/ Recover \/ Scan \/ Restart
  \/ \E w \in Workers : Run(w) \/ FinishRaises(w)

Spec == Init /\ [][Next]_vars

(* The poll loop polls, coroutines are scheduled, publish_once returns, time *)
(* passes.                                                                   *)
Fairness ==
  /\ WF_vars(Recover) /\ WF_vars(Scan)
  /\ WF_vars(Tick /\ UNCHANGED <<queue, workerVars, troubles>>)
  /\ WF_vars(Midnight /\ UNCHANGED <<queue, workerVars, troubles>>)
  /\ \A w \in Workers : WF_vars(Run(w))

FairSpec == Spec /\ Fairness

(***************************************************************************)
(* Properties                                                              *)
(***************************************************************************)

TypeOK ==
  /\ RowsOK
  /\ queue \in Seq(Jobs) /\ Len(queue) <= MaxQueue
  /\ pc \in [Workers -> Phases]
  /\ cur \in [Workers -> Jobs \cup {Null}]
  /\ text \in [Workers -> 0..MaxPatches]
  /\ verdict \in [Workers -> {"ok", "fail", "dead", Null}]
  /\ rescue \in [Workers -> BOOLEAN]
  /\ troubles \in 0..MaxTroubles

(* One browser per account: two publishing sessions of one account would     *)
(* kill each other's browser.                                                *)
OneSessionPerAccount ==
  \A v, w \in Workers :
    v # w /\ pc[v] \in AtWork /\ pc[w] \in AtWork => Account[cur[v]] # Account[cur[w]]

(* While a worker executes a job, nothing but an operator's cancel takes the *)
(* row away from it.                                                         *)
HeldWhilePublishing ==
  \A w \in Workers : pc[w] \in AtWork =>
    \/ rows[cur[w]].status = "publishing"
    \/ cur[w] \in Editable /\ rows[cur[w]].status = "canceled"

(* The note that appears is the one the row describes.                       *)
PostsCurrentText ==
  [][\A w \in Workers : pc[w] = "run" /\ pc'[w] = "posted" =>
        text[w] = rows[cur[w]].text]_vars

(* What the operators see of it: the column, and the jobs being executed.     *)
Promise == INSTANCE PublishPromise
  WITH status <- [j \in Jobs |-> rows[j].status], running <- InFlight

(* This deployment keeps the promise of the publish_jobs table: PublishPromise. *)
KeepsPublishPromise == Promise!Spec

(* Every job that exists is eventually published, failed or canceled.        *)
EveryJobEnds ==
  \A j \in Jobs : rows[j].status \in {"pending", "publishing"} ~> rows[j].status \in Ended
=============================================================================
