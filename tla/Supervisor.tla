----------------------------- MODULE Supervisor -----------------------------
(***************************************************************************)
(* Dispatching in the worker supervisor (app/worker.py) with the rules it   *)
(* shares with the polling endpoints (app/services/queue_status.py): one     *)
(* scan lists the work of every account, counts the browser sessions of the *)
(* last hour, and then goes through the accounts in rotation, giving each   *)
(* that has no child a batch cut down to what the session caps leave.       *)
(* Counting and every spawn await, so children end, rows change and time    *)
(* passes between the steps of a scan.                                      *)
(*                                                                         *)
(*   row[j]      status: "none", "queued", "running", "ended" with a trace  *)
(*               that sessions are counted by, "gone" without one; clock,   *)
(*               ticks until the trace leaves the window                    *)
(*   batch[a], doing[a]  what a's child has left, and what it executes      *)
(*   children    accounts with a child (self._procs)                        *)
(*   phase       "rest", "listed", "dispatch"                               *)
(*   work, recent, turn, sent  local variables of the scan: the jobs         *)
(*               listed, the sessions counted, the accounts still to be     *)
(*               visited, those given a batch                               *)
(*   rotation    self._rotation                                             *)
(*   ahead[a]    history: accounts served while a was waiting for its turn   *)
(*   kills, faults  history                                                 *)
(***************************************************************************)
EXTENDS Naturals, FiniteSets, Sequences

CONSTANTS Jobs,        \* ids in the order of created_at
          Accounts,    \* account ids
          Account,     \* job -> account
          Operated,    \* jobs with operator_id > 0
          Publishes,   \* jobs of publish_jobs; the others are in browser_jobs
          Redone,      \* jobs that recovery puts back in the queue
          MaxBatch,    \* WORKER_BATCH_PER_ACCOUNT
          MaxProcs,    \* BROWSER_CONCURRENCY
          SessionCap,  \* ACCOUNT_HOURLY_SESSION_CAP; 0 turns it off
          OperatorCap, \* ACCOUNT_HOURLY_OPERATOR_SESSION_CAP; 0 turns it off
          Window,      \* SESSION_WINDOW_SECONDS, in ticks
          MaxKills,    \* bound: processes killed
          MaxFaults,   \* bound: failed spawns and publications
          Null

ASSUME SupervisorAssumption ==
  /\ Jobs \subseteq Nat /\ IsFiniteSet(Jobs)
  /\ Accounts \subseteq Nat /\ IsFiniteSet(Accounts)
  /\ Account \in [Jobs -> Accounts]
  /\ Operated \subseteq Jobs /\ Publishes \subseteq Jobs
  /\ Redone \subseteq Jobs /\ Publishes \subseteq Redone
  /\ MaxBatch \in Nat \ {0} /\ MaxProcs \in Nat \ {0} /\ Window \in Nat \ {0}
  /\ SessionCap \in Nat /\ OperatorCap \in Nat
  /\ MaxKills \in Nat /\ MaxFaults \in Nat
  /\ Null \notin Jobs

VARIABLES row, batch, doing, children, phase, work, recent, turn, sent, rotation,
          ahead, kills, faults

childVars == <<batch, doing, children>>
scanVars == <<phase, work, recent, turn, sent, rotation>>
vars == <<row, childVars, scanVars, ahead, kills, faults>>

Statuses == {"none", "queued", "running", "ended", "gone"}
Members(s) == {s[i] : i \in DOMAIN s}
JobsOf(a) == {j \in Jobs : Account[j] = a}
Restful == [phase |-> "rest", recent |-> [a \in Accounts |-> 0]]

Init ==
  /\ row = [j \in Jobs |-> [status |-> "none", clock |-> 0]]
  /\ batch = [a \in Accounts |-> {}]
  /\ doing = [a \in Accounts |-> Null]
  /\ children = {}
  /\ phase = Restful.phase /\ recent = Restful.recent
  /\ work = {} /\ turn = <<>> /\ sent = <<>> /\ rotation = <<>>
  /\ ahead = [a \in Accounts |-> {}]
  /\ kills = 0 /\ faults = 0

(***************************************************************************)
(* The rules shared with queue_status                                      *)
(***************************************************************************)

(* Rows that count as sessions: running, or ended within the window.         *)
(* (Names ending in _m are mutants: sessions in flight are not counted, jobs  *)
(* that still wait are counted, which locks them out themselves.)            *)
IsSessionEnded_m(j) == row[j].status = "ended" /\ row[j].clock > 0
IsSessionQueued_m(j) ==
  row[j].status \in {"queued", "running"} \/ (row[j].status = "ended" /\ row[j].clock > 0)
IsSession(j) == row[j].status = "running" \/ (row[j].status = "ended" /\ row[j].clock > 0)

RecentSessions(a) == Cardinality({j \in JobsOf(a) : IsSession(j)})

(* cap_allows for a job when used sessions have been spent. *)
CapAllows(j, used) ==
  LET cap == IF j \in Operated THEN OperatorCap ELSE SessionCap
  IN cap = 0 \/ used < cap

(***************************************************************************)
(* A scan                                                                  *)
(***************************************************************************)

List ==
  /\ phase = "rest"
  /\ work' = {j \in Jobs : row[j].status = "queued"}
  /\ work' # {}
  /\ phase' = "listed"
  /\ UNCHANGED <<row, childVars, recent, turn, sent, rotation, ahead, kills, faults>>

(* _fair_order: accounts new to the rotation join at its end, and those that have    *)
(* work take turns in its order.  (The one sequence, as a set.)                      *)
Before(s, a, b) == \E i, k \in DOMAIN s : i < k /\ s[i] = a /\ s[k] = b
Lined(accounts) == {s \in [1..Cardinality(accounts) -> accounts] : Members(s) = accounts}
Joined(accounts) ==
  {rotation \o new : new \in {s \in Lined(accounts \ Members(rotation)) :
                             \A i, k \in DOMAIN s : i < k => s[i] < s[k]}}
InTurn(order, accounts) ==
  {s \in Lined(accounts) : \A i, k \in DOMAIN s : i < k => Before(order, s[i], s[k])}

(* _recent_session_counts, then _fair_order. *)
Count ==
  /\ phase = "listed" /\ phase' = "dispatch"
  /\ recent' = [a \in Accounts |-> RecentSessions(a)]
  /\ LET accounts == {Account[j] : j \in work} IN
       /\ rotation' \in Joined(accounts)
       /\ turn' \in InTurn(rotation', accounts)
  /\ UNCHANGED <<row, childVars, work, sent, ahead, kills, faults>>

(* The MaxBatch oldest of a's listed jobs, and what the caps leave of them:  *)
(* every job let through uses up one session of either cap.  (The one set that    *)
(* fits, as a set.)                                                           *)
Oldest(a) ==
  {j \in work \cap JobsOf(a) : Cardinality({k \in work \cap JobsOf(a) : k < j}) < MaxBatch}
Kept(a) ==
  {kept \in SUBSET Oldest(a) : \A j \in Oldest(a) :
     j \in kept <=> CapAllows(j, recent[a] + Cardinality({k \in kept : k < j}))}

Servable(a) == a \notin children /\ {} \notin Kept(a)
Room == Cardinality(children) < MaxProcs

(* The next account in turn that can be served. *)
IsNext(i) ==
  i \in DOMAIN turn /\ Servable(turn[i]) /\ \A k \in 1..(i - 1) : ~Servable(turn[k])

(* History: a is served; those who could be served and still wait see it. *)
Overtaken(a) ==
  [b \in Accounts |-> IF b # a /\ b \in Members(turn) /\ Servable(b) THEN ahead[b] \cup {a} ELSE {}]

(* One account is given its batch; the spawn succeeds or raises. *)
Spawn(i) ==
  /\ phase = "dispatch" /\ Room /\ IsNext(i)
  /\ LET a == turn[i] IN
       /\ \/ /\ children' = children \cup {a}
             /\ \E kept \in Kept(a) : batch' = [batch EXCEPT ![a] = kept]
             /\ UNCHANGED faults
          \/ /\ faults < MaxFaults /\ faults' = faults + 1
             /\ UNCHANGED <<children, batch>>
       /\ sent' = Append(sent, a)
       /\ ahead' = Overtaken(a)
  /\ turn' = SubSeq(turn, i + 1, Len(turn))
  /\ UNCHANGED <<row, doing, phase, work, recent, rotation, kills>>

(* Those given a batch go to the end of the rotation.  (Mutant: they stay.)  *)
RotatedNot_m == {rotation}
Rotated == {rest \o sent : rest \in InTurn(rotation, Members(rotation) \ Members(sent))}

(* Nobody can be served any more, or there is no room for another child. *)
EndScan ==
  /\ phase = "dispatch" /\ (~Room \/ \A i \in DOMAIN turn : ~Servable(turn[i]))
  /\ phase' = Restful.phase /\ recent' = Restful.recent
  /\ work' = {} /\ turn' = <<>> /\ sent' = <<>>
  /\ rotation' \in Rotated
  /\ UNCHANGED <<row, childVars, ahead, kills, faults>>

(***************************************************************************)
(* The children                                                            *)
(***************************************************************************)

(* A child takes its publish ids first, each kind in ascending order. *)
Precedes(j, k) ==
  IF (j \in Publishes) = (k \in Publishes) THEN j < k ELSE j \in Publishes
Reaches(a, j) ==
  /\ a \in children /\ doing[a] = Null
  /\ j \in batch[a] /\ \A k \in batch[a] \ {j} : Precedes(j, k)
  /\ batch' = [batch EXCEPT ![a] = @ \ {j}]

(* Claim and open the browser; a publish row carries started_at. *)
Begin(a, j) ==
  /\ Reaches(a, j) /\ row[j].status = "queued"
  /\ row' = [row EXCEPT ![j] = [status |-> "running",
                                clock |-> IF j \in Publishes THEN Window ELSE 0]]
  /\ doing' = [doing EXCEPT ![a] = j]
  /\ UNCHANGED <<children, scanVars, ahead, kills, faults>>

(* Not queued any more: the job was handed out twice. *)
Pass(a, j) ==
  /\ Reaches(a, j) /\ row[j].status # "queued"
  /\ UNCHANGED <<row, doing, children, scanVars, ahead, kills, faults>>

(* The session ends: a browser row by updated_at, a published row by          *)
(* started_at; a publication that failed clears it and is retried or not.    *)
End(a) ==
  LET j == doing[a] IN
  /\ j # Null
  /\ \/ /\ row' = [row EXCEPT ![j] = [status |-> "ended",
                                      clock |-> IF j \in Publishes THEN @.clock ELSE Window]]
        /\ UNCHANGED faults
     \/ /\ j \in Publishes /\ faults < MaxFaults /\ faults' = faults + 1
        /\ \E status \in {"queued", "gone"} :
             row' = [row EXCEPT ![j] = [status |-> status, clock |-> 0]]
  /\ doing' = [doing EXCEPT ![a] = Null]
  /\ UNCHANGED <<batch, children, scanVars, ahead, kills>>

(* _reap_child: a child that is done leaves the table of children. *)
Reap(a) ==
  /\ a \in children /\ doing[a] = Null /\ batch[a] = {}
  /\ children' = children \ {a}
  /\ UNCHANGED <<row, batch, doing, scanVars, ahead, kills, faults>>

(* The children in S are killed; rows they were executing stay running.      *)
Killed(S) ==
  /\ kills < MaxKills /\ kills' = kills + 1
  /\ children' = children \ S
  /\ batch' = [a \in Accounts |-> IF a \in S THEN {} ELSE batch[a]]
  /\ doing' = [a \in Accounts |-> IF a \in S THEN Null ELSE doing[a]]

(* The hard timeout, or a child that dies. *)
KillChild(a) ==
  /\ a \in children /\ Killed({a})
  /\ UNCHANGED <<row, scanVars, ahead, faults>>

(* The supervisor stops with its children; a new one starts from nothing.    *)
Restart ==
  /\ Killed(children)
  /\ phase' = Restful.phase /\ recent' = Restful.recent
  /\ work' = {} /\ turn' = <<>> /\ sent' = <<>> /\ rotation' = <<>>
  /\ ahead' = [a \in Accounts |-> {}]
  /\ UNCHANGED <<row, faults>>

(* Both recoveries at the start of a scan: a row whose executor is gone goes *)
(* back to the queue without a trace, or ends "outcome unknown".  A publish  *)
(* row also waits until its account has no child.                            *)
Recover(j) ==
  /\ phase = "rest"
  /\ row[j].status = "running" /\ \A a \in Accounts : doing[a] # j
  /\ j \in Publishes => Account[j] \notin children
  /\ row' = [row EXCEPT ![j] = [status |-> IF j \in Redone THEN "queued" ELSE "ended",
                                clock |-> IF j \in Redone THEN 0 ELSE Window]]
  /\ UNCHANGED <<childVars, scanVars, ahead, kills, faults>>

Submit(j) ==
  /\ row[j].status = "none"
  /\ row' = [row EXCEPT ![j] = [status |-> "queued", clock |-> 0]]
  /\ UNCHANGED <<childVars, scanVars, ahead, kills, faults>>

Less(n) == IF n = 0 THEN 0 ELSE n - 1

Tick ==
  /\ row' = [j \in Jobs |-> [row[j] EXCEPT !.clock = Less(@)]]
  /\ UNCHANGED <<childVars, scanVars, ahead, kills, faults>>

ScanStep == List \/ Count \/ EndScan \/ \E i \in 1..Cardinality(Accounts) : Spawn(i)
ChildStep(a) == End(a) \/ Reap(a) \/ \E j \in Jobs : Begin(a, j) \/ Pass(a, j)

Next ==
  \/ ScanStep \/ Restart \/ Tick
  \/ \E a \in Accounts : ChildStep(a) \/ KillChild(a)
  \/ \E j \in Jobs : Recover(j) \/ Submit(j)

Spec == Init /\ [][Next]_vars

(* The loop keeps scanning, recovery is a part of every scan, a child's      *)
(* steps return or it is killed, time passes.                               *)
Fairness ==
  /\ WF_vars(ScanStep) /\ WF_vars(Tick)
  /\ \A a \in Accounts : WF_vars(ChildStep(a))
  /\ SF_vars(\E j \in Jobs : Recover(j))

FairSpec == Spec /\ Fairness

(***************************************************************************)
(* Properties                                                              *)
(***************************************************************************)

TypeOK ==
  /\ row \in [Jobs -> [status: Statuses, clock: 0..Window]]
  /\ batch \in [Accounts -> SUBSET Jobs]
  /\ doing \in [Accounts -> Jobs \cup {Null}]
  /\ children \subseteq Accounts /\ Cardinality(children) <= MaxProcs
  /\ phase \in {"rest", "listed", "dispatch"}
  /\ work \subseteq Jobs
  /\ recent \in [Accounts -> Nat]
  /\ rotation \in Seq(Accounts) /\ turn \in Seq(Accounts) /\ sent \in Seq(Accounts)
  /\ ahead \in [Accounts -> SUBSET Accounts]
  /\ kills \in 0..MaxKills /\ faults \in 0..MaxFaults

(* Sessions of a's jobs in S that are in flight or ended within the window.  *)
Sessions(a, S) ==
  {j \in S \cap JobsOf(a) :
     row[j].status = "running" \/ (row[j].status = "ended" /\ row[j].clock > 0)}

(* The hourly caps hold up to one batch, which a child may work off between  *)
(* the count and the spawn, although every step of a scan awaits, children   *)
(* are killed and rows recovered.                                            *)
SessionsNearCap ==
  \A a \in Accounts :
    /\ SessionCap > 0 => Cardinality(Sessions(a, Jobs \ Operated)) <= SessionCap + MaxBatch
    /\ SessionCap > 0 /\ OperatorCap >= SessionCap =>
         Cardinality(Sessions(a, Jobs)) <= OperatorCap + MaxBatch

(* Fair rotation: no account is served twice while another that could be     *)
(* served waits.                                                             *)
NotOvertakenTwice ==
  [][\A a, b \in Accounts :
       b \in children' \ children /\ a # b /\ a \in Members(turn) /\ Servable(a)
         => b \notin ahead[a]]_vars

(* Whatever the caps, kills and failed spawns, no job waits for ever: as     *)
(* there are finitely many, again and again none is queued or running.       *)
QueueDrains == []<>(\A j \in Jobs : row[j].status \notin {"queued", "running"})
=============================================================================
