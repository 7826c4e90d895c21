--------------------------- MODULE PublishPromise ---------------------------
(***************************************************************************)
(* What the publish_jobs table promises to the operators who create jobs,  *)
(* whichever deployment works on it (app/publish/scheduler.py and          *)
(* app/account_worker.py): a job waits, is executed, and ends published,   *)
(* failed or canceled.  Only an execution puts a note up, and only when    *)
(* nothing is owed for the job, that is, when every earlier note of it is   *)
(* accounted for by an outcome that was lost.  A job is published when its *)
(* note is up; it is given back or given up only when nothing is owed.     *)
(*                                                                         *)
(*   status   the column                                                   *)
(*   running  jobs that somebody executes                                  *)
(*   posts, lost  notes put up; executions whose outcome was lost           *)
(***************************************************************************)
EXTENDS Naturals

CONSTANTS Jobs,
          Editable  \* jobs that operators may cancel

VARIABLES status, running, posts, lost

vars == <<status, running, posts, lost>>

Owes(j) == posts[j] > lost[j]

Init ==
  /\ status = [j \in Jobs |-> "none"]
  /\ running = {}
  /\ posts = [j \in Jobs |-> 0]
  /\ lost = [j \in Jobs |-> 0]

Create(j) ==
  /\ status[j] = "none"
  /\ status' = [status EXCEPT ![j] = "pending"]
  /\ UNCHANGED <<running, posts, lost>>

(* Whatever has become of the job meanwhile. *)
Cancel(j) ==
  /\ j \in Editable /\ status[j] # "none"
  /\ status' = [status EXCEPT ![j] = "canceled"]
  /\ UNCHANGED <<running, posts, lost>>

Start(j) ==
  /\ status[j] = "pending" /\ j \notin running
  /\ status' = [status EXCEPT ![j] = "publishing"]
  /\ running' = running \cup {j}
  /\ UNCHANGED <<posts, lost>>

Post(j) ==
  /\ j \in running /\ ~Owes(j)
  /\ posts' = [posts EXCEPT ![j] = @ + 1]
  /\ UNCHANGED <<status, running, lost>>

(* The execution's verdict reaches the row.                                  *)
Report(j, verdict) ==
  /\ j \in running
  /\ IF verdict = "published" THEN posts[j] > 0 ELSE ~Owes(j)
  /\ status' = [status EXCEPT ![j] = verdict]
  /\ running' = running \ {j}
  /\ UNCHANGED <<posts, lost>>

(* It finds that the job was canceled. *)
Withdraw(j) ==
  /\ j \in running /\ status[j] = "canceled"
  /\ running' = running \ {j}
  /\ UNCHANGED <<status, posts, lost>>

(* The outcomes of L are lost; the executions of S end and leave their rows  *)
(* as they are.                                                              *)
Lose(S, L) ==
  /\ S \cup L \subseteq running
  /\ \A j \in S \ L : ~Owes(j)
  /\ running' = running \ S
  /\ lost' = [j \in Jobs |-> IF j \in L THEN lost[j] + 1 ELSE lost[j]]
  /\ UNCHANGED <<status, posts>>

(* Rows that say publishing although nobody executes their jobs.             *)
GiveBack(S, to) ==
  /\ \A j \in S : status[j] = "publishing" /\ j \notin running /\ ~Owes(j)
  /\ status' = [j \in Jobs |-> IF j \in S THEN to ELSE status[j]]
  /\ UNCHANGED <<running, posts, lost>>

Next ==
  \/ \E j \in Jobs :
       \/ Create(j) \/ Cancel(j) \/ Start(j) \/ Post(j) \/ Withdraw(j)
       \/ \E verdict \in {"published", "failed", "pending"} : Report(j, verdict)
  \/ \E S, L \in SUBSET running : Lose(S, L)
  \/ \E S \in SUBSET Jobs, to \in {"pending", "failed"} : GiveBack(S, to)

Spec == Init /\ [][Next]_vars
=============================================================================
