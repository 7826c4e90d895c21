------------------------- MODULE BrowserJobs_proofs -------------------------
(* Theorems about BrowserJobs, for every set of jobs and processes, every    *)
(* topology of consumers and every bound; and, at the end, about Accounts,   *)
(* for any people, nicknames, imports, checks and bounds.                    *)
EXTENDS BrowserJobs, Accounts, FiniteSetTheorems, WellFoundedInduction, TLAPS

(* Every way the code rewrites a row yields a row. *)
LEMMA RowUpdates ==
  ASSUME NEW r \in Rows
  PROVE  /\ \A s \in Statuses : [r EXCEPT !.status = s] \in Rows
         /\ \A a \in 0..StaleAge : [r EXCEPT !.age = a] \in Rows
         /\ \A t \in Procs \X Nat : ClaimRow(r, t) \in Rows
         /\ \A v \in {"ok", "err"} : FinishRow(r, v) \in Rows
         /\ \A j \in Jobs : RecoverRow(j, r) \in Rows
<1> USE LedgerAssumption DEF Rows, Statuses, Terminal, Results
<1>1. \A s \in Statuses : [r EXCEPT !.status = s] \in Rows
  OBVIOUS
<1>2. \A a \in 0..StaleAge : [r EXCEPT !.age = a] \in Rows
  OBVIOUS
<1>3. \A t \in Procs \X Nat : ClaimRow(r, t) \in Rows
  <2> SUFFICES ASSUME NEW t \in Procs \X Nat PROVE ClaimRow(r, t) \in Rows
    OBVIOUS
  <2> HIDE DEF Rows
  <2> DEFINE r1 == [r EXCEPT !.status = "running"]
             r2 == [r1 EXCEPT !.owner = t]
  <2>1. r1 \in Rows
    BY <1>1
  <2>2. r2 \in Rows
    <3> HIDE DEF r1
    <3>1. QED
      BY <2>1 DEF Rows
  <2>3. [r2 EXCEPT !.age = 0] \in Rows
    <3> HIDE DEF r2
    <3>1. QED
      BY <2>2 DEF Rows
  <2>4. QED
    BY <2>3 DEF ClaimRow
<1>4. \A v \in {"ok", "err"} : FinishRow(r, v) \in Rows
  BY DEF FinishRow
<1>5. \A j \in Jobs : RecoverRow(j, r) \in Rows
  <2> SUFFICES ASSUME NEW j \in Jobs PROVE RecoverRow(j, r) \in Rows
    OBVIOUS
  <2>1. CASE j \notin Idempotent
    BY <2>1 DEF RecoverRow
  <2>2. CASE j \in Idempotent
    <3> HIDE DEF Rows
    <3> DEFINE r1 == [r EXCEPT !.status = "queued"]
               r2 == [r1 EXCEPT !.owner = NoTag]
               r3 == [r2 EXCEPT !.age = 0]
    <3>1. r1 \in Rows
      BY <1>1
    <3>2. r2 \in Rows
      <4> HIDE DEF r1
      <4>1. QED
        BY <3>1 DEF Rows
    <3>3. r3 \in Rows
      <4> HIDE DEF r2
      <4>1. QED
        BY <3>2 DEF Rows
    <3>4. [r3 EXCEPT !.result = IF snap[j] = "none" THEN r3.result ELSE "none"] \in Rows
      <4> HIDE DEF r3
      <4>1. QED
        BY <3>3 DEF Rows
    <3>5. r3.result = r.result
      BY DEF Rows
    <3>6. QED
      BY <2>2, <3>4, <3>5 DEF RecoverRow
  <2>3. QED
    BY <2>1, <2>2
<1>6. QED
  BY <1>1, <1>2, <1>3, <1>4, <1>5

(* The ledger and its executors keep their types. *)
THEOREM LedgerTypes == Spec => []TypeOK
<1> USE LedgerAssumption
<1>1. Init => TypeOK
  BY DEF Init, TypeOK, Rows, Statuses, Results, Phases, NoSnap, Terminal
<1>2. TypeOK /\ [Next]_vars => TypeOK'
  <2> SUFFICES ASSUME TypeOK, [Next]_vars PROVE TypeOK'
    OBVIOUS
  <2> USE DEF TypeOK, Phases
  <2>0. /\ "queued" \in Statuses /\ 0 \in 0..StaleAge
        /\ \A i \in Jobs : row[i] \in Rows
    BY DEF Statuses
  <2>1. ASSUME NEW j \in Jobs, Enqueue(j) PROVE TypeOK'
    <3>1. [row[j] EXCEPT !.status = "queued"] \in Rows
      BY <2>0, RowUpdates
    <3>2. QED
      BY <2>1, <3>1 DEF Enqueue
  <2>2. ASSUME NEW p \in Procs, NEW batch \in SUBSET Jobs, Dispatch(p, batch)
        PROVE TypeOK'
    BY <2>2 DEF Dispatch
  <2>3. ASSUME NEW p \in Procs, NEW j \in Jobs, Claim(p, j) PROVE TypeOK'
    <3>1. ClaimRow(row[j], Tag(p)) \in Rows
      <4>1. Tag(p) \in Procs \X Nat
        BY DEF Tag
      <4>2. QED
        BY <2>0, <4>1, RowUpdates
    <3>2. QED
      BY <2>3, <3>1 DEF Claim, Reaches
  <2>14. ASSUME NEW p \in Procs, NEW j \in Jobs, LoseClaim(p, j) PROVE TypeOK'
    BY <2>14 DEF LoseClaim, Reaches
  <2>4. ASSUME NEW p \in Procs, NEW j \in Jobs, Execute(p, j) PROVE TypeOK'
    BY <2>4 DEF Execute
  <2>5. ASSUME NEW p \in Procs, NEW j \in Jobs, Finish(p, j) PROVE TypeOK'
    <3>1. FinishRow(row[j], exec[p][j]) \in Rows
      BY <2>0, <2>5, RowUpdates DEF Finish
    <3>2. row' \in [Jobs -> Rows]
      BY <2>5, <3>1 DEF Finish
    <3>3. QED
      BY <2>5, <3>2 DEF Finish
  <2>6. ASSUME NEW p \in Procs, NEW j \in Jobs, FinishRaises(p, j) PROVE TypeOK'
    BY <2>6, LedgerAssumption DEF FinishRaises
  <2>7. ASSUME NEW p \in Procs, NEW j \in Jobs, Heartbeat(p, j) PROVE TypeOK'
    <3>1. [row[j] EXCEPT !.age = 0] \in Rows
      BY <2>0, RowUpdates, LedgerAssumption
    <3>2. QED
      BY <2>7, <3>1 DEF Heartbeat
  <2>8. ASSUME NEW p \in Procs, Crash(p) PROVE TypeOK'
    BY <2>8, LedgerAssumption DEF Crash, NoSnap
  <2>9. CASE Tick
    <3>1. ASSUME NEW j \in Jobs, row[j].age < StaleAge
          PROVE  [row[j] EXCEPT !.age = @ + 1] \in Rows
      <4>1. row[j].age + 1 \in 0..StaleAge
        BY <2>0, <3>1, LedgerAssumption DEF Rows
      <4>2. QED
        BY <2>0, <4>1, RowUpdates
    <3>2. QED
      BY <2>0, <2>9, <3>1 DEF Tick
  <2>10. CASE RecoverSelect
    BY <2>0, <2>10 DEF RecoverSelect, Rows
  <2>11. CASE RecoverFlush
    BY <2>0, <2>11, RowUpdates DEF RecoverFlush, NoSnap
  <2>12. CASE UNCHANGED vars
    BY <2>12 DEF vars
  <2>13. QED
    BY <2>1, <2>2, <2>3, <2>4, <2>5, <2>6, <2>7, <2>8, <2>9, <2>10, <2>11, <2>12, <2>14
       DEF Next
<1>3. QED
  BY <1>1, <1>2, PTL DEF Spec

(* A job that is not idempotent has been started only if it has left the     *)
(* queue, and it never comes back to it; an "unknown" outcome is always      *)
(* that of a non-idempotent job in state error.                             *)
OnceInv ==
  /\ \A j \in Jobs \ Idempotent :
       /\ starts[j] <= 1
       /\ row[j].status \in {"none", "queued"} => starts[j] = 0
  /\ \A j \in Jobs :
       row[j].result = "unknown" => j \notin Idempotent /\ row[j].status = "error"

LEMMA OnceInductive == TypeOK /\ OnceInv /\ [Next]_vars => OnceInv'
<1> USE LedgerAssumption
<1> SUFFICES ASSUME TypeOK, OnceInv, [Next]_vars PROVE OnceInv'
  OBVIOUS
<1> USE DEF TypeOK, OnceInv, Rows, Statuses, Results, Phases, Terminal
<1>1. ASSUME NEW j \in Jobs, Enqueue(j) PROVE OnceInv'
  BY <1>1 DEF Enqueue
<1>2. ASSUME NEW p \in Procs, NEW batch \in SUBSET Jobs, Dispatch(p, batch)
      PROVE OnceInv'
  BY <1>2 DEF Dispatch
<1>3. ASSUME NEW p \in Procs, NEW j \in Jobs, Claim(p, j) PROVE OnceInv'
  <2>1. /\ ClaimRow(row[j], Tag(p)).status = "running"
        /\ ClaimRow(row[j], Tag(p)).result = row[j].result
    BY DEF ClaimRow
  <2>2. QED
    BY <1>3, <2>1 DEF Claim, CanClaim
<1>14. ASSUME NEW p \in Procs, NEW j \in Jobs, LoseClaim(p, j) PROVE OnceInv'
  BY <1>14 DEF LoseClaim
<1>4. ASSUME NEW p \in Procs, NEW j \in Jobs, Execute(p, j) PROVE OnceInv'
  BY <1>4 DEF Execute
<1>5. ASSUME NEW p \in Procs, NEW j \in Jobs, Finish(p, j) PROVE OnceInv'
  BY <1>5 DEF Finish, FinishGuard, FinishRow
<1>6. ASSUME NEW p \in Procs, NEW j \in Jobs, FinishRaises(p, j) PROVE OnceInv'
  BY <1>6 DEF FinishRaises
<1>7. ASSUME NEW p \in Procs, NEW j \in Jobs, Heartbeat(p, j) PROVE OnceInv'
  BY <1>7 DEF Heartbeat
<1>8. ASSUME NEW p \in Procs, Crash(p) PROVE OnceInv'
  BY <1>8 DEF Crash
<1>9. CASE Tick
  BY <1>9 DEF Tick
<1>10. CASE RecoverSelect
  BY <1>10 DEF RecoverSelect
<1>11. CASE RecoverFlush
  <2>1. ASSUME NEW j \in Jobs
        PROVE  /\ j \notin Idempotent => /\ RecoverRow(j, row[j]).status = "error"
                                        /\ RecoverRow(j, row[j]).result = "unknown"
               /\ j \in Idempotent => RecoverRow(j, row[j]).result # "unknown"
    BY DEF RecoverRow
  <2>2. QED
    BY <1>11, <2>1 DEF RecoverFlush
<1>12. CASE UNCHANGED vars
  BY <1>12 DEF vars
<1>13. QED
  BY <1>1, <1>2, <1>3, <1>4, <1>5, <1>6, <1>7, <1>8, <1>9, <1>10, <1>11, <1>12, <1>14
     DEF Next

LEMMA OnceAlways == Spec => []OnceInv
<1>1. Init => OnceInv
  BY DEF Init, OnceInv
<1>2. QED
  BY <1>1, OnceInductive, LedgerTypes, PTL DEF Spec

(* Deletions and paid generations are executed at most once: recover_stale   *)
(* never puts a non-idempotent job back into the queue, and every execution  *)
(* goes through the optimistic claim.                                       *)
THEOREM AtMostOnce == Spec => []NonIdempotentOnce
<1>1. OnceInv => NonIdempotentOnce
  BY DEF OnceInv, NonIdempotentOnce
<1>2. QED
  BY <1>1, OnceAlways, PTL

(* The "outcome unknown" verdict of recovery is final. *)
THEOREM UnknownIsFinal == Spec => UnknownIsKept
<1> DEFINE Kept == \A j \in Jobs : row[j].result = "unknown" =>
                     row'[j].result = "unknown" /\ row'[j].status = "error"
<1>1. TypeOK /\ OnceInv /\ [Next]_vars => [Kept]_vars
  <2> SUFFICES ASSUME TypeOK, OnceInv, Next PROVE Kept
    OBVIOUS
  <2> SUFFICES ASSUME NEW j \in Jobs, row[j].result = "unknown"
               PROVE  row'[j].result = "unknown" /\ row'[j].status = "error"
    OBVIOUS
  <2>0. row[j].status = "error" /\ j \notin Idempotent
    BY DEF OnceInv
  <2> USE DEF TypeOK, Rows
  <2>1. ASSUME NEW i \in Jobs, Enqueue(i)
        PROVE  row'[j].result = "unknown" /\ row'[j].status = "error"
    BY <2>0, <2>1 DEF Enqueue
  <2>2. ASSUME NEW p \in Procs, NEW i \in Jobs,
               \/ Claim(p, i) \/ Execute(p, i) \/ Finish(p, i)
               \/ FinishRaises(p, i) \/ Heartbeat(p, i)
        PROVE  row'[j].result = "unknown" /\ row'[j].status = "error"
    BY <2>0, <2>2
       DEF Claim, CanClaim, Execute, Finish, FinishGuard, FinishRaises, Heartbeat
  <2>3. CASE RecoverFlush
    BY <2>0, <2>3 DEF RecoverFlush, RecoverRow
  <2>4. CASE Tick
    BY <2>0, <2>4 DEF Tick
  <2>5. QED
    BY <2>0, <2>1, <2>2, <2>3, <2>4 DEF Next, Dispatch, LoseClaim, Crash, RecoverSelect
<1>2. QED
  BY <1>1, LedgerTypes, OnceAlways, PTL DEF Spec, UnknownIsKept

(* With reliable heartbeats a live execution owns a running, fresh row that  *)
(* recovery does not have in its hands.                                     *)
LiveInv ==
  /\ \A p \in Procs, j \in Jobs : Holds(p, j) =>
       /\ row[j].status = "running" /\ row[j].owner = Tag(p)
       /\ row[j].age < StaleAge /\ ~InSnap(j)
  /\ \A j \in Jobs : InSnap(j) => row[j].status = "running"

LEMMA LiveInductive ==
  ASSUME HeartbeatsReliable
  PROVE  TypeOK /\ LiveInv /\ [Next]_vars => LiveInv'
<1> USE LedgerAssumption
<1> SUFFICES ASSUME TypeOK, LiveInv, [Next]_vars PROVE LiveInv'
  OBVIOUS
<1> USE DEF TypeOK, LiveInv, Rows, Phases, Holds, InSnap, Tag
<1>1. ASSUME NEW j \in Jobs, Enqueue(j) PROVE LiveInv'
  BY <1>1 DEF Enqueue
<1>2. ASSUME NEW p \in Procs, NEW batch \in SUBSET Jobs, Dispatch(p, batch)
      PROVE LiveInv'
  BY <1>2 DEF Dispatch
<1>3. ASSUME NEW p \in Procs, NEW j \in Jobs, Claim(p, j) PROVE LiveInv'
  <2>1. /\ ClaimRow(row[j], Tag(p)).status = "running"
        /\ ClaimRow(row[j], Tag(p)).owner = Tag(p)
        /\ ClaimRow(row[j], Tag(p)).age = 0
    BY DEF ClaimRow
  <2>2. /\ row[j].status = "queued"
        /\ row'[j] = ClaimRow(row[j], Tag(p))
        /\ \A i \in Jobs \ {j} : row'[i] = row[i]
        /\ \A q \in Procs, i \in Jobs :
             exec'[q][i] = IF q = p /\ i = j THEN "exec" ELSE exec[q][i]
        /\ epoch' = epoch /\ snap' = snap
    BY <1>3 DEF Claim, CanClaim
  <2>3. /\ \A q \in Procs : ~Holds(q, j)
        /\ ~InSnap(j)
    BY <2>2
  <2>4. ASSUME NEW q \in Procs, NEW i \in Jobs, Holds(q, i)'
        PROVE  /\ row'[i].status = "running" /\ row'[i].owner = Tag(q)'
               /\ row'[i].age < StaleAge /\ ~InSnap(i)'
    <3>1. CASE i = j
      <4>1. q = p
        BY <2>2, <2>3, <2>4, <3>1
      <4>2. 0 < StaleAge
        OBVIOUS
      <4>3. QED
        BY <2>1, <2>2, <2>3, <3>1, <4>1, <4>2
    <3>2. CASE i # j
      BY <2>2, <2>4, <3>2
    <3>3. QED
      BY <3>1, <3>2
  <2>5. ASSUME NEW i \in Jobs, InSnap(i)' PROVE row'[i].status = "running"
    BY <2>2, <2>3, <2>5
  <2>6. QED
    BY <2>4, <2>5
<1>14. ASSUME NEW p \in Procs, NEW j \in Jobs, LoseClaim(p, j) PROVE LiveInv'
  BY <1>14 DEF LoseClaim
<1>4. ASSUME NEW p \in Procs, NEW j \in Jobs, Execute(p, j) PROVE LiveInv'
  BY <1>4 DEF Execute
<1>5. ASSUME NEW p \in Procs, NEW j \in Jobs, Finish(p, j) PROVE LiveInv'
  BY <1>5 DEF Finish, FinishGuard, FinishRow
<1>6. ASSUME NEW p \in Procs, NEW j \in Jobs, FinishRaises(p, j) PROVE LiveInv'
  BY <1>6 DEF FinishRaises
<1>7. ASSUME NEW p \in Procs, NEW j \in Jobs, Heartbeat(p, j) PROVE LiveInv'
  BY <1>7 DEF Heartbeat
<1>8. ASSUME NEW p \in Procs, Crash(p) PROVE LiveInv'
  BY <1>8 DEF Crash, NoSnap
<1>9. CASE Tick
  BY <1>9 DEF Tick
<1>10. CASE RecoverSelect
  BY <1>10 DEF RecoverSelect, Stale
<1>11. CASE RecoverFlush
  BY <1>11 DEF RecoverFlush, NoSnap
<1>12. CASE UNCHANGED vars
  BY <1>12 DEF vars
<1>13. QED
  BY <1>1, <1>2, <1>3, <1>4, <1>5, <1>6, <1>7, <1>8, <1>9, <1>10, <1>11, <1>12, <1>14
     DEF Next

LEMMA LiveAlways == ASSUME HeartbeatsReliable PROVE Spec => []LiveInv
<1>1. Init => LiveInv
  BY DEF Init, LiveInv, Holds, InSnap, NoSnap
<1>2. QED
  BY <1>1, LiveInductive, LedgerTypes, PTL DEF Spec

(* No job is ever in two live processes and recovery never takes a job from  *)
(* a live one, as long as heartbeats get through.                           *)
THEOREM ExecutionIsSole == ASSUME HeartbeatsReliable PROVE Spec => []SoleExecution
<1>1. LiveInv => SoleExecution
  BY DEF LiveInv, SoleExecution, Tag
<1>2. QED
  BY <1>1, LiveAlways, PTL

(* ... and then no terminal state is ever overwritten. *)
THEOREM TerminalIsStable == ASSUME HeartbeatsReliable PROVE Spec => TerminalStable
<1> DEFINE Stable == \A j \in Jobs : row[j].status \in Terminal =>
              row'[j].status = row[j].status /\ row'[j].result = row[j].result
<1>1. TypeOK /\ LiveInv /\ [Next]_vars => [Stable]_vars
  <2> SUFFICES ASSUME TypeOK, LiveInv, Next PROVE Stable
    OBVIOUS
  <2> SUFFICES ASSUME NEW j \in Jobs, row[j].status \in Terminal
      PROVE row'[j].status = row[j].status /\ row'[j].result = row[j].result
    OBVIOUS
  <2> USE DEF TypeOK, Rows, Terminal
  <2>1. ASSUME NEW i \in Jobs, Enqueue(i)
        PROVE row'[j].status = row[j].status /\ row'[j].result = row[j].result
    BY <2>1 DEF Enqueue
  <2>2. ASSUME NEW p \in Procs, NEW i \in Jobs, Claim(p, i)
        PROVE row'[j].status = row[j].status /\ row'[j].result = row[j].result
    BY <2>2 DEF Claim, CanClaim
  <2>6. ASSUME NEW p \in Procs, NEW i \in Jobs, Finish(p, i)
        PROVE row'[j].status = row[j].status /\ row'[j].result = row[j].result
    BY <2>6 DEF Finish, FinishGuard
  <2>7. ASSUME NEW p \in Procs, NEW i \in Jobs, Heartbeat(p, i)
        PROVE row'[j].status = row[j].status /\ row'[j].result = row[j].result
    BY <2>7 DEF Heartbeat
  <2>8. ASSUME NEW p \in Procs, NEW i \in Jobs, Execute(p, i) \/ FinishRaises(p, i)
        PROVE row'[j].status = row[j].status /\ row'[j].result = row[j].result
    BY <2>8 DEF Execute, FinishRaises
  <2>3. CASE RecoverFlush
    BY <2>3 DEF RecoverFlush, LiveInv
  <2>4. CASE Tick
    BY <2>4 DEF Tick
  <2>5. QED
    BY <2>1, <2>2, <2>3, <2>4, <2>6, <2>7, <2>8 DEF Next, Dispatch, LoseClaim, Crash, RecoverSelect
<1>2. QED
  BY <1>1, LedgerTypes, LiveAlways, PTL DEF Spec, TerminalStable

(* How the ledger's rows and executors show as the promise's state. *)
Shown == [j \in Jobs |-> PromiseState(j)]
Held == [j \in Jobs |-> PromiseHolder(j)]

(* Whoever holds a job owns its row, so there is one holder at most.          *)
LEMMA HolderIsTheOwner ==
  ASSUME LiveInv, NEW j \in Jobs
  PROVE  /\ \A p \in Procs : Holds(p, j) => PromiseHolder(j) = p
         /\ (\A p \in Procs : ~Holds(p, j)) => PromiseHolder(j) = NoTag
<1>1. \A p, q \in Procs : Holds(p, j) /\ Holds(q, j) => p = q
  BY DEF LiveInv, Tag
<1>2. QED
  BY <1>1 DEF PromiseHolder

(* A step that leaves a job's status, its outcome and its executors alone     *)
(* leaves alone what the promise says of it.                                 *)
LEMMA SameShown ==
  ASSUME NEW j \in Jobs, row'[j].status = row[j].status, row'[j].result = row[j].result
  PROVE  PromiseState(j)' = PromiseState(j)
BY DEF PromiseState

LEMMA SameHeld ==
  ASSUME NEW j \in Jobs, \A p \in Procs : Holds(p, j)' <=> Holds(p, j)
  PROVE  PromiseHolder(j)' = PromiseHolder(j)
<1> DEFINE H(p) == Holds(p, j)  K(p) == Holds(p, j)'
<1>1. (\E p \in Procs : H(p)) <=> (\E p \in Procs : K(p))
  OBVIOUS
<1>2. (CHOOSE p \in Procs : H(p)) = (CHOOSE p \in Procs : K(p))
  OBVIOUS
<1>3. QED
  BY <1>1, <1>2 DEF PromiseHolder

(* Each step of the ledger is a step of the promise, or changes nothing that   *)
(* the promise speaks of.                                                    *)
LEMMA PromiseSteps ==
  ASSUME TypeOK, LiveInv, LiveInv', [Next]_vars
  PROVE  [Promise!Next]_(Promise!vars)
<1> USE LedgerAssumption
<1> DEFINE Goal == \/ Promise!Next
                   \/ Shown' = Shown /\ Held' = Held
<1> SUFFICES Goal
  BY DEF Promise!vars, Shown, Held
<1> USE DEF TypeOK, Rows, Statuses, Results, Phases, Terminal
<1>0. ASSUME exec' = exec PROVE Held' = Held
  BY <1>0, SameHeld DEF Held, Holds
<1>1. ASSUME NEW j \in Jobs, Enqueue(j) PROVE Goal
  <2>1. /\ row[j].status = "none" /\ row'[j].status = "queued"
        /\ \A i \in Jobs \ {j} : row'[i] = row[i]
    BY <1>1 DEF Enqueue
  <2>2. PromiseState(j) = "absent" /\ PromiseState(j)' = "waiting"
    BY <2>1 DEF PromiseState
  <2>3. \A i \in Jobs \ {j} : PromiseState(i)' = PromiseState(i)
    BY <2>1, SameShown
  <2>4. Shown' = [Shown EXCEPT ![j] = "waiting"] /\ Shown[j] = "absent"
    BY <2>2, <2>3 DEF Shown
  <2>5. Held' = Held
    BY <1>0, <1>1 DEF Enqueue
  <2>6. Promise!Submit(j)
    BY <2>4, <2>5 DEF Promise!Submit, Shown, Held
  <2>7. QED
    BY <2>6 DEF Promise!Next
<1>2. ASSUME NEW p \in Procs, NEW j \in Jobs, Claim(p, j) PROVE Goal
  <2>1. /\ row[j].status = "queued" /\ row'[j].status = "running"
        /\ \A i \in Jobs \ {j} : row'[i] = row[i]
        /\ \A q \in Procs, i \in Jobs :
             exec'[q][i] = IF q = p /\ i = j THEN "exec" ELSE exec[q][i]
    BY <1>2 DEF Claim, CanClaim, ClaimRow
  <2>2. PromiseState(j) = "waiting" /\ PromiseState(j)' = "held"
    BY <2>1 DEF PromiseState
  <2>3. \A i \in Jobs \ {j} : PromiseState(i)' = PromiseState(i)
    BY <2>1, SameShown
  <2>4. \A i \in Jobs \ {j} : PromiseHolder(i)' = PromiseHolder(i)
    <3>1. \A i \in Jobs \ {j}, q \in Procs : Holds(q, i)' <=> Holds(q, i)
      BY <2>1 DEF Holds
    <3>2. QED
      BY <3>1, SameHeld
  <2>5. PromiseHolder(j)' = p
    <3>1. Holds(p, j)'
      BY <2>1 DEF Holds
    <3>2. \A q \in Procs : Holds(q, j)' => q = p
      BY <2>1 DEF LiveInv, Holds
    <3>3. QED
      BY <3>1, <3>2 DEF PromiseHolder
  <2>6. /\ Shown' = [Shown EXCEPT ![j] = "held"] /\ Shown[j] = "waiting"
        /\ Held' = [Held EXCEPT ![j] = p]
    BY <2>2, <2>3, <2>4, <2>5 DEF Shown, Held
  <2>7. Promise!Take(j, p)
    BY <2>6 DEF Promise!Take, Shown, Held
  <2>8. QED
    BY <2>7 DEF Promise!Next
<1>3. ASSUME NEW p \in Procs, NEW j \in Jobs, Finish(p, j) PROVE Goal
  <2>1. Holds(p, j) /\ FinishGuard(p, j)
    BY <1>3 DEF Finish, FinishGuard, Holds, LiveInv
  <2>2. /\ row[j].status = "running"
        /\ row'[j] = FinishRow(row[j], exec[p][j])
        /\ \A i \in Jobs \ {j} : row'[i] = row[i]
        /\ \A q \in Procs, i \in Jobs :
             exec'[q][i] = IF q = p /\ i = j THEN "idle" ELSE exec[q][i]
        /\ exec[p][j] \in {"ok", "err"}
    BY <1>3, <2>1 DEF Finish, FinishGuard
  <2>3. PICK end \in {"done", "failed"} : PromiseState(j)' = end
    BY <2>2 DEF FinishRow, PromiseState
  <2>4. PromiseState(j) = "held" /\ PromiseHolder(j) = p
    BY <2>1, <2>2, HolderIsTheOwner DEF PromiseState
  <2>5. \A i \in Jobs \ {j} : /\ PromiseState(i)' = PromiseState(i)
                              /\ PromiseHolder(i)' = PromiseHolder(i)
    BY <2>2, SameShown, SameHeld DEF Holds
  <2>6. PromiseHolder(j)' = NoTag
    BY <2>1, <2>2 DEF PromiseHolder, Holds, LiveInv, Tag
  <2>7. /\ Shown' = [Shown EXCEPT ![j] = end] /\ Shown[j] = "held"
        /\ Held' = [Held EXCEPT ![j] = NoTag] /\ Held[j] # NoTag
    BY <2>3, <2>4, <2>5, <2>6 DEF Shown, Held
  <2>8. Promise!Settle(j, end)
    BY <2>7 DEF Promise!Settle, Shown, Held
  <2>9. QED
    BY <2>8 DEF Promise!Next
<1>4. ASSUME NEW S \in SUBSET Jobs, Shown' = Shown,
             \A j \in S : /\ PromiseState(j) = "held"
                          /\ \A p \in Procs : ~Holds(p, j)',
             \A j \in Jobs \ S, p \in Procs : Holds(p, j)' <=> Holds(p, j)
      PROVE  Goal
  <2>1. \A j \in Jobs : PromiseHolder(j)' = IF j \in S THEN NoTag ELSE PromiseHolder(j)
    BY <1>4, SameHeld DEF PromiseHolder
  <2>2. Promise!Vanish(S)
    BY <1>4, <2>1 DEF Promise!Vanish, Shown, Held
  <2>3. QED
    BY <2>2 DEF Promise!Next
<1>5. ASSUME NEW p \in Procs, NEW j \in Jobs, FinishRaises(p, j) PROVE Goal
  <2>1. /\ Shown' = Shown /\ Holds(p, j)
        /\ \A q \in Procs, i \in Jobs : <<q, i>> # <<p, j>> => exec'[q][i] = exec[q][i]
    BY <1>5 DEF FinishRaises, Shown, PromiseState, Holds
  <2>2. /\ PromiseState(j) = "held"
        /\ \A q \in Procs : Holds(q, j) => q = p
    BY <2>1 DEF LiveInv, PromiseState, Tag
  <2>3. CASE Holds(p, j)'
    <3>1. \A i \in Jobs, q \in Procs : Holds(q, i)' <=> Holds(q, i)
      BY <2>1, <2>3 DEF Holds
    <3>2. Held' = Held
      BY <3>1, SameHeld DEF Held
    <3>3. QED
      BY <2>1, <3>2
  <2>4. CASE ~Holds(p, j)'
    <3>1. \A q \in Procs : ~Holds(q, j)'
      BY <2>1, <2>2, <2>4 DEF Holds
    <3>2. \A i \in Jobs \ {j}, q \in Procs : Holds(q, i)' <=> Holds(q, i)
      BY <2>1 DEF Holds
    <3> DEFINE S == {j}
    <3>3. /\ S \in SUBSET Jobs
          /\ \A i \in S : PromiseState(i) = "held" /\ \A q \in Procs : ~Holds(q, i)'
          /\ \A i \in Jobs \ S, q \in Procs : Holds(q, i)' <=> Holds(q, i)
      BY <2>2, <3>1, <3>2
    <3> HIDE DEF S
    <3>4. QED
      BY <1>4, <2>1, <3>3
  <2>5. QED
    BY <2>3, <2>4
<1>6. ASSUME NEW p \in Procs, Crash(p) PROVE Goal
  <2> DEFINE S == {j \in Jobs : Holds(p, j)}
  <2>1. /\ Shown' = Shown
        /\ \A q \in Procs, i \in Jobs :
             exec'[q][i] = IF q = p THEN "idle" ELSE exec[q][i]
    BY <1>6 DEF Crash, Shown, PromiseState
  <2>2. \A j \in S : /\ PromiseState(j) = "held"
                     /\ \A q \in Procs : ~Holds(q, j)'
    BY <2>1 DEF LiveInv, PromiseState, Holds, Tag
  <2>3. \A j \in Jobs \ S, q \in Procs : Holds(q, j)' <=> Holds(q, j)
    BY <2>1 DEF Holds
  <2>4. QED
    BY <1>4, <2>1, <2>2, <2>3
<1>7. CASE RecoverFlush
  <2> DEFINE S == {j \in Jobs : InSnap(j)}
  <2>1. /\ \A j \in S : /\ row[j].status = "running" /\ row'[j] = RecoverRow(j, row[j])
                        /\ \A p \in Procs : ~Holds(p, j)
        /\ \A j \in Jobs \ S : row'[j] = row[j]
        /\ Held' = Held
    BY <1>0, <1>7 DEF RecoverFlush, LiveInv
  <2>2. \A j \in S : /\ PromiseState(j) = "held" /\ PromiseHolder(j) = NoTag
                     /\ PromiseState(j)' = IF j \in Idempotent THEN "waiting" ELSE "unknown"
    <3> SUFFICES ASSUME NEW j \in S
                 PROVE  /\ PromiseState(j) = "held" /\ PromiseHolder(j) = NoTag
                        /\ PromiseState(j)' = IF j \in Idempotent THEN "waiting" ELSE "unknown"
      OBVIOUS
    <3>1. PromiseState(j) = "held" /\ PromiseHolder(j) = NoTag
      BY <2>1 DEF PromiseState, PromiseHolder
    <3>2. CASE j \in Idempotent
      <4>1. row'[j].status = "queued"
        BY <2>1, <3>2 DEF RecoverRow
      <4>2. QED
        BY <3>1, <3>2, <4>1 DEF PromiseState
    <3>3. CASE j \notin Idempotent
      <4>1. row'[j] = [row[j] EXCEPT !.status = "error", !.result = "unknown"]
        BY <2>1, <3>3 DEF RecoverRow
      <4>2. row'[j].status = "error" /\ row'[j].result = "unknown"
        BY <4>1
      <4>3. QED
        BY <3>1, <3>3, <4>2 DEF PromiseState
    <3>4. QED
      BY <3>2, <3>3
  <2>3. \A j \in Jobs \ S : PromiseState(j)' = PromiseState(j)
    BY <2>1, SameShown
  <2>4. Promise!GiveUp(S)
    BY <2>1, <2>2, <2>3 DEF Promise!GiveUp, Shown, Held
  <2>5. QED
    BY <2>4 DEF Promise!Next
<1>8. ASSUME exec' = exec,
             \A j \in Jobs : row'[j].status = row[j].status /\ row'[j].result = row[j].result
      PROVE  Goal
  BY <1>0, <1>8, SameShown DEF Shown
<1>9. ASSUME NEW p \in Procs, NEW j \in Jobs, Heartbeat(p, j) PROVE Goal
  BY <1>8, <1>9 DEF Heartbeat
<1>10. CASE Tick
  BY <1>8, <1>10 DEF Tick
<1>11. ASSUME NEW p \in Procs, NEW j \in Jobs, Execute(p, j) PROVE Goal
  <2>1. /\ Shown' = Shown
        /\ \A q \in Procs, i \in Jobs : Holds(q, i)' <=> Holds(q, i)
    BY <1>11 DEF Execute, Shown, PromiseState, Holds
  <2>2. QED
    BY <2>1, SameHeld DEF Held
<1>12. CASE UNCHANGED <<row, exec>>
  BY <1>8, <1>12
<1>13. QED
  BY <1>1, <1>2, <1>3, <1>5, <1>6, <1>7, <1>9, <1>10, <1>11, <1>12
     DEF Next, vars, Dispatch, LoseClaim, RecoverSelect

(* With reliable heartbeats the ledger implements its promise: optimistic     *)
(* claims, guarded finishes, crashes and the two-step recovery show as one     *)
(* holder per job who settles it or vanishes, idempotent jobs going back to   *)
(* waiting and the others ending "unknown".                                  *)
THEOREM LedgerKeepsPromise == ASSUME HeartbeatsReliable PROVE Spec => KeepsPromise
<1>1. Init => Promise!Init
  BY DEF Init, Promise!Init, PromiseState, PromiseHolder, Holds
<1>2. TypeOK /\ LiveInv /\ LiveInv' /\ [Next]_vars => [Promise!Next]_(Promise!vars)
  BY PromiseSteps
<1>3. QED
  BY <1>1, <1>2, LedgerTypes, LiveAlways, PTL DEF Spec, KeepsPromise, Promise!Spec

(***************************************************************************)
(* Accounts                                                                *)
(***************************************************************************)

(* What ids need: a set of numbers has a least one, a bounded one a greatest. *)
LEMMA Least ==
  ASSUME NEW T \in SUBSET Nat, T # {}
  PROVE  \E m \in T : \A k \in T : m <= k
<1> DEFINE below == {0..(m - 1) : m \in T}
<1>1. IsWellFoundedOn(StrictSubsetOrdering(Nat), FiniteSubsetsOf(Nat))
  BY FS_StrictSubsetOrderingWellFounded
<1>2. \A m \in T : 0..(m - 1) \in FiniteSubsetsOf(Nat)
  BY FS_Interval DEF FiniteSubsetsOf
<1>3. below \subseteq FiniteSubsetsOf(Nat) /\ below # {}
  BY <1>2
<1>4. PICK x \in below : \A y \in below : <<y, x>> \notin StrictSubsetOrdering(Nat)
  BY <1>1, <1>3, WFMin
<1>5. PICK m \in T : x = 0..(m - 1)
  BY <1>4
<1>6. ASSUME NEW k \in T, k < m PROVE FALSE
  <2>1. 0..(k - 1) \subseteq 0..(m - 1) /\ k \in 0..(m - 1) /\ k \notin 0..(k - 1)
    BY <1>6
  <2>2. <<0..(k - 1), x>> \in StrictSubsetOrdering(Nat)
    BY <1>5, <2>1 DEF StrictSubsetOrdering
  <2> QED BY <1>4, <2>2
<1> QED BY <1>5, <1>6

LEMMA FirstOf ==
  ASSUME NEW S \in SUBSET Nat, S # {}
  PROVE  Min(S) \in S
<1>1. \E m \in S : \A k \in S : m <= k
  BY Least
<1> QED BY <1>1 DEF Min

(* The ids there are have a bound, and an id that is new is above all others. *)
Bounded == \E n \in Nat : \A r \in Ids : r <= n

LEMMA LastOf ==
  ASSUME NEW S \in SUBSET Nat, S # {}, NEW n \in Nat, \A r \in S : r <= n
  PROVE  Max(S) \in S /\ \A r \in S : r <= Max(S)
<1> DEFINE Bounds == {k \in Nat : \A r \in S : r <= k}
<1>1. PICK m \in Bounds : \A k \in Bounds : m <= k
  <2>1. Bounds \in SUBSET Nat /\ Bounds # {}
    OBVIOUS
  <2> HIDE DEF Bounds
  <2> QED BY <2>1, Least
<1>2. m \in Nat /\ \A r \in S : r <= m
  OBVIOUS
<1>3. m \in S
  <2> SUFFICES ASSUME m \notin S PROVE FALSE
    OBVIOUS
  <2>1. PICK s \in S : TRUE
    OBVIOUS
  <2>2. m > 0 /\ m - 1 \in Nat
    BY <1>2, <2>1
  <2>3. ASSUME NEW r \in S PROVE r <= m - 1
    BY <1>2
  <2>4. m - 1 \in Bounds
    BY <2>2, <2>3
  <2> QED BY <1>1, <1>2, <2>4
<1>4. \E x \in S : \A y \in S : x >= y
  BY <1>2, <1>3
<1> QED BY <1>4 DEF Max

LEMMA NewIdIsNew ==
  ASSUME Bounded, Ids \subseteq Nat \ {0}
  PROVE  NewId \in Nat \ {0} /\ \A r \in Ids : r < NewId
<1>1. CASE Ids = {}
  BY <1>1 DEF NewId
<1>2. CASE Ids # {}
  <2> DEFINE S == Ids
             top == Max(S)
  <2>1. S \in SUBSET Nat /\ S # {} /\ \E n \in Nat : \A r \in S : r <= n
    BY <1>2 DEF Bounded
  <2>2. NewId = top + 1
    BY <1>2 DEF NewId
  <2> HIDE DEF S
  <2>3. top \in S /\ \A r \in S : r <= top
    BY <2>1, LastOf
  <2> HIDE DEF top
  <2>4. top + 1 \in Nat \ {0} /\ \A r \in S : r < top + 1
    BY <2>1, <2>3
  <2> QED BY <2>2, <2>4 DEF S
<1> QED BY <1>1, <1>2

(***************************************************************************)
(* The invariant                                                           *)
(***************************************************************************)

(* A request that knew the id has found or made a row that is somebody's, which its *)
(* operator may use; once it has written there, the row is the person's or mixed.   *)
ImportOK(p) ==
  LET i == imp[p]
      r == i.row
      told == i.at \in {"update", "grant", "clean", "delete", "done"} /\ UserOf(p) # Nobody
  IN
  /\ i.at \notin {"new", "failed"} => i.who \in People /\ i.stamp \in Stamps
  /\ i.at \in {"insert", "rematch"} => i.row = 0
  /\ i.at = "update" /\ UserOf(p) # Nobody => i.seen \in {Nobody, UserOf(p)}
  /\ told /\ ~i.void =>
       /\ r \in Ids /\ ~IsNobody(r)
       /\ i.at # "grant" => <<Op[p], r>> \in grants
       /\ i.at # "update" \/ i.seen # Nobody =>
            managed[r].user # Nobody /\ (managed[r].user = i.who \/ managed[r].mixed)

OwnRow(r) == managed[r].user \in {Nobody, managed[r].jar.who} \/ managed[r].mixed

IInv ==
  /\ Given /\ AccountsTypeOK /\ Bounded
  /\ \A r \in Ids : OwnRow(r)
  /\ \A p \in Imports : ImportOK(p)

(* What no step but an operator's takes from a row that is somebody's. *)
Stays(r) ==
  r \in Ids /\ ~IsNobody(r) =>
    /\ r \in Ids' /\ ~IsNobody(r)'
    /\ managed[r].mixed => managed'[r].mixed
    /\ managed[r].user # Nobody =>
         managed'[r].user # Nobody /\ (managed'[r].user = managed[r].user \/ managed'[r].mixed)
    /\ \A o : <<o, r>> \in grants => <<o, r>> \in grants'

(* A request holds whatever row it has found while that row stays. *)
LEMMA StaysOK ==
  ASSUME IInv, NEW q \in Imports, imp'[q] = imp[q], Stays(imp[q].row)
  PROVE  ImportOK(q)'
<1>1. ImportOK(q)
  BY DEF IInv
<1>2. UserOf(q)' = UserOf(q)
  BY DEF UserOf, UserIn
<1> QED BY <1>1, <1>2 DEF ImportOK, Stays

LEMMA StaysAll ==
  ASSUME IInv, \A r \in Nat : Stays(r), NEW p, \A q \in Imports \ {p} : imp'[q] = imp[q]
  PROVE  \A q \in Imports \ {p} : ImportOK(q)'
<1> SUFFICES ASSUME NEW q \in Imports \ {p} PROVE ImportOK(q)'
  OBVIOUS
<1>1. imp[q].row \in Nat
  BY DEF IInv, AccountsTypeOK, Request
<1> QED BY <1>1, StaysOK

LEMMA SameRows ==
  ASSUME IInv, managed' = managed, grants' = grants
  PROVE  /\ \A r \in Nat : Stays(r)
         /\ Bounded' /\ \A r \in Ids' : OwnRow(r)'
<1> QED BY DEF IInv, Stays, IsNobody, Bounded, OwnRow, Ids

LEMMA FaultIn == ASSUME IInv, Fault PROVE misses' \in 0..MaxMisses
BY DEF IInv, AccountsTypeOK, Given, Fault

LEMMA InitOK == Given /\ AccountsInit => IInv
<1> SUFFICES ASSUME Given, AccountsInit PROVE IInv
  OBVIOUS
<1>1. Ids = {}
  BY DEF Ids, AccountsInit
<1>2. Unused \in Request /\ Unused.at = "new" /\ Free \in Check
  BY DEF Unused, Request, Known, Free, Check
<1>3. AccountsTypeOK
  BY <1>1, <1>2 DEF AccountsInit, AccountsTypeOK, Given
<1>4. \A p \in Imports : ImportOK(p)
  BY <1>2 DEF AccountsInit, ImportOK
<1> QED BY <1>1, <1>3, <1>4 DEF IInv, Bounded

(***************************************************************************)
(* Imports                                                                 *)
(***************************************************************************)

LEMMA RequestIn ==
  ASSUME IInv, NEW p \in Imports
  PROVE  imp[p] \in Request /\ imp \in [Imports -> Request] /\ DOMAIN imp = Imports
BY DEF IInv, AccountsTypeOK

LEMMA FailedOK ==
  ASSUME IInv, NEW p \in Imports, imp' = Failed(p)
  PROVE  /\ imp' \in [Imports -> Request] /\ ImportOK(p)'
         /\ \A q \in Imports \ {p} : imp'[q] = imp[q]
<1> DEFINE f == [Unused EXCEPT !.at = "failed"]
<1>1. f \in Request /\ f.at = "failed"
  BY DEF Unused, Request, Known
<1>2. imp' = [imp EXCEPT ![p] = f]
  BY DEF Failed
<1> HIDE DEF f
<1>3. imp'[p] = f
  BY <1>2, RequestIn
<1> QED BY <1>1, <1>2, <1>3, RequestIn DEF ImportOK

LEMMA GoesOK ==
  ASSUME IInv, NEW p \in Imports, NEW i \in Request, NEW r \in Ids, Goes(p, i, r),
         i.who \in People, i.stamp \in Stamps,
         UserIn(i) # Nobody => managed[r].user \in {Nobody, UserIn(i)} /\ ~IsNobody(r),
         UNCHANGED <<managed, grants>>
  PROVE  /\ imp' \in [Imports -> Request] /\ ImportOK(p)'
         /\ \A q \in Imports \ {p} : imp'[q] = imp[q]
<1>1. CASE <<Op[p], r>> \notin grants
  <2>1. imp' = Failed(p)
    BY <1>1 DEF Goes
  <2> QED BY <2>1, FailedOK
<1>2. CASE <<Op[p], r>> \in grants
  <2> DEFINE j == [i EXCEPT !.at = "update", !.row = r, !.seen = managed[r].user]
  <2>1. imp' = [imp EXCEPT ![p] = j]
    BY <1>2 DEF Goes
  <2>2. managed[r] \in Row /\ r \in Nat
    BY DEF IInv, AccountsTypeOK
  <2>3. j \in Request
    BY <2>2 DEF Request, Row
  <2>4. /\ j.at = "update" /\ j.row = r /\ j.seen = managed[r].user /\ j.who = i.who
        /\ j.knows = i.knows /\ j.void = i.void /\ j.stamp = i.stamp
    BY DEF Request
  <2> HIDE DEF j
  <2>5. imp'[p] = j /\ imp' \in [Imports -> Request] /\ \A q \in Imports \ {p} : imp'[q] = imp[q]
    BY <2>1, <2>3, RequestIn
  <2>6. UserOf(p)' = UserIn(i)
    BY <2>4, <2>5 DEF UserOf, UserIn
  <2>7. UserIn(i) # Nobody => UserIn(i) = i.who
    BY DEF UserIn
  <2>8. ImportOK(p)'
    BY <1>2, <2>4, <2>5, <2>6, <2>7 DEF ImportOK, IsNobody, Ids
  <2> QED BY <2>5, <2>8
<1> QED BY <1>1, <1>2

(* What a step leaves out of account is as it was. *)
LEMMA Assemble ==
  ASSUME IInv, AccountsTypeOK', Bounded', \A r \in Ids' : OwnRow(r)', \A p \in Imports : ImportOK(p)'
  PROVE  IInv'
BY DEF IInv, Given, Stamps

LEMMA MatchKeeps == ASSUME IInv, NEW p \in Imports, Match(p) PROVE IInv'
<1>1. UNCHANGED <<managed, grants, check, reaper, hands, misses>>
  BY DEF Match
<1>2. /\ imp' \in [Imports -> Request] /\ ImportOK(p)'
      /\ \A q \in Imports \ {p} : imp'[q] = imp[q]
  <2>1. PICK who \in Login[p], knows \in Known :
          LET i == [Unused EXCEPT !.who = who, !.knows = knows, !.stamp = Stamp[p]] IN
          \/ Found(i) = {} /\ imp' = [imp EXCEPT ![p] = [i EXCEPT !.at = "insert"]]
          \/ \E r \in Found(i) : Goes(p, i, r)
    BY DEF Match
  <2> DEFINE i == [Unused EXCEPT !.who = who, !.knows = knows, !.stamp = Stamp[p]]
  <2>2. who \in People /\ Stamp[p] \in Stamps
    BY DEF IInv, Given, Stamps
  <2>3. i \in Request /\ i.who = who /\ i.at = "new" /\ i.knows = knows /\ i.row = 0 /\ i.void = FALSE
        /\ i.stamp = Stamp[p]
    BY <2>2 DEF Unused, Request
  <2>4. CASE Found(i) = {} /\ imp' = [imp EXCEPT ![p] = [i EXCEPT !.at = "insert"]]
    <3> DEFINE j == [i EXCEPT !.at = "insert"]
    <3>1. j \in Request /\ j.who = who /\ j.at = "insert" /\ j.row = 0 /\ j.stamp = Stamp[p]
      BY <2>3 DEF Request
    <3> HIDE DEF i, j
    <3>2. imp' = [imp EXCEPT ![p] = j]
      BY <2>4 DEF j
    <3>3. imp'[p] = j
      BY <3>2, RequestIn
    <3> QED BY <2>2, <3>1, <3>2, <3>3, RequestIn DEF ImportOK
  <2>5. ASSUME NEW r \in Found(i), Goes(p, i, r)
        PROVE  /\ imp' \in [Imports -> Request] /\ ImportOK(p)'
               /\ \A q \in Imports \ {p} : imp'[q] = imp[q]
    <3> HIDE DEF i
    <3>1. r \in Ids /\ Ids \subseteq Nat
      <4>1. Ids \subseteq Nat
        BY DEF IInv, AccountsTypeOK
      <4>2. {x \in Ids : managed[x].name = NameIn(i)} # {} =>
              Min({x \in Ids : managed[x].name = NameIn(i)}) \in Ids
        BY <4>1, FirstOf
      <4> QED BY <2>5, <4>1, <4>2 DEF Found, ByUser, ByName
    <3>2. ASSUME UserIn(i) # Nobody PROVE managed[r].user \in {Nobody, UserIn(i)} /\ ~IsNobody(r)
      <4>1. UserIn(i) = who /\ NameIn(i) = Nick[who] /\ Nobody \notin People /\ Nick[who] \notin Stamps
        BY <2>2, <2>3, <3>2 DEF UserIn, NameIn, IInv, Given
      <4>2. CASE r \in ByUser(i)
        BY <4>1, <4>2, <2>2 DEF ByUser, IsNobody
      <4>3. CASE r \in ByName(i)
        <5> DEFINE named == {x \in Ids : managed[x].name = NameIn(i)}
        <5>1. named # {} /\ r = Min(named) /\ managed[r].user \in {Nobody, UserIn(i)}
          BY <4>3, <3>2 DEF ByName
        <5>2. r \in named
          <6>1. named \in SUBSET Nat
            BY <3>1
          <6> HIDE DEF named
          <6> QED BY <5>1, <6>1, FirstOf
        <5> QED BY <4>1, <5>1, <5>2 DEF IsNobody
      <4> QED BY <2>5, <4>2, <4>3 DEF Found
    <3> QED BY <1>1, <2>2, <2>3, <2>5, <3>1, <3>2, GoesOK
  <2> QED BY <2>1, <2>4, <2>5
<1>3. \A q \in Imports : ImportOK(q)'
  BY <1>1, <1>2, SameRows, StaysAll
<1>4. AccountsTypeOK'
  BY <1>1, <1>2 DEF IInv, AccountsTypeOK, Ids
<1> QED BY <1>1, <1>3, <1>4, SameRows, Assemble

LEMMA RematchKeeps == ASSUME IInv, NEW p \in Imports, Rematch(p) PROVE IInv'
<1>1. UNCHANGED <<managed, grants, check, reaper, hands, misses>> /\ imp[p].at = "rematch"
  BY DEF Rematch
<1>2. /\ imp' \in [Imports -> Request] /\ ImportOK(p)'
      /\ \A q \in Imports \ {p} : imp'[q] = imp[q]
  <2>1. CASE imp' = Failed(p)
    BY <2>1, FailedOK
  <2>2. ASSUME NEW r \in ByUser(imp[p]), Goes(p, imp[p], r)
        PROVE  /\ imp' \in [Imports -> Request] /\ ImportOK(p)'
               /\ \A q \in Imports \ {p} : imp'[q] = imp[q]
    <3>1. r \in Ids /\ managed[r].user = UserIn(imp[p]) /\ UserIn(imp[p]) # Nobody
      BY <2>2 DEF ByUser
    <3>2. imp[p].who \in People /\ imp[p].stamp \in Stamps
      BY <1>1 DEF IInv, ImportOK
    <3> QED BY <1>1, <2>2, <3>1, <3>2, GoesOK, RequestIn DEF IsNobody
  <2> QED BY <2>1, <2>2 DEF Rematch
<1>3. \A q \in Imports : ImportOK(q)'
  BY <1>1, <1>2, SameRows, StaysAll
<1>4. AccountsTypeOK'
  BY <1>1, <1>2 DEF IInv, AccountsTypeOK, Ids
<1> QED BY <1>1, <1>3, <1>4, SameRows, Assemble

LEMMA AckOK ==
  ASSUME IInv, NEW p \in Imports, imp' = Acknowledged(p)
  PROVE  /\ imp' \in [Imports -> Request] /\ imp'[p].at = "done"
         /\ imp'[p].row = imp[p].row /\ imp'[p].who = imp[p].who /\ imp'[p].void = imp[p].void
         /\ imp'[p].stamp = imp[p].stamp /\ UserOf(p)' = UserOf(p) /\ imp'[p].seen = Nobody
         /\ \A q \in Imports \ {p} : imp'[q] = imp[q]
<1> DEFINE j == [imp[p] EXCEPT !.at = "done", !.seen = Nobody, !.gone = {}]
<1>1. imp[p] \in Request
  BY RequestIn
<1>2. /\ j \in Request /\ j.at = "done" /\ j.row = imp[p].row /\ j.who = imp[p].who
      /\ j.void = imp[p].void /\ j.knows = imp[p].knows /\ j.seen = Nobody /\ j.stamp = imp[p].stamp
  BY <1>1 DEF Request
<1>3. imp' = [imp EXCEPT ![p] = j]
  BY DEF Acknowledged
<1> HIDE DEF j
<1>4. imp'[p] = j
  BY <1>3, RequestIn
<1> QED BY <1>2, <1>3, <1>4, RequestIn DEF UserOf, UserIn

LEMMA StepTo ==
  ASSUME IInv, NEW p \in Imports, NEW s \in {"clean", "grant", "delete", "rematch"},
         NEW g \in SUBSET Nat,
         imp' = [imp EXCEPT ![p] = [@ EXCEPT !.at = s, !.seen = Nobody, !.gone = g]]
  PROVE  /\ imp' \in [Imports -> Request] /\ imp'[p].at = s
         /\ imp'[p].row = imp[p].row /\ imp'[p].who = imp[p].who /\ imp'[p].void = imp[p].void
         /\ imp'[p].stamp = imp[p].stamp /\ UserOf(p)' = UserOf(p) /\ imp'[p].seen = Nobody
         /\ \A q \in Imports \ {p} : imp'[q] = imp[q]
<1> DEFINE j == [imp[p] EXCEPT !.at = s, !.seen = Nobody, !.gone = g]
<1>1. imp[p] \in Request
  BY RequestIn
<1>2. /\ j \in Request /\ j.at = s /\ j.row = imp[p].row /\ j.who = imp[p].who
      /\ j.void = imp[p].void /\ j.knows = imp[p].knows /\ j.seen = Nobody /\ j.stamp = imp[p].stamp
  BY <1>1 DEF Request
<1>3. imp' = [imp EXCEPT ![p] = j]
  OBVIOUS
<1> HIDE DEF j
<1>4. imp'[p] = j
  BY <1>3, RequestIn
<1> QED BY <1>2, <1>3, <1>4, RequestIn DEF UserOf, UserIn

(* One row is written over: what was somebody's stays so, and whose it was changes only *)
(* where the row says that it is mixed.                                      *)
LEMMA OneRow ==
  ASSUME IInv, NEW r \in Ids, NEW new \in Row, managed' = [managed EXCEPT ![r] = new], grants' = grants,
         managed[r].mixed => new.mixed,
         managed[r].user # Nobody => new.user # Nobody /\ (new.user = managed[r].user \/ new.mixed),
         new.user # Nobody \/ new.name \notin Stamps \/ new.name = managed[r].name,
         new.user \in {Nobody, new.jar.who} \/ new.mixed
  PROVE  /\ Ids' = Ids /\ managed'[r] = new
         /\ Bounded' /\ \A x \in Ids' : OwnRow(x)' /\ managed'[x] \in Row
         /\ \A x \in Nat : Stays(x)
<1>1. /\ managed'[r] = new /\ Ids' = Ids /\ \A x \in Ids \ {r} : managed'[x] = managed[x]
  BY DEF Ids
<1>2. OwnRow(r)'
  BY <1>1 DEF OwnRow
<1>3. \A x \in Ids' : OwnRow(x)' /\ managed'[x] \in Row
  <2> SUFFICES ASSUME NEW x \in Ids PROVE OwnRow(x)' /\ managed'[x] \in Row
    BY <1>1
  <2>1. OwnRow(x) /\ managed[x] \in Row
    BY DEF IInv, AccountsTypeOK
  <2>2. CASE x = r
    BY <1>1, <1>2, <2>2
  <2>3. CASE x # r
    BY <1>1, <2>1, <2>3 DEF OwnRow
  <2> QED BY <2>2, <2>3
<1>4. \A x \in Nat : Stays(x)
  <2> SUFFICES ASSUME NEW x \in Nat, x \in Ids, ~IsNobody(x) PROVE Stays(x)
    BY DEF Stays
  <2>1. CASE x # r
    BY <1>1, <2>1 DEF Stays, IsNobody, Stamps
  <2>2. CASE x = r
    <3>1. ~IsNobody(r)'
      BY <1>1, <2>2 DEF IsNobody, Stamps
    <3> QED BY <1>1, <2>2, <3>1 DEF Stays
  <2> QED BY <2>1, <2>2
<1> QED BY <1>1, <1>3, <1>4 DEF IInv, Bounded

LEMMA Put ==
  ASSUME IInv, NEW p \in Imports, NEW j \in Request, imp' = [imp EXCEPT ![p] = j],
         j.knows = imp[p].knows, j.who = imp[p].who
  PROVE  /\ imp' \in [Imports -> Request] /\ imp'[p] = j /\ UserOf(p)' = UserOf(p)
         /\ \A q \in Imports \ {p} : imp'[q] = imp[q]
<1>1. imp'[p] = j
  BY RequestIn
<1> QED BY <1>1, RequestIn DEF UserOf, UserIn

(* An import writes into the row that it has found, whosever it is by now: its own     *)
(* person's, or mixed where it had read of another.                                   *)
LEMMA UpdateKeeps == ASSUME IInv, NEW p \in Imports, Update(p) PROVE IInv'
<1> DEFINE i == imp[p]
           r == i.row
           told == UserOf(p)
           sets == told # Nobody /\ told # i.seen
           old == managed[r]
           user == IF sets THEN told ELSE old.user
           mix == old.mixed \/ old.user # i.seen \/ (told = Nobody /\ user \notin {Nobody, i.who})
           writes == r \in Ids /\ ~(sets /\ Taken(told, r))
<1>1. /\ i.at = "update" /\ i \in Request /\ i.who \in People /\ i.stamp \in Stamps /\ Nobody \notin People
      /\ UNCHANGED <<grants, check, reaper, hands, misses>>
      /\ told \in {Nobody, i.who}
  BY RequestIn DEF Update, IInv, ImportOK, Given, UserOf, UserIn
<1>2. CASE ~writes
  <2>1. imp' = Failed(p) /\ managed' = managed
    BY <1>2 DEF Update
  <2>2. \A q \in Imports : ImportOK(q)'
    BY <1>1, <2>1, FailedOK, SameRows, StaysAll
  <2>3. AccountsTypeOK'
    BY <1>1, <2>1, FailedOK DEF IInv, AccountsTypeOK, Ids
  <2> QED BY <1>1, <2>1, <2>2, <2>3, SameRows, Assemble
<1>3. CASE writes
  <2> DEFINE new == [old EXCEPT !.user = user, !.jar = Jar(p), !.mixed = mix]
  <2>1. /\ managed' = [managed EXCEPT ![r].user = user, ![r].jar = Jar(p),
                       ![r].mixed = @ \/ managed[r].user # i.seen
                                      \/ (told = Nobody /\ user \notin {Nobody, i.who})]
        /\ imp' = IF sets \/ i.seen # Nobody THEN [imp EXCEPT ![p].at = "clean", ![p].seen = Nobody]
                   ELSE Acknowledged(p)
    BY <1>3 DEF Update
  <2>2. r \in Ids /\ old \in Row /\ r \in Nat /\ OwnRow(r)
    BY <1>3 DEF IInv, AccountsTypeOK
  <2>3. user \in People \cup {Nobody} /\ Jar(p) \in [who : People, by : Imports] /\ Jar(p).who = i.who
    BY <1>1, <2>2 DEF Row, Jar
  <2>4. managed' = [managed EXCEPT ![r] = new]
    BY <2>1
  <2>5. /\ new \in Row /\ new.user = user /\ new.jar = Jar(p) /\ new.mixed = mix
        /\ new.name = old.name
    <3>1. mix \in BOOLEAN
      BY <2>2 DEF Row
    <3> HIDE DEF mix, user, old
    <3> QED BY <2>2, <2>3, <3>1 DEF Row
  <2>6. told # Nobody => i.seen \in {Nobody, told}
    BY <1>1 DEF IInv, ImportOK
  <2>7. /\ old.mixed => mix
        /\ old.user # Nobody => user # Nobody /\ (user = old.user \/ mix)
        /\ user \in {Nobody, i.who} \/ mix
    <3> HIDE DEF i, told, old
    <3> QED BY <1>1, <2>6
  <2>8. /\ Ids' = Ids /\ managed'[r] = new
        /\ Bounded' /\ \A x \in Ids' : OwnRow(x)' /\ managed'[x] \in Row
        /\ \A x \in Nat : Stays(x)
    <3> HIDE DEF new, mix, user
    <3> QED BY <1>1, <2>2, <2>3, <2>4, <2>5, <2>7, OneRow
  <2>9. /\ imp' \in [Imports -> Request] /\ imp'[p].at \in {"clean", "done"}
        /\ imp'[p].row = i.row /\ imp'[p].who = i.who /\ imp'[p].void = i.void
        /\ imp'[p].stamp = i.stamp /\ UserOf(p)' = told
        /\ \A q \in Imports \ {p} : imp'[q] = imp[q]
    <3>1. CASE sets \/ i.seen # Nobody
      <4>1. i.gone \in SUBSET Nat
        BY <1>1 DEF Request
      <4>2. imp' = [imp EXCEPT ![p] = [@ EXCEPT !.at = "clean", !.seen = Nobody, !.gone = i.gone]]
        <5>1. imp' = [imp EXCEPT ![p] = [@ EXCEPT !.at = "clean", !.seen = Nobody]]
          BY <2>1, <3>1
        <5>2. [i EXCEPT !.at = "clean", !.seen = Nobody]
                = [i EXCEPT !.at = "clean", !.seen = Nobody, !.gone = i.gone]
          BY <1>1 DEF Request
        <5> QED BY <5>1, <5>2
      <4> QED BY <4>1, <4>2, StepTo
    <3>2. CASE ~(sets \/ i.seen # Nobody)
      BY <2>1, <3>2, AckOK
    <3> QED BY <3>1, <3>2
  <2>10. ASSUME told # Nobody, ~i.void
         PROVE  /\ r \in Ids' /\ <<Op[p], r>> \in grants'
                /\ managed'[r].user # Nobody /\ (managed'[r].user = i.who \/ managed'[r].mixed)
    <3>1. /\ ~IsNobody(r) /\ <<Op[p], r>> \in grants
          /\ i.seen # Nobody => old.user # Nobody /\ (old.user = i.who \/ old.mixed)
      BY <1>1, <2>10 DEF IInv, ImportOK
    <3>2. r \in Ids' /\ <<Op[p], r>> \in grants'
      BY <1>1, <2>2, <2>8, <3>1
    <3>3. user # Nobody /\ (user = i.who \/ mix)
      <4> HIDE DEF i, told, old
      <4> QED BY <1>1, <2>6, <2>10, <3>1
    <3> QED BY <2>5, <2>8, <3>2, <3>3
  <2>11. ImportOK(p)'
    <3>1. /\ imp'[p].who \in People /\ imp'[p].row = r /\ imp'[p].void = i.void
          /\ imp'[p].stamp \in Stamps
      BY <1>1, <2>9
    <3> HIDE DEF i, r, told, sets, user, writes, old, mix
    <3> QED BY <2>9, <2>10, <3>1 DEF ImportOK, IsNobody
  <2>12. \A q \in Imports : ImportOK(q)'
    BY <2>8, <2>9, <2>11, StaysAll
  <2>13. AccountsTypeOK'
    BY <1>1, <2>8, <2>9 DEF IInv, AccountsTypeOK
  <2> QED BY <2>8, <2>12, <2>13, Assemble
<1> QED BY <1>2, <1>3

LEMMA InsertKeeps == ASSUME IInv, NEW p \in Imports, Insert(p) PROVE IInv'
<1> DEFINE i == imp[p]
           told == UserOf(p)
<1>1. /\ i.at = "insert" /\ i \in Request /\ i.who \in People /\ i.stamp \in Stamps /\ i.row = 0
      /\ UNCHANGED <<grants, check, reaper, hands, misses>>
      /\ told \in {Nobody, i.who} /\ Nobody \notin People
  BY RequestIn DEF Insert, IInv, ImportOK, Given, UserOf, UserIn
<1>2. CASE told # Nobody /\ Taken(told, 0)
  <2> DEFINE j == [i EXCEPT !.at = "rematch"]
  <2>1. imp' = [imp EXCEPT ![p] = j] /\ managed' = managed
    BY <1>2 DEF Insert
  <2>2. /\ j \in Request /\ j.knows = i.knows /\ j.who = i.who /\ j.at = "rematch" /\ j.row = 0
        /\ j.stamp = i.stamp
    BY <1>1 DEF Request
  <2> HIDE DEF j
  <2>3. /\ imp' \in [Imports -> Request] /\ imp'[p] = j
        /\ \A q \in Imports \ {p} : imp'[q] = imp[q]
    BY <2>1, <2>2, Put
  <2>4. ImportOK(p)'
    BY <1>1, <2>2, <2>3 DEF ImportOK
  <2>5. \A q \in Imports : ImportOK(q)'
    BY <1>1, <2>1, <2>3, <2>4, SameRows, StaysAll
  <2>6. AccountsTypeOK'
    BY <1>1, <2>1, <2>3 DEF IInv, AccountsTypeOK, Ids
  <2> QED BY <1>1, <2>1, <2>5, <2>6, SameRows, Assemble
<1>3. CASE ~(told # Nobody /\ Taken(told, 0))
  <2> DEFINE n == NewId
             new == [user |-> told, name |-> NameIn(i), jar |-> Jar(p),
                     status |-> "unknown", fresh |-> TRUE, mixed |-> FALSE]
             j == [i EXCEPT !.at = "grant", !.row = n]
  <2>1. managed' = [r \in Ids \cup {n} |-> IF r # n THEN managed[r] ELSE new]
    BY <1>3 DEF Insert
  <2>2. imp' = [imp EXCEPT ![p] = j]
    BY <1>3 DEF Insert
  <2>3. n \in Nat \ {0} /\ \A r \in Ids : r < n
    BY NewIdIsNew DEF IInv, AccountsTypeOK
  <2>4. Ids \subseteq Nat \ {0} /\ \A r \in Ids : managed[r] \in Row /\ OwnRow(r)
    BY DEF IInv, AccountsTypeOK
  <2> HIDE DEF n
  <2>5. NameIn(i) \in Stamps \cup {Nick[w] : w \in People} /\ Jar(p) \in [who : People, by : Imports]
        /\ Jar(p).who = i.who
    BY <1>1 DEF Jar, NameIn
  <2>6. new \in Row /\ new.user = told /\ new.jar = Jar(p) /\ new.mixed = FALSE
    BY <1>1, <2>5 DEF Row
  <2> HIDE DEF new
  <2>7. Ids' = Ids \cup {n} /\ managed'[n] = new /\ \A r \in Ids : managed'[r] = managed[r]
    BY <2>1, <2>3, <2>4 DEF Ids
  <2>8. /\ j \in Request /\ j.knows = i.knows /\ j.who = i.who /\ j.at = "grant" /\ j.row = n
        /\ j.stamp = i.stamp /\ j.seen = i.seen
    BY <1>1, <2>3 DEF Request
  <2> HIDE DEF j
  <2>9. /\ imp' \in [Imports -> Request] /\ imp'[p] = j /\ UserOf(p)' = told
        /\ \A q \in Imports \ {p} : imp'[q] = imp[q]
    BY <2>2, <2>8, Put
  <2>10. ImportOK(p)'
    BY <1>1, <2>5, <2>6, <2>7, <2>8, <2>9 DEF ImportOK, IsNobody
  <2>11. \A r \in Nat : Stays(r)
    BY <1>1, <2>7 DEF Stays, IsNobody, Stamps
  <2>12. \A q \in Imports : ImportOK(q)'
    BY <2>9, <2>10, <2>11, StaysAll
  <2>13. AccountsTypeOK'
    BY <1>1, <2>3, <2>4, <2>6, <2>7, <2>9 DEF IInv, AccountsTypeOK
  <2>14. \A r \in Ids' : OwnRow(r)'
    BY <1>1, <2>4, <2>5, <2>6, <2>7 DEF OwnRow
  <2>15. Bounded'
    BY <2>3, <2>4, <2>7 DEF Bounded
  <2> QED BY <2>12, <2>13, <2>14, <2>15, Assemble
<1> QED BY <1>2, <1>3

LEMMA GrantKeeps == ASSUME IInv, NEW p \in Imports, Grant(p) PROVE IInv'
<1> DEFINE i == imp[p]
           r == i.row
           told == UserOf(p)
<1>1. /\ i.at = "grant" /\ i \in Request /\ i.who \in People /\ i.stamp \in Stamps
      /\ UNCHANGED <<managed, check, reaper, hands, misses>>
      /\ grants' = grants \cup {<<Op[p], r>>}
  BY RequestIn DEF Grant, IInv, ImportOK
<1>2. /\ imp' \in [Imports -> Request] /\ imp'[p].at \in {"clean", "done"} /\ imp'[p].row = r
      /\ imp'[p].who = i.who /\ imp'[p].void = i.void /\ imp'[p].stamp = i.stamp
      /\ UserOf(p)' = told
      /\ \A q \in Imports \ {p} : imp'[q] = imp[q]
  <2>1. CASE told # Nobody
    <3> DEFINE j == [i EXCEPT !.at = "clean"]
    <3>1. imp' = [imp EXCEPT ![p] = j]
      BY <2>1 DEF Grant
    <3>2. /\ j \in Request /\ j.knows = i.knows /\ j.who = i.who /\ j.at = "clean" /\ j.row = r
          /\ j.stamp = i.stamp /\ j.void = i.void
      BY <1>1 DEF Request
    <3> HIDE DEF j
    <3> QED BY <3>1, <3>2, Put
  <2>2. CASE told = Nobody
    BY <2>2, AckOK DEF Grant
  <2> QED BY <2>1, <2>2
<1>3. ImportOK(p)'
  <2>1. told # Nobody /\ ~i.void => /\ r \in Ids /\ ~IsNobody(r)
                                  /\ managed[r].user # Nobody /\ (managed[r].user = i.who \/ managed[r].mixed)
    BY <1>1 DEF IInv, ImportOK
  <2> QED BY <1>1, <1>2, <2>1 DEF ImportOK, IsNobody, Ids
<1>4. (\A x \in Nat : Stays(x)) /\ Bounded' /\ \A x \in Ids' : OwnRow(x)'
  BY <1>1 DEF IInv, Stays, IsNobody, Bounded, OwnRow, Ids
<1>5. \A q \in Imports : ImportOK(q)'
  BY <1>2, <1>3, <1>4, StaysAll
<1>6. grants' \subseteq {Op[q] : q \in Imports} \X Nat
  BY <1>1 DEF IInv, AccountsTypeOK, Request
<1>7. AccountsTypeOK'
  BY <1>1, <1>2, <1>6 DEF IInv, AccountsTypeOK, Ids
<1> QED BY <1>4, <1>5, <1>7, Assemble

LEMMA DiesKeeps == ASSUME IInv, NEW p \in Imports, Dies(p) PROVE IInv'
<1>1. imp' = Failed(p) /\ UNCHANGED <<managed, grants, check, reaper, hands>> /\ misses' \in 0..MaxMisses
  BY FaultIn DEF Dies
<1>2. \A q \in Imports : ImportOK(q)'
  BY <1>1, FailedOK, SameRows, StaysAll
<1>3. AccountsTypeOK'
  BY <1>1, FailedOK DEF IInv, AccountsTypeOK, Ids
<1> QED BY <1>1, <1>2, <1>3, SameRows, Assemble

(***************************************************************************)
(* Rows of nobody                                                          *)
(***************************************************************************)

(* What a DELETE takes, whatever was selected when, is nobody's. *)
LEMMA DropKeeps ==
  ASSUME IInv, NEW selected \in SUBSET Nat, Drop(selected)
  PROVE  /\ \A r \in Nat : Stays(r)
         /\ Bounded' /\ \A r \in Ids' : OwnRow(r)' /\ managed'[r] \in Row
         /\ Ids' \subseteq Ids /\ grants' \subseteq grants
<1> DEFINE gone == {r \in selected \cap Ids : StillNobody(r)}
<1>1. managed' = [r \in Ids \ gone |-> managed[r]]
  BY DEF Drop, Without
<1>2. \A g \in grants : g \in grants' \/ (g[2] \in selected /\ g[2] \notin Ids \ gone)
  BY DEF Drop
<1>3. Ids' = Ids \ gone /\ \A r \in Ids' : managed'[r] = managed[r]
  BY <1>1 DEF Ids
<1>4. ASSUME NEW r \in Nat PROVE Stays(r)
  <2> SUFFICES ASSUME r \in Ids, ~IsNobody(r) PROVE Stays(r)
    BY DEF Stays
  <2>1. r \in Ids \ gone
    BY DEF StillNobody
  <2>2. r \in Ids' /\ managed'[r] = managed[r] /\ ~IsNobody(r)'
    BY <1>3, <2>1 DEF IsNobody, Stamps
  <2>3. \A o : <<o, r>> \in grants => <<o, r>> \in grants'
    BY <1>2, <2>1
  <2> QED BY <2>2, <2>3 DEF Stays
<1>5. grants' \subseteq grants
  BY DEF Drop
<1> QED BY <1>3, <1>4, <1>5 DEF IInv, AccountsTypeOK, Bounded, OwnRow

LEMMA CleanSelectKeeps == ASSUME IInv, NEW p \in Imports, CleanSelect(p) PROVE IInv'
<1> DEFINE i == imp[p]
           r == i.row
           told == UserOf(p)
<1>1. /\ i.at = "clean" /\ i \in Request /\ i.who \in People /\ i.stamp \in Stamps
      /\ UNCHANGED <<managed, grants, check, reaper, hands, misses>>
  BY RequestIn DEF CleanSelect, IInv, ImportOK
<1>2. /\ imp' \in [Imports -> Request] /\ imp'[p].at \in {"delete", "done"} /\ imp'[p].row = r
      /\ imp'[p].who = i.who /\ imp'[p].void = i.void /\ imp'[p].stamp = i.stamp
      /\ UserOf(p)' = told
      /\ \A q \in Imports \ {p} : imp'[q] = imp[q]
  <2> DEFINE mine == {x \in Ids \ {r} : IsNobody(x) /\ managed[x].fresh /\ <<Op[p], x>> \in grants}
  <2>1. imp' = IF mine = {} THEN Acknowledged(p)
               ELSE [imp EXCEPT ![p].at = "delete", ![p].gone = mine]
    BY DEF CleanSelect
  <2>2. mine \in SUBSET Nat
    BY DEF IInv, AccountsTypeOK
  <2> HIDE DEF mine
  <2>3. CASE mine = {}
    BY <2>1, <2>3, AckOK
  <2>4. CASE mine # {}
    <3> DEFINE j == [i EXCEPT !.at = "delete", !.gone = mine]
    <3>1. imp' = [imp EXCEPT ![p] = j]
      BY <2>1, <2>4
    <3>2. /\ j \in Request /\ j.knows = i.knows /\ j.who = i.who /\ j.at = "delete" /\ j.row = r
          /\ j.stamp = i.stamp /\ j.void = i.void
      BY <1>1, <2>2 DEF Request
    <3> HIDE DEF j
    <3> QED BY <3>1, <3>2, Put
  <2> QED BY <2>3, <2>4
<1>3. ImportOK(p)'
  <2>1. told # Nobody /\ ~i.void =>
          /\ r \in Ids /\ ~IsNobody(r) /\ <<Op[p], r>> \in grants
          /\ managed[r].user # Nobody /\ (managed[r].user = i.who \/ managed[r].mixed)
    BY <1>1 DEF IInv, ImportOK
  <2> QED BY <1>1, <1>2, <2>1 DEF ImportOK, IsNobody, Ids
<1>4. \A q \in Imports : ImportOK(q)'
  BY <1>1, <1>2, <1>3, SameRows, StaysAll
<1>5. AccountsTypeOK'
  BY <1>1, <1>2 DEF IInv, AccountsTypeOK, Ids
<1> QED BY <1>1, <1>4, <1>5, SameRows, Assemble

LEMMA CleanDeleteKeeps == ASSUME IInv, NEW p \in Imports, CleanDelete(p) PROVE IInv'
<1> DEFINE i == imp[p]
           r == i.row
           told == UserOf(p)
<1>1. /\ i.at = "delete" /\ i \in Request /\ i.who \in People /\ i.stamp \in Stamps
      /\ UNCHANGED <<check, reaper, hands>> /\ imp' = Acknowledged(p) /\ i.gone \in SUBSET Nat
  BY RequestIn DEF CleanDelete, IInv, ImportOK, Request
<1>2. /\ imp' \in [Imports -> Request] /\ imp'[p].at = "done" /\ imp'[p].row = r
      /\ imp'[p].who = i.who /\ imp'[p].void = i.void /\ imp'[p].stamp = i.stamp
      /\ UserOf(p)' = told
      /\ \A q \in Imports \ {p} : imp'[q] = imp[q]
  BY <1>1, AckOK
<1>3. /\ \A x \in Nat : Stays(x)
      /\ Bounded' /\ \A x \in Ids' : OwnRow(x)' /\ managed'[x] \in Row
      /\ Ids' \subseteq Ids /\ grants' \subseteq grants /\ misses' \in 0..MaxMisses
  <2>1. CASE Drop(i.gone) /\ UNCHANGED misses
    BY <1>1, <2>1, DropKeeps DEF IInv, AccountsTypeOK
  <2>2. CASE Fault /\ UNCHANGED <<managed, grants>>
    BY <2>2, SameRows, FaultIn DEF IInv, AccountsTypeOK, Ids
  <2> QED BY <2>1, <2>2 DEF CleanDelete
<1>4. ImportOK(p)'
  <2>1. told # Nobody /\ ~i.void =>
          /\ r \in Ids /\ ~IsNobody(r) /\ <<Op[p], r>> \in grants
          /\ managed[r].user # Nobody /\ (managed[r].user = i.who \/ managed[r].mixed)
    BY <1>1 DEF IInv, ImportOK
  <2>2. r \in Nat
    BY <1>1 DEF Request
  <2>3. told # Nobody /\ ~i.void =>
          /\ r \in Ids' /\ <<Op[p], r>> \in grants'
          /\ managed'[r].user # Nobody /\ (managed'[r].user = i.who \/ managed'[r].mixed)
    BY <1>3, <2>1, <2>2 DEF Stays
  <2> QED BY <1>1, <1>2, <2>3 DEF ImportOK, IsNobody
<1>5. \A q \in Imports : ImportOK(q)'
  BY <1>2, <1>3, <1>4, StaysAll
<1>6. AccountsTypeOK'
  BY <1>1, <1>2, <1>3 DEF IInv, AccountsTypeOK
<1> QED BY <1>3, <1>5, <1>6, Assemble

(* No request is touched. *)
LEMMA ImportsStay ==
  ASSUME IInv, \A r \in Nat : Stays(r), imp' = imp
  PROVE  \A q \in Imports : ImportOK(q)'
<1> SUFFICES ASSUME NEW q \in Imports PROVE ImportOK(q)'
  OBVIOUS
<1>1. imp[q].row \in Nat
  BY DEF IInv, AccountsTypeOK, Request
<1> QED BY <1>1, StaysOK

LEMMA ReapKeeps == ASSUME IInv, ReapSelect \/ ReapDelete PROVE IInv'
<1>1. CASE ReapSelect
  <2>1. UNCHANGED <<managed, grants, imp, check, hands, misses>> /\ reaper' \subseteq Ids
    BY <1>1 DEF ReapSelect
  <2>2. AccountsTypeOK'
    BY <2>1 DEF IInv, AccountsTypeOK, Ids
  <2> QED BY <2>1, <2>2, SameRows, ImportsStay, Assemble
<1>2. CASE ReapDelete
  <2>1. Drop(reaper) /\ reaper' = {} /\ UNCHANGED <<imp, check, hands, misses>> /\ reaper \in SUBSET Nat
    BY <1>2 DEF ReapDelete, IInv, AccountsTypeOK
  <2>2. /\ \A x \in Nat : Stays(x)
        /\ Bounded' /\ \A x \in Ids' : OwnRow(x)' /\ managed'[x] \in Row
        /\ Ids' \subseteq Ids /\ grants' \subseteq grants
    BY <2>1, DropKeeps
  <2>3. AccountsTypeOK'
    BY <2>1, <2>2 DEF IInv, AccountsTypeOK
  <2> QED BY <2>1, <2>2, <2>3, ImportsStay, Assemble
<1> QED BY <1>1, <1>2

(***************************************************************************)
(* Checks, operators and time                                              *)
(***************************************************************************)

LEMMA CheckIn ==
  ASSUME IInv, NEW k \in Slots
  PROVE  /\ check[k] \in Check /\ DOMAIN check = Slots /\ Free \in Check
         /\ \A r \in Nat : JarOf(r) \in [who : People, by : Imports] \cup {Nobody}
BY DEF IInv, AccountsTypeOK, Free, Check, JarOf, Row

LEMMA OnlyChecks ==
  ASSUME IInv, UNCHANGED <<managed, grants, imp, reaper, hands>>, misses' \in 0..MaxMisses,
         check' \in [Slots -> Check]
  PROVE  IInv'
<1>1. AccountsTypeOK'
  BY DEF IInv, AccountsTypeOK, Ids
<1> QED BY <1>1, SameRows, ImportsStay, Assemble

LEMMA RegisterKeeps ==
  ASSUME IInv, NEW k \in Slots, NEW r \in Ids, Register(k, r)
  PROVE  IInv'
<1> DEFINE c == [Free EXCEPT !.at = "running", !.row = r, !.jar = JarOf(r)]
<1>1. r \in Nat
  BY DEF IInv, AccountsTypeOK
<1>2. c \in Check
  BY <1>1, CheckIn DEF Check, Free
<1>3. check' = [check EXCEPT ![k] = c] /\ UNCHANGED <<managed, grants, imp, reaper, hands, misses>>
  BY DEF Register
<1> HIDE DEF c
<1>4. check' \in [Slots -> Check]
  BY <1>2, <1>3 DEF IInv, AccountsTypeOK
<1> QED BY <1>3, <1>4, OnlyChecks DEF IInv, AccountsTypeOK

LEMMA EndCheckIn == ASSUME IInv, NEW k \in Slots, EndCheck(k) PROVE check' \in [Slots -> Check]
<1> DEFINE d == [check[k] EXCEPT !.at = "done", !.jar = Nobody]
<1>1. d \in Check
  BY CheckIn DEF Check
<1>2. PICK end \in {Free, d} : check' = [check EXCEPT ![k] = end]
  BY DEF EndCheck
<1>3. end \in Check
  BY <1>1, <1>2, CheckIn
<1> QED BY <1>2, <1>3 DEF IInv, AccountsTypeOK

LEMMA CheckEndsKeep ==
  ASSUME IInv, NEW k \in Slots, CheckFails(k) \/ CheckDies(k)
  PROVE  IInv'
<1>1. UNCHANGED <<managed, grants, imp, reaper, hands>> /\ misses' \in 0..MaxMisses
  BY FaultIn DEF CheckFails, CheckDies
<1>2. CASE CheckFails(k)
  BY <1>1, <1>2, EndCheckIn, OnlyChecks DEF CheckFails
<1>3. CASE CheckDies(k)
  <2> DEFINE c == [check[k] EXCEPT !.jar = JarOf(check[k].row)]
  <2>1. check' = [check EXCEPT ![k] = c]
    BY <1>3 DEF CheckDies
  <2>2. check[k].row \in Nat
    BY CheckIn DEF Check
  <2>3. c \in Check
    BY <2>2, CheckIn DEF Check
  <2> HIDE DEF c
  <2>4. check' \in [Slots -> Check]
    BY <2>1, <2>3 DEF IInv, AccountsTypeOK
  <2> QED BY <1>1, <2>4, OnlyChecks
<1> QED BY <1>2, <1>3

(* Without cookies nothing is found out. *)
LEMMA VerdictIn ==
  ASSUME NEW jar, NEW v \in Verdicts(jar)
  PROVE  v \in [status : {"valid", "refused"}, info : BOOLEAN] /\ (jar = Nobody => v.info = FALSE)
<1>1. CASE v = [status |-> "refused", info |-> FALSE]
  BY <1>1
<1>2. CASE v # [status |-> "refused", info |-> FALSE]
  BY <1>2 DEF Verdicts
<1> QED BY <1>1, <1>2

LEMMA WriteBackKeeps == ASSUME IInv, NEW k \in Slots, WriteBack(k) PROVE IInv'
<1> DEFINE c == check[k]
           r == c.row
<1>1. /\ check' \in [Slots -> Check] /\ UNCHANGED <<grants, imp, reaper, hands, misses>>
      /\ c \in Check
  BY EndCheckIn, CheckIn DEF WriteBack
<1>2. PICK v \in Verdicts(c.jar) :
         IF r \notin Ids \/ (v.info /\ Taken(c.jar.who, r))
         THEN UNCHANGED managed
         ELSE managed' = [managed EXCEPT ![r].status = v.status,
                         ![r].user = IF v.info THEN c.jar.who ELSE @,
                         ![r].name = IF v.info THEN Nick[c.jar.who] ELSE @,
                         ![r].mixed = @ \/ (v.info /\ managed[r].jar # c.jar)]
  BY DEF WriteBack
<1>3. CASE r \notin Ids \/ (v.info /\ Taken(c.jar.who, r))
  <2>1. managed' = managed /\ misses' \in 0..MaxMisses
    BY <1>1, <1>2, <1>3 DEF IInv, AccountsTypeOK
  <2> QED BY <1>1, <2>1, OnlyChecks
<1>4. CASE ~(r \notin Ids \/ (v.info /\ Taken(c.jar.who, r)))
  <2> DEFINE old == managed[r]
             user == IF v.info THEN c.jar.who ELSE old.user
             name == IF v.info THEN Nick[c.jar.who] ELSE old.name
             mix == old.mixed \/ (v.info /\ old.jar # c.jar)
             new == [old EXCEPT !.status = v.status, !.user = user, !.name = name, !.mixed = mix]
  <2>1. managed' = [managed EXCEPT ![r] = new]
    BY <1>2, <1>4
  <2>2. r \in Ids /\ old \in Row /\ OwnRow(r) /\ Nobody \notin People
    BY <1>4 DEF IInv, AccountsTypeOK, Given
  <2>3. /\ v.status \in {"valid", "refused"} /\ v.info \in BOOLEAN
        /\ v.info => c.jar \in [who : People, by : Imports]
    <3>1. c.jar \in [who : People, by : Imports] \cup {Nobody}
      BY <1>1 DEF Check
    <3>2. v \in [status : {"valid", "refused"}, info : BOOLEAN] /\ (c.jar = Nobody => v.info = FALSE)
      BY <1>2, VerdictIn
    <3> HIDE DEF c
    <3> QED BY <3>1, <3>2
  <2>4. user \in People \cup {Nobody} /\ name \in Stamps \cup {Nick[w] : w \in People} \cup {"own"}
        /\ mix \in BOOLEAN
    BY <2>2, <2>3 DEF Row
  <2>5. /\ old.mixed => mix
        /\ old.user # Nobody => user # Nobody /\ (user = old.user \/ mix)
        /\ user # Nobody \/ name = old.name
        /\ user \in {Nobody, old.jar.who} \/ mix
    BY <2>2, <2>3 DEF OwnRow
  <2> HIDE DEF user, name, mix, old
  <2>6. /\ new \in Row /\ new.user = user /\ new.name = name /\ new.mixed = mix
        /\ new.jar = old.jar
    BY <2>2, <2>3, <2>4 DEF Row
  <2> HIDE DEF new
  <2>7. /\ Ids' = Ids
        /\ Bounded' /\ \A x \in Ids' : OwnRow(x)' /\ managed'[x] \in Row
        /\ \A x \in Nat : Stays(x)
    <3>1. grants' = grants
      BY <1>1
    <3>2. managed[r] = old
      BY DEF old
    <3> HIDE DEF c, r
    <3> QED BY <2>1, <2>2, <2>5, <2>6, <3>1, <3>2, OneRow
  <2>8. AccountsTypeOK'
    BY <1>1, <2>7 DEF IInv, AccountsTypeOK
  <2> QED BY <1>1, <2>7, <2>8, ImportsStay, Assemble
<1> QED BY <1>3, <1>4

LEMMA RemoveKeeps == ASSUME IInv, NEW r \in Ids, Remove(r) PROVE IInv'
<1>1. /\ managed' = [x \in Ids \ {r} |-> managed[x]] /\ grants' = {g \in grants : g[2] # r}
      /\ imp' = [p \in Imports |-> [imp[p] EXCEPT !.void = @ \/ imp[p].row = r]]
      /\ UNCHANGED <<check, reaper, misses>> /\ hands' \in 0..MaxHands
  BY DEF Remove, Without, IInv, AccountsTypeOK, Given
<1>2. Ids' = Ids \ {r} /\ \A x \in Ids' : managed'[x] = managed[x]
  BY <1>1 DEF Ids
<1>3. ASSUME NEW q \in Imports
      PROVE  /\ imp'[q] \in Request /\ ImportOK(q)'
  <2>1. imp[q] \in Request /\ ImportOK(q)
    BY RequestIn DEF IInv
  <2>2. imp'[q] = [imp[q] EXCEPT !.void = @ \/ imp[q].row = r]
    BY <1>1
  <2>3. /\ imp'[q] \in Request /\ imp'[q].at = imp[q].at /\ imp'[q].row = imp[q].row
        /\ imp'[q].who = imp[q].who /\ imp'[q].stamp = imp[q].stamp /\ imp'[q].seen = imp[q].seen
        /\ imp'[q].knows = imp[q].knows
        /\ imp'[q].void = (imp[q].void \/ imp[q].row = r)
    BY <2>1, <2>2 DEF Request
  <2>4. UserOf(q)' = UserOf(q)
    BY <2>3 DEF UserOf, UserIn
  <2>5. \A x \in Ids \ {r} : x \in Ids' /\ managed'[x] = managed[x] /\ (IsNobody(x)' => IsNobody(x))
    BY <1>2 DEF IsNobody, Stamps
  <2>6. imp[q].row # r /\ <<Op[q], imp[q].row>> \in grants => <<Op[q], imp[q].row>> \in grants'
    BY <1>1
  <2>7. ImportOK(q)'
    BY <2>1, <2>3, <2>4, <2>5, <2>6, <1>2 DEF ImportOK, IsNobody, Stamps
  <2> QED BY <2>3, <2>7
<1>4. AccountsTypeOK'
  <2>1. imp' \in [Imports -> Request]
    BY <1>1, <1>3
  <2> QED BY <1>1, <1>2, <2>1 DEF IInv, AccountsTypeOK
<1>5. Bounded' /\ \A x \in Ids' : OwnRow(x)'
  BY <1>2 DEF IInv, Bounded, OwnRow
<1> QED BY <1>3, <1>4, <1>5, Assemble

LEMMA RenameKeeps == ASSUME IInv, NEW r \in Ids, Rename(r) PROVE IInv'
<1> DEFINE new == [managed[r] EXCEPT !.name = "own"]
<1>1. /\ managed' = [managed EXCEPT ![r] = new] /\ UNCHANGED <<grants, imp, check, reaper, misses>>
      /\ hands' \in 0..MaxHands
  BY DEF Rename, IInv, AccountsTypeOK, Given
<1>2. managed[r] \in Row /\ OwnRow(r) /\ "own" \notin Stamps
  BY DEF IInv, AccountsTypeOK, Given
<1>3. /\ new \in Row /\ new.user = managed[r].user /\ new.jar = managed[r].jar
      /\ new.mixed = managed[r].mixed /\ new.name = "own"
  BY <1>2 DEF Row
<1> HIDE DEF new
<1>4. /\ Ids' = Ids
      /\ Bounded' /\ \A x \in Ids' : OwnRow(x)' /\ managed'[x] \in Row
      /\ \A x \in Nat : Stays(x)
  BY <1>1, <1>2, <1>3, OneRow DEF OwnRow
<1>5. AccountsTypeOK'
  BY <1>1, <1>4 DEF IInv, AccountsTypeOK
<1> QED BY <1>1, <1>4, <1>5, ImportsStay, Assemble

LEMMA PassKeeps == ASSUME IInv, Pass PROVE IInv'
<1>1. /\ managed' = [r \in Ids |-> [managed[r] EXCEPT !.fresh = FALSE]]
      /\ check' = [k \in Slots |-> IF check[k].at = "done" THEN Free ELSE check[k]]
      /\ UNCHANGED <<grants, imp, reaper, hands, misses>>
  BY DEF Pass
<1>2. Ids' = Ids /\ \A r \in Ids : managed[r] \in Row
  BY <1>1 DEF Ids, IInv, AccountsTypeOK
<1>3. \A r \in Ids : /\ managed'[r] \in Row /\ managed'[r].user = managed[r].user /\ managed'[r].jar = managed[r].jar
                      /\ managed'[r].name = managed[r].name /\ managed'[r].mixed = managed[r].mixed
  BY <1>1, <1>2 DEF Row
<1>4. \A r \in Nat : Stays(r)
  BY <1>1, <1>2, <1>3 DEF Stays, IsNobody, Stamps
<1>5. check' \in [Slots -> Check]
  BY <1>1, CheckIn
<1>6. AccountsTypeOK'
  BY <1>1, <1>2, <1>3, <1>5 DEF IInv, AccountsTypeOK
<1>7. Bounded' /\ \A r \in Ids' : OwnRow(r)'
  BY <1>2, <1>3 DEF IInv, Bounded, OwnRow
<1> QED BY <1>1, <1>4, <1>6, <1>7, ImportsStay, Assemble

LEMMA NextKeeps == ASSUME IInv, [AccountsNext]_accountVars PROVE IInv'
<1>1. ASSUME NEW p \in Imports, Importing(p) \/ Dies(p) PROVE IInv'
  BY <1>1, MatchKeeps, UpdateKeeps, InsertKeeps, RematchKeeps, GrantKeeps, CleanSelectKeeps,
     CleanDeleteKeeps, DiesKeeps DEF Importing
<1>2. ASSUME NEW k \in Slots, WriteBack(k) \/ CheckFails(k) \/ CheckDies(k) PROVE IInv'
  BY <1>2, WriteBackKeeps, CheckEndsKeep
<1>3. ASSUME NEW k \in Slots, NEW r \in Ids, Ask(k, r) \/ Onboard(k, r) PROVE IInv'
  BY <1>3, RegisterKeeps DEF Ask, Onboard
<1>4. ASSUME NEW r \in Ids, Remove(r) \/ Rename(r) PROVE IInv'
  BY <1>4, RemoveKeeps, RenameKeeps
<1>5. CASE UNCHANGED accountVars
  <2>1. UNCHANGED <<managed, grants, imp, check, reaper, hands, misses>>
    BY <1>5 DEF accountVars
  <2>2. check' \in [Slots -> Check] /\ misses' \in 0..MaxMisses
    BY <2>1 DEF IInv, AccountsTypeOK
  <2> QED BY <2>1, <2>2, OnlyChecks
<1> QED BY <1>1, <1>2, <1>3, <1>4, <1>5, ReapKeeps, PassKeeps DEF AccountsNext, Onboards

(* What is known of rows, requests and checks holds in every state. *)
LEMMA IInvAlways == AccountsSpec => []IInv
<1>1. AccountsInit => IInv
  BY InitOK, AccountsGiven
<1>2. IInv /\ [AccountsNext]_accountVars => IInv'
  BY NextKeeps
<1> QED BY <1>1, <1>2, PTL DEF AccountsSpec

(* Rows, grants, imports, checks and what the reaper has selected keep their types. *)
THEOREM AccountTypes == AccountsSpec => []AccountsTypeOK
<1>1. IInv => AccountsTypeOK
  BY DEF IInv
<1> QED BY <1>1, IInvAlways, PTL

(* cookie_service.import_cookies: an account shows another person's login only if it   *)
(* says so, and an import that was acknowledged left a row that its operator may use,   *)
(* however imports of one person, of namesakes, checks and the two DELETEs of           *)
(* placeholder_reaper interleave and whichever of them die.                             *)
THEOREM AccountsAreOwn == AccountsSpec => []OwnAccount
<1>1. ASSUME IInv PROVE OwnAccount
  <2>1. \A r \in Ids : managed[r].user \in {Nobody, managed[r].jar.who} \/ managed[r].mixed
    BY <1>1 DEF IInv, OwnRow
  <2>2. \A p \in Imports : ImportOK(p)
    BY <1>1 DEF IInv
  <2> QED BY <2>1, <2>2 DEF ImportOK, OwnAccount
<1> QED BY <1>1, IInvAlways, PTL

LEMMA DropKept ==
  ASSUME NEW selected, Drop(selected) PROVE RowsKept
<1> DEFINE gone == {r \in selected \cap Ids : StillNobody(r)}
<1>1. managed' = [r \in Ids \ gone |-> managed[r]]
  BY DEF Drop, Without
<1>2. \A g \in grants : g \in grants' \/ (g[2] \in selected /\ g[2] \notin Ids \ gone)
  BY DEF Drop
<1>3. DOMAIN managed' = Ids \ gone
  BY <1>1
<1> QED BY <1>2, <1>3 DEF RowsKept, StillNobody

(* Only an operator or a guarded DELETE takes a row, or the access to one. *)
LEMMA StepKeepsRows == ASSUME IInv, [AccountsNext]_accountVars PROVE RowsKept
<1>1. ASSUME DOMAIN managed' = Ids, grants \subseteq grants' PROVE RowsKept
  BY <1>1 DEF RowsKept
<1>2. ASSUME NEW p \in Imports, Importing(p) \/ Dies(p) PROVE RowsKept
  <2>1. CASE Match(p) \/ Rematch(p) \/ Grant(p) \/ CleanSelect(p) \/ Dies(p)
    BY <1>1, <2>1 DEF Match, Rematch, Grant, CleanSelect, Dies, Ids
  <2>2. CASE Update(p)
    BY <1>1, <2>2 DEF Update, Ids
  <2>3. CASE Insert(p)
    <3>1. DOMAIN managed' \in {Ids, Ids \cup {NewId}} /\ grants' = grants
      BY <2>3 DEF Insert, Ids
    <3> QED BY <3>1 DEF RowsKept
  <2>4. CASE CleanDelete(p)
    BY <1>1, <2>4, DropKept DEF CleanDelete, Ids
  <2> QED BY <1>2, <2>1, <2>2, <2>3, <2>4 DEF Importing
<1>3. ASSUME NEW k \in Slots, WriteBack(k) \/ CheckFails(k) \/ CheckDies(k) PROVE RowsKept
  BY <1>1, <1>3 DEF WriteBack, CheckFails, CheckDies, Ids
<1>4. ASSUME NEW k \in Slots, NEW r \in Ids, Ask(k, r) \/ Onboard(k, r) PROVE RowsKept
  BY <1>1, <1>4 DEF Ask, Onboard, Register, Ids
<1>5. ASSUME NEW r \in Ids, Remove(r) PROVE RowsKept
  <2>1. hands' # hands /\ DOMAIN managed' = Ids \ {r} /\ grants' = {g \in grants : g[2] # r}
    BY <1>5 DEF Remove, Without, IInv, AccountsTypeOK
  <2> QED BY <2>1 DEF RowsKept
<1>6. ASSUME NEW r \in Ids, Rename(r) PROVE RowsKept
  BY <1>1, <1>6 DEF Rename, Ids
<1>7. CASE ReapSelect
  BY <1>1, <1>7 DEF ReapSelect, Ids
<1>8. CASE ReapDelete
  BY <1>8, DropKept DEF ReapDelete
<1>9. CASE Pass
  BY <1>1, <1>9 DEF Pass, Ids
<1>10. CASE UNCHANGED accountVars
  BY <1>1, <1>10 DEF accountVars, Ids
<1> QED BY <1>2, <1>3, <1>4, <1>5, <1>6, <1>7, <1>8, <1>9, <1>10 DEF AccountsNext, Onboards

(* placeholder_reaper.delete_placeholder_rows: a row or a grant goes only by the        *)
(* operator's hand, or while the row is still nobody's at the DELETE, however stale the *)
(* selection was; and who has access to a row keeps it as long as there is the row.     *)
THEOREM RowsStay == AccountsSpec => AccountsKept
<1>1. IInv /\ [AccountsNext]_accountVars => RowsKept
  BY StepKeepsRows
<1>2. IInv /\ [AccountsNext]_accountVars => [RowsKept]_accountVars
  BY <1>1
<1> QED BY <1>2, IInvAlways, PTL DEF AccountsSpec, AccountsKept
=============================================================================
