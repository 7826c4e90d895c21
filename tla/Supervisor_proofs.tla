------------------------- MODULE Supervisor_proofs -------------------------
(***************************************************************************)
(* The session caps hold up to one batch, and the rotation is fair, for any   *)
(* number of accounts, jobs, children and kills.                             *)
(***************************************************************************)
EXTENDS Supervisor, FiniteSetTheorems, SequenceTheorems, WellFoundedInduction, TLAPS

(* The sessions of a's jobs in S, those its child has still to open included. *)
Held(a, S) == {j \in S \cap JobsOf(a) : IsSession(j) \/ j \in batch[a]}

(* A child has one batch of its account's jobs, and executes a running one of them. *)
BatchOK ==
  \A a \in Accounts :
    /\ a \notin children => batch[a] = {}
    /\ batch[a] \subseteq JobsOf(a) /\ Cardinality(batch[a]) <= MaxBatch
    /\ doing[a] # Null => Account[doing[a]] = a /\ row[doing[a]].status = "running"

(* An account is in the rotation once, and in one of the two lists of a scan at most; *)
(* those to be visited stand in the order of the rotation.                          *)
Singly(s) == \A i, k \in DOMAIN s : s[i] = s[k] => i = k
ScanOK ==
  /\ Singly(rotation) /\ Singly(turn) /\ Singly(sent)
  /\ Members(turn) \cap Members(sent) = {}
  /\ Members(turn) \subseteq Members(rotation) /\ Members(sent) \subseteq Members(rotation)
  /\ phase # "dispatch" => turn = <<>> /\ sent = <<>>
  /\ \A i, k \in DOMAIN turn : i < k => Before(rotation, turn[i], turn[k])

(* What was counted is near what is held, until the account's turn comes. *)
CountOK ==
  \A a \in Members(turn) : Cardinality(Held(a, Jobs)) <= recent[a] + MaxBatch

(* SessionsNearCap, with the sessions still to be opened. *)
NearCap(a) ==
  /\ SessionCap > 0 => Cardinality(Held(a, Jobs \ Operated)) <= SessionCap + MaxBatch
  /\ SessionCap > 0 /\ OperatorCap >= SessionCap =>
       Cardinality(Held(a, Jobs)) <= OperatorCap + MaxBatch
CapOK == \A a \in Accounts : NearCap(a)

(* Those served while a waits are behind it, in this scan or in the rotation. *)
AheadOK ==
  \A a \in Accounts : \A b \in ahead[a] :
    /\ a # b /\ a \in Members(rotation) \ Members(sent)
    /\ b \in Members(sent) \/ Before(rotation, a, b)

(* The inductive invariants: of the sessions, and of the rotation. *)
CapInv == TypeOK /\ BatchOK /\ ScanOK /\ CountOK /\ CapOK
TurnInv == TypeOK /\ ScanOK /\ AheadOK

USE SupervisorAssumption

(***************************************************************************)
(* Finite sets of numbers                                                  *)
(***************************************************************************)

(* A finite set of numbers that has a member has a greatest one. *)
LEMMA Greatest ==
  ASSUME NEW S \in SUBSET Nat, IsFiniteSet(S), S # {}
  PROVE  \E g \in S : \A k \in S : k <= g
<1> DEFINE over(j) == {k \in S : k > j}
<1> DEFINE above == {over(j) : j \in S}
<1>1. IsWellFoundedOn(StrictSubsetOrdering(Nat), FiniteSubsetsOf(Nat))
  BY FS_StrictSubsetOrderingWellFounded
<1>2. \A j \in S : over(j) \in FiniteSubsetsOf(Nat)
  BY FS_Subset DEF FiniteSubsetsOf
<1>3. above \subseteq FiniteSubsetsOf(Nat) /\ above # {}
  <2> HIDE DEF over
  <2> QED BY <1>2
<1>4. PICK x \in above : \A y \in above : <<y, x>> \notin StrictSubsetOrdering(Nat)
  BY <1>1, <1>3, WFMin
<1>5. PICK g \in S : x = over(g)
  BY <1>4
<1>6. ASSUME NEW k \in S, k > g PROVE FALSE
  <2> USE <1>6
  <2>0. \A m \in S : m > k => m > g
    OBVIOUS
  <2>1. over(k) \subseteq over(g) /\ k \in over(g) /\ k \notin over(k)
    <3>1. over(k) \subseteq over(g)
      BY <2>0
    <3>2. k \in over(g)
      OBVIOUS
    <3>3. k \notin over(k)
      OBVIOUS
    <3> QED BY <3>1, <3>2, <3>3
  <2>2. over(k) \in SUBSET Nat /\ over(g) \in SUBSET Nat
    OBVIOUS
  <2> HIDE DEF over
  <2>4. over(k) \in above
    OBVIOUS
  <2> HIDE DEF above
  <2>3. <<over(k), x>> \in StrictSubsetOrdering(Nat)
    BY <1>5, <2>1, <2>2 DEF StrictSubsetOrdering
  <2> QED BY <1>4, <2>3, <2>4
<1> QED BY <1>5, <1>6

(* A set each of whose members has fewer than n below it has at most n. *)
LEMMA FewBelow ==
  ASSUME NEW S \in SUBSET Nat, IsFiniteSet(S), NEW n \in Nat,
         \A j \in S : Cardinality({k \in S : k < j}) < n
  PROVE  Cardinality(S) <= n
<1>1. CASE S = {}
  BY <1>1, FS_EmptySet
<1>2. CASE S # {}
  <2>1. PICK g \in S : \A k \in S : k <= g
    BY <1>2, Greatest
  <2>2. {k \in S : k < g} = S \ {g}
    <3>1. \A k \in S : k < g <=> k # g
      BY <2>1
    <3> QED BY <3>1
  <2>3. Cardinality(S \ {g}) = Cardinality(S) - 1 /\ Cardinality(S) \in Nat
    <3>1. Cardinality(S) \in Nat
      BY FS_CardinalityType
    <3>2. Cardinality(S \ {g}) = Cardinality(S) - 1
      BY <2>1, FS_RemoveElement
    <3> QED BY <3>1, <3>2
  <2>4. Cardinality(S \ {g}) < n
    BY <2>1, <2>2
  <2> QED BY <2>3, <2>4
<1> QED BY <1>1, <1>2

(* Sets of jobs are finite, and smaller ones have no more members. *)
LEMMA JobSets ==
  ASSUME NEW S \in SUBSET Jobs
  PROVE  /\ IsFiniteSet(S) /\ Cardinality(S) \in Nat
         /\ \A T \in SUBSET S : Cardinality(T) \in Nat /\ Cardinality(T) <= Cardinality(S)
<1>1. IsFiniteSet(S)
  BY FS_Subset DEF SupervisorAssumption
<1>2. \A T \in SUBSET S : IsFiniteSet(T) /\ Cardinality(T) <= Cardinality(S)
  BY <1>1, FS_Subset
<1> QED BY <1>1, <1>2, FS_CardinalityType

(* Jobs that are let through while fewer than cap are used, use up at most cap. *)
LEMMA CapLeaves ==
  ASSUME NEW kept \in SUBSET Jobs, NEW X, NEW used \in Nat, NEW cap \in Nat,
         \A j \in kept \cap X : used + Cardinality({k \in kept : k < j}) < cap,
         kept \cap X # {}
  PROVE  used + Cardinality(kept \cap X) <= cap
<1>0. Jobs \subseteq Nat
  BY DEF SupervisorAssumption
<1>1. PICK i \in kept \cap X : TRUE
  OBVIOUS
<1>2. used < cap
  <2>1. Cardinality({k \in kept : k < i}) \in Nat
    BY JobSets
  <2> QED BY <1>1, <2>1
<1>3. ASSUME NEW j \in kept \cap X
      PROVE  Cardinality({k \in kept \cap X : k < j}) < cap - used
  <2>1. {k \in kept \cap X : k < j} \in SUBSET {k \in kept : k < j}
    OBVIOUS
  <2>2. {k \in kept : k < j} \in SUBSET Jobs
    OBVIOUS
  <2>3. /\ Cardinality({k \in kept \cap X : k < j}) \in Nat
        /\ Cardinality({k \in kept : k < j}) \in Nat
        /\ Cardinality({k \in kept \cap X : k < j}) <= Cardinality({k \in kept : k < j})
    BY <2>1, <2>2, JobSets
  <2>4. used + Cardinality({k \in kept : k < j}) < cap
    OBVIOUS
  <2> QED BY <2>3, <2>4
<1>4. kept \cap X \in SUBSET Nat /\ IsFiniteSet(kept \cap X) /\ Cardinality(kept \cap X) \in Nat
  <2>1. kept \cap X \in SUBSET Jobs
    OBVIOUS
  <2> QED BY <1>0, <2>1, JobSets
<1>5. cap - used \in Nat
  BY <1>2
<1>6. Cardinality(kept \cap X) <= cap - used
  <2> DEFINE K == kept \cap X
  <2>1. \A j \in K : Cardinality({k \in K : k < j}) < cap - used
    BY <1>3
  <2>2. K \in SUBSET Nat /\ IsFiniteSet(K)
    BY <1>4
  <2> HIDE DEF K
  <2>3. Cardinality(K) <= cap - used
    BY <1>5, <2>1, <2>2, FewBelow
  <2> QED BY <2>3 DEF K
<1> QED BY <1>4, <1>6

(***************************************************************************)
(* Orders of accounts                                                      *)
(***************************************************************************)

(* A line-up of accounts names each of them once. *)
LEMMA LinedIs ==
  ASSUME NEW A \in SUBSET Accounts, NEW s \in Lined(A)
  PROVE  s \in Seq(Accounts) /\ Singly(s) /\ Members(s) = A
<1>1. IsFiniteSet(A) /\ Cardinality(A) \in Nat
  BY FS_Subset, FS_CardinalityType DEF SupervisorAssumption
<1> DEFINE n == Cardinality(A)
<1>2. s \in [1..n -> A] /\ Members(s) = A
  BY DEF Lined
<1>3. s \in Surjection(1..n, A)
  BY <1>2 DEF Surjection, Members
<1>4. IsFiniteSet(1..n) /\ Cardinality(1..n) = n
  BY <1>1, FS_Interval
<1>5. s \in Injection(1..n, A)
  BY <1>3, <1>4, FS_SurjSameCardinalityImpliesInj
<1>6. Singly(s)
  BY <1>2, <1>5 DEF Injection, IsInjective, Singly
<1>7. s \in Seq(Accounts)
  <2>1. s \in [1..n -> Accounts]
    BY <1>2
  <2> HIDE DEF n
  <2>2. n \in Nat
    BY <1>1 DEF n
  <2> QED BY <2>1, <2>2
<1> QED BY <1>2, <1>6, <1>7

(* One of two lists with no account in common, after the other. *)
LEMMA Appended ==
  ASSUME NEW s \in Seq(Accounts), NEW t \in Seq(Accounts), Singly(s), Singly(t),
         Members(s) \cap Members(t) = {}
  PROVE  /\ s \o t \in Seq(Accounts) /\ Singly(s \o t)
         /\ Members(s \o t) = Members(s) \cup Members(t)
         /\ \A a, b : Before(s, a, b) => Before(s \o t, a, b)
         /\ \A a \in Members(s), b \in Members(t) : Before(s \o t, a, b)
<1> DEFINE m == Len(s)
<1> DEFINE n == Len(t)
<1> DEFINE u == s \o t
<1>1. /\ u \in Seq(Accounts) /\ m \in Nat /\ n \in Nat /\ DOMAIN u = 1..(m + n)
      /\ DOMAIN s = 1..m /\ DOMAIN t = 1..n
      /\ \A i \in 1..m : u[i] = s[i]
      /\ \A i \in 1..n : u[m + i] = t[i]
  OBVIOUS
<1> HIDE DEF m, n, u
<1>2. \A i \in DOMAIN u : i \in 1..m \/ (i - m \in 1..n /\ i = m + (i - m))
  BY <1>1
<1>3. \A i \in DOMAIN u : (i \in 1..m /\ u[i] = s[i]) \/ (i - m \in 1..n /\ u[i] = t[i - m])
  BY <1>1, <1>2
<1>4. Members(u) = Members(s) \cup Members(t)
  <2>1. Members(u) \subseteq Members(s) \cup Members(t)
    BY <1>1, <1>3 DEF Members
  <2>2. Members(s) \subseteq Members(u)
    BY <1>1 DEF Members
  <2>3. Members(t) \subseteq Members(u)
    <3>1. \A i \in 1..n : m + i \in DOMAIN u
      BY <1>1
    <3> QED BY <1>1, <3>1 DEF Members
  <2> QED BY <2>1, <2>2, <2>3
<1>5. Singly(u)
  <2> SUFFICES ASSUME NEW i \in DOMAIN u, NEW k \in DOMAIN u, u[i] = u[k] PROVE i = k
    BY DEF Singly
  <2>1. \A x \in 1..m, y \in 1..n : s[x] # t[y]
    BY <1>1 DEF Members
  <2>2. CASE i \in 1..m /\ k \in 1..m
    BY <1>1, <2>2 DEF Singly
  <2>3. CASE i - m \in 1..n /\ k - m \in 1..n
    <3>1. t[i - m] = t[k - m]
      BY <1>1, <1>2, <2>3
    <3>2. i - m = k - m
      BY <1>1, <2>3, <3>1 DEF Singly
    <3> QED BY <1>1, <3>2
  <2> QED BY <1>3, <2>1, <2>2, <2>3
<1>6. ASSUME NEW a, NEW b, Before(s, a, b) PROVE Before(u, a, b)
  <2>1. PICK i \in DOMAIN s, k \in DOMAIN s : i < k /\ s[i] = a /\ s[k] = b
    BY <1>6 DEF Before
  <2>2. i \in DOMAIN u /\ k \in DOMAIN u /\ u[i] = a /\ u[k] = b
    BY <1>1, <2>1
  <2> QED BY <2>1, <2>2 DEF Before
<1>7. ASSUME NEW a \in Members(s), NEW b \in Members(t) PROVE Before(u, a, b)
  <2>1. PICK i \in DOMAIN s, k \in DOMAIN t : s[i] = a /\ t[k] = b
    BY DEF Members
  <2>2. i \in DOMAIN u /\ m + k \in DOMAIN u /\ u[i] = a /\ u[m + k] = b /\ i < m + k
    BY <1>1, <2>1
  <2> QED BY <2>2 DEF Before
<1> QED BY <1>1, <1>4, <1>5, <1>6, <1>7 DEF u

(* No two accounts are each before the other. *)
LEMMA OneWay ==
  ASSUME NEW s \in Seq(Accounts), Singly(s), NEW a, NEW b, Before(s, a, b)
  PROVE  ~Before(s, b, a) /\ a # b /\ a \in Members(s) /\ b \in Members(s)
<1>1. DOMAIN s \subseteq Nat
  OBVIOUS
<1>2. PICK i \in DOMAIN s, k \in DOMAIN s : i < k /\ s[i] = a /\ s[k] = b
  BY DEF Before
<1>3. ASSUME Before(s, b, a) PROVE FALSE
  <2>1. PICK x \in DOMAIN s, y \in DOMAIN s : x < y /\ s[x] = b /\ s[y] = a
    BY <1>3 DEF Before
  <2>2. x = k /\ y = i
    BY <1>2, <2>1 DEF Singly
  <2> QED BY <1>1, <1>2, <2>1, <2>2
<1>4. a # b
  BY <1>1, <1>2 DEF Singly
<1> QED BY <1>2, <1>3, <1>4 DEF Members

(* A line-up in the order of a list keeps its order. *)
LEMMA InOrder ==
  ASSUME NEW order \in Seq(Accounts), Singly(order), NEW A \in SUBSET Accounts,
         NEW s \in InTurn(order, A), NEW a \in A, NEW b \in A, Before(order, a, b)
  PROVE  Before(s, a, b)
<1>1. s \in Seq(Accounts) /\ Members(s) = A
  BY LinedIs DEF InTurn
<1>2. PICK i \in DOMAIN s, k \in DOMAIN s : s[i] = a /\ s[k] = b
  BY <1>1 DEF Members
<1>3. ~Before(order, b, a) /\ a # b
  BY OneWay
<1>4. ~(k < i)
  BY <1>2, <1>3 DEF InTurn
<1>5. i # k
  BY <1>2, <1>3
<1>6. i \in Nat /\ k \in Nat
  BY <1>1, <1>2
<1>7. i < k
  BY <1>4, <1>5, <1>6
<1> QED BY <1>2, <1>7 DEF Before

(* What comes after a position of a list. *)
After(s, i, t) == t = SubSeq(s, i + 1, Len(s))
LEMMA Rest ==
  ASSUME NEW s \in Seq(Accounts), Singly(s), NEW i \in DOMAIN s, NEW t, After(s, i, t)
  PROVE  /\ t \in Seq(Accounts) /\ Singly(t) /\ Members(t) \subseteq Members(s)
         /\ \A k \in DOMAIN t : k + i \in DOMAIN s /\ t[k] = s[k + i]
         /\ DOMAIN t \subseteq Nat /\ i \in Nat /\ s[i] \notin Members(t)
         /\ \A k \in DOMAIN s : k > i => s[k] \in Members(t)
<1>1. i \in Nat /\ Len(s) \in Nat /\ DOMAIN s = 1..Len(s) /\ i \in 1..Len(s)
  OBVIOUS
<1>2. \A k \in (i + 1)..Len(s) : s[k] \in Accounts
  BY <1>1
<1>3. /\ t \in Seq(Accounts)
      /\ Len(t) = IF i + 1 <= Len(s) THEN Len(s) - (i + 1) + 1 ELSE 0
      /\ \A k \in 1..(Len(s) - (i + 1) + 1) : t[k] = s[(i + 1) + k - 1]
  BY <1>1, <1>2, SubSeqProperties DEF After
<1>4. DOMAIN t = 1..(Len(s) - i)
  BY <1>1, <1>3
<1>5. \A k \in DOMAIN t : k + i \in DOMAIN s /\ t[k] = s[k + i]
  BY <1>1, <1>3, <1>4
<1>6. DOMAIN t \subseteq Nat
  BY <1>4
<1>7. Singly(t)
  BY <1>1, <1>5, <1>6 DEF Singly
<1>8. Members(t) \subseteq Members(s)
  BY <1>5 DEF Members
<1>9. s[i] \notin Members(t)
  <2> SUFFICES ASSUME NEW k \in DOMAIN t, t[k] = s[i] PROVE FALSE
    BY DEF Members
  <2>1. k + i = i
    BY <1>5 DEF Singly
  <2> QED BY <1>1, <1>4, <2>1
<1>10. ASSUME NEW k \in DOMAIN s, k > i PROVE s[k] \in Members(t)
  <2>1. k - i \in DOMAIN t /\ (k - i) + i = k
    BY <1>1, <1>4, <1>10
  <2> QED BY <1>5, <2>1 DEF Members
<1> QED BY <1>1, <1>3, <1>5, <1>6, <1>7, <1>8, <1>9, <1>10

(* One more account at the end of a list. *)
LEMMA OneMore ==
  ASSUME NEW s \in Seq(Accounts), Singly(s), NEW a \in Accounts, a \notin Members(s)
  PROVE  /\ Append(s, a) \in Seq(Accounts) /\ Singly(Append(s, a))
         /\ Members(Append(s, a)) = Members(s) \cup {a}
<1> DEFINE u == Append(s, a)
<1>1. /\ u \in Seq(Accounts) /\ Len(s) \in Nat /\ DOMAIN s = 1..Len(s)
      /\ DOMAIN u = DOMAIN s \cup {Len(s) + 1} /\ u[Len(s) + 1] = a
      /\ \A i \in DOMAIN s : u[i] = s[i]
  OBVIOUS
<1> HIDE DEF u
<1>2. Singly(u)
  BY <1>1 DEF Singly, Members
<1>3. Members(u) = Members(s) \cup {a}
  BY <1>1 DEF Members
<1> QED BY <1>1, <1>2, <1>3 DEF u

(* _fair_order: the accounts that have work are in the rotation, in their old order. *)
LEMMA JoinedIs ==
  ASSUME rotation \in Seq(Accounts), Singly(rotation), NEW A \in SUBSET Accounts,
         NEW order \in Joined(A)
  PROVE  /\ order \in Seq(Accounts) /\ Singly(order)
         /\ Members(order) = Members(rotation) \cup A
         /\ \A a, b : Before(rotation, a, b) => Before(order, a, b)
<1>1. PICK new \in Lined(A \ Members(rotation)) : order = rotation \o new
  BY DEF Joined
<1>2. new \in Seq(Accounts) /\ Singly(new) /\ Members(new) = A \ Members(rotation)
  BY LinedIs
<1> QED BY <1>1, <1>2, Appended

(* The next rotation: those that were not served, in their old order, then the others. *)
LEMMA RotatedIs ==
  ASSUME rotation \in Seq(Accounts), Singly(rotation), sent \in Seq(Accounts), Singly(sent),
         Members(sent) \subseteq Members(rotation), NEW order \in Rotated
  PROVE  /\ order \in Seq(Accounts) /\ Singly(order)
         /\ Members(order) = Members(rotation)
         /\ \A a \in Members(rotation) \ Members(sent) : \A b :
              b \in Members(sent) \/ Before(rotation, a, b) => Before(order, a, b)
<1>1. PICK rest \in InTurn(rotation, Members(rotation) \ Members(sent)) : order = rest \o sent
  BY DEF Rotated
<1>2. Members(rotation) \subseteq Accounts
  BY DEF Members
<1> DEFINE left == Members(rotation) \ Members(sent)
<1>3. left \in SUBSET Accounts /\ rest \in InTurn(rotation, left) /\ rest \in Lined(left)
  BY <1>2 DEF InTurn
<1> HIDE DEF left
<1>4. rest \in Seq(Accounts) /\ Singly(rest) /\ Members(rest) = left
  BY <1>3, LinedIs
<1>5. Members(rest) \cap Members(sent) = {}
  BY <1>4 DEF left
<1>6. /\ order \in Seq(Accounts) /\ Singly(order)
      /\ Members(order) = left \cup Members(sent)
      /\ \A a, b : Before(rest, a, b) => Before(order, a, b)
      /\ \A a \in left, b \in Members(sent) : Before(order, a, b)
  BY <1>1, <1>4, <1>5, Appended
<1>7. Members(order) = Members(rotation)
  BY <1>6 DEF left
<1>8. ASSUME NEW a \in left, NEW b, b \in Members(sent) \/ Before(rotation, a, b)
      PROVE  Before(order, a, b)
  <2>1. CASE b \in Members(sent)
    BY <1>6, <2>1
  <2>2. CASE b \notin Members(sent)
    <3>1. Before(rotation, a, b)
      BY <1>8, <2>2
    <3>2. b \in left
      BY <2>2, <3>1, OneWay DEF left
    <3>3. Before(rest, a, b)
      BY <1>3, <3>1, <3>2, InOrder
    <3> QED BY <1>6, <3>3
  <2> QED BY <2>1, <2>2
<1> QED BY <1>6, <1>7, <1>8 DEF left

(***************************************************************************)
(* Types and the lists of a scan                                           *)
(***************************************************************************)

LEMMA SameScan ==
  ASSUME ScanOK, UNCHANGED scanVars
  PROVE  ScanOK'
  BY DEF ScanOK, scanVars

(* Init has the invariants. *)
LEMMA Initially == Init => CapInv /\ TurnInv
<1> SUFFICES ASSUME Init PROVE CapInv /\ TurnInv
  OBVIOUS
<1>1. Cardinality({}) = 0
  BY FS_EmptySet
<1>2. TypeOK
  BY <1>1 DEF Init, TypeOK, Statuses, Restful, SupervisorAssumption
<1>3. ScanOK
  BY DEF Init, ScanOK, Singly, Members
<1>4. BatchOK
  BY <1>1 DEF Init, BatchOK, SupervisorAssumption
<1>5. CountOK
  BY DEF Init, CountOK, Members
<1>6. \A a \in Accounts : \A S : Held(a, S) = {}
  BY DEF Init, Held, IsSession, JobsOf
<1>7. CapOK
  BY <1>1, <1>6 DEF CapOK, NearCap, SupervisorAssumption
<1>8. AheadOK
  BY DEF Init, AheadOK
<1> QED BY <1>2, <1>3, <1>4, <1>5, <1>7, <1>8 DEF CapInv, TurnInv

(* The steps of children, of recovery and of time leave the scan alone. *)
LEMMA OutsideTypes ==
  ASSUME TypeOK, ScanOK,
         \/ Tick \/ \E a \in Accounts : ChildStep(a) \/ KillChild(a)
         \/ \E j \in Jobs : Recover(j) \/ Submit(j)
  PROVE  TypeOK' /\ ScanOK'
<1> USE DEF TypeOK, Statuses
<1>0. ASSUME UNCHANGED scanVars PROVE ScanOK'
  BY <1>0, SameScan
<1>1. CASE Tick
  <2>1. \A n \in 0..Window : Less(n) \in 0..Window
    BY DEF Less, SupervisorAssumption
  <2>2. row' \in [Jobs -> [status: Statuses, clock: 0..Window]]
    BY <1>1, <2>1 DEF Tick
  <2> QED BY <1>0, <1>1, <2>2 DEF Tick, scanVars, childVars
<1>2. ASSUME NEW a \in Accounts, End(a) PROVE TypeOK' /\ ScanOK'
  <2>1. Window \in 0..Window /\ 0 \in 0..Window
    BY DEF SupervisorAssumption
  <2>2. doing[a] \in Jobs
    BY <1>2 DEF End
  <2>3. faults' \in 0..MaxFaults
    BY <1>2 DEF End
  <2>4. row' \in [Jobs -> [status: Statuses, clock: 0..Window]]
    <3>1. PICK status \in Statuses, clock \in 0..Window :
            row' = [row EXCEPT ![doing[a]] = [status |-> status, clock |-> clock]]
      <4>1. row[doing[a]].clock \in 0..Window
        BY <2>2
      <4> QED BY <1>2, <2>1, <4>1 DEF End
    <3> QED BY <2>2, <3>1
  <2> QED BY <1>0, <1>2, <2>3, <2>4 DEF End, scanVars
<1>3. ASSUME NEW a \in Accounts, Reap(a) PROVE TypeOK' /\ ScanOK'
  <2>1. IsFiniteSet(children) /\ Cardinality(children) \in Nat
    BY FS_Subset, FS_CardinalityType DEF SupervisorAssumption
  <2>2. IsFiniteSet(children \ {a}) /\ Cardinality(children \ {a}) <= Cardinality(children)
    BY <2>1, FS_Subset
  <2>3. Cardinality(children \ {a}) \in Nat
    BY <2>2, FS_CardinalityType
  <2>4. Cardinality(children') <= MaxProcs
    BY <1>3, <2>1, <2>2, <2>3 DEF Reap, SupervisorAssumption
  <2> QED BY <1>0, <1>3, <2>4 DEF Reap, scanVars
<1>4. ASSUME NEW a \in Accounts, NEW j \in Jobs, Begin(a, j) \/ Pass(a, j)
      PROVE  TypeOK' /\ ScanOK'
  <2>1. Window \in 0..Window /\ 0 \in 0..Window
    BY DEF SupervisorAssumption
  <2>2. row' \in [Jobs -> [status: Statuses, clock: 0..Window]]
    BY <1>4, <2>1 DEF Begin, Pass
  <2>3. batch' \in [Accounts -> SUBSET Jobs] /\ doing' \in [Accounts -> Jobs \cup {Null}]
    BY <1>4 DEF Begin, Pass, Reaches
  <2> QED BY <1>0, <1>4, <2>2, <2>3 DEF Begin, Pass, scanVars
<1>5. ASSUME NEW a \in Accounts, KillChild(a) PROVE TypeOK' /\ ScanOK'
  <2>1. IsFiniteSet(children) /\ Cardinality(children) \in Nat
    BY FS_Subset, FS_CardinalityType DEF SupervisorAssumption
  <2>2. IsFiniteSet(children \ {a}) /\ Cardinality(children \ {a}) <= Cardinality(children)
    BY <2>1, FS_Subset
  <2>3. Cardinality(children \ {a}) \in Nat
    BY <2>2, FS_CardinalityType
  <2>4. Cardinality(children') <= MaxProcs
    BY <1>5, <2>1, <2>2, <2>3 DEF KillChild, Killed, SupervisorAssumption
  <2>5. kills' \in 0..MaxKills
    BY <1>5 DEF KillChild, Killed, SupervisorAssumption
  <2> QED BY <1>0, <1>5, <2>4, <2>5 DEF KillChild, Killed, scanVars
<1>6. ASSUME NEW j \in Jobs, Recover(j) \/ Submit(j) PROVE TypeOK' /\ ScanOK'
  <2>1. Window \in 0..Window /\ 0 \in 0..Window
    BY DEF SupervisorAssumption
  <2>2. row' \in [Jobs -> [status: Statuses, clock: 0..Window]]
    <3>1. CASE Submit(j)
      BY <2>1, <3>1 DEF Submit
    <3>2. CASE Recover(j)
      BY <2>1, <3>2 DEF Recover
    <3> QED BY <1>6, <3>1, <3>2
  <2> QED BY <1>0, <1>6, <2>2 DEF Recover, Submit, scanVars, childVars
<1> QED BY <1>1, <1>2, <1>3, <1>4, <1>5, <1>6 DEF ChildStep

(* A stop of the supervisor, and the list of what is queued. *)
LEMMA ListTypes ==
  ASSUME TypeOK, ScanOK, List \/ Restart
  PROVE  TypeOK' /\ ScanOK'
<1> USE DEF TypeOK
<1>1. CASE List
  <2>1. ScanOK'
    BY <1>1 DEF List, ScanOK, Members, Singly, Before
  <2> QED BY <1>1, <2>1 DEF List, childVars
<1>2. CASE Restart
  <2>1. children' = {} /\ Cardinality({}) = 0
    BY <1>2, FS_EmptySet DEF Restart, Killed
  <2>2. Cardinality(children') <= MaxProcs
    BY <2>1 DEF SupervisorAssumption
  <2>3. kills' \in 0..MaxKills
    BY <1>2 DEF Restart, Killed, SupervisorAssumption
  <2>4. ScanOK'
    BY <1>2 DEF Restart, ScanOK, Members, Singly
  <2> QED BY <1>2, <2>1, <2>2, <2>3, <2>4 DEF Restart, Killed, Restful
<1> QED BY <1>1, <1>2

LEMMA CountTypes ==
  ASSUME TypeOK, ScanOK, Count
  PROVE  /\ TypeOK' /\ ScanOK' /\ Members(rotation) \subseteq Members(rotation')
         /\ \A a, b : Before(rotation, a, b) => Before(rotation', a, b)
<1> DEFINE A == {Account[j] : j \in work}
<1>1. A \in SUBSET Accounts
  BY DEF TypeOK, SupervisorAssumption
<1>2. rotation' \in Joined(A) /\ turn' \in InTurn(rotation', A)
  BY DEF Count
<1> HIDE DEF A
<1>3. /\ rotation' \in Seq(Accounts) /\ Singly(rotation')
      /\ Members(rotation') = Members(rotation) \cup A
      /\ \A a, b : Before(rotation, a, b) => Before(rotation', a, b)
  BY <1>1, <1>2, JoinedIs DEF TypeOK, ScanOK
<1>4. turn' \in Lined(A) /\ \A i, k \in DOMAIN turn' : i < k => Before(rotation', turn'[i], turn'[k])
  BY <1>2 DEF InTurn
<1>5. turn' \in Seq(Accounts) /\ Singly(turn') /\ Members(turn') = A
  BY <1>1, <1>4, LinedIs
<1>6. sent' = <<>> /\ phase' = "dispatch"
  BY DEF Count, ScanOK
<1>7. ScanOK'
  <2>1. Members(<<>>) = {} /\ Singly(<<>>)
    BY DEF Members, Singly
  <2> QED BY <1>3, <1>4, <1>5, <1>6, <2>1 DEF ScanOK
<1>8. recent' \in [Accounts -> Nat]
  <2>1. \A a \in Accounts : RecentSessions(a) \in Nat
    BY JobSets DEF RecentSessions, JobsOf
  <2> QED BY <2>1 DEF Count
<1>9. TypeOK'
  BY <1>3, <1>5, <1>8 DEF Count, TypeOK, childVars
<1> QED BY <1>3, <1>7, <1>9

LEMMA SpawnTypes ==
  ASSUME TypeOK, ScanOK, NEW i \in 1..Cardinality(Accounts), Spawn(i)
  PROVE  /\ TypeOK' /\ ScanOK' /\ i \in DOMAIN turn /\ turn[i] \in Accounts
         /\ Members(sent') = Members(sent) \cup {turn[i]}
         /\ Members(turn') \subseteq Members(turn) \ {turn[i]}
         /\ \A k \in DOMAIN turn : k > i => turn[k] \in Members(turn')
<1> DEFINE a == turn[i]
<1>1. i \in DOMAIN turn /\ Servable(a) /\ Room
  BY DEF Spawn, IsNext
<1>2. a \in Accounts /\ a \in Members(turn) /\ turn \in Seq(Accounts) /\ sent \in Seq(Accounts)
  BY <1>1 DEF Members, TypeOK
<1>3. turn' = SubSeq(turn, i + 1, Len(turn)) /\ sent' = Append(sent, a)
  BY DEF Spawn
<1>4. UNCHANGED <<row, doing, phase, work, recent, rotation, kills>> /\ phase = "dispatch"
  BY DEF Spawn
<1>5. /\ turn' \in Seq(Accounts) /\ Singly(turn') /\ Members(turn') \subseteq Members(turn)
      /\ \A k \in DOMAIN turn' : k + i \in DOMAIN turn /\ turn'[k] = turn[k + i]
      /\ DOMAIN turn' \subseteq Nat /\ i \in Nat /\ a \notin Members(turn')
      /\ \A k \in DOMAIN turn : k > i => turn[k] \in Members(turn')
  <2>1. Singly(turn) /\ After(turn, i, turn')
    BY <1>3 DEF ScanOK, After
  <2> QED BY <1>1, <1>2, <2>1, Rest
<1>6. /\ sent' \in Seq(Accounts) /\ Singly(sent')
      /\ Members(sent') = Members(sent) \cup {a}
  <2>1. a \notin Members(sent)
    BY <1>2 DEF ScanOK
  <2> QED BY <1>2, <1>3, <2>1, OneMore DEF ScanOK
<1>7. \A k, l \in DOMAIN turn' : k < l => Before(rotation', turn'[k], turn'[l])
  <2>1. ASSUME NEW k \in DOMAIN turn', NEW l \in DOMAIN turn', k < l
        PROVE  Before(rotation, turn[k + i], turn[l + i])
    <3>1. k + i < l + i /\ k + i \in DOMAIN turn /\ l + i \in DOMAIN turn
      BY <1>5, <2>1
    <3> QED BY <3>1 DEF ScanOK
  <2> QED BY <1>4, <1>5, <2>1
<1>8. ScanOK'
  <2>1. Members(turn') \cap Members(sent') = {}
    BY <1>5, <1>6 DEF ScanOK
  <2>2. Members(turn') \subseteq Members(rotation') /\ Members(sent') \subseteq Members(rotation')
    BY <1>2, <1>4, <1>5, <1>6 DEF ScanOK
  <2>3. Singly(rotation')
    BY <1>4 DEF ScanOK
  <2> QED BY <1>4, <1>5, <1>6, <1>7, <2>1, <2>2, <2>3 DEF ScanOK
<1>9. batch' \in [Accounts -> SUBSET Jobs]
  <2>1. \A kept \in Kept(a) : kept \in SUBSET Jobs
    BY DEF Kept, Oldest, JobsOf
  <2> QED BY <1>2, <2>1 DEF Spawn, TypeOK
<1>10. children' \subseteq Accounts /\ Cardinality(children') <= MaxProcs
  <2>1. IsFiniteSet(children) /\ Cardinality(children) \in Nat
    BY FS_Subset, FS_CardinalityType DEF SupervisorAssumption, TypeOK
  <2>2. Cardinality(children \cup {a}) <= Cardinality(children) + 1
        /\ Cardinality(children \cup {a}) \in Nat
    <3>1. /\ IsFiniteSet(children \cup {a})
          /\ Cardinality(children \cup {a}) =
               IF a \in children THEN Cardinality(children) ELSE Cardinality(children) + 1
      BY <2>1, FS_AddElement
    <3> QED BY <2>1, <3>1
  <2>3. Cardinality(children \cup {a}) <= MaxProcs
    BY <1>1, <2>1, <2>2 DEF Room, SupervisorAssumption
  <2> QED BY <1>2, <2>3 DEF Spawn, TypeOK
<1>11. faults' \in 0..MaxFaults
  BY DEF Spawn, TypeOK, SupervisorAssumption
<1>12. ahead' \in [Accounts -> SUBSET Accounts]
  BY <1>2 DEF Spawn, TypeOK, Overtaken
<1>13. TypeOK'
  BY <1>4, <1>5, <1>6, <1>9, <1>10, <1>11, <1>12 DEF TypeOK
<1> QED BY <1>1, <1>2, <1>5, <1>6, <1>8, <1>13

LEMMA EndTypes ==
  ASSUME TypeOK, ScanOK, EndScan
  PROVE  TypeOK' /\ ScanOK'
<1>1. /\ rotation' \in Seq(Accounts) /\ Singly(rotation')
      /\ Members(rotation') = Members(rotation)
  <2>1. rotation' \in Rotated
    BY DEF EndScan
  <2> QED BY <2>1, RotatedIs DEF TypeOK, ScanOK
<1>2. ScanOK'
  BY <1>1 DEF EndScan, ScanOK, Members, Singly
<1> QED BY <1>1, <1>2 DEF EndScan, TypeOK, Restful, childVars

LEMMA ShapeStep ==
  ASSUME TypeOK, ScanOK, [Next]_vars
  PROVE  TypeOK' /\ ScanOK'
<1>1. CASE UNCHANGED vars
  <2>1. ScanOK'
    BY <1>1, SameScan DEF vars
  <2> QED BY <1>1, <2>1 DEF vars, TypeOK, scanVars, childVars
<1> QED BY <1>1, OutsideTypes, ListTypes, CountTypes, SpawnTypes, EndTypes DEF Next, ScanStep

(***************************************************************************)
(* Batches                                                                 *)
(***************************************************************************)

(* A batch is one of the account's jobs, at most MaxBatch of them. *)
LEMMA KeptIs ==
  ASSUME TypeOK, NEW a \in Accounts, NEW kept \in Kept(a)
  PROVE  /\ kept \subseteq JobsOf(a) /\ kept \in SUBSET Jobs /\ Cardinality(kept) <= MaxBatch
         /\ \A j \in kept : CapAllows(j, recent[a] + Cardinality({k \in kept : k < j}))
<1> DEFINE mine == work \cap JobsOf(a)
<1>1. mine \in SUBSET Jobs /\ kept \in SUBSET Oldest(a) /\ Oldest(a) \in SUBSET mine
  BY DEF Kept, Oldest, JobsOf
<1>2. ASSUME NEW j \in Oldest(a) PROVE Cardinality({k \in Oldest(a) : k < j}) < MaxBatch
  <2>1. Cardinality({k \in mine : k < j}) < MaxBatch
    BY <1>2 DEF Oldest
  <2>2. {k \in mine : k < j} \in SUBSET Jobs
        /\ {k \in Oldest(a) : k < j} \in SUBSET {k \in mine : k < j}
    BY <1>1
  <2>3. /\ Cardinality({k \in Oldest(a) : k < j}) <= Cardinality({k \in mine : k < j})
        /\ Cardinality({k \in Oldest(a) : k < j}) \in Nat
        /\ Cardinality({k \in mine : k < j}) \in Nat
    BY <2>2, JobSets
  <2> QED BY <2>1, <2>3 DEF SupervisorAssumption
<1>3. /\ Oldest(a) \in SUBSET Nat /\ IsFiniteSet(Oldest(a)) /\ Oldest(a) \in SUBSET Jobs
      /\ Cardinality(Oldest(a)) \in Nat
  <2>1. Oldest(a) \in SUBSET Jobs
    BY <1>1
  <2> QED BY <2>1, JobSets DEF SupervisorAssumption
<1>4. Cardinality(Oldest(a)) <= MaxBatch
  <2>1. MaxBatch \in Nat
    BY DEF SupervisorAssumption
  <2> QED BY <1>2, <1>3, <2>1, FewBelow
<1>5. Cardinality(kept) <= MaxBatch
  <2>1. Cardinality(kept) <= Cardinality(Oldest(a)) /\ Cardinality(kept) \in Nat
    BY <1>1, <1>3, JobSets
  <2> QED BY <1>3, <1>4, <2>1 DEF SupervisorAssumption
<1>6. kept \subseteq JobsOf(a) /\ kept \in SUBSET Jobs
  BY <1>1
<1>7. \A j \in kept : CapAllows(j, recent[a] + Cardinality({k \in kept : k < j}))
  BY <1>1 DEF Kept
<1> QED BY <1>5, <1>6, <1>7

LEMMA BatchStep ==
  ASSUME TypeOK, ScanOK, BatchOK, [Next]_vars
  PROVE  BatchOK'
<1>0. /\ row \in [Jobs -> [status: Statuses, clock: 0..Window]]
      /\ batch \in [Accounts -> SUBSET Jobs] /\ doing \in [Accounts -> Jobs \cup {Null}]
      /\ Null \notin Jobs
  BY DEF TypeOK, SupervisorAssumption
<1> USE DEF BatchOK
<1>1. CASE UNCHANGED vars \/ List \/ Count \/ EndScan
  <2>1. UNCHANGED <<row, batch, doing, children>>
    BY <1>1 DEF vars, childVars, List, Count, EndScan
  <2> QED BY <2>1 DEF JobsOf
<1>2. CASE Tick
  <2>1. \A j \in Jobs : row'[j].status = row[j].status
    BY <1>0, <1>2 DEF Tick
  <2> QED BY <1>0, <1>2, <2>1 DEF Tick, childVars, JobsOf
<1>3. ASSUME NEW j \in Jobs, Recover(j) \/ Submit(j) PROVE BatchOK'
  <2>1. \A k \in Jobs \ {j} : row'[k].status = row[k].status
    BY <1>0, <1>3 DEF Recover, Submit
  <2>2. \A a \in Accounts : doing[a] # j
    BY <1>0, <1>3 DEF Recover, Submit
  <2>3. UNCHANGED <<batch, doing, children>>
    BY <1>3 DEF Recover, Submit, childVars
  <2>4. ASSUME NEW b \in Accounts, doing[b] # Null
        PROVE  row'[doing[b]].status = "running"
    <3>1. doing[b] \in Jobs \ {j} /\ row[doing[b]].status = "running"
      BY <1>0, <2>2, <2>4
    <3> QED BY <2>1, <3>1
  <2> QED BY <2>3, <2>4 DEF JobsOf
<1>4. ASSUME NEW a \in Accounts, End(a) PROVE BatchOK'
  <2>1. doing[a] \in Jobs /\ Account[doing[a]] = a
    BY <1>0, <1>4 DEF End
  <2>2. \A k \in Jobs \ {doing[a]} : row'[k].status = row[k].status
    BY <1>0, <1>4, <2>1 DEF End
  <2>3. /\ doing' = [doing EXCEPT ![a] = Null] /\ UNCHANGED <<batch, children>>
    BY <1>4 DEF End
  <2>4. ASSUME NEW b \in Accounts, doing'[b] # Null
        PROVE  Account[doing'[b]] = b /\ row'[doing'[b]].status = "running"
    <3>1. b # a /\ doing'[b] = doing[b] /\ doing[b] \in Jobs
      BY <1>0, <2>3, <2>4
    <3>2. Account[doing[b]] = b /\ row[doing[b]].status = "running"
      BY <2>4, <3>1
    <3> QED BY <2>1, <2>2, <3>1, <3>2
  <2> QED BY <2>3, <2>4 DEF JobsOf
<1>5. ASSUME NEW a \in Accounts, NEW j \in Jobs, Begin(a, j) PROVE BatchOK'
  <2>1. j \in JobsOf(a) /\ Account[j] = a
    BY <1>5 DEF Begin, Reaches, JobsOf
  <2>2. /\ batch' = [batch EXCEPT ![a] = @ \ {j}] /\ doing' = [doing EXCEPT ![a] = j]
        /\ children' = children
    BY <1>5 DEF Begin, Reaches
  <2>3. ASSUME NEW b \in Accounts, doing'[b] # Null
        PROVE  Account[doing'[b]] = b /\ row'[doing'[b]].status = "running"
    BY <1>0, <1>5, <2>1, <2>2, <2>3 DEF Begin
  <2>4. Cardinality(batch[a] \ {j}) <= MaxBatch
    <3>1. batch[a] \in SUBSET Jobs /\ batch[a] \ {j} \in SUBSET batch[a]
      BY <1>0
    <3>2. Cardinality(batch[a] \ {j}) <= Cardinality(batch[a])
          /\ Cardinality(batch[a] \ {j}) \in Nat /\ Cardinality(batch[a]) \in Nat
      BY <3>1, JobSets
    <3>3. Cardinality(batch[a]) <= MaxBatch /\ MaxBatch \in Nat
      BY DEF SupervisorAssumption
    <3> QED BY <3>2, <3>3
  <2>5. ASSUME NEW b \in Accounts
        PROVE  /\ b \notin children' => batch'[b] = {}
               /\ batch'[b] \subseteq JobsOf(b) /\ Cardinality(batch'[b]) <= MaxBatch
    <3>1. CASE b = a
      BY <1>0, <2>2, <2>4, <3>1
    <3>2. CASE b # a
      BY <1>0, <2>2, <3>2
    <3> QED BY <3>1, <3>2
  <2> QED BY <2>3, <2>5 DEF JobsOf
<1>6. ASSUME NEW a \in Accounts, NEW j \in Jobs, Pass(a, j) PROVE BatchOK'
  <2>1. batch' = [batch EXCEPT ![a] = @ \ {j}] /\ UNCHANGED <<row, doing, children>>
    BY <1>6 DEF Pass, Reaches
  <2>2. Cardinality(batch[a] \ {j}) <= MaxBatch
    <3>1. batch[a] \in SUBSET Jobs /\ batch[a] \ {j} \in SUBSET batch[a]
      BY <1>0
    <3>2. Cardinality(batch[a] \ {j}) <= Cardinality(batch[a])
          /\ Cardinality(batch[a] \ {j}) \in Nat /\ Cardinality(batch[a]) \in Nat
      BY <3>1, JobSets
    <3>3. Cardinality(batch[a]) <= MaxBatch /\ MaxBatch \in Nat
      BY DEF SupervisorAssumption
    <3> QED BY <3>2, <3>3
  <2>3. ASSUME NEW b \in Accounts
        PROVE  /\ b \notin children' => batch'[b] = {}
               /\ batch'[b] \subseteq JobsOf(b) /\ Cardinality(batch'[b]) <= MaxBatch
    <3>1. CASE b = a
      BY <1>0, <2>1, <2>2, <3>1
    <3>2. CASE b # a
      BY <1>0, <2>1, <3>2
    <3> QED BY <3>1, <3>2
  <2>4. \A b \in Accounts : doing'[b] # Null =>
          Account[doing'[b]] = b /\ row'[doing'[b]].status = "running"
    BY <2>1
  <2> QED BY <2>3, <2>4 DEF JobsOf
<1>7. ASSUME NEW a \in Accounts, Reap(a) PROVE BatchOK'
  BY <1>0, <1>7 DEF Reap, JobsOf
<1>8. ASSUME NEW S \in SUBSET children, Killed(S), row' = row PROVE BatchOK'
  <2>1. Cardinality({}) <= MaxBatch
    BY FS_EmptySet DEF SupervisorAssumption
  <2> QED BY <1>0, <1>8, <2>1 DEF Killed, JobsOf
<1>9. ASSUME NEW i \in 1..Cardinality(Accounts), Spawn(i) PROVE BatchOK'
  <2> DEFINE a == turn[i]
  <2>1. a \in Accounts
    BY <1>9, SpawnTypes
  <2>2. UNCHANGED <<row, doing>>
    BY <1>9 DEF Spawn
  <2>3. CASE UNCHANGED <<children, batch>>
    BY <2>2, <2>3 DEF JobsOf
  <2>4. ASSUME children' = children \cup {a},
               NEW kept \in Kept(a), batch' = [batch EXCEPT ![a] = kept]
        PROVE  BatchOK'
    <3>1. kept \subseteq JobsOf(a) /\ Cardinality(kept) <= MaxBatch
      BY <2>1, KeptIs
    <3> HIDE DEF a
    <3> QED BY <1>0, <2>1, <2>2, <2>4, <3>1 DEF JobsOf
  <2>5. \/ UNCHANGED <<children, batch>>
        \/ /\ children' = children \cup {a}
           /\ \E kept \in Kept(a) : batch' = [batch EXCEPT ![a] = kept]
    BY <1>9 DEF Spawn
  <2> HIDE DEF a
  <2> QED BY <2>3, <2>4, <2>5
<1> HIDE DEF BatchOK
<1>10. ASSUME NEW a \in Accounts, KillChild(a) PROVE BatchOK'
  <2>1. {a} \in SUBSET children /\ Killed({a}) /\ row' = row
    BY <1>10 DEF KillChild
  <2> QED BY <1>8, <2>1
<1>11. CASE Restart
  <2>1. children \in SUBSET children /\ Killed(children) /\ row' = row
    BY <1>11 DEF Restart
  <2> QED BY <1>8, <2>1
<1> QED BY <1>1, <1>2, <1>3, <1>4, <1>5, <1>6, <1>7, <1>9, <1>10, <1>11
     DEF Next, ScanStep, ChildStep

(***************************************************************************)
(* Sessions                                                                *)
(***************************************************************************)

(* Fewer sessions are near the caps when more were. *)
LEMMA Lessens ==
  ASSUME CapInv,
         \A a \in Accounts : \A j \in JobsOf(a) :
           IsSession(j)' \/ j \in batch'[a] => IsSession(j) \/ j \in batch[a]
  PROVE  /\ CapOK'
         /\ \A a \in Accounts : /\ Cardinality(Held(a, Jobs)') \in Nat
                               /\ Cardinality(Held(a, Jobs)) \in Nat
                               /\ Cardinality(Held(a, Jobs)') <= Cardinality(Held(a, Jobs))
<1>1. ASSUME NEW a \in Accounts, NEW S \in SUBSET Jobs
      PROVE  /\ Cardinality(Held(a, S)') \in Nat /\ Cardinality(Held(a, S)) \in Nat
             /\ Cardinality(Held(a, S)') <= Cardinality(Held(a, S))
  <2>1. Held(a, S)' \in SUBSET Held(a, S)
    BY <1>1 DEF Held, JobsOf
  <2>2. Held(a, S) \in SUBSET Jobs
    BY <1>1 DEF Held
  <2> QED BY <2>1, <2>2, JobSets
<1>2. CapOK'
  <2>1. Jobs \ Operated \in SUBSET Jobs /\ Jobs \in SUBSET Jobs
    OBVIOUS
  <2> SUFFICES ASSUME NEW a \in Accounts PROVE NearCap(a)'
    BY DEF CapOK
  <2>2. NearCap(a) /\ SessionCap \in Nat /\ OperatorCap \in Nat /\ MaxBatch \in Nat
    BY DEF CapInv, CapOK, SupervisorAssumption
  <2>3. /\ Cardinality(Held(a, Jobs)') <= Cardinality(Held(a, Jobs))
        /\ Cardinality(Held(a, Jobs \ Operated)') <= Cardinality(Held(a, Jobs \ Operated))
        /\ Cardinality(Held(a, Jobs)') \in Nat /\ Cardinality(Held(a, Jobs)) \in Nat
        /\ Cardinality(Held(a, Jobs \ Operated)') \in Nat
        /\ Cardinality(Held(a, Jobs \ Operated)) \in Nat
    BY <1>1, <2>1
  <2> QED BY <2>2, <2>3 DEF NearCap
<1> QED BY <1>1, <1>2

(* What a spawn hands out fits under the caps, with what came since the count. *)
LEMMA HandsOut ==
  ASSUME CapInv, NEW a \in Accounts, a \in Members(turn), a \notin children,
         NEW kept \in Kept(a), row' = row, batch' = [batch EXCEPT ![a] = kept]
  PROVE  CapOK'
<1>0. /\ batch \in [Accounts -> SUBSET Jobs] /\ recent \in [Accounts -> Nat]
      /\ Operated \in SUBSET Jobs /\ SessionCap \in Nat /\ OperatorCap \in Nat /\ MaxBatch \in Nat
  BY DEF CapInv, TypeOK, SupervisorAssumption
<1>1. /\ kept \subseteq JobsOf(a) /\ kept \in SUBSET Jobs
      /\ \A j \in kept : CapAllows(j, recent[a] + Cardinality({k \in kept : k < j}))
  BY KeptIs DEF CapInv
<1>2. Cardinality(Held(a, Jobs)) <= recent[a] + MaxBatch
  BY DEF CapInv, CountOK
<1>3. ASSUME NEW b \in Accounts \ {a} PROVE NearCap(b)'
  <2>1. \A S : Held(b, S)' = Held(b, S)
    BY <1>0 DEF Held, JobsOf, IsSession
  <2> QED BY <2>1 DEF CapInv, CapOK, NearCap
<1>4. ASSUME NEW S \in SUBSET Jobs, NEW cap \in Nat, Cardinality(Held(a, S)) <= cap + MaxBatch,
             \A j \in kept \cap S : recent[a] + Cardinality({k \in kept : k < j}) < cap
      PROVE  Cardinality(Held(a, S)') <= cap + MaxBatch
  <2>1. Held(a, S)' = Held(a, S) \cup (kept \cap S)
    <3>1. batch[a] = {} /\ batch'[a] = kept
      BY <1>0 DEF CapInv, BatchOK
    <3> QED BY <1>1, <3>1 DEF Held, JobsOf, IsSession
  <2>2. CASE kept \cap S = {}
    BY <1>4, <2>1, <2>2
  <2>3. CASE kept \cap S # {}
    <3>1. recent[a] + Cardinality(kept \cap S) <= cap
      BY <1>0, <1>1, <1>4, <2>3, CapLeaves
    <3>2. /\ Held(a, S) \in SUBSET Jobs /\ kept \cap S \in SUBSET Jobs
          /\ Held(a, S) \in SUBSET Held(a, Jobs) /\ Held(a, Jobs) \in SUBSET Jobs
          /\ Held(a, S) \cap (kept \cap S) \in SUBSET Jobs
      BY <1>4 DEF Held
    <3>3. /\ IsFiniteSet(Held(a, S)) /\ Cardinality(Held(a, S)) \in Nat
          /\ IsFiniteSet(kept \cap S) /\ Cardinality(kept \cap S) \in Nat
          /\ Cardinality(Held(a, S) \cap (kept \cap S)) \in Nat
          /\ Cardinality(Held(a, Jobs)) \in Nat
          /\ Cardinality(Held(a, S)) <= Cardinality(Held(a, Jobs))
      BY <3>2, JobSets
    <3>4. Cardinality(Held(a, S) \cup (kept \cap S)) =
            Cardinality(Held(a, S)) + Cardinality(kept \cap S)
              - Cardinality(Held(a, S) \cap (kept \cap S))
      BY <3>3, FS_Union
    <3> DEFINE h == Cardinality(Held(a, S))
    <3> DEFINE k == Cardinality(kept \cap S)
    <3> DEFINE both == Cardinality(Held(a, S) \cap (kept \cap S))
    <3> DEFINE all == Cardinality(Held(a, Jobs))
    <3>5. h \in Nat /\ k \in Nat /\ both \in Nat /\ all \in Nat /\ h <= all
          /\ all <= recent[a] + MaxBatch /\ recent[a] + k <= cap /\ recent[a] \in Nat
      BY <1>0, <1>2, <3>1, <3>3
    <3> HIDE DEF h, k, both, all
    <3>6. h + k - both <= cap + MaxBatch
      BY <1>0, <3>5
    <3> QED BY <2>1, <3>4, <3>6 DEF h, k, both
  <2> QED BY <2>2, <2>3
<1>5. NearCap(a)'
  <2>1. ASSUME SessionCap > 0
        PROVE  Cardinality(Held(a, Jobs \ Operated)') <= SessionCap + MaxBatch
    <3>1. \A j \in kept \cap (Jobs \ Operated) :
            recent[a] + Cardinality({k \in kept : k < j}) < SessionCap
      BY <1>0, <1>1, <2>1 DEF CapAllows
    <3>2. Cardinality(Held(a, Jobs \ Operated)) <= SessionCap + MaxBatch
      BY <2>1 DEF CapInv, CapOK, NearCap
    <3>3. Jobs \ Operated \in SUBSET Jobs
      OBVIOUS
    <3> QED BY <1>0, <1>4, <3>1, <3>2, <3>3
  <2>2. ASSUME SessionCap > 0, OperatorCap >= SessionCap
        PROVE  Cardinality(Held(a, Jobs)') <= OperatorCap + MaxBatch
    <3>1. ASSUME NEW j \in kept \cap Jobs
          PROVE  recent[a] + Cardinality({k \in kept : k < j}) < OperatorCap
      <4>1. Cardinality({k \in kept : k < j}) \in Nat
        <5>1. {k \in kept : k < j} \in SUBSET Jobs
          BY <1>1
        <5> QED BY <5>1, JobSets
      <4>2. CapAllows(j, recent[a] + Cardinality({k \in kept : k < j}))
        BY <1>1
      <4> QED BY <1>0, <2>2, <4>1, <4>2 DEF CapAllows
    <3>2. Cardinality(Held(a, Jobs)) <= OperatorCap + MaxBatch
      BY <2>2 DEF CapInv, CapOK, NearCap
    <3>3. Jobs \in SUBSET Jobs
      OBVIOUS
    <3> QED BY <1>0, <1>4, <3>1, <3>2, <3>3
  <2> QED BY <2>1, <2>2 DEF NearCap
<1> QED BY <1>3, <1>5 DEF CapOK

(* Nothing but a spawn brings sessions on; turns only pass. *)
LEMMA QuietKeeps ==
  ASSUME CapInv, [Next]_vars, ~(\E i \in 1..Cardinality(Accounts) : Spawn(i))
  PROVE  \A a \in Accounts : \A j \in JobsOf(a) :
           IsSession(j)' \/ j \in batch'[a] => IsSession(j) \/ j \in batch[a]
<1>0. /\ row \in [Jobs -> [status: Statuses, clock: 0..Window]]
      /\ batch \in [Accounts -> SUBSET Jobs] /\ doing \in [Accounts -> Jobs \cup {Null}]
      /\ Null \notin Jobs
  BY DEF CapInv, TypeOK, SupervisorAssumption
<1> SUFFICES ASSUME NEW b \in Accounts, NEW k \in JobsOf(b), IsSession(k)' \/ k \in batch'[b]
             PROVE  IsSession(k) \/ k \in batch[b]
  OBVIOUS
<1> USE DEF IsSession
<1>k. k \in Jobs /\ Account[k] = b
  BY DEF JobsOf
<1>1. CASE UNCHANGED vars \/ List \/ Count \/ EndScan
  <2>1. UNCHANGED <<row, batch>>
    BY <1>1 DEF vars, childVars, List, Count, EndScan
  <2> QED BY <2>1
<1>2. CASE Tick
  <2>1. row'[k] = [row[k] EXCEPT !.clock = Less(@)] /\ batch' = batch
    BY <1>k, <1>2 DEF Tick, childVars
  <2>2. row[k].clock \in Nat /\ (Less(row[k].clock) > 0 => row[k].clock > 0)
    <3>1. row[k].clock \in 0..Window
      BY <1>0, <1>k
    <3>2. row[k].clock \in Nat
      BY <3>1 DEF SupervisorAssumption
    <3> QED BY <3>2 DEF Less
  <2>3. row'[k].status = row[k].status /\ row'[k].clock = Less(row[k].clock)
    BY <1>0, <1>k, <2>1
  <2> QED BY <2>1, <2>2, <2>3
<1>3. ASSUME NEW j \in Jobs, Recover(j) \/ Submit(j) PROVE IsSession(k) \/ k \in batch[b]
  <2>1. batch' = batch
    BY <1>3 DEF Recover, Submit, childVars
  <2>2. CASE k # j
    <3>1. row'[k] = row[k]
      BY <1>0, <1>3, <1>k, <2>2 DEF Recover, Submit
    <3> QED BY <2>1, <3>1
  <2>3. CASE k = j
    <3>1. CASE Recover(j)
      BY <2>3, <3>1 DEF Recover
    <3>2. CASE Submit(j)
      <4>1. row'[j].status = "queued"
        BY <1>0, <3>2 DEF Submit
      <4> QED BY <2>1, <2>3, <4>1
    <3> QED BY <1>3, <3>1, <3>2
  <2> QED BY <2>2, <2>3
<1>4. ASSUME NEW a \in Accounts, End(a) PROVE IsSession(k) \/ k \in batch[b]
  <2>1. doing[a] \in Jobs /\ row[doing[a]].status = "running" /\ batch' = batch
    BY <1>0, <1>4 DEF End, CapInv, BatchOK
  <2>2. CASE k # doing[a]
    BY <1>0, <1>4, <1>k, <2>1, <2>2 DEF End
  <2>3. CASE k = doing[a]
    BY <2>1, <2>3
  <2> QED BY <2>2, <2>3
<1>5. ASSUME NEW a \in Accounts, NEW j \in Jobs, Begin(a, j) \/ Pass(a, j)
      PROVE  IsSession(k) \/ k \in batch[b]
  <2>1. batch' = [batch EXCEPT ![a] = @ \ {j}] /\ j \in batch[a]
    BY <1>5 DEF Begin, Pass, Reaches
  <2>2. Account[j] = a
    BY <2>1, <1>5 DEF CapInv, BatchOK, JobsOf
  <2>3. CASE k # j
    BY <1>0, <1>5, <1>k, <2>1, <2>3 DEF Begin, Pass
  <2>4. CASE k = j
    BY <1>k, <2>1, <2>2, <2>4
  <2> QED BY <2>3, <2>4
<1>6. ASSUME NEW a \in Accounts, Reap(a) PROVE IsSession(k) \/ k \in batch[b]
  BY <1>6 DEF Reap
<1>7. ASSUME NEW S, Killed(S), row' = row PROVE IsSession(k) \/ k \in batch[b]
  BY <1>0, <1>7 DEF Killed
<1> QED BY <1>1, <1>2, <1>3, <1>4, <1>5, <1>6, <1>7
     DEF Next, ScanStep, ChildStep, KillChild, Restart

LEMMA CapStep ==
  ASSUME CapInv, [Next]_vars
  PROVE  CapInv'
<1>0. TypeOK' /\ ScanOK' /\ BatchOK'
  BY ShapeStep, BatchStep DEF CapInv
<1>t. Members(turn) \subseteq Accounts /\ recent \in [Accounts -> Nat]
  BY DEF CapInv, TypeOK, Members
<1>b. MaxBatch \in Nat
  BY DEF SupervisorAssumption
<1>1. ASSUME \A a \in Accounts : \A j \in JobsOf(a) :
               IsSession(j)' \/ j \in batch'[a] => IsSession(j) \/ j \in batch[a],
             Members(turn') \subseteq Members(turn), recent' = recent \/ Members(turn') = {}
      PROVE  CapInv'
  <2>1. CapOK'
    BY <1>1, Lessens
  <2>2. ASSUME NEW a \in Members(turn') PROVE Cardinality(Held(a, Jobs)') <= recent'[a] + MaxBatch
    <3>1. a \in Accounts /\ a \in Members(turn) /\ recent'[a] = recent[a] /\ recent[a] \in Nat
      BY <1>1, <1>t, <2>2
    <3>2. Cardinality(Held(a, Jobs)) <= recent[a] + MaxBatch
      BY <3>1 DEF CapInv, CountOK
    <3>3. /\ Cardinality(Held(a, Jobs)') \in Nat /\ Cardinality(Held(a, Jobs)) \in Nat
          /\ Cardinality(Held(a, Jobs)') <= Cardinality(Held(a, Jobs))
      BY <1>1, <3>1, Lessens
    <3> QED BY <1>b, <3>1, <3>2, <3>3
  <2>3. CountOK'
    BY <2>2 DEF CountOK
  <2> QED BY <1>0, <2>1, <2>3 DEF CapInv
<1>2. ASSUME NEW i \in 1..Cardinality(Accounts), Spawn(i) PROVE CapInv'
  <2> DEFINE a == turn[i]
  <2>1. /\ a \in Accounts /\ a \in Members(turn)
        /\ Members(turn') \subseteq Members(turn) \ {a}
    <3>1. i \in DOMAIN turn /\ a \in Accounts /\ Members(turn') \subseteq Members(turn) \ {a}
      BY <1>2, SpawnTypes DEF CapInv
    <3> QED BY <3>1 DEF Members
  <2>2. a \notin children /\ row' = row /\ recent' = recent
    BY <1>2 DEF Spawn, IsNext, Servable
  <2>3. \/ UNCHANGED <<children, batch>>
        \/ \E kept \in Kept(a) : batch' = [batch EXCEPT ![a] = kept]
    BY <1>2 DEF Spawn
  <2> HIDE DEF a
  <2>4. CASE UNCHANGED <<children, batch>>
    <3>1. \A b \in Accounts : \A j \in JobsOf(b) :
            IsSession(j)' \/ j \in batch'[b] => IsSession(j) \/ j \in batch[b]
      BY <2>2, <2>4 DEF IsSession
    <3> QED BY <1>1, <2>1, <2>2, <3>1
  <2>5. CASE \E kept \in Kept(a) : batch' = [batch EXCEPT ![a] = kept]
    <3>1. CapOK'
      BY <2>1, <2>2, <2>5, HandsOut
    <3>2. ASSUME NEW b \in Members(turn')
          PROVE  Cardinality(Held(b, Jobs)') <= recent'[b] + MaxBatch
      <4>1. b \in Accounts /\ b # a /\ b \in Members(turn)
        BY <1>t, <2>1, <3>2
      <4>2. batch'[b] = batch[b]
        BY <2>5, <4>1 DEF CapInv, TypeOK
      <4>3. Held(b, Jobs)' = Held(b, Jobs)
        BY <2>2, <4>2 DEF Held, IsSession, JobsOf
      <4> QED BY <2>2, <4>1, <4>3 DEF CapInv, CountOK
    <3>3. CountOK'
      BY <3>2 DEF CountOK
    <3> QED BY <1>0, <3>1, <3>3 DEF CapInv
  <2> QED BY <2>3, <2>4, <2>5
<1>3. CASE Count
  <2>1. \A a \in Accounts : \A j \in JobsOf(a) :
          IsSession(j)' \/ j \in batch'[a] => IsSession(j) \/ j \in batch[a]
    BY <1>3 DEF Count, childVars, IsSession
  <2>2. CapOK'
    BY <2>1, Lessens
  <2>3. ASSUME NEW a \in Members(turn') PROVE Cardinality(Held(a, Jobs)') <= recent'[a] + MaxBatch
    <3>1. a \in Accounts
      BY <1>0, <2>3 DEF TypeOK, Members
    <3> DEFINE now == {j \in JobsOf(a) : IsSession(j)}
    <3>2. recent'[a] = Cardinality(now) /\ row' = row /\ batch' = batch
      BY <1>3, <3>1 DEF Count, RecentSessions, childVars
    <3>3. Held(a, Jobs)' = now \cup batch[a]
      BY <3>1, <3>2 DEF Held, IsSession, JobsOf, CapInv, BatchOK
    <3>4. now \in SUBSET Jobs /\ batch[a] \in SUBSET Jobs /\ now \cap batch[a] \in SUBSET Jobs
      BY <3>1 DEF JobsOf, CapInv, TypeOK
    <3> HIDE DEF now
    <3>5. /\ IsFiniteSet(now) /\ IsFiniteSet(batch[a]) /\ Cardinality(now) \in Nat
          /\ Cardinality(batch[a]) \in Nat /\ Cardinality(now \cap batch[a]) \in Nat
      BY <3>4, JobSets
    <3>6. Cardinality(now \cup batch[a]) =
            Cardinality(now) + Cardinality(batch[a]) - Cardinality(now \cap batch[a])
      BY <3>5, FS_Union
    <3>7. Cardinality(batch[a]) <= MaxBatch
      BY <3>1 DEF CapInv, BatchOK
    <3>8. Cardinality(now \cup batch[a]) <= Cardinality(now) + MaxBatch
      BY <1>b, <3>5, <3>6, <3>7
    <3> QED BY <3>2, <3>3, <3>8
  <2>4. CountOK'
    BY <2>3 DEF CountOK
  <2> QED BY <1>0, <2>2, <2>4 DEF CapInv
<1>4. CASE ~Count /\ ~(\E i \in 1..Cardinality(Accounts) : Spawn(i))
  <2>1. \A a \in Accounts : \A j \in JobsOf(a) :
          IsSession(j)' \/ j \in batch'[a] => IsSession(j) \/ j \in batch[a]
    BY <1>4, QuietKeeps
  <2>2. \/ UNCHANGED <<turn, recent>>
        \/ turn' = <<>>
    BY <1>4 DEF Next, ScanStep, ChildStep, List, EndScan, Restart, Tick, End, Reap, Begin, Pass,
                KillChild, Recover, Submit, vars, scanVars
  <2>3. Members(turn') \subseteq Members(turn) /\ (recent' = recent \/ Members(turn') = {})
    BY <2>2 DEF Members
  <2> QED BY <1>1, <2>1, <2>3
<1> QED BY <1>2, <1>3, <1>4

(***************************************************************************)
(* The rotation                                                            *)
(***************************************************************************)

(* An account served before another that waits is not served ahead of it again. *)
LEMMA NotAgain ==
  ASSUME TurnInv, NEW i \in 1..Cardinality(Accounts), Spawn(i), NEW a \in Accounts,
         a # turn[i], a \in Members(turn), Servable(a)
  PROVE  turn[i] \notin ahead[a] /\ a \in Members(turn')
<1>1. i \in DOMAIN turn /\ \A k \in 1..(i - 1) : ~Servable(turn[k])
  BY DEF Spawn, IsNext
<1>2. PICK k \in DOMAIN turn : turn[k] = a
  BY DEF Members
<1>3. i \in Nat /\ k \in Nat /\ k > 0 /\ i > 0
  <2>1. turn \in Seq(Accounts)
    BY DEF TurnInv, TypeOK
  <2> QED BY <1>1, <1>2, <2>1
<1>4. k > i
  <2>1. ~(k <= i - 1) /\ k # i
    BY <1>1, <1>2, <1>3
  <2> QED BY <1>3, <2>1
<1>5. a \in Members(turn')
  BY <1>1, <1>2, <1>4, SpawnTypes DEF TurnInv
<1>6. ASSUME turn[i] \in ahead[a] PROVE FALSE
  <2>1. turn[i] \notin Members(sent)
    <3>1. turn[i] \in Members(turn)
      BY <1>1 DEF Members
    <3> QED BY <3>1 DEF TurnInv, ScanOK
  <2>2. Before(rotation, a, turn[i])
    BY <1>6, <2>1 DEF TurnInv, AheadOK
  <2>3. Before(rotation, turn[i], turn[k])
    BY <1>1, <1>2, <1>4 DEF TurnInv, ScanOK
  <2> QED BY <1>2, <2>2, <2>3, OneWay DEF TurnInv, TypeOK, ScanOK
<1> QED BY <1>5, <1>6

LEMMA TurnStep ==
  ASSUME TurnInv, [Next]_vars
  PROVE  TurnInv'
<1>0. TypeOK' /\ ScanOK'
  BY ShapeStep DEF TurnInv
<1>1. CASE UNCHANGED <<ahead, rotation, sent>>
  <2>1. AheadOK'
    BY <1>1 DEF TurnInv, AheadOK
  <2> QED BY <1>0, <2>1 DEF TurnInv
<1>2. CASE Count
  <2>1. ahead' = ahead /\ sent' = sent
    BY <1>2 DEF Count
  <2>2. /\ Members(rotation) \subseteq Members(rotation')
        /\ \A a, b : Before(rotation, a, b) => Before(rotation', a, b)
    BY <1>2, CountTypes DEF TurnInv
  <2>3. AheadOK'
    BY <2>1, <2>2 DEF TurnInv, AheadOK
  <2> QED BY <1>0, <2>3 DEF TurnInv
<1>3. CASE EndScan
  <2>1. ahead' = ahead /\ sent' = <<>> /\ rotation' \in Rotated
    BY <1>3 DEF EndScan
  <2>2. /\ Members(rotation') = Members(rotation)
        /\ \A a \in Members(rotation) \ Members(sent) : \A b :
             b \in Members(sent) \/ Before(rotation, a, b) => Before(rotation', a, b)
    BY <2>1, RotatedIs DEF TurnInv, TypeOK, ScanOK
  <2>3. Members(<<>>) = {}
    BY DEF Members
  <2>4. ASSUME NEW a \in Accounts, NEW b \in ahead[a]
        PROVE  /\ a # b /\ a \in Members(rotation') \ Members(sent')
               /\ b \in Members(sent') \/ Before(rotation', a, b)
    <3>1. /\ a # b /\ a \in Members(rotation) \ Members(sent)
          /\ b \in Members(sent) \/ Before(rotation, a, b)
      BY <2>4 DEF TurnInv, AheadOK
    <3> QED BY <2>1, <2>2, <2>3, <3>1
  <2>5. AheadOK'
    BY <2>1, <2>4 DEF AheadOK
  <2> QED BY <1>0, <2>5 DEF TurnInv
<1>4. CASE Restart
  <2>1. ahead' = [a \in Accounts |-> {}]
    BY <1>4 DEF Restart
  <2>2. AheadOK'
    BY <2>1 DEF AheadOK
  <2> QED BY <1>0, <2>2 DEF TurnInv
<1>5. ASSUME NEW i \in 1..Cardinality(Accounts), Spawn(i) PROVE TurnInv'
  <2> DEFINE s == turn[i]
  <2>1. /\ ahead' = Overtaken(s) /\ rotation' = rotation
        /\ Members(sent') = Members(sent) \cup {s} /\ s \in Accounts /\ s \in Members(turn)
    <3>1. Members(sent') = Members(sent) \cup {s} /\ s \in Accounts /\ i \in DOMAIN turn
      BY <1>5, SpawnTypes DEF TurnInv
    <3>2. s \in Members(turn)
      BY <3>1 DEF Members
    <3> QED BY <1>5, <3>1, <3>2 DEF Spawn
  <2> HIDE DEF s
  <2>2. ASSUME NEW a \in Accounts, NEW b \in ahead'[a]
        PROVE  /\ a # b /\ a \in Members(rotation') \ Members(sent')
               /\ b \in Members(sent') \/ Before(rotation', a, b)
    <3>1. a # s /\ a \in Members(turn) /\ (b \in ahead[a] \/ b = s)
      BY <2>1, <2>2 DEF Overtaken
    <3>2. a \in Members(rotation) \ Members(sent)
      BY <3>1 DEF TurnInv, ScanOK
    <3>3. a \in Members(rotation') \ Members(sent')
      BY <2>1, <3>1, <3>2
    <3>4. CASE b = s
      BY <2>1, <3>1, <3>3, <3>4
    <3>5. CASE b \in ahead[a]
      <4>1. a # b /\ (b \in Members(sent) \/ Before(rotation, a, b))
        BY <3>5 DEF TurnInv, AheadOK
      <4> QED BY <2>1, <3>3, <4>1
    <3> QED BY <3>1, <3>4, <3>5
  <2>3. AheadOK'
    BY <2>2 DEF AheadOK
  <2> QED BY <1>0, <2>3 DEF TurnInv
<1>6. CASE List \/ Tick \/ UNCHANGED vars
  BY <1>1, <1>6 DEF List, Tick, vars, scanVars
<1>7. ASSUME NEW a \in Accounts, ChildStep(a) \/ KillChild(a) PROVE UNCHANGED <<ahead, rotation, sent>>
  BY <1>7 DEF ChildStep, KillChild, End, Reap, Begin, Pass, scanVars
<1>8. ASSUME NEW j \in Jobs, Recover(j) \/ Submit(j) PROVE UNCHANGED <<ahead, rotation, sent>>
  BY <1>8 DEF Recover, Submit, scanVars
<1> QED BY <1>1, <1>2, <1>3, <1>4, <1>5, <1>6, <1>7, <1>8 DEF Next, ScanStep

(***************************************************************************)
(* Theorems                                                                *)
(***************************************************************************)

(* The inductive invariant of the session caps holds in every behaviour. *)
THEOREM CapInvariant == Spec => []CapInv
<1>1. Init => CapInv
  BY Initially
<1>2. CapInv /\ [Next]_vars => CapInv'
  BY CapStep
<1> QED BY <1>1, <1>2, PTL DEF Spec

(* Rows, batches, children and the lists of a scan stay of their types, and there are   *)
(* never more children than BROWSER_CONCURRENCY (Supervisor._dispatch_accounts).       *)
THEOREM SupervisorTypes == Spec => []TypeOK
<1>1. CapInv => TypeOK
  BY DEF CapInv
<1> QED BY <1>1, CapInvariant, PTL

(* The hourly caps hold up to one batch, whatever happens between the count of a scan   *)
(* and its spawns (_recent_session_counts, _apply_session_cap).                        *)
THEOREM CapsHoldNearly == Spec => []SessionsNearCap
<1>1. CapInv => SessionsNearCap
  <2> SUFFICES ASSUME CapInv, NEW a \in Accounts
               PROVE  /\ SessionCap > 0 => Cardinality(Sessions(a, Jobs \ Operated)) <= SessionCap + MaxBatch
                      /\ SessionCap > 0 /\ OperatorCap >= SessionCap =>
                           Cardinality(Sessions(a, Jobs)) <= OperatorCap + MaxBatch
    BY DEF SessionsNearCap
  <2>1. ASSUME NEW S \in SUBSET Jobs
        PROVE  /\ Cardinality(Sessions(a, S)) \in Nat /\ Cardinality(Held(a, S)) \in Nat
               /\ Cardinality(Sessions(a, S)) <= Cardinality(Held(a, S))
    <3>1. Held(a, S) \in SUBSET Jobs /\ Sessions(a, S) \in SUBSET Held(a, S)
      BY <2>1 DEF Held, Sessions, IsSession
    <3> QED BY <3>1, JobSets
  <2>2. Jobs \in SUBSET Jobs /\ Jobs \ Operated \in SUBSET Jobs
    OBVIOUS
  <2>3. NearCap(a) /\ SessionCap \in Nat /\ OperatorCap \in Nat /\ MaxBatch \in Nat
    BY DEF CapInv, CapOK, SupervisorAssumption
  <2>4. /\ Cardinality(Sessions(a, Jobs)) <= Cardinality(Held(a, Jobs))
        /\ Cardinality(Sessions(a, Jobs \ Operated)) <= Cardinality(Held(a, Jobs \ Operated))
        /\ Cardinality(Sessions(a, Jobs)) \in Nat /\ Cardinality(Held(a, Jobs)) \in Nat
        /\ Cardinality(Sessions(a, Jobs \ Operated)) \in Nat
        /\ Cardinality(Held(a, Jobs \ Operated)) \in Nat
    BY <2>1, <2>2
  <2> QED BY <2>3, <2>4 DEF NearCap
<1> QED BY <1>1, CapInvariant, PTL

(* No account is served twice past one that could be served and waits, however lists     *)
(* grow stale and spawns fail (_fair_order, the rotation at the end of a dispatch).      *)
THEOREM RotationIsFair == Spec => NotOvertakenTwice
<1>1. Init => TurnInv
  BY Initially
<1>2. TurnInv /\ [Next]_vars => TurnInv'
  BY TurnStep
<1> DEFINE Fair == \A a, b \in Accounts :
       b \in children' \ children /\ a # b /\ a \in Members(turn) /\ Servable(a)
         => b \notin ahead[a]
<1>3. TurnInv /\ [Next]_vars => [Fair]_vars
  <2> SUFFICES ASSUME TurnInv, Next, NEW a \in Accounts, NEW b \in Accounts,
                      b \in children' \ children, a # b, a \in Members(turn), Servable(a)
               PROVE  b \notin ahead[a]
    OBVIOUS
  <2>1. PICK i \in 1..Cardinality(Accounts) : Spawn(i)
    BY DEF Next, ScanStep, ChildStep, List, Count, EndScan, Restart, Tick, End, Reap, Begin, Pass,
           KillChild, Killed, Recover, Submit, childVars
  <2>2. b = turn[i]
    BY <2>1 DEF Spawn
  <2> QED BY <2>1, <2>2, NotAgain
<1> QED BY <1>1, <1>2, <1>3, PTL DEF Spec, NotOvertakenTwice
=============================================================================
