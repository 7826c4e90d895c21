------------------------ MODULE Interactions_proofs ------------------------
(***************************************************************************)
(* Proofs about Interactions for any number of accounts, notes and jobs:   *)
(* type correctness, that nothing given is taken back, that the daily      *)
(* throttle holds but for what the ledger never heard of, and that a       *)
(* published note is in exactly one place of each account it is meant for. *)
(***************************************************************************)
EXTENDS Interactions, FiniteSetTheorems, WellFoundedInduction, TLAPS

(***************************************************************************)
(* Induction                                                               *)
(***************************************************************************)

(* Every set of natural numbers that has a member has a least one. *)
LEMMA Least ==
  ASSUME NEW T \in SUBSET Nat, T # {}
  PROVE  \E m \in T : \A k \in T : m <= k
<1> DEFINE below == {0..(m - 1) : m \in T}
<1>1. IsWellFoundedOn(StrictSubsetOrdering(Nat), FiniteSubsetsOf(Nat))
  BY FS_StrictSubsetOrderingWellFounded
<1>2. \A m \in T : 0..(m - 1) \in FiniteSubsetsOf(Nat)
  BY FS_Interval DEF FiniteSubsetsOf
<1>3. below \subseteq FiniteSubsetsOf(Nat) /\ below # {}
  BY <1>2
<1>4. PICK x \in below : \A y \in below : <<y, x>> \notin StrictSubsetOrdering(Nat)
  BY <1>1, <1>3, WFMin
<1>5. PICK m \in T : x = 0..(m - 1)
  BY <1>4
<1>6. ASSUME NEW k \in T, k < m PROVE FALSE
  <2>1. 0..(k - 1) \subseteq 0..(m - 1) /\ k \in 0..(m - 1) /\ k \notin 0..(k - 1)
    BY <1>6
  <2>2. <<0..(k - 1), x>> \in StrictSubsetOrdering(Nat)
    BY <1>5, <2>1 DEF StrictSubsetOrdering
  <2> QED BY <1>4, <2>2
<1> QED BY <1>5, <1>6

(* What holds of 0, and of the successor of what it holds of up to n, holds up to n. *)
LEMMA UpTo ==
  ASSUME NEW n \in Nat, NEW S, 0 \in S, \A k \in 0..(n - 1) : k \in S => k + 1 \in S
  PROVE  \A k \in 0..n : k \in S
<1> DEFINE T == {k \in 0..n : k \notin S}
<1> SUFFICES ASSUME NEW k \in T PROVE FALSE
  OBVIOUS
<1>1. PICK m \in T : \A l \in T : m <= l
  <2>1. T \in SUBSET Nat /\ T # {}
    OBVIOUS
  <2> HIDE DEF T
  <2> QED BY <2>1, Least
<1>2. m # 0 /\ m - 1 \in 0..(n - 1)
  BY <1>1
<1>3. m - 1 \in S
  BY <1>1, <1>2
<1>4. (m - 1) + 1 \in S
  BY <1>2, <1>3
<1> QED BY <1>1, <1>2, <1>4

(***************************************************************************)
(* Plans                                                                   *)
(***************************************************************************)

LEMMA SmallerOf ==
  ASSUME NEW x \in Nat, NEW y \in Nat
  PROVE  Min({x, y}) \in {x, y} /\ Min({x, y}) <= x /\ Min({x, y}) <= y
<1>1. \E z \in {x, y} : \A w \in {x, y} : z <= w
  <2>1. CASE x <= y
    BY <2>1
  <2>2. CASE y <= x
    BY <2>2
  <2> QED BY <2>1, <2>2
<1> QED BY <1>1 DEF Min

Sorted(seq) == \A i, j \in DOMAIN seq : i < j => Before(seq[i], seq[j])

(* Among any notes one is ranked last. *)
LEMMA LastRanked ==
  ASSUME NEW S \in SUBSET Notes, S # {}
  PROVE  \E x \in S : \A m \in S \ {x} : Before(m, x)
<1> DEFINE C == {n \in S : Covered(n)}
<1>0. Notes \subseteq Nat
  BY InteractionsAssumption
<1>1. CASE C # {}
  <2>1. C \in SUBSET Nat
    BY <1>0
  <2>2. PICK x \in C : \A k \in C : x <= k
    BY <1>1, <2>1, Least
  <2>3. ASSUME NEW m \in S \ {x} PROVE Before(m, x)
    <3>1. m \in Nat /\ x \in Nat /\ Covered(x)
      BY <1>0, <2>2
    <3>2. CASE Covered(m)
      BY <2>2, <2>3, <3>1, <3>2 DEF Before
    <3>3. CASE ~Covered(m)
      BY <3>1, <3>3 DEF Before
    <3> QED BY <3>2, <3>3
  <2> QED BY <2>2, <2>3
<1>2. CASE C = {}
  <2>1. S \in SUBSET Nat
    BY <1>0
  <2>2. PICK x \in S : \A k \in S : x <= k
    BY <2>1, Least
  <2>3. ASSUME NEW m \in S \ {x} PROVE Before(m, x)
    <3>1. m \in Nat /\ x \in Nat /\ ~Covered(x) /\ ~Covered(m) /\ m > x
      BY <1>0, <1>2, <2>2
    <3> QED BY <3>1 DEF Before
  <2> QED BY <2>2, <2>3
<1> QED BY <1>1, <1>2

LEMMA RankedIn ==
  ASSUME NEW S \in SUBSET Notes
  PROVE  Cardinality(S) \in Nat /\ Ranked(S) \in [1..Cardinality(S) -> S]
<1> DEFINE G == {k \in Nat : \A Q \in SUBSET Notes :
                   Cardinality(Q) = k => \E seq \in [1..k -> Q] : Sorted(seq)}
<1>0. \A Q \in SUBSET Notes : IsFiniteSet(Q) /\ Cardinality(Q) \in Nat
  BY InteractionsAssumption, FS_Subset, FS_CardinalityType
<1>1. 0 \in G
  <2> SUFFICES ASSUME NEW Q \in SUBSET Notes, Cardinality(Q) = 0
               PROVE \E seq \in [1..0 -> Q] : Sorted(seq)
    OBVIOUS
  <2>1. [i \in 1..0 |-> 0] \in [1..0 -> Q] /\ Sorted([i \in 1..0 |-> 0])
    BY DEF Sorted
  <2> QED BY <2>1
<1>2. ASSUME NEW k \in Nat, k \in G PROVE k + 1 \in G
  <2> SUFFICES ASSUME NEW Q \in SUBSET Notes, Cardinality(Q) = k + 1
               PROVE \E seq \in [1..(k + 1) -> Q] : Sorted(seq)
    OBVIOUS
  <2>1. Q # {}
    BY <1>0, FS_EmptySet
  <2>2. PICK x \in Q : \A m \in Q \ {x} : Before(m, x)
    BY <2>1, LastRanked
  <2>3. Cardinality(Q \ {x}) = k
    BY <1>0, FS_RemoveElement
  <2>4. PICK seq \in [1..k -> Q \ {x}] : Sorted(seq)
    BY <1>2, <2>3
  <2> DEFINE new == [i \in 1..(k + 1) |-> IF i \in 1..k THEN seq[i] ELSE x]
  <2>5. new \in [1..(k + 1) -> Q]
    BY <2>4
  <2>6. ASSUME NEW i \in 1..(k + 1), NEW j \in 1..(k + 1), i < j PROVE Before(new[i], new[j])
    <3>1. i \in 1..k /\ new[i] = seq[i] /\ seq[i] \in Q \ {x}
      BY <2>4, <2>6
    <3>2. CASE j \in 1..k
      BY <2>4, <2>6, <3>1, <3>2 DEF Sorted
    <3>3. CASE j \notin 1..k
      BY <2>2, <2>6, <3>1, <3>3
    <3> QED BY <3>2, <3>3
  <2> QED BY <2>5, <2>6 DEF Sorted
<1>3. \A k \in 0..Cardinality(S) : k \in G
  <2> HIDE DEF G
  <2> QED BY <1>0, <1>1, <1>2, UpTo
<1>4. PICK seq \in [1..Cardinality(S) -> S] : Sorted(seq)
  BY <1>0, <1>3
<1> QED BY <1>0, <1>4 DEF Ranked, Sorted

(* A plan is a sequence of notes, no more than the limit of the day leaves. *)
LEMMA PlanIn ==
  ASSUME NEW a \in Actors, NEW owners, UsedToday(a) \in Nat
  PROVE  /\ Plan(a, owners) \in Seq(Notes)
         /\ Plan(a, owners) # <<>> => Len(Plan(a, owners)) + UsedToday(a) <= DailyLimit
<1> DEFINE S == Eligible(a, owners)
           k == Min({Take(a), Cardinality(S)})
<1>1. CASE MayAct(a)
  <2>1. S \in SUBSET Notes /\ UsedToday(a) < DailyLimit
    BY <1>1 DEF Eligible, MayAct
  <2>2. Take(a) \in Nat /\ Take(a) <= DailyLimit - UsedToday(a)
    <3>1. DailyLimit - UsedToday(a) \in Nat /\ RoundLimit \in Nat /\ 1 <= DailyLimit - UsedToday(a)
      BY <2>1, InteractionsAssumption
    <3>2. Min({RoundLimit, DailyLimit - UsedToday(a)}) \in Nat
          /\ Min({RoundLimit, DailyLimit - UsedToday(a)}) <= DailyLimit - UsedToday(a)
      BY <3>1, SmallerOf
    <3> QED BY <3>1, <3>2 DEF Take
  <2>3. Cardinality(S) \in Nat /\ Ranked(S) \in [1..Cardinality(S) -> S]
    BY <2>1, RankedIn
  <2>4. k \in Nat /\ k <= Take(a) /\ k <= Cardinality(S)
    BY <2>2, <2>3, SmallerOf
  <2>5. Plan(a, owners) = [i \in 1..k |-> Ranked(S)[i]]
    BY <1>1 DEF Plan
  <2> HIDE DEF S, k
  <2>6. Plan(a, owners) \in Seq(Notes) /\ Len(Plan(a, owners)) = k
    <3>1. \A i \in 1..k : Ranked(S)[i] \in Notes
      BY <2>1, <2>3, <2>4
    <3> QED BY <2>4, <2>5, <3>1
  <2> QED BY <2>2, <2>4, <2>6, <2>1, InteractionsAssumption
<1>2. CASE ~MayAct(a)
  BY <1>2 DEF Plan
<1> QED BY <1>1, <1>2

(***************************************************************************)
(* What is kept of the ledger                                              *)
(***************************************************************************)

LEMMA OthersKept ==
  ASSUME NEW rows \in Seq(Row), NEW notes
  PROVE  /\ Others(rows, notes) \in Seq(Row)
         /\ ToSet(Others(rows, notes)) = {r \in ToSet(rows) : r.note \notin notes}
<1> DEFINE L == Len(rows)
           Next1(g, k) == IF k = 0 THEN <<>>
                          ELSE IF rows[k].note \in notes THEN g[k - 1] ELSE Append(g[k - 1], rows[k])
           Is(g, k) == g = [i \in 0..k |-> Next1(g, i)]
           G == {k \in 0..L : \E g \in [0..k -> Seq(Row)] : Is(g, k)}
           first == CHOOSE g : Is(g, L)
<1>0. L \in Nat /\ DOMAIN rows = 1..L /\ \A k \in 1..L : rows[k] \in Row
  OBVIOUS
<1>1. 0 \in G
  <2>1. [i \in 0..0 |-> <<>>] \in [0..0 -> Seq(Row)]
    OBVIOUS
  <2>2. Is([i \in 0..0 |-> <<>>], 0)
    OBVIOUS
  <2>3. 0 \in 0..L
    BY <1>0
  <2> HIDE DEF Is, L
  <2> QED BY <2>1, <2>2, <2>3
<1>2. ASSUME NEW k \in 0..(L - 1), k \in G PROVE k + 1 \in G
  <2>1. PICK g \in [0..k -> Seq(Row)] : Is(g, k)
    BY <1>2
  <2> DEFINE h == [i \in 0..(k + 1) |-> IF i \in 0..k THEN g[i] ELSE Next1(g, k + 1)]
  <2>2. k + 1 \in 1..L /\ k \in 0..k /\ g[k] \in Seq(Row) /\ rows[k + 1] \in Row /\ (k + 1) - 1 = k
    BY <1>0, <2>1
  <2>3. Next1(g, k + 1) \in Seq(Row)
    BY <2>2
  <2>4. h \in [0..(k + 1) -> Seq(Row)]
    BY <2>1, <2>3
  <2>5. ASSUME NEW i \in 0..(k + 1) PROVE h[i] = Next1(h, i)
    <3>1. CASE i = 0
      BY <2>1, <3>1, <1>0
    <3>2. CASE i \in 1..k
      <4>1. h[i] = g[i] /\ h[i - 1] = g[i - 1] /\ i \in 0..k /\ i # 0
        BY <3>2, <1>0
      <4>2. g[i] = Next1(g, i)
        BY <2>1, <4>1
      <4> QED BY <4>1, <4>2
    <3>3. CASE i = k + 1
      <4>1. h[i] = Next1(g, k + 1) /\ h[i - 1] = g[i - 1] /\ i # 0
        BY <3>3, <1>0
      <4> QED BY <4>1, <3>3
    <3> QED BY <3>1, <3>2, <3>3, <1>0
  <2>6. Is(h, k + 1)
    BY <2>5
  <2>7. k + 1 \in 0..L
    BY <2>2, <1>0
  <2> HIDE DEF Is, L, h
  <2> QED BY <2>4, <2>6, <2>7
<1>3. \A k \in 0..L : k \in G
  <2> HIDE DEF G
  <2> QED BY <1>0, <1>1, <1>2, UpTo
<1>4. \E g : Is(g, L)
  <2>0. L \in 0..L
    BY <1>0
  <2>1. L \in G
    <3> HIDE DEF G, L
    <3> QED BY <1>3, <2>0
  <2> HIDE DEF Is, L
  <2> QED BY <2>1
<1>5. Is(first, L)
  <2> HIDE DEF Is
  <2> QED BY <1>4
<1>6. Others(rows, notes) = first[L]
  BY DEF Others
<1> HIDE DEF first, G
<1>7. \A k \in 0..L : first[k] = Next1(first, k)
  BY <1>5
<1> DEFINE Kept(k) ==
      /\ first[k] \in Seq(Row)
      /\ \A r : (\E i \in DOMAIN first[k] : first[k][i] = r)
                   <=> r.note \notin notes /\ \E i \in 1..k : rows[i] = r
           K == {k \in 0..L : Kept(k)}
<1>8. 0 \in K
  <2>1. first[0] = <<>>
    BY <1>7, <1>0
  <2>2. first[0] \in Seq(Row) /\ DOMAIN first[0] = {} /\ 1..0 = {}
    BY <2>1
  <2> QED BY <2>2, <1>0
<1>9. ASSUME NEW k \in 0..(L - 1), k \in K PROVE k + 1 \in K
  <2>1. k + 1 \in 1..L /\ k \in 0..L /\ k + 1 \in 0..L /\ (k + 1) - 1 = k /\ k + 1 # 0 /\ rows[k + 1] \in Row
    BY <1>0
  <2>2. Kept(k)
    BY <1>9
  <2>3. 1..(k + 1) = (1..k) \cup {k + 1}
    BY <1>0
  <2>4. CASE rows[k + 1].note \in notes
    <3>1. first[k + 1] = first[k]
      BY <2>1, <2>4, <1>7
    <3>2. Kept(k + 1)
      <4> HIDE DEF L
      <4> QED BY <2>2, <2>3, <2>4, <3>1
    <3> QED BY <3>2, <2>1
  <2>5. CASE rows[k + 1].note \notin notes
    <3>1. first[k + 1] = Append(first[k], rows[k + 1])
      BY <2>1, <2>5, <1>7
    <3>2. /\ first[k + 1] \in Seq(Row) /\ Len(first[k]) \in Nat
          /\ DOMAIN first[k] = 1..Len(first[k])
          /\ DOMAIN first[k + 1] = (1..Len(first[k])) \cup {Len(first[k]) + 1}
          /\ \A i \in 1..Len(first[k]) : first[k + 1][i] = first[k][i]
          /\ first[k + 1][Len(first[k]) + 1] = rows[k + 1]
      <4> HIDE DEF L
      <4> QED BY <2>1, <2>2, <3>1
    <3>3. \A r : (\E i \in DOMAIN first[k + 1] : first[k + 1][i] = r)
                   <=> (\E i \in DOMAIN first[k] : first[k][i] = r) \/ r = rows[k + 1]
      BY <3>2
    <3>4. \A r : (\E i \in 1..(k + 1) : rows[i] = r) <=> (\E i \in 1..k : rows[i] = r) \/ r = rows[k + 1]
      BY <2>3
    <3>5. Kept(k + 1)
      BY <2>2, <2>5, <3>2, <3>3, <3>4
    <3> QED BY <3>5, <2>1
  <2> QED BY <2>4, <2>5
<1>10. \A k \in 0..L : k \in K
  <2> HIDE DEF K, L, Kept
  <2> QED BY <1>0, <1>8, <1>9, UpTo
<1>11. Kept(L)
  <2>0. L \in 0..L
    BY <1>0
  <2> HIDE DEF Kept, L
  <2> QED BY <1>10, <2>0
<1>12. ToSet(first[L]) = {r \in ToSet(rows) : r.note \notin notes}
  <2> HIDE DEF L
  <2> QED BY <1>0, <1>11 DEF ToSet
<1> QED BY <1>6, <1>11, <1>12

(***************************************************************************)
(* Type correctness                                                        *)
(***************************************************************************)

(* What a session, a merge and a hook are in, said of each other. *)
SessionSound(a) ==
  LET s == sess[a] IN
  /\ s.at = "idle" => s = Idle
  /\ s.at # "idle" => s.kind # None
  /\ s.kind = "matrix" => s.job \in DOMAIN jobs[a] /\ jobs[a][s.job].status = "running"
  /\ s.kind = "backfill" => s.rest = <<>>
  /\ s.at = "carry" => s.kind = "matrix" /\ s.left = <<>> /\ s.rest = <<>> /\ s.got = <<>>

MergeSound(p) ==
  LET m == merge[p] IN
  /\ m.at = "none" => m = NoMerge
  /\ m.at # "none" => m.account \in Actors
  /\ m.at = "update" => m.job \in DOMAIN jobs[m.account]
  /\ p \in Actors /\ m.at # "none" => m.account = p /\ sess[p].at = "carry"
  /\ p \in Notes /\ m.at # "none" => m.notes = <<p>> /\ hook[p].at = "reach"

HookSound(n) ==
  /\ hook[n].at # "reach" => hook[n].todo = {}
  /\ hook[n].at = "unpublished" => owed[n] = {}

Sound ==
  /\ TypeOK
  /\ \A a \in Actors : SessionSound(a)
  /\ \A p \in Actors \cup Notes : MergeSound(p)
  /\ \A n \in Notes : HookSound(n)

LEMMA Apart ==
  /\ None \notin Actors /\ None \notin {"matrix", "backfill"}
  /\ \A a \in Actors : a \notin Notes
  /\ DailyLimit \in Nat /\ MatrixLimit \in Nat
BY InteractionsAssumption

LEMMA IdleIn ==
  /\ Idle \in Sessions /\ Idle.at = "idle" /\ Idle.kind = None
  /\ Idle.left = <<>> /\ Idle.rest = <<>> /\ Idle.got = <<>> /\ Idle.wall = FALSE
BY DEF Idle, Sessions

LEMMA NoMergeIn ==
  NoMerge \in Merges /\ NoMerge.at = "none" /\ NoMerge.account = None /\ NoMerge.notes = <<>>
BY DEF NoMerge, Merges

LEMMA JobPut ==
  ASSUME NEW q \in Seq(Job), NEW j \in DOMAIN q, NEW x \in Job
  PROVE  [q EXCEPT ![j] = x] \in Seq(Job) /\ DOMAIN [q EXCEPT ![j] = x] = DOMAIN q
<1>1. Len(q) \in Nat /\ DOMAIN q = 1..Len(q) /\ \A i \in 1..Len(q) : q[i] \in Job
  OBVIOUS
<1> DEFINE r == [q EXCEPT ![j] = x]
<1>2. DOMAIN r = 1..Len(q) /\ \A i \in 1..Len(q) : r[i] \in Job
  BY <1>1
<1>3. r = [i \in 1..Len(q) |-> r[i]]
  BY <1>2
<1> HIDE DEF r
<1>4. r \in Seq(Job)
  BY <1>1, <1>2, <1>3
<1> QED BY <1>1, <1>2, <1>4 DEF r

LEMMA SoundInit == Init => Sound
<1> SUFFICES ASSUME Init PROVE Sound
  OBVIOUS
<1>1. \A a \in Actors : valid[a] = TRUE /\ jobs[a] = <<>> /\ rounds[a] = 0 /\ sess[a] = Idle
                        /\ ledger[a] = <<>>
  BY DEF Init
<1>2. TypeOK
  <2>1. <<>> \in Seq(Job) /\ <<>> \in Seq(Row)
    OBVIOUS
  <2>2. valid \in [Actors -> BOOLEAN] /\ jobs \in [Actors -> Seq(Job)] /\ rounds \in [Actors -> Nat]
        /\ ledger \in [Actors -> Seq(Row)]
    BY <2>1 DEF Init
  <2>3. sess \in [Actors -> Sessions]
    BY IdleIn DEF Init
  <2>4. hook \in [Notes -> Hooks]
    BY DEF Init, Hooks
  <2>5. merge \in [Actors \cup Notes -> Merges]
    BY NoMergeIn DEF Init
  <2>6. given \in [Actors -> [Notes -> SUBSET Actions]]
    BY DEF Init
  <2>7. half \in {0, 1} /\ halves \in 0..MaxHalves /\ enqueued \in 0..MaxRounds /\ faults \in 0..MaxFaults
    BY InteractionsAssumption DEF Init
  <2>8. acted \in [Actors -> SUBSET Notes] /\ unseen \in [Actors -> SUBSET Notes]
        /\ owed \in [Notes -> SUBSET Actors] /\ dropped \in [Actors -> SUBSET Notes]
    BY DEF Init
  <2>9. handled \in [Actors -> [Notes -> Nat]]
    BY DEF Init
  <2> QED BY <2>2, <2>3, <2>4, <2>5, <2>6, <2>7, <2>8, <2>9 DEF TypeOK
<1>3. \A a \in Actors : SessionSound(a)
  BY <1>1, IdleIn, Apart DEF SessionSound
<1>4. \A p \in Actors \cup Notes : MergeSound(p)
  BY NoMergeIn DEF Init, MergeSound
<1>5. \A n \in Notes : HookSound(n)
  BY DEF Init, HookSound
<1> QED BY <1>2, <1>3, <1>4, <1>5 DEF Sound

(* SELECT changes nothing but where the merge is. *)
LEMMA SelectsInto ==
  ASSUME Sound, NEW p \in Actors \cup Notes, Select(p)
  PROVE  \E at \in {"insert", "update"}, job \in Nat :
           /\ merge' = [merge EXCEPT ![p] = [merge[p] EXCEPT !.at = at, !.job = job]]
           /\ at = "update" => job \in DOMAIN jobs[merge[p].account]
<1> DEFINE m == merge[p]
           queued == {j \in DOMAIN jobs[m.account] : jobs[m.account][j].status = "queued"}
<1>0. TypeOK /\ m \in Merges /\ MergeSound(p) /\ m.at = "select" /\ m.account \in Actors
      /\ jobs[m.account] \in Seq(Job)
  BY DEF Sound, TypeOK, Select, MergeSound
<1>1. CASE queued = {} \/ m.tries = Attempts
  <2>1. merge' = [merge EXCEPT ![p].at = "insert"]
    BY <1>1 DEF Select
  <2>2. [m EXCEPT !.at = "insert"] = [m EXCEPT !.at = "insert", !.job = m.job] /\ m.job \in Nat
    BY <1>0 DEF Merges
  <2>3. merge' = [merge EXCEPT ![p] = [m EXCEPT !.at = "insert", !.job = m.job]]
    BY <2>1, <2>2
  <2> QED BY <2>2, <2>3
<1>2. CASE ~(queued = {} \/ m.tries = Attempts)
  <2>1. PICK j \in queued : merge' = [merge EXCEPT ![p].at = "update", ![p].job = j]
    BY <1>2 DEF Select
  <2>2. j \in Nat /\ j \in DOMAIN jobs[m.account]
    BY <1>0
  <2>3. merge' = [merge EXCEPT ![p] = [m EXCEPT !.at = "update", !.job = j]]
    BY <2>1
  <2> QED BY <2>2, <2>3
<1> QED BY <1>1, <1>2

LEMMA SelectSound == ASSUME Sound, NEW p \in Actors \cup Notes, Select(p) PROVE Sound'
<1> DEFINE m == merge[p]
<1>0. TypeOK /\ m \in Merges /\ MergeSound(p) /\ m.at = "select" /\ m.account \in Actors
      /\ jobs[m.account] \in Seq(Job)
  BY DEF Sound, TypeOK, Select, MergeSound
<1>1. PICK at \in {"insert", "update"}, job \in Nat :
        /\ merge' = [merge EXCEPT ![p] = [m EXCEPT !.at = at, !.job = job]]
        /\ at = "update" => job \in DOMAIN jobs[m.account]
  BY SelectsInto
<1> DEFINE x == [m EXCEPT !.at = at, !.job = job]
<1>2. x \in Merges /\ x.at = at /\ x.job = job /\ x.account = m.account /\ x.notes = m.notes
  BY <1>0, <1>1 DEF Merges
<1>3. /\ merge' = [merge EXCEPT ![p] = x] /\ merge \in [Actors \cup Notes -> Merges]
      /\ merge' \in [Actors \cup Notes -> Merges] /\ merge'[p] = x
      /\ \A q \in (Actors \cup Notes) \ {p} : merge'[q] = merge[q]
      /\ UNCHANGED <<valid, queueVars, sess, hook, pageVars, clock, books, faults>>
  BY <1>0, <1>1, <1>2 DEF Select, TypeOK
<1> HIDE DEF x, m
<1>4. TypeOK'
  BY <1>0, <1>3 DEF TypeOK, queueVars, pageVars, clock, books
<1>5. ASSUME NEW q \in Actors \cup Notes PROVE MergeSound(q)'
  <2>1. CASE q = p
    BY <1>0, <1>1, <1>2, <1>3, <2>1 DEF MergeSound, queueVars, m
  <2>2. CASE q # p
    BY <1>3, <2>2 DEF MergeSound, queueVars, Sound
  <2> QED BY <2>1, <2>2
<1>6. ASSUME NEW a \in Actors PROVE SessionSound(a)'
  BY <1>3 DEF Sound, SessionSound, queueVars
<1>7. ASSUME NEW n \in Notes PROVE HookSound(n)'
  BY <1>3 DEF Sound, HookSound, books
<1> QED BY <1>4, <1>5, <1>6, <1>7 DEF Sound

LEMMA UpdateSound == ASSUME Sound, NEW p \in Actors \cup Notes, Update(p) PROVE Sound'
<1> DEFINE m == merge[p]
           a == m.account
           x == [jobs[a][m.job] EXCEPT !.notes = @ \o m.notes]
<1>0. TypeOK /\ m \in Merges /\ MergeSound(p) /\ m.at = "update" /\ a \in Actors
      /\ jobs[a] \in Seq(Job) /\ m.job \in DOMAIN jobs[a]
  BY DEF Sound, TypeOK, Update, MergeSound
<1>1. merge \in [Actors \cup Notes -> Merges] /\ jobs \in [Actors -> Seq(Job)]
  BY <1>0 DEF TypeOK
<1>2. UNCHANGED <<valid, rounds, enqueued, sess, hook, pageVars, clock, books, faults>>
  BY DEF Update
<1>3. CASE Mergeable(jobs[a][m.job])
  <2>1. jobs[a][m.job] \in Job /\ jobs[a][m.job].status = "queued"
    BY <1>0, <1>3 DEF Mergeable
  <2>2. x \in Job /\ x.status = "queued"
    <3> DEFINE new == jobs[a][m.job].notes \o m.notes
    <3>1. new \in Seq(Notes)
      BY <1>0, <2>1 DEF Job, Merges
    <3> HIDE DEF new
    <3>2. x = [jobs[a][m.job] EXCEPT !.notes = new]
      BY DEF new
    <3> HIDE DEF x
    <3> QED BY <2>1, <3>1, <3>2 DEF Job
  <2>3. jobs' = [jobs EXCEPT ![a] = [jobs[a] EXCEPT ![m.job] = x]] /\ merge' = [merge EXCEPT ![p] = NoMerge]
    BY <1>3 DEF Update
  <2> DEFINE q == [jobs[a] EXCEPT ![m.job] = x]
  <2>4. q \in Seq(Job) /\ DOMAIN q = DOMAIN jobs[a]
        /\ \A j \in DOMAIN q : q[j].status = jobs[a][j].status
    BY <1>0, <2>1, <2>2, JobPut
  <2> HIDE DEF q, x
  <2>5. /\ jobs' \in [Actors -> Seq(Job)] /\ jobs'[a] = q
        /\ \A b \in Actors \ {a} : jobs'[b] = jobs[b]
    BY <1>0, <1>1, <2>3, <2>4 DEF q
  <2>6. \A b \in Actors : DOMAIN jobs'[b] = DOMAIN jobs[b]
                          /\ \A j \in DOMAIN jobs[b] : jobs'[b][j].status = jobs[b][j].status
    BY <2>4, <2>5
  <2>7. /\ merge' \in [Actors \cup Notes -> Merges] /\ merge'[p] = NoMerge
        /\ \A b \in (Actors \cup Notes) \ {p} : merge'[b] = merge[b]
    BY <1>1, <2>3, NoMergeIn
  <2> HIDE DEF a, m
  <2>8. TypeOK'
    BY <1>0, <1>2, <2>5, <2>7 DEF TypeOK, pageVars, clock, books
  <2>9. ASSUME NEW b \in Actors \cup Notes PROVE MergeSound(b)'
    <3>1. CASE b = p
      BY <2>7, <3>1, NoMergeIn DEF MergeSound
    <3>2. CASE b # p
      BY <1>2, <2>6, <2>7, <3>2 DEF MergeSound, Sound
    <3> QED BY <3>1, <3>2
  <2>10. ASSUME NEW b \in Actors PROVE SessionSound(b)'
    BY <1>2, <2>6 DEF Sound, SessionSound
  <2>11. ASSUME NEW n \in Notes PROVE HookSound(n)'
    BY <1>2 DEF Sound, HookSound, books
  <2> QED BY <2>8, <2>9, <2>10, <2>11 DEF Sound
<1>4. CASE ~Mergeable(jobs[a][m.job])
  <2>1. merge' = [merge EXCEPT ![p] = [m EXCEPT !.at = "select", !.tries = @ + 1]] /\ UNCHANGED jobs
    BY <1>4 DEF Update
  <2> DEFINE y == [m EXCEPT !.at = "select", !.tries = @ + 1]
  <2>2. y \in Merges /\ y.at = "select" /\ y.account = m.account /\ y.notes = m.notes
    <3> DEFINE k == m.tries + 1
    <3>1. k \in Nat
      BY <1>0 DEF Merges
    <3>2. y = [m EXCEPT !.at = "select", !.tries = k]
      OBVIOUS
    <3> HIDE DEF k, y, m
    <3> QED BY <1>0, <3>1, <3>2 DEF Merges
  <2>3. /\ merge' \in [Actors \cup Notes -> Merges] /\ merge'[p] = y
        /\ \A b \in (Actors \cup Notes) \ {p} : merge'[b] = merge[b]
    BY <1>1, <2>1, <2>2
  <2> HIDE DEF y, m
  <2>4. TypeOK'
    BY <1>0, <1>2, <2>1, <2>3 DEF TypeOK, pageVars, clock, books
  <2>5. ASSUME NEW b \in Actors \cup Notes PROVE MergeSound(b)'
    <3>1. CASE b = p
      BY <1>0, <1>2, <2>2, <2>3, <3>1 DEF MergeSound, m
    <3>2. CASE b # p
      BY <1>2, <2>1, <2>3, <3>2 DEF MergeSound, Sound
    <3> QED BY <3>1, <3>2
  <2>6. ASSUME NEW b \in Actors PROVE SessionSound(b)'
    BY <1>2, <2>1 DEF Sound, SessionSound
  <2>7. ASSUME NEW n \in Notes PROVE HookSound(n)'
    BY <1>2 DEF Sound, HookSound, books
  <2> QED BY <2>4, <2>5, <2>6, <2>7 DEF Sound
<1> QED BY <1>3, <1>4

LEMMA MergePut ==
  ASSUME Sound, NEW p \in Actors \cup Notes, NEW x \in Merges, merge' = [merge EXCEPT ![p] = x]
  PROVE  /\ merge' \in [Actors \cup Notes -> Merges] /\ merge'[p] = x
         /\ \A q \in (Actors \cup Notes) \ {p} : merge'[q] = merge[q]
BY DEF Sound, TypeOK

LEMMA MergingIn ==
  ASSUME NEW a \in Actors, NEW notes \in Seq(Notes)
  PROVE  LET x == [at |-> "select", account |-> a, notes |-> notes, job |-> 0, tries |-> 0]
         IN x \in Merges
BY DEF Merges

LEMMA InsertSound == ASSUME Sound, NEW p \in Actors \cup Notes, Insert(p) PROVE Sound'
<1> DEFINE m == merge[p]
           a == m.account
           job == [status |-> "queued", notes |-> m.notes]
           q == Append(jobs[a], job)
<1>0. TypeOK /\ m \in Merges /\ MergeSound(p) /\ m.at = "insert" /\ a \in Actors /\ jobs[a] \in Seq(Job)
      /\ jobs \in [Actors -> Seq(Job)]
  BY DEF Sound, TypeOK, Insert, MergeSound
<1>1. UNCHANGED <<valid, rounds, enqueued, sess, hook, pageVars, clock, books, faults>>
      /\ jobs' = [jobs EXCEPT ![a] = q] /\ merge' = [merge EXCEPT ![p] = NoMerge]
  BY DEF Insert
<1>2. job \in Job
  BY <1>0 DEF Job, Merges
<1> HIDE DEF job
<1>3. /\ q \in Seq(Job) /\ DOMAIN jobs[a] \subseteq DOMAIN q
      /\ \A j \in DOMAIN jobs[a] : q[j] = jobs[a][j]
  BY <1>0, <1>2
<1> HIDE DEF q, m
<1>4. /\ jobs' \in [Actors -> Seq(Job)] /\ jobs'[a] = q
      /\ \A b \in Actors \ {a} : jobs'[b] = jobs[b]
  BY <1>0, <1>1, <1>3
<1>5. \A b \in Actors : DOMAIN jobs[b] \subseteq DOMAIN jobs'[b]
                        /\ \A j \in DOMAIN jobs[b] : jobs'[b][j] = jobs[b][j]
  BY <1>3, <1>4
<1>6. /\ merge' \in [Actors \cup Notes -> Merges] /\ merge'[p] = NoMerge
      /\ \A b \in (Actors \cup Notes) \ {p} : merge'[b] = merge[b]
  BY <1>1, NoMergeIn, MergePut
<1>8. TypeOK'
  BY <1>0, <1>1, <1>4, <1>6 DEF TypeOK, pageVars, clock, books
<1>9. ASSUME NEW b \in Actors \cup Notes PROVE MergeSound(b)'
  <2>1. CASE b = p
    BY <1>6, <2>1, NoMergeIn DEF MergeSound
  <2>2. CASE b # p
    BY <1>1, <1>5, <1>6, <2>2 DEF MergeSound, Sound
  <2> QED BY <2>1, <2>2
<1>10. ASSUME NEW b \in Actors PROVE SessionSound(b)'
  BY <1>1, <1>5 DEF Sound, SessionSound
<1>11. ASSUME NEW n \in Notes PROVE HookSound(n)'
  BY <1>1 DEF Sound, HookSound, books
<1> QED BY <1>8, <1>9, <1>10, <1>11 DEF Sound

LEMMA PublishSound == ASSUME Sound, NEW n \in Notes, Publish(n) PROVE Sound'
<1> DEFINE matrix == {a \in Actors : valid[a] /\ a # Owner[n]}
           x == [at |-> "reach", todo |-> matrix]
<1>1. /\ hook[n].at = "unpublished" /\ hook' = [hook EXCEPT ![n] = x]
      /\ owed' = [owed EXCEPT ![n] = matrix]
      /\ UNCHANGED <<valid, queueVars, sess, merge, pageVars, clock, handled, dropped, faults>>
  BY DEF Publish
<1>2. matrix \in SUBSET Actors
  OBVIOUS
<1> HIDE DEF matrix
<1>3. x \in Hooks /\ x.at = "reach"
  BY <1>2 DEF Hooks
<1> HIDE DEF x
<1>4. /\ hook' \in [Notes -> Hooks] /\ hook'[n] = x /\ owed' \in [Notes -> SUBSET Actors]
      /\ \A k \in Notes \ {n} : hook'[k] = hook[k] /\ owed'[k] = owed[k]
  BY <1>1, <1>2, <1>3 DEF Sound, TypeOK
<1>5. TypeOK'
  BY <1>1, <1>4 DEF Sound, TypeOK, queueVars, pageVars, clock
<1>6. ASSUME NEW b \in Actors \cup Notes PROVE MergeSound(b)'
  BY <1>1, <1>3, <1>4 DEF MergeSound, Sound, queueVars
<1>7. ASSUME NEW b \in Actors PROVE SessionSound(b)'
  BY <1>1 DEF Sound, SessionSound, queueVars
<1>8. ASSUME NEW k \in Notes PROVE HookSound(k)'
  BY <1>3, <1>4 DEF Sound, HookSound
<1> QED BY <1>5, <1>6, <1>7, <1>8 DEF Sound

LEMMA ReachSound == ASSUME Sound, NEW n \in Notes, Reach(n) PROVE Sound'
<1>1. /\ hook[n].at = "reach" /\ merge[n].at = "none" /\ hook[n] \in Hooks /\ hook \in [Notes -> Hooks]
      /\ UNCHANGED <<valid, queueVars, sess, pageVars, clock, books, faults>>
  BY DEF Reach, Sound, TypeOK
<1>2. CASE hook[n].todo = {}
  <2> DEFINE x == [hook[n] EXCEPT !.at = "end"]
  <2>1. hook' = [hook EXCEPT ![n] = x] /\ UNCHANGED merge
    BY <1>2 DEF Reach
  <2>2. x \in Hooks /\ x.at = "end" /\ x.todo = {}
    BY <1>1, <1>2 DEF Hooks
  <2> HIDE DEF x
  <2>3. hook' \in [Notes -> Hooks] /\ hook'[n] = x /\ \A k \in Notes \ {n} : hook'[k] = hook[k]
    BY <1>1, <2>1, <2>2
  <2>4. TypeOK'
    BY <1>1, <2>1, <2>3 DEF Sound, TypeOK, queueVars, pageVars, clock, books
  <2>5. ASSUME NEW b \in Actors \cup Notes PROVE MergeSound(b)'
    BY <1>1, <2>1, <2>2, <2>3 DEF MergeSound, Sound, queueVars
  <2>6. ASSUME NEW b \in Actors PROVE SessionSound(b)'
    BY <1>1 DEF Sound, SessionSound, queueVars
  <2>7. ASSUME NEW k \in Notes PROVE HookSound(k)'
    BY <1>1, <2>2, <2>3 DEF Sound, HookSound, books
  <2> QED BY <2>4, <2>5, <2>6, <2>7 DEF Sound
<1>3. CASE hook[n].todo # {}
  <2> DEFINE a == CHOOSE y \in hook[n].todo : TRUE
             x == [hook[n] EXCEPT !.todo = @ \ {a}]
             m == [at |-> "select", account |-> a, notes |-> <<n>>, job |-> 0, tries |-> 0]
  <2>1. a \in hook[n].todo /\ a \in Actors
    BY <1>1, <1>3 DEF Hooks
  <2>2. hook' = [hook EXCEPT ![n] = x] /\ merge' = [merge EXCEPT ![n] = m]
    BY <1>3 DEF Reach, Merging
  <2> HIDE DEF a
  <2>3. x \in Hooks /\ x.at = "reach"
    BY <1>1 DEF Hooks
  <2>4. m \in Merges /\ m.at = "select" /\ m.account = a /\ m.notes = <<n>>
    BY <2>1 DEF Merges
  <2> HIDE DEF x, m
  <2>5. hook' \in [Notes -> Hooks] /\ hook'[n] = x /\ \A k \in Notes \ {n} : hook'[k] = hook[k]
    BY <1>1, <2>2, <2>3
  <2>6. /\ merge' \in [Actors \cup Notes -> Merges] /\ merge'[n] = m
        /\ \A q \in (Actors \cup Notes) \ {n} : merge'[q] = merge[q]
    BY <2>2, <2>4, MergePut
  <2>7. TypeOK'
    BY <1>1, <2>5, <2>6 DEF Sound, TypeOK, queueVars, pageVars, clock, books
  <2>8. ASSUME NEW b \in Actors \cup Notes PROVE MergeSound(b)'
    <3>1. CASE b = n
      BY <1>1, <2>1, <2>3, <2>4, <2>5, <2>6, <3>1, Apart DEF MergeSound
    <3>2. CASE b # n
      BY <1>1, <2>3, <2>5, <2>6, <3>2 DEF MergeSound, Sound, queueVars
    <3> QED BY <3>1, <3>2
  <2>9. ASSUME NEW b \in Actors PROVE SessionSound(b)'
    BY <1>1 DEF Sound, SessionSound, queueVars
  <2>10. ASSUME NEW k \in Notes PROVE HookSound(k)'
    BY <1>1, <2>3, <2>5 DEF Sound, HookSound, books
  <2> QED BY <2>7, <2>8, <2>9, <2>10 DEF Sound
<1> QED BY <1>2, <1>3

LEMMA FaultIn == ASSUME Sound, Fault PROVE faults' \in 0..MaxFaults
BY InteractionsAssumption DEF Fault, Sound, TypeOK

LEMMA HookFailsSound == ASSUME Sound, NEW n \in Notes, HookFails(n) PROVE Sound'
<1> DEFINE missed == hook[n].todo \cup (IF merge[n].at = "none" THEN {} ELSE {merge[n].account})
           x == [at |-> "end", todo |-> {}]
<1>1. /\ hook[n].at = "reach" /\ hook' = [hook EXCEPT ![n] = x] /\ merge' = [merge EXCEPT ![n] = NoMerge]
      /\ dropped' = [a \in Actors |-> IF a \in missed THEN dropped[a] \cup {n} ELSE dropped[a]]
      /\ UNCHANGED <<valid, queueVars, sess, pageVars, clock, owed, handled>>
  BY DEF HookFails
<1>2. faults' \in 0..MaxFaults
  BY FaultIn DEF HookFails
<1>3. x \in Hooks /\ x.at = "end" /\ x.todo = {}
  BY DEF Hooks
<1> HIDE DEF x, missed
<1>4. hook' \in [Notes -> Hooks] /\ hook'[n] = x /\ \A k \in Notes \ {n} : hook'[k] = hook[k]
  BY <1>1, <1>3 DEF Sound, TypeOK
<1>5. /\ merge' \in [Actors \cup Notes -> Merges] /\ merge'[n] = NoMerge
      /\ \A q \in (Actors \cup Notes) \ {n} : merge'[q] = merge[q]
  BY <1>1, NoMergeIn, MergePut
<1>6. dropped' \in [Actors -> SUBSET Notes]
  <2>1. dropped \in [Actors -> SUBSET Notes]
    BY DEF Sound, TypeOK
  <2> QED BY <1>1, <2>1
<1>7. TypeOK'
  BY <1>1, <1>2, <1>4, <1>5, <1>6 DEF Sound, TypeOK, queueVars, pageVars, clock
<1>8. ASSUME NEW b \in Actors \cup Notes PROVE MergeSound(b)'
  <2>1. CASE b = n
    BY <1>5, <2>1, NoMergeIn DEF MergeSound
  <2>2. CASE b # n
    BY <1>1, <1>4, <1>5, <2>2 DEF MergeSound, Sound, queueVars
  <2> QED BY <2>1, <2>2
<1>9. ASSUME NEW b \in Actors PROVE SessionSound(b)'
  BY <1>1 DEF Sound, SessionSound, queueVars
<1>10. ASSUME NEW k \in Notes PROVE HookSound(k)'
  BY <1>1, <1>3, <1>4 DEF Sound, HookSound
<1> QED BY <1>7, <1>8, <1>9, <1>10 DEF Sound

LEMMA EnqueueSound == ASSUME Sound, NEW S \in SUBSET Actors, Enqueue(S) PROVE Sound'
<1>1. /\ enqueued + Cardinality(S) <= MaxRounds /\ enqueued' = enqueued + Cardinality(S)
      /\ rounds' = [a \in Actors |-> IF a \in S THEN rounds[a] + 1 ELSE rounds[a]]
      /\ UNCHANGED <<valid, jobs, sess, hook, merge, pageVars, clock, books, faults>>
  BY DEF Enqueue
<1>2. Cardinality(S) \in Nat
  BY InteractionsAssumption, FS_Subset, FS_CardinalityType
<1>3. enqueued' \in 0..MaxRounds
  BY <1>1, <1>2, InteractionsAssumption DEF Sound, TypeOK
<1>4. rounds' \in [Actors -> Nat]
  BY <1>1 DEF Sound, TypeOK
<1>5. TypeOK'
  BY <1>1, <1>3, <1>4 DEF Sound, TypeOK, pageVars, clock, books
<1>6. ASSUME NEW b \in Actors \cup Notes PROVE MergeSound(b)'
  BY <1>1 DEF MergeSound, Sound
<1>7. ASSUME NEW b \in Actors PROVE SessionSound(b)'
  BY <1>1 DEF Sound, SessionSound
<1>8. ASSUME NEW k \in Notes PROVE HookSound(k)'
  BY <1>1 DEF Sound, HookSound, books
<1> QED BY <1>5, <1>6, <1>7, <1>8 DEF Sound

LEMMA RequestSound ==
  ASSUME Sound, (\E a \in Actors : Ask(a)) \/ Scan \/ \E owner \in AllOwners : AfterSync(owner)
  PROVE  \E S \in SUBSET Actors : Enqueue(S)
<1>1. CASE \E a \in Actors : Ask(a)
  BY <1>1 DEF Ask
<1>2. CASE Scan
  <2>1. PICK a \in LeastUsed({x \in Actors : Plan(x, AllOwners) # <<>>}) : Enqueue({a})
    BY <1>2 DEF Scan
  <2>2. a \in Actors
    BY <2>1 DEF LeastUsed
  <2> QED BY <2>1, <2>2
<1>3. CASE \E owner \in AllOwners : AfterSync(owner)
  <2>1. PICK owner \in AllOwners : AfterSync(owner)
    BY <1>3
  <2> DEFINE S == {a \in Actors : a # owner /\ valid[a] /\ ~InFlight(a) /\ Plan(a, {owner}) # <<>>}
  <2>2. Enqueue(S) /\ S \in SUBSET Actors
    BY <2>1 DEF AfterSync
  <2> HIDE DEF S
  <2> QED BY <2>2
<1> QED BY <1>1, <1>2, <1>3

LEMMA RevalidateSound == ASSUME Sound, NEW a \in Actors, Revalidate(a) PROVE Sound'
<1>1. /\ valid' = [valid EXCEPT ![a] = TRUE]
      /\ Welcome(a) \/ UNCHANGED <<rounds, enqueued>>
      /\ UNCHANGED <<jobs, sess, hook, merge, pageVars, clock, books, faults>>
  BY DEF Revalidate
<1>2. rounds' \in [Actors -> Nat] /\ enqueued' \in 0..MaxRounds
  <2>1. CASE Welcome(a)
    BY <2>1, InteractionsAssumption DEF Welcome, Sound, TypeOK
  <2>2. CASE UNCHANGED <<rounds, enqueued>>
    BY <2>2 DEF Sound, TypeOK
  <2> QED BY <1>1, <2>1, <2>2
<1>3. valid' \in [Actors -> BOOLEAN]
  <2>1. valid \in [Actors -> BOOLEAN]
    BY DEF Sound, TypeOK
  <2>2. DOMAIN valid' = Actors /\ valid' = [b \in Actors |-> valid'[b]]
    BY <1>1, <2>1
  <2>3. \A b \in Actors : valid'[b] \in BOOLEAN
    BY <1>1, <2>1, Zenon
  <2> QED BY <2>2, <2>3, Zenon
<1>5. TypeOK'
  BY <1>1, <1>2, <1>3 DEF Sound, TypeOK, pageVars, clock, books
<1>6. ASSUME NEW b \in Actors \cup Notes PROVE MergeSound(b)'
  BY <1>1 DEF MergeSound, Sound
<1>7. ASSUME NEW b \in Actors PROVE SessionSound(b)'
  BY <1>1 DEF Sound, SessionSound
<1>8. ASSUME NEW k \in Notes PROVE HookSound(k)'
  BY <1>1 DEF Sound, HookSound, books
<1> QED BY <1>5, <1>6, <1>7, <1>8 DEF Sound

(* A row grows older, up to the age at which nobody looks at it any more. *)
LEMMA Aged ==
  ASSUME Sound, HalfDay, NEW a \in Actors
  PROVE  /\ ledger'[a] \in Seq(Row) /\ DOMAIN ledger'[a] = DOMAIN ledger[a]
         /\ \A i \in DOMAIN ledger[a] : /\ ledger'[a][i].note = ledger[a][i].note
                                        /\ ledger'[a][i].age = IF ledger[a][i].age = 0 THEN 1 ELSE 2
<1>1. ledger[a] \in Seq(Row) /\ Len(ledger[a]) \in Nat /\ DOMAIN ledger[a] = 1..Len(ledger[a])
  BY DEF Sound, TypeOK
<1>2. ledger'[a] = [i \in 1..Len(ledger[a]) |-> [ledger[a][i] EXCEPT !.age = Min({2, @ + 1})]]
  BY <1>1 DEF HalfDay
<1>3. ASSUME NEW i \in 1..Len(ledger[a])
      PROVE  /\ ledger'[a][i] \in Row /\ ledger'[a][i].note = ledger[a][i].note
             /\ ledger'[a][i].age = IF ledger[a][i].age = 0 THEN 1 ELSE 2
  <2> DEFINE r == ledger[a][i]
             age == Min({2, r.age + 1})
  <2>1. r \in Row /\ r.age \in 0..2
    <3>1. r \in Row
      BY <1>1
    <3> QED BY <3>1 DEF Row
  <2>2. age = IF r.age = 0 THEN 1 ELSE 2
    <3>1. age \in {2, r.age + 1} /\ age <= 2 /\ age <= r.age + 1
      BY <2>1, SmallerOf
    <3> HIDE DEF age, r
    <3> QED BY <2>1, <3>1
  <2>3. ledger'[a][i] = [r EXCEPT !.age = age]
    BY <1>2
  <2> HIDE DEF age, r
  <2> QED BY <2>1, <2>2, <2>3 DEF Row, r
<1>4. ledger'[a] = [i \in 1..Len(ledger[a]) |-> ledger'[a][i]]
  BY <1>2
<1>5. ledger'[a] \in Seq(Row) /\ DOMAIN ledger'[a] = 1..Len(ledger[a])
  BY <1>1, <1>3, <1>4
<1> QED BY <1>1, <1>3, <1>5

LEMMA HalfDaySound == ASSUME Sound, HalfDay PROVE Sound'
<1>1. /\ halves < MaxHalves /\ halves' = halves + 1 /\ half' = 1 - half
      /\ UNCHANGED <<valid, queueVars, sess, hook, merge, given, books, faults>>
  BY DEF HalfDay
<1>2. acted' \in [Actors -> SUBSET Notes] /\ unseen' \in [Actors -> SUBSET Notes]
  BY DEF HalfDay, Sound, TypeOK
<1>3. half' \in {0, 1} /\ halves' \in 0..MaxHalves
  BY <1>1, InteractionsAssumption DEF Sound, TypeOK
<1>4. ledger' \in [Actors -> Seq(Row)]
  <2>1. DOMAIN ledger' = Actors /\ ledger' = [a \in Actors |-> ledger'[a]]
    BY DEF HalfDay
  <2> QED BY <2>1, Aged
<1>5. TypeOK'
  BY <1>1, <1>2, <1>3, <1>4 DEF Sound, TypeOK, queueVars, books
<1>6. ASSUME NEW b \in Actors \cup Notes PROVE MergeSound(b)'
  BY <1>1 DEF MergeSound, Sound, queueVars
<1>7. ASSUME NEW b \in Actors PROVE SessionSound(b)'
  BY <1>1 DEF Sound, SessionSound, queueVars
<1>8. ASSUME NEW k \in Notes PROVE HookSound(k)'
  BY <1>1 DEF Sound, HookSound, books
<1> QED BY <1>5, <1>6, <1>7, <1>8 DEF Sound

(***************************************************************************)
(* Sessions                                                                *)
(***************************************************************************)

UsedNotes(a) == {r.note : r \in {x \in RowsOf(a) : Today(x)}}

LEMMA NotesFinite ==
  ASSUME NEW S \in SUBSET Notes
  PROVE  IsFiniteSet(S) /\ Cardinality(S) \in Nat
BY InteractionsAssumption, FS_Subset, FS_CardinalityType

LEMMA UsedIn ==
  ASSUME Sound, NEW a \in Actors
  PROVE  /\ UsedNotes(a) \in SUBSET Notes /\ UsedToday(a) = Cardinality(UsedNotes(a))
         /\ UsedToday(a) \in Nat
<1>1. ledger[a] \in Seq(Row)
  BY DEF Sound, TypeOK
<1>2. UsedNotes(a) \in SUBSET Notes
  <2>1. \A i \in DOMAIN ledger[a] : ledger[a][i] \in Row
    BY <1>1
  <2>2. \A r \in RowsOf(a) : r.note \in Notes
    BY <2>1 DEF RowsOf, ToSet, Row
  <2> QED BY <2>2 DEF UsedNotes
<1> QED BY <1>2, NotesFinite DEF UsedToday, UsedNotes

(* What the platform shows keeps what was lit, and what is reported is of the note. *)
LEMMA OutcomeIn ==
  ASSUME NEW n \in Notes, NEW lit \in SUBSET Actions, NEW o \in Outcomes(n, lit)
  PROVE  /\ o.shown \in SUBSET Actions /\ lit \subseteq o.shown
         /\ o.entry \in Result /\ o.entry.note = n
<1> DEFINE Those(icons, i) == {x \in Actions : icons[x][i]}
<1>1. CASE o \in [shown : {lit}, entry : {NotFound(n), NotOpened(n)}]
  <2>1. o.shown = lit /\ (o.entry = NotFound(n) \/ o.entry = NotOpened(n))
    BY <1>1
  <2>2. NotFound(n) \in Result /\ NotFound(n).note = n /\ NotOpened(n) \in Result /\ NotOpened(n).note = n
    BY DEF NotFound, NotOpened, Entry, Result
  <2> QED BY <2>1, <2>2
<1>2. CASE \E icons \in Clicks(lit) :
             o = [shown |-> Those(icons, 2), entry |-> Entry(n, Those(icons, 1), FALSE)]
  <2>1. PICK icons \in Clicks(lit) :
             o = [shown |-> Those(icons, 2), entry |-> Entry(n, Those(icons, 1), FALSE)]
    BY <1>2
  <2>2. ASSUME NEW x \in lit PROVE x \in Those(icons, 2)
    <3>1. x \in Actions /\ (x \in lit) = TRUE
      BY <2>2
    <3>2. icons[x] \in Icon(TRUE)
      BY <3>1 DEF Clicks
    <3>3. icons[x] = <<TRUE, TRUE>> \/ icons[x] = <<FALSE, TRUE>>
      BY <3>2 DEF Icon
    <3>4. <<TRUE, TRUE>>[2] = TRUE /\ <<FALSE, TRUE>>[2] = TRUE
      OBVIOUS
    <3>5. icons[x][2] = TRUE
      BY <3>3, <3>4, Zenon
    <3> QED BY <3>1, <3>5
  <2> DEFINE ok == Those(icons, 1)
             shown == Those(icons, 2)
  <2>3. ok \in SUBSET Actions /\ shown \in SUBSET Actions /\ lit \subseteq shown
    BY <2>2
  <2>4. o.shown = shown /\ o.entry = [note |-> n, ok |-> ok, missing |-> FALSE]
    BY <2>1 DEF Entry
  <2> HIDE DEF ok, shown
  <2> QED BY <2>3, <2>4 DEF Result
<1>3. o \in [shown : {lit}, entry : {NotFound(n), NotOpened(n)}]
      \/ \E icons \in Clicks(lit) :
             o = [shown |-> Those(icons, 2), entry |-> Entry(n, Those(icons, 1), FALSE)]
  BY DEF Outcomes
<1> QED BY <1>1, <1>2, <1>3

LEMMA SessPut ==
  ASSUME Sound, NEW a \in Actors, NEW x \in Sessions, sess' = [sess EXCEPT ![a] = x]
  PROVE  /\ sess' \in [Actors -> Sessions] /\ sess'[a] = x
         /\ \A b \in Actors \ {a} : sess'[b] = sess[b]
BY DEF Sound, TypeOK

LEMMA StatusPut ==
  ASSUME Sound, NEW a \in Actors, NEW j \in DOMAIN jobs[a], NEW st \in {"queued", "running", "ended"},
         jobs' = [jobs EXCEPT ![a][j].status = st]
  PROVE  /\ jobs' \in [Actors -> Seq(Job)]
         /\ \A b \in Actors : DOMAIN jobs'[b] = DOMAIN jobs[b]
         /\ \A b \in Actors : \A i \in DOMAIN jobs[b] : b # a \/ i # j => jobs'[b][i] = jobs[b][i]
         /\ jobs'[a][j].status = st /\ jobs'[a][j].notes = jobs[a][j].notes
<1>1. jobs \in [Actors -> Seq(Job)] /\ jobs[a][j] \in Job
  BY DEF Sound, TypeOK
<1> DEFINE x == [jobs[a][j] EXCEPT !.status = st]
           q == [jobs[a] EXCEPT ![j] = x]
<1>2. x \in Job /\ x.status = st /\ x.notes = jobs[a][j].notes
  BY <1>1 DEF Job
<1>3. q \in Seq(Job) /\ DOMAIN q = DOMAIN jobs[a]
  BY <1>1, <1>2, JobPut
<1>4. q[j] = x /\ \A i \in DOMAIN jobs[a] : i # j => q[i] = jobs[a][i]
  <2> HIDE DEF x
  <2> QED BY <1>1
<1>5. jobs' = [jobs EXCEPT ![a] = q]
  OBVIOUS
<1> HIDE DEF q, x
<1> QED BY <1>1, <1>2, <1>3, <1>4, <1>5

(* The merge of an account is under way only while its session carries. *)
LEMMA NotCarrying ==
  ASSUME Sound, NEW a \in Actors, sess[a].at # "carry"
  PROVE  merge[a] = NoMerge /\ merge[a].at = "none"
BY NoMergeIn DEF Sound, MergeSound

LEMMA ClaimMatrixSound ==
  ASSUME Sound, NEW a \in Actors, NEW j \in DOMAIN jobs[a], ClaimMatrix(a, j) PROVE Sound'
<1> DEFINE notes == jobs[a][j].notes
           cut == Min({MatrixLimit, Len(notes)})
           x == [Idle EXCEPT !.at = "act", !.kind = "matrix", !.job = j, !.left = SubSeq(notes, 1, cut),
                             !.rest = SubSeq(notes, cut + 1, Len(notes))]
<1>1. /\ sess[a] = Idle /\ jobs[a][j].status = "queued" /\ j \in Nat /\ notes \in Seq(Notes)
      /\ UNCHANGED <<valid, rounds, enqueued, hook, merge, pageVars, clock, owed, handled>>
  <2>1. jobs[a] \in Seq(Job) /\ jobs[a][j] \in Job
    BY DEF Sound, TypeOK
  <2>2. j \in Nat /\ notes \in Seq(Notes)
    BY <2>1 DEF Job
  <2> QED BY <2>2 DEF ClaimMatrix
<1>2. cut \in Nat /\ cut <= Len(notes)
  <2>1. Len(notes) \in Nat /\ MatrixLimit \in Nat
    BY <1>1, Apart
  <2> QED BY <2>1, SmallerOf
<1>3. SubSeq(notes, 1, cut) \in Seq(Notes) /\ SubSeq(notes, cut + 1, Len(notes)) \in Seq(Notes)
  <2> HIDE DEF cut
  <2> QED BY <1>1, <1>2
<1>4. x \in Sessions /\ x.at = "act" /\ x.kind = "matrix" /\ x.job = j
  <2> DEFINE l == SubSeq(notes, 1, cut)
             r == SubSeq(notes, cut + 1, Len(notes))
  <2>1. x = [Idle EXCEPT !.at = "act", !.kind = "matrix", !.job = j, !.left = l, !.rest = r]
    OBVIOUS
  <2>2. l \in Seq(Notes) /\ r \in Seq(Notes)
    BY <1>3
  <2> HIDE DEF l, r, x
  <2>3. x = [at |-> "act", kind |-> "matrix", job |-> j, left |-> l, rest |-> r, got |-> <<>>, wall |-> FALSE]
    BY <2>1 DEF Idle
  <2>4. <<>> \in Seq(Result)
    OBVIOUS
  <2> QED BY <1>1, <2>2, <2>3, <2>4 DEF Sessions
<1> HIDE DEF x
<1>5. merge[a].at = "none"
  BY <1>1, NotCarrying, IdleIn
<1>6. CASE jobs' = [jobs EXCEPT ![a][j].status = "running"] /\ sess' = [sess EXCEPT ![a] = x]
           /\ UNCHANGED <<dropped, faults>>
  <2>1. /\ jobs' \in [Actors -> Seq(Job)]
        /\ \A b \in Actors : DOMAIN jobs'[b] = DOMAIN jobs[b]
        /\ \A b \in Actors : \A i \in DOMAIN jobs[b] : b # a \/ i # j => jobs'[b][i] = jobs[b][i]
        /\ jobs'[a][j].status = "running"
    BY <1>6, StatusPut
  <2>2. sess' \in [Actors -> Sessions] /\ sess'[a] = x /\ \A b \in Actors \ {a} : sess'[b] = sess[b]
    BY <1>4, <1>6, SessPut
  <2>3. TypeOK'
    BY <1>1, <1>6, <2>1, <2>2 DEF Sound, TypeOK, pageVars, clock
  <2>4. ASSUME NEW b \in Actors \cup Notes PROVE MergeSound(b)'
    BY <1>1, <1>5, <2>1, <2>2 DEF MergeSound, Sound
  <2>5. ASSUME NEW b \in Actors PROVE SessionSound(b)'
    <3>1. CASE b = a
      BY <1>4, <2>1, <2>2, <3>1, Apart DEF SessionSound
    <3>2. CASE b # a
      BY <2>1, <2>2, <3>2 DEF Sound, SessionSound
    <3> QED BY <3>1, <3>2
  <2>6. ASSUME NEW k \in Notes PROVE HookSound(k)'
    BY <1>1 DEF Sound, HookSound
  <2> QED BY <2>3, <2>4, <2>5, <2>6 DEF Sound
<1>7. CASE Fault /\ jobs' = [jobs EXCEPT ![a][j].status = "ended"]
           /\ dropped' = [dropped EXCEPT ![a] = @ \cup ToSet(notes)] /\ UNCHANGED sess
  <2>1. /\ jobs' \in [Actors -> Seq(Job)]
        /\ \A b \in Actors : DOMAIN jobs'[b] = DOMAIN jobs[b]
        /\ \A b \in Actors : \A i \in DOMAIN jobs[b] : b # a \/ i # j => jobs'[b][i] = jobs[b][i]
    BY <1>7, StatusPut
  <2>2. dropped' \in [Actors -> SUBSET Notes]
    <3>1. ToSet(notes) \in SUBSET Notes
      BY <1>1 DEF ToSet
    <3>2. dropped \in [Actors -> SUBSET Notes]
      BY DEF Sound, TypeOK
    <3> QED BY <1>7, <3>1, <3>2
  <2>3. faults' \in 0..MaxFaults
    BY <1>7, FaultIn
  <2>4. TypeOK'
    BY <1>1, <1>7, <2>1, <2>2, <2>3 DEF Sound, TypeOK, pageVars, clock
  <2>5. ASSUME NEW b \in Actors \cup Notes PROVE MergeSound(b)'
    BY <1>1, <1>7, <2>1 DEF MergeSound, Sound
  <2>6. ASSUME NEW b \in Actors PROVE SessionSound(b)'
    <3>1. CASE b = a
      BY <1>1, <1>7, <3>1, Apart, IdleIn DEF SessionSound
    <3>2. CASE b # a
      BY <1>7, <2>1, <3>2 DEF Sound, SessionSound
    <3> QED BY <3>1, <3>2
  <2>7. ASSUME NEW k \in Notes PROVE HookSound(k)'
    BY <1>1 DEF Sound, HookSound
  <2> QED BY <2>4, <2>5, <2>6, <2>7 DEF Sound
<1> QED BY <1>6, <1>7 DEF ClaimMatrix, x

LEMMA ClaimRoundSound == ASSUME Sound, NEW a \in Actors, ClaimRound(a) PROVE Sound'
<1>1. /\ sess[a] = Idle /\ rounds[a] > 0 /\ rounds' = [rounds EXCEPT ![a] = @ - 1]
      /\ UNCHANGED <<valid, jobs, enqueued, hook, merge, pageVars, clock, books, faults>>
  BY DEF ClaimRound
<1>2. PICK owners : sess' = [sess EXCEPT ![a] = IF Plan(a, owners) = <<>> THEN Idle
                                 ELSE [Idle EXCEPT !.at = "act", !.kind = "backfill",
                                                   !.left = Plan(a, owners)]]
  BY DEF ClaimRound
<1> DEFINE targets == Plan(a, owners)
           y == [Idle EXCEPT !.at = "act", !.kind = "backfill", !.left = targets]
           x == IF targets = <<>> THEN Idle ELSE y
<1>3. targets \in Seq(Notes)
  <2>1. UsedToday(a) \in Nat
    BY UsedIn
  <2> QED BY <2>1, PlanIn
<1> HIDE DEF targets
<1>4. y \in Sessions /\ y.at = "act" /\ y.kind = "backfill" /\ y.rest = <<>>
  <2>1. y = [Idle EXCEPT !.at = "act", !.kind = "backfill", !.left = targets]
    OBVIOUS
  <2>2. <<>> \in Seq(Notes) /\ <<>> \in Seq(Result) /\ 0 \in Nat
    OBVIOUS
  <2> HIDE DEF y
  <2>3. y = [at |-> "act", kind |-> "backfill", job |-> 0, left |-> targets, rest |-> <<>>,
             got |-> <<>>, wall |-> FALSE]
    BY <2>1 DEF Idle
  <2>4. y \in Sessions /\ y.at = "act" /\ y.kind = "backfill" /\ y.rest = <<>>
    BY <1>3, <2>2, <2>3 DEF Sessions
  <2> QED BY <2>4
<1> HIDE DEF y
<1>5. x \in Sessions /\ x.at # "carry" /\ x.kind # "matrix" /\ (x = Idle \/ x = y)
  BY <1>4, IdleIn, Apart
<1>6. sess' = [sess EXCEPT ![a] = x]
  BY <1>2 DEF targets, y
<1> HIDE DEF x
<1>7. sess' \in [Actors -> Sessions] /\ sess'[a] = x /\ \A b \in Actors \ {a} : sess'[b] = sess[b]
  BY <1>5, <1>6, SessPut
<1>8. rounds' \in [Actors -> Nat]
  BY <1>1 DEF Sound, TypeOK
<1>9. TypeOK'
  BY <1>1, <1>7, <1>8 DEF Sound, TypeOK, pageVars, clock, books
<1>10. ASSUME NEW b \in Actors \cup Notes PROVE MergeSound(b)'
  <2>1. merge[a].at = "none"
    BY <1>1, NotCarrying, IdleIn
  <2> QED BY <1>1, <1>7, <2>1 DEF MergeSound, Sound
<1>11. ASSUME NEW b \in Actors PROVE SessionSound(b)'
  <2>1. CASE b = a
    BY <1>4, <1>5, <1>7, <2>1, Apart, IdleIn DEF SessionSound
  <2>2. CASE b # a
    BY <1>1, <1>7, <2>2 DEF Sound, SessionSound
  <2> QED BY <2>1, <2>2
<1>12. ASSUME NEW k \in Notes PROVE HookSound(k)'
  BY <1>1 DEF Sound, HookSound, books
<1> QED BY <1>9, <1>10, <1>11, <1>12 DEF Sound

LEMMA ActSound == ASSUME Sound, NEW a \in Actors, Act(a) PROVE Sound'
<1> DEFINE s == sess[a]
           n == Head(s.left)
           Noted(past) == IF s.kind = "backfill" THEN [past EXCEPT ![a] = @ \cup {n}] ELSE past
<1>1. /\ s.at = "act" /\ s.left # <<>> /\ s \in Sessions
      /\ acted' = Noted(acted)
      /\ UNCHANGED <<valid, queueVars, hook, merge, ledger, clock, books>>
  BY DEF Act, Sound, TypeOK
<1>2. PICK o \in Outcomes(n, given[a][n]) :
        /\ given' = [given EXCEPT ![a][n] = o.shown]
        /\ \/ sess' = [sess EXCEPT ![a] = Reported(s, o.entry)] /\ UNCHANGED <<unseen, faults>>
           \/ sess' = [sess EXCEPT ![a] = Walled(s)] /\ unseen' = Noted(unseen) /\ Fault
  BY DEF Act
<1>3. n \in Notes /\ Tail(s.left) \in Seq(Notes)
  <2>1. s.left \in Seq(Notes)
    BY <1>1 DEF Sessions
  <2> HIDE DEF s
  <2> QED BY <1>1, <2>1
<1>4. given \in [Actors -> [Notes -> SUBSET Actions]] /\ given[a][n] \in SUBSET Actions
  BY <1>3 DEF Sound, TypeOK
<1>5. o.shown \in SUBSET Actions /\ o.entry \in Result
  <2> HIDE DEF n
  <2> QED BY <1>2, <1>3, <1>4, OutcomeIn
<1>6. given' \in [Actors -> [Notes -> SUBSET Actions]]
  BY <1>2, <1>3, <1>4, <1>5
<1>7. \A past \in [Actors -> SUBSET Notes] : Noted(past) \in [Actors -> SUBSET Notes]
  BY <1>3
<1>8. acted' \in [Actors -> SUBSET Notes] /\ unseen' \in [Actors -> SUBSET Notes] /\ faults' \in 0..MaxFaults
  <2>1. acted \in [Actors -> SUBSET Notes] /\ unseen \in [Actors -> SUBSET Notes] /\ faults \in 0..MaxFaults
    BY DEF Sound, TypeOK
  <2> HIDE DEF Noted
  <2> QED BY <1>1, <1>2, <1>7, <2>1, FaultIn
<1> HIDE DEF Noted, n
<1>9. PICK x \in Sessions : /\ sess' = [sess EXCEPT ![a] = x] /\ x.at \in {"act", "end"}
                            /\ x.kind = s.kind /\ x.job = s.job /\ x.rest = s.rest
  <2>1. CASE sess' = [sess EXCEPT ![a] = Reported(s, o.entry)]
    <3> DEFINE l == Tail(s.left)
               g == Append(s.got, o.entry)
               x == [s EXCEPT !.left = l, !.got = g]
    <3>1. l \in Seq(Notes) /\ g \in Seq(Result)
      BY <1>1, <1>3, <1>5 DEF Sessions
    <3>2. Reported(s, o.entry) = x
      BY DEF Reported
    <3> HIDE DEF l, g, s
    <3>3. x \in Sessions /\ x.at = s.at /\ x.kind = s.kind /\ x.job = s.job /\ x.rest = s.rest
      BY <1>1, <3>1 DEF Sessions
    <3> HIDE DEF x
    <3> QED BY <1>1, <2>1, <3>2, <3>3
  <2>2. CASE sess' = [sess EXCEPT ![a] = Walled(s)]
    <3> DEFINE x == [s EXCEPT !.wall = TRUE, !.at = "end"]
    <3>1. x \in Sessions /\ x.at = "end" /\ x.kind = s.kind /\ x.job = s.job /\ x.rest = s.rest
      <4> HIDE DEF s
      <4> QED BY <1>1 DEF Sessions
    <3>2. Walled(s) = x
      BY DEF Walled
    <3> HIDE DEF x
    <3> QED BY <2>2, <3>1, <3>2
  <2> QED BY <1>2, <2>1, <2>2
<1>10. sess' \in [Actors -> Sessions] /\ sess'[a] = x /\ \A b \in Actors \ {a} : sess'[b] = sess[b]
  BY <1>9, SessPut
<1>11. TypeOK'
  BY <1>1, <1>6, <1>8, <1>10 DEF Sound, TypeOK, queueVars, clock, books
<1>12. ASSUME NEW b \in Actors \cup Notes PROVE MergeSound(b)'
  <2>1. merge[a].at = "none"
    BY <1>1, NotCarrying
  <2> QED BY <1>1, <1>10, <2>1 DEF MergeSound, Sound, queueVars
<1>13. ASSUME NEW b \in Actors PROVE SessionSound(b)'
  <2>1. CASE b = a
    BY <1>1, <1>9, <1>10, <2>1 DEF SessionSound, Sound, queueVars
  <2>2. CASE b # a
    BY <1>1, <1>10, <2>2 DEF Sound, SessionSound, queueVars
  <2> QED BY <2>1, <2>2
<1>14. ASSUME NEW k \in Notes PROVE HookSound(k)'
  BY <1>1 DEF Sound, HookSound, books
<1> QED BY <1>11, <1>12, <1>13, <1>14 DEF Sound

LEMMA EndSessionSound == ASSUME Sound, NEW a \in Actors, EndSession(a) PROVE Sound'
<1> DEFINE s == sess[a]
           x == [s EXCEPT !.at = "end"]
<1>1. /\ s.at = "act" /\ s \in Sessions /\ sess' = [sess EXCEPT ![a] = x]
      /\ UNCHANGED <<valid, queueVars, hook, merge, pageVars, clock, books, faults>>
  BY DEF EndSession, Sound, TypeOK
<1>2. x \in Sessions /\ x.at = "end" /\ x.kind = s.kind /\ x.job = s.job /\ x.rest = s.rest
  <2> HIDE DEF s
  <2> QED BY <1>1 DEF Sessions
<1> HIDE DEF x
<1>3. sess' \in [Actors -> Sessions] /\ sess'[a] = x /\ \A b \in Actors \ {a} : sess'[b] = sess[b]
  BY <1>1, <1>2, SessPut
<1>4. TypeOK'
  BY <1>1, <1>3 DEF Sound, TypeOK, queueVars, pageVars, clock, books
<1>5. ASSUME NEW b \in Actors \cup Notes PROVE MergeSound(b)'
  <2>1. merge[a].at = "none"
    BY <1>1, NotCarrying
  <2> QED BY <1>1, <1>3, <2>1 DEF MergeSound, Sound, queueVars
<1>6. ASSUME NEW b \in Actors PROVE SessionSound(b)'
  <2>1. CASE b = a
    BY <1>1, <1>2, <1>3, <2>1 DEF SessionSound, Sound, queueVars
  <2>2. CASE b # a
    BY <1>1, <1>3, <2>2 DEF Sound, SessionSound, queueVars
  <2> QED BY <2>1, <2>2
<1>7. ASSUME NEW k \in Notes PROVE HookSound(k)'
  BY <1>1 DEF Sound, HookSound, books
<1> QED BY <1>4, <1>5, <1>6, <1>7 DEF Sound

(* The new rows of the ledger, and those that are kept. *)
LEMMA RecordedIn ==
  ASSUME Sound, NEW a \in Actors, NEW results \in Seq(Result)
  PROVE  /\ Recorded(a, results) \in Seq(Row)
         /\ NotesOf(results) \in SUBSET Notes
         /\ \A r \in ToSet(Recorded(a, results)) :
              (r.age = 0 /\ r.note \in NotesOf(results)) \/ (r \in RowsOf(a) /\ r.note \notin NotesOf(results))
         /\ \A n \in NotesOf(results) : \E r \in ToSet(Recorded(a, results)) : r.note = n /\ r.age = 0
         /\ \A r \in RowsOf(a) : r.note \notin NotesOf(results) => r \in ToSet(Recorded(a, results))
<1> DEFINE N == NotesOf(results)
           A == Rows(results)
           B == Others(ledger[a], N)
           L == Len(results)
<1>0. ledger[a] \in Seq(Row) /\ L \in Nat /\ DOMAIN results = 1..L /\ \A i \in 1..L : results[i] \in Result
  BY DEF Sound, TypeOK
<1>1. N \in SUBSET Notes
  BY <1>0 DEF NotesOf, Result
<1>2. /\ B \in Seq(Row)
      /\ ToSet(B) = {r \in RowsOf(a) : r.note \notin N}
  <2>1. ledger[a] \in Seq(Row)
    BY <1>0
  <2> HIDE DEF N
  <2> QED BY <2>1, OthersKept DEF RowsOf
<1>3. A = [i \in 1..L |-> [note |-> results[L + 1 - i].note, ok |-> results[L + 1 - i].ok,
                           missing |-> results[L + 1 - i].missing, age |-> 0]]
  BY <1>0 DEF Rows
<1>4. ASSUME NEW i \in 1..L
      PROVE  A[i] \in Row /\ A[i].age = 0 /\ A[i].note = results[L + 1 - i].note
  <2>1. results[L + 1 - i] \in Result
    BY <1>0
  <2> HIDE DEF A, L
  <2> QED BY <1>3, <2>1 DEF Result, Row
<1>5. A \in Seq(Row) /\ Len(A) = L /\ DOMAIN A = 1..L
  <2>1. A = [i \in 1..L |-> A[i]]
    BY <1>3
  <2> HIDE DEF A
  <2> QED BY <1>0, <1>3, <1>4, <2>1
<1>6. \A n : n \in N <=> \E i \in 1..L : A[i].note = n
  <2>1. ASSUME NEW n \in N PROVE \E i \in 1..L : A[i].note = n
    <3>1. PICK k \in 1..L : results[k].note = n
      BY <1>0 DEF NotesOf
    <3>2. L + 1 - k \in 1..L /\ L + 1 - (L + 1 - k) = k
      BY <1>0
    <3> HIDE DEF A, L
    <3> QED BY <1>4, <3>1, <3>2
  <2>2. ASSUME NEW i \in 1..L PROVE A[i].note \in N
    <3>1. L + 1 - i \in 1..L
      BY <1>0
    <3> HIDE DEF A
    <3> QED BY <1>0, <1>4, <3>1 DEF NotesOf
  <2> QED BY <2>1, <2>2
<1> HIDE DEF N, A, B
<1>7. Recorded(a, results) = A \o B
  BY DEF Recorded, A, B, N
<1> DEFINE C == A \o B
<1>8. /\ C \in Seq(Row) /\ \A i \in 1..L : i \in DOMAIN C /\ C[i] = A[i]
      /\ \A i \in DOMAIN B : L + i \in DOMAIN C /\ C[L + i] = B[i]
      /\ \A i \in DOMAIN C : (i \in 1..L) \/ (i - L \in DOMAIN B /\ C[i] = B[i - L])
  BY <1>0, <1>2, <1>5
<1> HIDE DEF C
<1>9. ASSUME NEW i \in DOMAIN C
      PROVE  (C[i].age = 0 /\ C[i].note \in N) \/ (C[i] \in RowsOf(a) /\ C[i].note \notin N)
  <2>1. CASE i \in 1..L
    BY <1>4, <1>6, <1>8, <2>1
  <2>2. CASE i - L \in DOMAIN B /\ C[i] = B[i - L]
    BY <1>2, <2>2 DEF ToSet
  <2> QED BY <1>8, <2>1, <2>2
<1>10. ASSUME NEW n \in N PROVE \E i \in DOMAIN C : C[i].note = n /\ C[i].age = 0
  BY <1>4, <1>6, <1>8
<1>11. ASSUME NEW r \in RowsOf(a), r.note \notin N PROVE \E i \in DOMAIN C : C[i] = r
  <2>1. PICK i \in DOMAIN B : B[i] = r
    BY <1>2, <1>11 DEF ToSet
  <2> QED BY <1>8, <2>1
<1>12. Recorded(a, results) = C
  BY <1>7 DEF C
<1> QED BY <1>1, <1>8, <1>9, <1>10, <1>11, <1>12 DEF ToSet, N

LEMMA RestrictedIn == ASSUME Sound, NEW a \in Actors PROVE Restricted(a) \in [Actors -> BOOLEAN]
<1>1. valid \in [Actors -> BOOLEAN] /\ sess[a].wall \in BOOLEAN
  BY DEF Sound, TypeOK, Sessions
<1> DEFINE v == valid[a] /\ ~sess[a].wall
<1>2. v \in BOOLEAN
  OBVIOUS
<1>3. Restricted(a) = [valid EXCEPT ![a] = v]
  BY DEF Restricted
<1> HIDE DEF v
<1>4. DOMAIN Restricted(a) = Actors /\ Restricted(a) = [b \in Actors |-> Restricted(a)[b]]
  BY <1>1, <1>3
<1>5. \A b \in Actors : Restricted(a)[b] \in BOOLEAN
  BY <1>1, <1>2, <1>3, Zenon
<1> QED BY <1>4, <1>5, Zenon

LEMMA EndRoundSound == ASSUME Sound, NEW a \in Actors, EndRound(a) PROVE Sound'
<1> DEFINE s == sess[a]
<1>1. /\ s.at = "end" /\ s.kind = "backfill" /\ s \in Sessions /\ s.got \in Seq(Result)
      /\ valid' = Restricted(a) /\ sess' = [sess EXCEPT ![a] = Idle]
      /\ UNCHANGED <<queueVars, hook, merge, given, acted, clock, books>>
  BY DEF EndRound, Sound, TypeOK, Sessions
<1>2. \/ ledger' = [ledger EXCEPT ![a] = Recorded(a, s.got)] /\ UNCHANGED <<unseen, faults>>
      \/ Fault /\ UNCHANGED ledger /\ unseen' = [unseen EXCEPT ![a] = @ \cup NotesOf(s.got)]
  BY DEF EndRound
<1>3. Recorded(a, s.got) \in Seq(Row) /\ NotesOf(s.got) \in SUBSET Notes
  <2> HIDE DEF s
  <2> QED BY <1>1, RecordedIn
<1>4. ledger' \in [Actors -> Seq(Row)] /\ unseen' \in [Actors -> SUBSET Notes] /\ faults' \in 0..MaxFaults
  <2>1. ledger \in [Actors -> Seq(Row)] /\ unseen \in [Actors -> SUBSET Notes] /\ faults \in 0..MaxFaults
    BY DEF Sound, TypeOK
  <2>2. CASE ledger' = [ledger EXCEPT ![a] = Recorded(a, s.got)] /\ UNCHANGED <<unseen, faults>>
    BY <1>3, <2>1, <2>2
  <2>3. CASE Fault /\ UNCHANGED ledger /\ unseen' = [unseen EXCEPT ![a] = @ \cup NotesOf(s.got)]
    BY <1>3, <2>1, <2>3, FaultIn
  <2> QED BY <1>2, <2>2, <2>3
<1>5. valid' \in [Actors -> BOOLEAN]
  BY <1>1, RestrictedIn
<1>6. sess' \in [Actors -> Sessions] /\ sess'[a] = Idle /\ \A b \in Actors \ {a} : sess'[b] = sess[b]
  BY <1>1, IdleIn, SessPut
<1>7. TypeOK'
  BY <1>1, <1>4, <1>5, <1>6 DEF Sound, TypeOK, queueVars, clock, books
<1>8. ASSUME NEW b \in Actors \cup Notes PROVE MergeSound(b)'
  <2>1. merge[a].at = "none"
    BY <1>1, NotCarrying
  <2> QED BY <1>1, <1>6, <2>1 DEF MergeSound, Sound, queueVars
<1>9. ASSUME NEW b \in Actors PROVE SessionSound(b)'
  <2>1. CASE b = a
    BY <1>6, <2>1, IdleIn, Apart DEF SessionSound
  <2>2. CASE b # a
    BY <1>1, <1>6, <2>2 DEF Sound, SessionSound, queueVars
  <2> QED BY <2>1, <2>2
<1>10. ASSUME NEW k \in Notes PROVE HookSound(k)'
  BY <1>1 DEF Sound, HookSound, books
<1> QED BY <1>7, <1>8, <1>9, <1>10 DEF Sound

LEMMA EndMatrixSound == ASSUME Sound, NEW a \in Actors, EndMatrix(a) PROVE Sound'
<1> DEFINE s == sess[a]
           x == [Idle EXCEPT !.at = "carry", !.kind = "matrix", !.job = s.job]
           m == [at |-> "select", account |-> a, notes |-> LeftOver(s), job |-> 0, tries |-> 0]
<1>1. /\ s.at = "end" /\ s.kind = "matrix" /\ s \in Sessions
      /\ valid' = Restricted(a) /\ sess' = [sess EXCEPT ![a] = x]
      /\ merge' = merge \/ merge' = [merge EXCEPT ![a] = m]
      /\ UNCHANGED <<queueVars, hook, pageVars, clock, owed, faults>>
  <2>1. s \in Sessions
    BY DEF Sound, TypeOK
  <2>2. s.at = "end" /\ s.kind = "matrix" /\ valid' = Restricted(a) /\ sess' = [sess EXCEPT ![a] = x]
        /\ UNCHANGED <<queueVars, hook, pageVars, clock, owed, faults>>
    BY DEF EndMatrix
  <2>3. merge' = merge \/ merge' = [merge EXCEPT ![a] = m]
    BY DEF EndMatrix, Merging
  <2> QED BY <2>1, <2>2, <2>3
<1>2. LeftOver(s) \in Seq(Notes) /\ s.job \in Nat
  <2>1. s.left \in Seq(Notes) /\ s.rest \in Seq(Notes) /\ s.job \in Nat
    BY <1>1 DEF Sessions
  <2> HIDE DEF s
  <2> QED BY <2>1 DEF LeftOver
<1>3. m \in Merges /\ m.at = "select" /\ m.account = a
  <2> DEFINE l == LeftOver(s)
  <2>1. l \in Seq(Notes)
    BY <1>2
  <2> HIDE DEF l
  <2> QED BY <2>1 DEF Merges, l
<1> HIDE DEF m, s
<1>4. x \in Sessions /\ x.at = "carry" /\ x.kind = "matrix" /\ x.job = s.job
      /\ x.left = <<>> /\ x.rest = <<>> /\ x.got = <<>>
  <2>1. <<>> \in Seq(Notes) /\ <<>> \in Seq(Result)
    OBVIOUS
  <2> QED BY <1>2, <2>1 DEF Sessions, Idle
<1> HIDE DEF x
<1>5. sess' \in [Actors -> Sessions] /\ sess'[a] = x /\ \A b \in Actors \ {a} : sess'[b] = sess[b]
  BY <1>1, <1>4, SessPut
<1>6. merge[a] = NoMerge /\ merge[a].at = "none"
  BY <1>1, NotCarrying DEF s
<1>7. /\ merge' \in [Actors \cup Notes -> Merges]
      /\ merge'[a] = NoMerge \/ merge'[a] = m
      /\ \A q \in (Actors \cup Notes) \ {a} : merge'[q] = merge[q]
  <2>0. a \in Actors \cup Notes
    OBVIOUS
  <2>1. CASE merge' = merge
    BY <1>6, <2>1 DEF Sound, TypeOK
  <2>2. CASE merge' = [merge EXCEPT ![a] = m]
    BY <1>3, <2>0, <2>2, MergePut
  <2> QED BY <1>1, <2>1, <2>2
<1>8. handled' \in [Actors -> [Notes -> Nat]]
  <2> DEFINE h == [n \in Notes |-> IF n \in NotesOf(s.got) THEN handled[a][n] + 1 ELSE handled[a][n]]
  <2>1. handled \in [Actors -> [Notes -> Nat]]
    BY DEF Sound, TypeOK
  <2>2. handled' = [handled EXCEPT ![a] = h]
    BY DEF EndMatrix, s
  <2>3. h \in [Notes -> Nat]
    BY <2>1
  <2> HIDE DEF h
  <2> QED BY <2>1, <2>2, <2>3
<1>9. dropped' \in [Actors -> SUBSET Notes]
  <2>1. dropped \in [Actors -> SUBSET Notes]
    BY DEF Sound, TypeOK
  <2>2. dropped' = [dropped EXCEPT ![a] = IF s.wall THEN @ \cup ToSet(LeftOver(s)) ELSE @]
    BY DEF EndMatrix, s
  <2>3. ToSet(LeftOver(s)) \in SUBSET Notes
    BY <1>2 DEF ToSet
  <2> QED BY <2>1, <2>2, <2>3
<1>10. valid' \in [Actors -> BOOLEAN]
  BY <1>1, RestrictedIn
<1>11. TypeOK'
  <2>1. /\ jobs' \in [Actors -> Seq(Job)] /\ rounds' \in [Actors -> Nat] /\ hook' \in [Notes -> Hooks]
        /\ ledger' \in [Actors -> Seq(Row)] /\ given' \in [Actors -> [Notes -> SUBSET Actions]]
        /\ half' \in {0, 1} /\ halves' \in 0..MaxHalves
        /\ acted' \in [Actors -> SUBSET Notes] /\ unseen' \in [Actors -> SUBSET Notes]
        /\ owed' \in [Notes -> SUBSET Actors] /\ enqueued' \in 0..MaxRounds /\ faults' \in 0..MaxFaults
    BY <1>1 DEF Sound, TypeOK, queueVars, pageVars, clock
  <2> QED BY <1>5, <1>7, <1>8, <1>9, <1>10, <2>1 DEF TypeOK
<1>12. ASSUME NEW b \in Actors \cup Notes PROVE MergeSound(b)'
  <2>1. CASE b = a
    BY <1>3, <1>4, <1>5, <1>7, <2>1, NoMergeIn, Apart DEF MergeSound
  <2>2. CASE b # a
    BY <1>1, <1>5, <1>7, <2>2 DEF MergeSound, Sound, queueVars
  <2> QED BY <2>1, <2>2
<1>13. ASSUME NEW b \in Actors PROVE SessionSound(b)'
  <2>1. CASE b = a
    BY <1>1, <1>4, <1>5, <2>1, Apart DEF SessionSound, Sound, queueVars, s
  <2>2. CASE b # a
    BY <1>1, <1>5, <2>2 DEF Sound, SessionSound, queueVars
  <2> QED BY <2>1, <2>2
<1>14. ASSUME NEW k \in Notes PROVE HookSound(k)'
  BY <1>1 DEF Sound, HookSound
<1> QED BY <1>11, <1>12, <1>13, <1>14 DEF Sound

LEMMA FinishSound == ASSUME Sound, NEW a \in Actors, Finish(a) PROVE Sound'
<1> DEFINE s == sess[a]
<1>1. /\ s.at = "carry" /\ SessionSound(a) /\ MergeSound(a) /\ merge[a] \in Merges
      /\ jobs' = [jobs EXCEPT ![a][s.job].status = "ended"] /\ sess' = [sess EXCEPT ![a] = Idle]
      /\ UNCHANGED <<valid, rounds, enqueued, hook, pageVars, clock, owed, handled>>
  BY DEF Finish, Sound, TypeOK
<1>2. \/ merge[a].at = "none" /\ UNCHANGED <<merge, dropped, faults>>
      \/ Fault /\ merge' = [merge EXCEPT ![a] = NoMerge]
         /\ dropped' = [dropped EXCEPT ![a] = @ \cup ToSet(merge[a].notes)]
  BY DEF Finish
<1>3. s.job \in DOMAIN jobs[a]
  BY <1>1 DEF SessionSound
<1>4. /\ jobs' \in [Actors -> Seq(Job)]
      /\ \A b \in Actors : DOMAIN jobs'[b] = DOMAIN jobs[b]
      /\ \A b \in Actors : \A i \in DOMAIN jobs[b] : b # a \/ i # s.job => jobs'[b][i] = jobs[b][i]
  <2> HIDE DEF s
  <2> QED BY <1>1, <1>3, StatusPut
<1>5. sess' \in [Actors -> Sessions] /\ sess'[a] = Idle /\ \A b \in Actors \ {a} : sess'[b] = sess[b]
  BY <1>1, IdleIn, SessPut
<1>6. /\ merge' \in [Actors \cup Notes -> Merges] /\ merge'[a] = NoMerge
      /\ \A q \in (Actors \cup Notes) \ {a} : merge'[q] = merge[q]
      /\ dropped' \in [Actors -> SUBSET Notes] /\ faults' \in 0..MaxFaults
  <2>1. /\ merge \in [Actors \cup Notes -> Merges] /\ dropped \in [Actors -> SUBSET Notes]
        /\ faults \in 0..MaxFaults /\ a \in Actors \cup Notes
    BY DEF Sound, TypeOK
  <2>2. ToSet(merge[a].notes) \in SUBSET Notes
    BY <1>1 DEF ToSet, Merges
  <2>3. CASE merge[a].at = "none" /\ UNCHANGED <<merge, dropped, faults>>
    BY <1>1, <2>1, <2>3 DEF MergeSound
  <2>4. CASE Fault /\ merge' = [merge EXCEPT ![a] = NoMerge]
             /\ dropped' = [dropped EXCEPT ![a] = @ \cup ToSet(merge[a].notes)]
    <3>1. faults' \in 0..MaxFaults
      BY <2>4, FaultIn
    <3>2. dropped' \in [Actors -> SUBSET Notes]
      BY <2>1, <2>2, <2>4
    <3> QED BY <2>1, <2>4, <3>1, <3>2, NoMergeIn, MergePut
  <2> QED BY <1>2, <2>3, <2>4
<1>7. TypeOK'
  BY <1>1, <1>4, <1>5, <1>6 DEF Sound, TypeOK, pageVars, clock
<1>8. ASSUME NEW b \in Actors \cup Notes PROVE MergeSound(b)'
  <2>1. CASE b = a
    BY <1>6, <2>1, NoMergeIn, Apart DEF MergeSound
  <2>2. CASE b # a
    <3>1. MergeSound(b) /\ merge'[b] = merge[b] /\ (b \in Actors => sess'[b] = sess[b]) /\ hook' = hook
      BY <1>1, <1>5, <1>6, <2>2 DEF Sound
    <3>2. merge[b].account \in Actors => DOMAIN jobs'[merge[b].account] = DOMAIN jobs[merge[b].account]
      BY <1>4
    <3> QED BY <3>1, <3>2 DEF MergeSound
  <2> QED BY <2>1, <2>2
<1>9. ASSUME NEW b \in Actors PROVE SessionSound(b)'
  <2>1. CASE b = a
    BY <1>5, <2>1, IdleIn, Apart DEF SessionSound
  <2>2. CASE b # a
    BY <1>4, <1>5, <2>2 DEF Sound, SessionSound
  <2> QED BY <2>1, <2>2
<1>10. ASSUME NEW k \in Notes PROVE HookSound(k)'
  BY <1>1 DEF Sound, HookSound
<1> QED BY <1>7, <1>8, <1>9, <1>10 DEF Sound

LEMMA KillSound == ASSUME Sound, NEW a \in Actors, Kill(a) PROVE Sound'
<1> DEFINE s == sess[a]
           lost == ToSet(s.left) \cup ToSet(s.rest) \cup NotesOf(s.got) \cup ToSet(merge[a].notes)
<1>1. /\ s # Idle /\ SessionSound(a) /\ MergeSound(a) /\ merge[a] \in Merges /\ s \in Sessions
      /\ Fault /\ sess' = [sess EXCEPT ![a] = Idle] /\ merge' = [merge EXCEPT ![a] = NoMerge]
      /\ UNCHANGED <<valid, rounds, enqueued, hook, ledger, given, acted, clock, owed, handled>>
  BY DEF Kill, Sound, TypeOK
<1>2. \/ /\ s.kind = "matrix" /\ jobs' = [jobs EXCEPT ![a][s.job].status = "ended"]
         /\ dropped' = [dropped EXCEPT ![a] = @ \cup lost] /\ UNCHANGED unseen
      \/ /\ unseen' = [unseen EXCEPT ![a] = @ \cup NotesOf(s.got)] /\ UNCHANGED <<jobs, dropped>>
  BY DEF Kill
<1>3. lost \in SUBSET Notes /\ NotesOf(s.got) \in SUBSET Notes
  <2>1. s.left \in Seq(Notes) /\ s.rest \in Seq(Notes) /\ merge[a].notes \in Seq(Notes) /\ s.got \in Seq(Result)
    BY <1>1 DEF Sessions, Merges
  <2>2. ToSet(s.left) \in SUBSET Notes /\ ToSet(s.rest) \in SUBSET Notes /\ ToSet(merge[a].notes) \in SUBSET Notes
    BY <2>1 DEF ToSet
  <2>3. NotesOf(s.got) \in SUBSET Notes
    <3>1. \A i \in DOMAIN s.got : s.got[i] \in Result
      BY <2>1
    <3>2. \A i \in DOMAIN s.got : s.got[i].note \in Notes
      BY <3>1 DEF Result
    <3> HIDE DEF s
    <3> QED BY <3>2 DEF NotesOf
  <2> QED BY <2>2, <2>3
<1> HIDE DEF lost
<1>4. /\ jobs' \in [Actors -> Seq(Job)]
      /\ \A b \in Actors : DOMAIN jobs'[b] = DOMAIN jobs[b]
      /\ \A b \in Actors \ {a} : jobs'[b] = jobs[b]
      /\ dropped' \in [Actors -> SUBSET Notes] /\ unseen' \in [Actors -> SUBSET Notes]
  <2>1. jobs \in [Actors -> Seq(Job)] /\ dropped \in [Actors -> SUBSET Notes] /\ unseen \in [Actors -> SUBSET Notes]
    BY DEF Sound, TypeOK
  <2>2. CASE s.kind = "matrix" /\ jobs' = [jobs EXCEPT ![a][s.job].status = "ended"]
             /\ dropped' = [dropped EXCEPT ![a] = @ \cup lost] /\ UNCHANGED unseen
    <3>1. s.job \in DOMAIN jobs[a]
      BY <1>1, <2>2 DEF SessionSound
    <3>2. jobs' \in [Actors -> Seq(Job)] /\ \A b \in Actors : DOMAIN jobs'[b] = DOMAIN jobs[b]
      <4> HIDE DEF s
      <4> QED BY <2>2, <3>1, StatusPut
    <3>3. \A b \in Actors \ {a} : jobs'[b] = jobs[b]
      BY <2>1, <2>2
    <3> QED BY <1>3, <2>1, <2>2, <3>2, <3>3
  <2>3. CASE unseen' = [unseen EXCEPT ![a] = @ \cup NotesOf(s.got)] /\ UNCHANGED <<jobs, dropped>>
    BY <1>3, <2>1, <2>3
  <2> QED BY <1>2, <2>2, <2>3
<1>5. sess' \in [Actors -> Sessions] /\ sess'[a] = Idle /\ \A b \in Actors \ {a} : sess'[b] = sess[b]
  BY <1>1, IdleIn, SessPut
<1>6. /\ merge' \in [Actors \cup Notes -> Merges] /\ merge'[a] = NoMerge
      /\ \A q \in (Actors \cup Notes) \ {a} : merge'[q] = merge[q]
  <2>1. a \in Actors \cup Notes
    OBVIOUS
  <2> QED BY <1>1, <2>1, NoMergeIn, MergePut
<1>7. faults' \in 0..MaxFaults
  BY <1>1, FaultIn
<1>8. TypeOK'
  BY <1>1, <1>4, <1>5, <1>6, <1>7 DEF Sound, TypeOK, clock
<1>9. ASSUME NEW b \in Actors \cup Notes PROVE MergeSound(b)'
  <2>1. CASE b = a
    BY <1>6, <2>1, NoMergeIn, Apart DEF MergeSound
  <2>2. CASE b # a
    BY <1>1, <1>4, <1>5, <1>6, <2>2 DEF MergeSound, Sound
  <2> QED BY <2>1, <2>2
<1>10. ASSUME NEW b \in Actors PROVE SessionSound(b)'
  <2>1. CASE b = a
    BY <1>5, <2>1, IdleIn, Apart DEF SessionSound
  <2>2. CASE b # a
    BY <1>4, <1>5, <2>2 DEF Sound, SessionSound
  <2> QED BY <2>1, <2>2
<1>11. ASSUME NEW k \in Notes PROVE HookSound(k)'
  BY <1>1 DEF Sound, HookSound
<1> QED BY <1>8, <1>9, <1>10, <1>11 DEF Sound

LEMMA SoundNext == Sound /\ [Next]_vars => Sound'
<1> SUFFICES ASSUME Sound, [Next]_vars PROVE Sound'
  OBVIOUS
<1>1. ASSUME NEW p \in Actors \cup Notes, Merger(p) PROVE Sound'
  BY <1>1, SelectSound, UpdateSound, InsertSound DEF Merger
<1>2. ASSUME NEW n \in Notes, Publish(n) \/ Reach(n) \/ HookFails(n) PROVE Sound'
  BY <1>2, PublishSound, ReachSound, HookFailsSound
<1>3. ASSUME (\E a \in Actors : Ask(a)) \/ Scan \/ \E owner \in AllOwners : AfterSync(owner) PROVE Sound'
  <2>1. PICK S \in SUBSET Actors : Enqueue(S)
    BY <1>3, RequestSound
  <2> QED BY <2>1, EnqueueSound
<1>4. ASSUME NEW a \in Actors, Claim(a) PROVE Sound'
  BY <1>4, ClaimRoundSound, ClaimMatrixSound DEF Claim
<1>5. ASSUME NEW a \in Actors, Session(a) PROVE Sound'
  BY <1>5, ActSound, EndSessionSound, EndRoundSound, EndMatrixSound, FinishSound DEF Session
<1>6. ASSUME NEW a \in Actors, Kill(a) \/ Revalidate(a) PROVE Sound'
  BY <1>6, KillSound, RevalidateSound
<1>7. CASE HalfDay
  BY <1>7, HalfDaySound
<1>8. CASE UNCHANGED vars
  <2>1. TypeOK'
    BY <1>8 DEF Sound, TypeOK, vars, queueVars, pageVars, clock, books
  <2>2. ASSUME NEW b \in Actors \cup Notes PROVE MergeSound(b)'
    BY <1>8 DEF MergeSound, Sound, vars, queueVars
  <2>3. ASSUME NEW b \in Actors PROVE SessionSound(b)'
    BY <1>8 DEF Sound, SessionSound, vars, queueVars
  <2>4. ASSUME NEW k \in Notes PROVE HookSound(k)'
    BY <1>8 DEF Sound, HookSound, vars, books
  <2> QED BY <2>1, <2>2, <2>3, <2>4 DEF Sound
<1> QED BY <1>1, <1>2, <1>3, <1>4, <1>5, <1>6, <1>7, <1>8 DEF Next

(* Type correctness: what the hooks, the merges and the sessions hold always    *)
(* fits the tables they read and write.                                     *)
THEOREM InteractionsTypes == Spec => []TypeOK
<1>1. Sound => TypeOK
  BY DEF Sound
<1> QED BY <1>1, SoundInit, SoundNext, PTL DEF Spec

(***************************************************************************)
(* Nothing given is taken back                                             *)
(***************************************************************************)

LEMMA KeepsGiven ==
  ASSUME Sound, [Next]_vars, NEW b \in Actors, NEW k \in Notes
  PROVE  given[b][k] \subseteq given'[b][k]
<1>1. ASSUME NEW a \in Actors, Act(a) PROVE given[b][k] \subseteq given'[b][k]
  <2> DEFINE n == Head(sess[a].left)
  <2>1. PICK o \in Outcomes(n, given[a][n]) : given' = [given EXCEPT ![a][n] = o.shown]
    BY <1>1 DEF Act
  <2>2. given \in [Actors -> [Notes -> SUBSET Actions]] /\ sess[a].left \in Seq(Notes) /\ sess[a].left # <<>>
    BY <1>1 DEF Act, Sound, TypeOK, Sessions
  <2>3. n \in Notes
    BY <2>2
  <2> HIDE DEF n
  <2>4. given[a][n] \in SUBSET Actions
    BY <2>2, <2>3
  <2>5. given[a][n] \subseteq o.shown
    BY <2>1, <2>3, <2>4, OutcomeIn
  <2> QED BY <2>1, <2>2, <2>3, <2>5
<1>2. CASE UNCHANGED given
  BY <1>2
<1>3. (\E a \in Actors : Act(a)) \/ UNCHANGED given
  <2>1. ASSUME NEW p \in Actors \cup Notes, Merger(p) PROVE UNCHANGED given
    BY <2>1 DEF Merger, Select, Update, Insert, pageVars
  <2>2. ASSUME NEW n \in Notes, Publish(n) \/ Reach(n) \/ HookFails(n) PROVE UNCHANGED given
    BY <2>2 DEF Publish, Reach, HookFails, pageVars
  <2>3. ASSUME (\E a \in Actors : Ask(a)) \/ Scan \/ \E owner \in AllOwners : AfterSync(owner)
        PROVE UNCHANGED given
    BY <2>3, RequestSound DEF Enqueue, pageVars
  <2>4. ASSUME NEW a \in Actors, Claim(a) PROVE UNCHANGED given
    BY <2>4 DEF Claim, ClaimRound, ClaimMatrix, pageVars
  <2>5. ASSUME NEW a \in Actors, Session(a) PROVE Act(a) \/ UNCHANGED given
    BY <2>5 DEF Session, EndSession, EndRound, EndMatrix, Finish, pageVars
  <2>6. ASSUME NEW a \in Actors, Kill(a) \/ Revalidate(a) PROVE UNCHANGED given
    BY <2>6 DEF Kill, Revalidate, pageVars
  <2>7. ASSUME HalfDay PROVE UNCHANGED given
    BY <2>7 DEF HalfDay
  <2>8. ASSUME UNCHANGED vars PROVE UNCHANGED given
    BY <2>8 DEF vars, pageVars
  <2> QED BY <2>1, <2>2, <2>3, <2>4, <2>5, <2>6, <2>7, <2>8 DEF Next
<1> QED BY <1>1, <1>2, <1>3

GivenStays == \A a \in Actors, n \in Notes : given[a][n] \subseteq given'[a][n]

(* What was given is never taken back, whatever a click reports: an icon that    *)
(* is lit is left alone by every session that opens the note again.            *)
THEOREM GivenForGood == Spec => NeverUndone
<1>1. Sound /\ [Next]_vars => GivenStays
  BY KeepsGiven DEF GivenStays
<1>2. Sound /\ [Next]_vars => [GivenStays]_vars
  BY <1>1
<1>3. NeverUndone <=> [][GivenStays]_vars
  BY DEF NeverUndone, GivenStays
<1> QED BY <1>2, <1>3, SoundInit, SoundNext, PTL DEF Spec

(***************************************************************************)
(* The throttle                                                            *)
(***************************************************************************)

GotNotes(a) == IF sess[a].kind = "backfill" THEN NotesOf(sess[a].got) ELSE {}
LeftNotes(a) == IF sess[a].kind = "backfill" THEN ToSet(sess[a].left) ELSE {}

(* The notes of the day: in the ledger, reported but not yet written, planned. *)
DayNotes(a) == UsedNotes(a) \cup GotNotes(a) \cup LeftNotes(a)

CapSound(a) ==
  /\ acted[a] \subseteq UsedNotes(a) \cup GotNotes(a) \cup unseen[a]
  /\ Cardinality(DayNotes(a)) <= DailyLimit

LEMMA DayIn ==
  ASSUME Sound, NEW a \in Actors
  PROVE  GotNotes(a) \in SUBSET Notes /\ LeftNotes(a) \in SUBSET Notes /\ DayNotes(a) \in SUBSET Notes
<1>1. sess[a].got \in Seq(Result) /\ sess[a].left \in Seq(Notes)
  BY DEF Sound, TypeOK, Sessions
<1>2. NotesOf(sess[a].got) \in SUBSET Notes
  BY <1>1, RecordedIn
<1>3. ToSet(sess[a].left) \in SUBSET Notes
  BY <1>1 DEF ToSet
<1> QED BY <1>2, <1>3, UsedIn DEF GotNotes, LeftNotes, DayNotes

LEMMA CapInit == ASSUME Init, NEW a \in Actors PROVE CapSound(a)
<1>1. acted[a] = {} /\ sess[a] = Idle /\ ledger[a] = <<>>
  BY DEF Init
<1>2. RowsOf(a) = {}
  BY <1>1 DEF RowsOf, ToSet
<1>3. UsedNotes(a) = {}
  BY <1>2 DEF UsedNotes
<1>4. GotNotes(a) = {} /\ LeftNotes(a) = {}
  BY <1>1, IdleIn, Apart DEF GotNotes, LeftNotes
<1>5. DayNotes(a) = {}
  BY <1>3, <1>4 DEF DayNotes
<1> QED BY <1>1, <1>5, FS_EmptySet, Apart DEF CapSound

(* The day of an account grows only with a plan. *)
LEMMA CapFrame ==
  ASSUME Sound, NEW a \in Actors, CapSound(a), DayNotes(a)' \subseteq DayNotes(a),
         acted'[a] \subseteq UsedNotes(a)' \cup GotNotes(a)' \cup unseen'[a]
  PROVE  CapSound(a)'
<1>1. DayNotes(a) \in SUBSET Notes /\ IsFiniteSet(DayNotes(a))
  BY DayIn, NotesFinite
<1>2. Cardinality(DayNotes(a)') <= Cardinality(DayNotes(a))
  BY <1>1, FS_Subset
<1>3. Cardinality(DayNotes(a)') \in Nat /\ Cardinality(DayNotes(a)) \in Nat
  BY <1>1, FS_Subset, FS_CardinalityType
<1> QED BY <1>2, <1>3, Apart DEF CapSound

SameDay(a) == UNCHANGED <<ledger[a], half, acted[a], unseen[a]>>

LEMMA UsedSame ==
  ASSUME NEW a, ledger'[a] = ledger[a], half' = half
  PROVE  UsedNotes(a)' = UsedNotes(a)
BY DEF UsedNotes, RowsOf, Today

(* A session that is no round of backfill, before and after. *)
LEMMA CapElsewhere ==
  ASSUME Sound, NEW a \in Actors, CapSound(a), SameDay(a),
         sess'[a] = sess[a] \/ (sess[a].kind # "backfill" /\ sess'[a].kind # "backfill")
  PROVE  CapSound(a)'
<1>1. UsedNotes(a)' = UsedNotes(a)
  BY UsedSame DEF SameDay
<1>2. GotNotes(a)' = GotNotes(a) /\ LeftNotes(a)' = LeftNotes(a)
  BY DEF GotNotes, LeftNotes
<1>3. DayNotes(a)' = DayNotes(a)
  BY <1>1, <1>2 DEF DayNotes
<1> QED BY <1>1, <1>2, <1>3 DEF CapSound, SameDay

LEMMA CapClaim ==
  ASSUME Sound, NEW a \in Actors, CapSound(a), ClaimRound(a)
  PROVE  CapSound(a)'
<1>1. sess[a] = Idle /\ SameDay(a) /\ sess \in [Actors -> Sessions]
  BY DEF ClaimRound, SameDay, pageVars, clock, Sound, TypeOK
<1>2. PICK owners : sess' = [sess EXCEPT ![a] = IF Plan(a, owners) = <<>> THEN Idle
                                 ELSE [Idle EXCEPT !.at = "act", !.kind = "backfill",
                                                   !.left = Plan(a, owners)]]
  BY DEF ClaimRound
<1> DEFINE targets == Plan(a, owners)
<1>3. UsedToday(a) \in Nat /\ UsedToday(a) = Cardinality(UsedNotes(a)) /\ UsedNotes(a) \in SUBSET Notes
  BY UsedIn
<1>4. /\ targets \in Seq(Notes)
      /\ targets # <<>> => Len(targets) + UsedToday(a) <= DailyLimit
  BY <1>3, PlanIn
<1>5. CASE targets = <<>>
  <2>1. sess'[a] = sess[a]
    BY <1>1, <1>2, <1>5
  <2> QED BY <1>1, <2>1, CapElsewhere
<1>6. CASE targets # <<>>
  <2> DEFINE x == [Idle EXCEPT !.at = "act", !.kind = "backfill", !.left = targets]
  <2>1. sess'[a] = x
    BY <1>1, <1>2, <1>6
  <2> HIDE DEF targets
  <2>2. x.kind = "backfill" /\ x.left = targets /\ x.got = <<>>
    BY DEF Idle
  <2> HIDE DEF x
  <2>3. UsedNotes(a)' = UsedNotes(a)
    BY <1>1, UsedSame DEF SameDay
  <2>4. GotNotes(a)' = {} /\ LeftNotes(a)' = ToSet(targets) /\ GotNotes(a) = {}
    <3>1. NotesOf(<<>>) = {}
      BY DEF NotesOf
    <3> QED BY <1>1, <2>1, <2>2, <3>1, IdleIn, Apart DEF GotNotes, LeftNotes
  <2>5. IsFiniteSet(ToSet(targets)) /\ Cardinality(ToSet(targets)) \in Nat
        /\ Cardinality(ToSet(targets)) <= Len(targets)
    <3>1. Len(targets) \in Nat /\ DOMAIN targets = 1..Len(targets)
      BY <1>4
    <3>2. IsFiniteSet(1..Len(targets)) /\ Cardinality(1..Len(targets)) = Len(targets)
      <4>1. \A k \in Nat : IsFiniteSet(1..k) /\ Cardinality(1..k) = k
        BY FS_Interval
      <4> QED BY <3>1, <4>1
    <3>3. targets \in Surjection(1..Len(targets), ToSet(targets))
      <4>1. targets \in [1..Len(targets) -> ToSet(targets)]
        <5>1. targets = [i \in 1..Len(targets) |-> targets[i]]
          BY <1>4, <3>1
        <5> QED BY <3>1, <5>1 DEF ToSet
      <4>2. \A n \in ToSet(targets) : \E i \in 1..Len(targets) : targets[i] = n
        BY <3>1 DEF ToSet
      <4> QED BY <4>1, <4>2 DEF Surjection
    <3> QED BY <3>2, <3>3, FS_Surjection, FS_CardinalityType
  <2>6. Cardinality(UsedNotes(a) \cup ToSet(targets)) <= DailyLimit
    <3>1. IsFiniteSet(UsedNotes(a))
      BY <1>3, NotesFinite
    <3>2. /\ Cardinality(UsedNotes(a) \cup ToSet(targets))
               = Cardinality(UsedNotes(a)) + Cardinality(ToSet(targets))
                   - Cardinality(UsedNotes(a) \cap ToSet(targets))
          /\ Cardinality(UsedNotes(a) \cap ToSet(targets)) \in Nat
      BY <2>5, <3>1, FS_Union, FS_Intersection, FS_CardinalityType
    <3>3. Len(targets) \in Nat
      BY <1>4
    <3> QED BY <1>3, <1>4, <1>6, <2>5, <3>2, <3>3, Apart
  <2> QED BY <1>1, <2>3, <2>4, <2>6 DEF CapSound, DayNotes, SameDay
<1> QED BY <1>5, <1>6

LEMMA CapAct == ASSUME Sound, NEW a \in Actors, CapSound(a), Act(a) PROVE CapSound(a)'
<1> DEFINE s == sess[a]
           n == Head(s.left)
           Noted(past) == IF s.kind = "backfill" THEN [past EXCEPT ![a] = @ \cup {n}] ELSE past
<1>1. /\ s.at = "act" /\ s.left # <<>> /\ s \in Sessions /\ sess \in [Actors -> Sessions]
      /\ acted' = Noted(acted) /\ acted \in [Actors -> SUBSET Notes] /\ unseen \in [Actors -> SUBSET Notes]
      /\ UNCHANGED ledger /\ UNCHANGED half
  BY DEF Act, Sound, TypeOK, clock
<1>2. PICK o \in Outcomes(n, given[a][n]) :
           \/ sess' = [sess EXCEPT ![a] = Reported(s, o.entry)] /\ UNCHANGED <<unseen, faults>>
           \/ sess' = [sess EXCEPT ![a] = Walled(s)] /\ unseen' = Noted(unseen) /\ Fault
  BY DEF Act
<1>3. s.left \in Seq(Notes) /\ s.got \in Seq(Result)
  BY <1>1 DEF Sessions
<1>4. n \in Notes /\ Tail(s.left) \in Seq(Notes) /\ ToSet(s.left) = {n} \cup ToSet(Tail(s.left))
  <2> DEFINE l == s.left
             t == Tail(l)
  <2>1. l \in Seq(Notes) /\ l # <<>> /\ Len(l) \in Nat \ {0} /\ DOMAIN l = 1..Len(l) /\ \A i \in 1..Len(l) : l[i] \in Notes
    BY <1>1, <1>3
  <2>2. t \in Seq(Notes) /\ DOMAIN t = 1..(Len(l) - 1) /\ n = l[1] /\ \A i \in 1..(Len(l) - 1) : t[i] = l[i + 1]
    BY <2>1
  <2>3. ToSet(l) \subseteq {n} \cup ToSet(t)
    <3>1. ASSUME NEW i \in 1..Len(l), i # 1 PROVE l[i] \in ToSet(t)
      <4>1. i - 1 \in 1..(Len(l) - 1) /\ (i - 1) + 1 = i
        BY <2>1, <3>1
      <4> HIDE DEF l, t, n
      <4> QED BY <2>2, <4>1 DEF ToSet
    <3>2. l[1] = n
      BY <2>2
    <3> HIDE DEF l, t, n
    <3> QED BY <2>1, <3>1, <3>2 DEF ToSet
  <2>4. {n} \cup ToSet(t) \subseteq ToSet(l)
    BY <2>1, <2>2 DEF ToSet
  <2> HIDE DEF l, t
  <2> QED BY <2>1, <2>2, <2>3, <2>4 DEF l, t
<1>5. o.entry \in Result /\ o.entry.note = n
  <2>1. given[a][n] \in SUBSET Actions
    BY <1>4 DEF Sound, TypeOK
  <2> HIDE DEF n
  <2> QED BY <1>2, <1>4, <2>1, OutcomeIn
<1>6. UsedNotes(a)' = UsedNotes(a)
  BY <1>1, UsedSame
<1> HIDE DEF n
<1>7. CASE sess' = [sess EXCEPT ![a] = Reported(s, o.entry)] /\ UNCHANGED <<unseen, faults>>
  <2> DEFINE t == Tail(s.left)
             g == Append(s.got, o.entry)
             x == [s EXCEPT !.left = t, !.got = g]
  <2>1. sess'[a] = x
    BY <1>1, <1>7 DEF Reported
  <2>2. NotesOf(g) = NotesOf(s.got) \cup {n}
    <3>1. Len(s.got) \in Nat /\ DOMAIN s.got = 1..Len(s.got) /\ DOMAIN g = (1..Len(s.got)) \cup {Len(s.got) + 1}
          /\ g[Len(s.got) + 1] = o.entry /\ \A i \in 1..Len(s.got) : g[i] = s.got[i]
      BY <1>3, <1>5
    <3> HIDE DEF g
    <3> QED BY <1>5, <3>1 DEF NotesOf
  <2> HIDE DEF t, g
  <2>3. x.kind = s.kind /\ x.left = t /\ x.got = g
    BY <1>1 DEF Sessions
  <2> HIDE DEF x
  <2>4. CASE s.kind = "backfill"
    <3>1. GotNotes(a)' = GotNotes(a) \cup {n} /\ LeftNotes(a)' = ToSet(t) /\ LeftNotes(a) = {n} \cup ToSet(t)
      BY <1>4, <2>1, <2>2, <2>3, <2>4 DEF GotNotes, LeftNotes, t
    <3>2. DayNotes(a)' \subseteq DayNotes(a)
      BY <1>6, <3>1 DEF DayNotes
    <3>3. acted'[a] = acted[a] \cup {n} /\ unseen'[a] = unseen[a]
      BY <1>1, <1>7, <2>4
    <3> QED BY <1>6, <3>1, <3>2, <3>3, CapFrame DEF CapSound
  <2>5. CASE s.kind # "backfill"
    <3>1. SameDay(a)
      BY <1>1, <1>7, <2>5 DEF SameDay
    <3> QED BY <2>1, <2>3, <2>5, <3>1, CapElsewhere
  <2> QED BY <2>4, <2>5
<1>8. CASE sess' = [sess EXCEPT ![a] = Walled(s)] /\ unseen' = Noted(unseen)
  <2> DEFINE x == [s EXCEPT !.wall = TRUE, !.at = "end"]
  <2>1. sess'[a] = x
    BY <1>1, <1>8 DEF Walled
  <2>2. x.kind = s.kind /\ x.left = s.left /\ x.got = s.got
    BY <1>1 DEF Sessions
  <2> HIDE DEF x
  <2>3. GotNotes(a)' = GotNotes(a) /\ LeftNotes(a)' = LeftNotes(a)
    BY <2>1, <2>2 DEF GotNotes, LeftNotes
  <2>4. DayNotes(a)' \subseteq DayNotes(a)
    BY <1>6, <2>3 DEF DayNotes
  <2>5. \/ acted'[a] = acted[a] \cup {n} /\ unseen'[a] = unseen[a] \cup {n}
        \/ acted'[a] = acted[a] /\ unseen'[a] = unseen[a]
    BY <1>1, <1>8
  <2> QED BY <1>6, <2>3, <2>4, <2>5, CapFrame DEF CapSound
<1> QED BY <1>2, <1>7, <1>8

LEMMA CapEndRound == ASSUME Sound, NEW a \in Actors, CapSound(a), EndRound(a) PROVE CapSound(a)'
<1> DEFINE s == sess[a]
           N == NotesOf(s.got)
<1>1. /\ s.kind = "backfill" /\ s.got \in Seq(Result) /\ sess'[a] = Idle /\ ledger \in [Actors -> Seq(Row)]
      /\ unseen \in [Actors -> SUBSET Notes] /\ UNCHANGED acted /\ UNCHANGED half
  BY DEF EndRound, Sound, TypeOK, Sessions, clock
<1>2. GotNotes(a)' = {} /\ LeftNotes(a)' = {} /\ GotNotes(a) = N
  BY <1>1, IdleIn, Apart DEF GotNotes, LeftNotes
<1> HIDE DEF s
<1>3. CASE ledger' = [ledger EXCEPT ![a] = Recorded(a, s.got)] /\ UNCHANGED unseen
  <2>1. RowsOf(a)' = ToSet(Recorded(a, s.got))
    BY <1>1, <1>3 DEF RowsOf
  <2>2. UsedNotes(a)' = {r.note : r \in {x \in ToSet(Recorded(a, s.got)) : Today(x)}}
    BY <1>1, <2>1 DEF UsedNotes, Today
  <2>3. UsedNotes(a)' = UsedNotes(a) \cup N
    <3>1. ASSUME NEW n \in UsedNotes(a)' PROVE n \in UsedNotes(a) \cup N
      <4>1. PICK r \in ToSet(Recorded(a, s.got)) : Today(r) /\ r.note = n
        BY <2>2
      <4>2. (r.age = 0 /\ r.note \in N) \/ (r \in RowsOf(a) /\ r.note \notin N)
        BY <1>1, RecordedIn
      <4> QED BY <4>1, <4>2 DEF UsedNotes
    <3>2. ASSUME NEW n \in N PROVE n \in UsedNotes(a)'
      <4>1. PICK r \in ToSet(Recorded(a, s.got)) : r.note = n /\ r.age = 0
        BY <1>1, RecordedIn
      <4> QED BY <2>2, <4>1 DEF Today
    <3>3. ASSUME NEW n \in UsedNotes(a), n \notin N PROVE n \in UsedNotes(a)'
      <4>1. PICK r \in RowsOf(a) : Today(r) /\ r.note = n
        BY DEF UsedNotes
      <4>2. r \in ToSet(Recorded(a, s.got))
        BY <1>1, <3>3, <4>1, RecordedIn
      <4> QED BY <2>2, <4>1, <4>2
    <3> QED BY <3>1, <3>2, <3>3
  <2>4. DayNotes(a)' \subseteq DayNotes(a)
    BY <1>2, <2>3 DEF DayNotes
  <2>5. acted'[a] = acted[a] /\ unseen'[a] = unseen[a]
    BY <1>1, <1>3
  <2> QED BY <1>2, <2>3, <2>4, <2>5, CapFrame DEF CapSound
<1>4. CASE UNCHANGED ledger /\ unseen' = [unseen EXCEPT ![a] = @ \cup N]
  <2>1. UsedNotes(a)' = UsedNotes(a)
    BY <1>1, <1>4, UsedSame
  <2>2. DayNotes(a)' \subseteq DayNotes(a)
    BY <1>2, <2>1 DEF DayNotes
  <2>3. acted'[a] = acted[a] /\ unseen'[a] = unseen[a] \cup N
    BY <1>1, <1>4
  <2> QED BY <1>2, <2>1, <2>2, <2>3, CapFrame DEF CapSound
<1> QED BY <1>3, <1>4 DEF EndRound, s

LEMMA CapKill == ASSUME Sound, NEW a \in Actors, CapSound(a), Kill(a) PROVE CapSound(a)'
<1> DEFINE s == sess[a]
           N == NotesOf(s.got)
<1>1. /\ sess'[a] = Idle /\ unseen \in [Actors -> SUBSET Notes]
      /\ UNCHANGED acted /\ UNCHANGED half /\ UNCHANGED ledger
  BY DEF Kill, Sound, TypeOK, clock
<1>2. GotNotes(a)' = {} /\ LeftNotes(a)' = {}
  BY <1>1, IdleIn, Apart DEF GotNotes, LeftNotes
<1>3. CASE s.kind = "matrix"
  <2>1. SameDay(a)
    BY <1>1, <1>3 DEF Kill, SameDay
  <2> QED BY <1>1, <1>3, <2>1, CapElsewhere, IdleIn, Apart
<1>4. CASE s.kind # "matrix"
  <2>1. unseen'[a] = unseen[a] \cup N
    BY <1>1, <1>4 DEF Kill
  <2>2. UsedNotes(a)' = UsedNotes(a)
    BY <1>1, UsedSame
  <2>3. DayNotes(a)' \subseteq DayNotes(a)
    BY <1>2, <2>2 DEF DayNotes
  <2>4. GotNotes(a) \subseteq N
    BY DEF GotNotes
  <2>5. acted'[a] = acted[a]
    BY <1>1
  <2> HIDE DEF N
  <2> QED BY <1>2, <2>1, <2>2, <2>3, <2>4, <2>5, CapFrame DEF CapSound
<1> QED BY <1>3, <1>4

LEMMA CapHalfDay == ASSUME Sound, HalfDay, NEW a \in Actors, CapSound(a) PROVE CapSound(a)'
<1>1. /\ ledger[a] \in Seq(Row) /\ DOMAIN ledger'[a] = DOMAIN ledger[a]
      /\ \A i \in DOMAIN ledger[a] : /\ ledger'[a][i].note = ledger[a][i].note
                                     /\ ledger'[a][i].age = IF ledger[a][i].age = 0 THEN 1 ELSE 2
  BY Aged DEF Sound, TypeOK
<1>2. half' = 1 - half /\ half \in {0, 1} /\ UNCHANGED sess
  BY DEF HalfDay, Sound, TypeOK
<1>3. GotNotes(a)' = GotNotes(a) /\ LeftNotes(a)' = LeftNotes(a)
  BY <1>2 DEF GotNotes, LeftNotes
<1> DEFINE today == {x \in ToSet(ledger'[a]) : x.age = 0 \/ (x.age = 1 /\ half' = 1)}
<1>0. UsedNotes(a)' = {r.note : r \in today}
  BY DEF UsedNotes, RowsOf, Today
<1>4. ASSUME NEW n \in UsedNotes(a)' PROVE half = 0 /\ n \in UsedNotes(a)
  <2>1. PICK r \in today : r.note = n
    BY <1>0
  <2>2. PICK i \in DOMAIN ledger'[a] : ledger'[a][i] = r
    BY <2>1 DEF ToSet
  <2>3. ledger[a][i].age = 0 /\ half = 0 /\ ledger[a][i].note = n /\ i \in DOMAIN ledger[a]
    BY <1>1, <1>2, <2>1, <2>2
  <2> QED BY <2>3 DEF UsedNotes, RowsOf, ToSet, Today
<1>5. ASSUME NEW n \in UsedNotes(a), half = 0 PROVE n \in UsedNotes(a)'
  <2>1. PICK i \in DOMAIN ledger[a] : Today(ledger[a][i]) /\ ledger[a][i].note = n
    BY DEF UsedNotes, RowsOf, ToSet
  <2>2. ledger'[a][i].age = 1 /\ half' = 1 /\ ledger'[a][i].note = n /\ i \in DOMAIN ledger'[a]
    BY <1>1, <1>2, <1>5, <2>1 DEF Today
  <2> QED BY <1>0, <2>2 DEF ToSet
<1>6. DayNotes(a)' \subseteq DayNotes(a)
  BY <1>3, <1>4 DEF DayNotes
<1>7. acted'[a] \subseteq UsedNotes(a)' \cup GotNotes(a)' \cup unseen'[a]
  <2>1. CASE half = 0
    <3>1. acted'[a] = acted[a] /\ unseen'[a] = unseen[a]
      BY <2>1 DEF HalfDay
    <3> QED BY <1>3, <1>5, <2>1, <3>1 DEF CapSound
  <2>2. CASE half = 1
    BY <2>2 DEF HalfDay
  <2> QED BY <1>2, <2>1, <2>2
<1> QED BY <1>6, <1>7, CapFrame

LEMMA CapNext ==
  ASSUME Sound, Sound', [Next]_vars, NEW b \in Actors, CapSound(b)
  PROVE  CapSound(b)'
<1>0. sess \in [Actors -> Sessions] /\ acted \in [Actors -> SUBSET Notes] /\ unseen \in [Actors -> SUBSET Notes]
      /\ ledger \in [Actors -> Seq(Row)]
  BY DEF Sound, TypeOK
<1> DEFINE Same == SameDay(b) /\ (sess'[b] = sess[b] \/ (sess[b].kind # "backfill" /\ sess'[b].kind # "backfill"))
<1>1. ASSUME NEW p \in Actors \cup Notes, Merger(p) PROVE Same
  BY <1>1 DEF Merger, Select, Update, Insert, pageVars, clock, SameDay
<1>2. ASSUME NEW n \in Notes, Publish(n) \/ Reach(n) \/ HookFails(n) PROVE Same
  BY <1>2 DEF Publish, Reach, HookFails, pageVars, clock, SameDay
<1>3. ASSUME (\E a \in Actors : Ask(a)) \/ Scan \/ \E owner \in AllOwners : AfterSync(owner)
      PROVE Same
  <2>1. PICK S \in SUBSET Actors : Enqueue(S)
    BY <1>3, RequestSound
  <2> QED BY <2>1 DEF Enqueue, pageVars, clock, SameDay
<1>4. ASSUME NEW a \in Actors, Claim(a) PROVE Same \/ (a = b /\ ClaimRound(a))
  <2>1. CASE ClaimRound(a) /\ a # b
    BY <1>0, <2>1 DEF ClaimRound, pageVars, clock, SameDay
  <2>2. ASSUME NEW j \in DOMAIN jobs[a], ClaimMatrix(a, j) PROVE Same
    <3>1. SameDay(b)
      BY <2>2 DEF ClaimMatrix, pageVars, clock, SameDay
    <3>2. CASE a # b
      BY <1>0, <2>2, <3>1, <3>2 DEF ClaimMatrix
    <3>3. CASE a = b
      <4>1. sess[b] = Idle /\ (sess'[b] = sess[b] \/ sess'[b].kind = "matrix")
        <5> DEFINE cut == Min({MatrixLimit, Len(jobs[a][j].notes)})
                   x == [Idle EXCEPT !.at = "act", !.kind = "matrix", !.job = j,
                                     !.left = SubSeq(jobs[a][j].notes, 1, cut),
                                     !.rest = SubSeq(jobs[a][j].notes, cut + 1, Len(jobs[a][j].notes))]
        <5>1. x.kind = "matrix"
          BY DEF Idle
        <5>2. sess[a] = Idle /\ (sess' = [sess EXCEPT ![a] = x] \/ sess' = sess)
          BY <2>2 DEF ClaimMatrix
        <5> HIDE DEF x
        <5> QED BY <1>0, <3>3, <5>1, <5>2
      <4> QED BY <3>1, <4>1, IdleIn, Apart
    <3> QED BY <3>2, <3>3
  <2> QED BY <1>4, <2>1, <2>2 DEF Claim
<1>5. ASSUME NEW a \in Actors, Session(a)
      PROVE  Same \/ (a = b /\ (Act(a) \/ EndRound(a))) \/ (a = b /\ EndSession(a))
  <2>1. CASE Act(a) /\ a # b
    BY <1>0, <2>1 DEF Act, clock, SameDay
  <2>2. CASE EndRound(a) /\ a # b
    BY <1>0, <2>2 DEF EndRound, clock, SameDay
  <2>3. CASE EndSession(a) /\ a # b
    BY <1>0, <2>3 DEF EndSession, pageVars, clock, SameDay
  <2>4. CASE EndMatrix(a)
    <3>1. SameDay(b)
      BY <2>4 DEF EndMatrix, pageVars, clock, SameDay
    <3> DEFINE x == [Idle EXCEPT !.at = "carry", !.kind = "matrix", !.job = sess[a].job]
    <3>2. x.kind = "matrix"
      BY DEF Idle
    <3>3. sess' = [sess EXCEPT ![a] = x] /\ sess[a].kind = "matrix"
      BY <2>4 DEF EndMatrix
    <3> HIDE DEF x
    <3> QED BY <1>0, <3>1, <3>2, <3>3
  <2>5. CASE Finish(a)
    <3>1. SameDay(b)
      BY <2>5 DEF Finish, pageVars, clock, SameDay
    <3>2. sess' = [sess EXCEPT ![a] = Idle] /\ sess[a].kind = "matrix"
      BY <2>5 DEF Finish, Sound, SessionSound
    <3> QED BY <1>0, <3>1, <3>2, IdleIn, Apart
  <2> QED BY <1>5, <2>1, <2>2, <2>3, <2>4, <2>5 DEF Session
<1>6. ASSUME NEW a \in Actors, Kill(a) \/ Revalidate(a) PROVE Same \/ (a = b /\ Kill(a))
  <2>1. CASE Kill(a) /\ a # b
    BY <1>0, <2>1 DEF Kill, clock, SameDay
  <2>2. CASE Revalidate(a)
    BY <2>2 DEF Revalidate, pageVars, clock, SameDay
  <2> QED BY <1>6, <2>1, <2>2
<1>7. ASSUME UNCHANGED vars PROVE Same
  BY <1>7 DEF vars, pageVars, clock, SameDay
<1>8. CASE Same
  BY <1>8, CapElsewhere
<1>9. CASE EndSession(b)
  <2> DEFINE x == [sess[b] EXCEPT !.at = "end"]
  <2>1. sess'[b] = x /\ SameDay(b)
    BY <1>0, <1>9 DEF EndSession, pageVars, clock, SameDay
  <2>2. x.kind = sess[b].kind /\ x.left = sess[b].left /\ x.got = sess[b].got
    BY <1>0 DEF Sessions
  <2> HIDE DEF x
  <2>3. GotNotes(b)' = GotNotes(b) /\ LeftNotes(b)' = LeftNotes(b)
    BY <2>1, <2>2 DEF GotNotes, LeftNotes
  <2>4. UsedNotes(b)' = UsedNotes(b)
    BY <2>1, UsedSame DEF SameDay
  <2> QED BY <2>1, <2>3, <2>4 DEF CapSound, DayNotes, SameDay
<1> HIDE DEF Same
<1> QED BY <1>1, <1>2, <1>3, <1>4, <1>5, <1>6, <1>7, <1>8, <1>9,
           CapClaim, CapAct, CapEndRound, CapKill, CapHalfDay DEF Next

LEMMA CapBound == ASSUME Sound, \A a \in Actors : CapSound(a) PROVE CapKept
<1> SUFFICES ASSUME NEW a \in Actors PROVE Cardinality(acted[a]) <= DailyLimit + Cardinality(unseen[a])
  BY DEF CapKept
<1> DEFINE D == DayNotes(a)
           U == unseen[a]
<1>1. D \in SUBSET Notes /\ U \in SUBSET Notes
  BY DayIn DEF Sound, TypeOK
<1>2. acted[a] \subseteq D \cup U /\ Cardinality(D) <= DailyLimit
  BY DEF CapSound, DayNotes
<1> HIDE DEF D, U
<1>3. /\ IsFiniteSet(D \cup U) /\ Cardinality(D) \in Nat /\ Cardinality(U) \in Nat
      /\ IsFiniteSet(D) /\ IsFiniteSet(U)
  <2>1. D \cup U \in SUBSET Notes
    BY <1>1
  <2> QED BY <1>1, <2>1, NotesFinite
<1>4. Cardinality(D \cup U) = Cardinality(D) + Cardinality(U) - Cardinality(D \cap U)
      /\ Cardinality(D \cap U) \in Nat
  BY <1>3, FS_Union, FS_Intersection, FS_CardinalityType
<1>5. Cardinality(acted[a]) <= Cardinality(D \cup U) /\ Cardinality(acted[a]) \in Nat
  BY <1>2, <1>3, FS_Subset, FS_CardinalityType
<1> QED BY <1>2, <1>3, <1>4, <1>5, Apart DEF U

Capped == \A a \in Actors : CapSound(a)

(* The throttle holds for what the sessions did: whoever asks for rounds, however *)
(* many are queued and whichever plan is out of date, the notes an account      *)
(* opened in a day are in its ledger, in the report of its session, or hidden    *)
(* from the ledger by a wall, a killed child or a failed write; a round is       *)
(* planned by the child that runs it, of what the ledger leaves of the day.     *)
THEOREM CapHolds == Spec => []CapKept
<1>1. Init => Capped
  BY CapInit DEF Capped
<1>2. Sound /\ Sound' /\ Capped /\ [Next]_vars => Capped'
  BY CapNext DEF Capped
<1>3. Sound /\ Capped => CapKept
  BY CapBound DEF Capped
<1> QED BY <1>1, <1>2, <1>3, SoundInit, SoundNext, PTL DEF Spec

(***************************************************************************)
(* One place for every note                                                *)
(***************************************************************************)

Lone(S) == \A x, y \in S : x = y

NoteSound(a, n) ==
  /\ Lone(Places(a, n))
  /\ a \notin owed[n] => Places(a, n) = {}
  /\ a \in owed[n] /\ n \notin dropped[a] => Places(a, n) # {}

(* Every place bears the name of what holds the note. *)
LEMMA Borne ==
  ASSUME NEW a, NEW n
  PROVE  /\ \A x \in InHook(a, n) : x[1] = "hook"
         /\ \A x \in InMerges(a, n) : x[1] = "merge"
         /\ \A x \in InJobs(a, n) : x[1] = "job"
         /\ \A x \in InHand(a, n) : x[1] \in {"left", "rest", "got"}
         /\ \A x \in Handled(a, n) : x[1] = "handled"
<1>1. \A x \in InHook(a, n) : x[1] = "hook"
  BY DEF InHook
<1>2. \A x \in InMerges(a, n) : x[1] = "merge"
  <2>1. \A p : \A x \in InMerge(p, n) : x[1] = "merge"
    BY DEF InMerge
  <2> QED BY <2>1 DEF InMerges
<1>3. \A x \in InJobs(a, n) : x[1] = "job"
  <2>1. \A j : \A x \in InJob(a, j, n) : x[1] = "job"
    BY DEF InJob
  <2> QED BY <2>1 DEF InJobs
<1>4. \A x \in InHand(a, n) : x[1] \in {"left", "rest", "got"}
  BY DEF InHand
<1>5. \A x \in Handled(a, n) : x[1] = "handled"
  BY DEF Handled
<1> QED BY <1>1, <1>2, <1>3, <1>4, <1>5

(* The places of a note in a row, each by its number. *)
LEMMA LoneRow ==
  ASSUME NEW kind, NEW who, NEW S
  PROVE  /\ Lone({kind} \X {who} \X S) <=> Lone(S)
         /\ {kind} \X {who} \X S = {} <=> S = {}
<1>1. \A i : i \in S <=> <<kind, who, i>> \in {kind} \X {who} \X S
  OBVIOUS
<1>2. \A x \in {kind} \X {who} \X S : x = <<kind, who, x[3]>> /\ x[3] \in S
  OBVIOUS
<1>3. ASSUME Lone({kind} \X {who} \X S), NEW i \in S, NEW j \in S PROVE i = j
  <2>1. <<kind, who, i>> = <<kind, who, j>>
    BY <1>1, <1>3 DEF Lone
  <2> QED BY <2>1
<1>4. ASSUME Lone(S), NEW x \in {kind} \X {who} \X S, NEW y \in {kind} \X {who} \X S PROVE x = y
  <2>1. x[3] = y[3]
    BY <1>2, <1>4 DEF Lone
  <2> QED BY <1>2, <2>1
<1>5. {kind} \X {who} \X S = {} <=> S = {}
  BY <1>1, <1>2
<1>6. Lone({kind} \X {who} \X S) <=> Lone(S)
  BY <1>3, <1>4 DEF Lone
<1> QED BY <1>5, <1>6

LEMMA LoneIn ==
  ASSUME NEW S, NEW T, T \subseteq S, Lone(S) PROVE Lone(T)
BY DEF Lone

(* A step takes a note out of some places and puts it into others. *)
LEMMA Moves ==
  ASSUME NEW a, NEW n, NoteSound(a, n), NEW Out, NEW In,
         Places(a, n)' = (Places(a, n) \ Out) \cup In, Out \subseteq Places(a, n),
         Lone(Out) => Lone(In), In # {} => Out # {},
         Out # {} /\ n \notin dropped'[a] => In # {},
         owed'[n] = owed[n], dropped[a] \subseteq dropped'[a]
  PROVE  NoteSound(a, n)'
<1> DEFINE S == Places(a, n)
           T == Places(a, n)'
<1>1. Lone(S) /\ (a \notin owed[n] => S = {}) /\ (a \in owed[n] /\ n \notin dropped[a] => S # {})
  BY DEF NoteSound
<1>2. T = (S \ Out) \cup In /\ Out \subseteq S
  OBVIOUS
<1> HIDE DEF S, T
<1>3. CASE Out = {}
  <2>1. In = {} /\ T = S
    BY <1>2, <1>3
  <2> QED BY <1>1, <2>1 DEF NoteSound, T
<1>4. CASE Out # {}
  <2>1. S \subseteq Out /\ Lone(Out)
    BY <1>1, <1>2, <1>4 DEF Lone
  <2>2. T = In /\ Lone(In) /\ S # {}
    BY <1>2, <1>4, <2>1
  <2>3. a \in owed[n]
    BY <1>1, <2>2
  <2>4. n \notin dropped'[a] => T # {}
    BY <1>4, <2>2
  <2> QED BY <2>2, <2>3, <2>4 DEF NoteSound, T
<1> QED BY <1>3, <1>4

LEMMA Stays ==
  ASSUME NEW a, NEW n, NoteSound(a, n), Places(a, n)' = Places(a, n),
         owed'[n] = owed[n], dropped[a] \subseteq dropped'[a]
  PROVE  NoteSound(a, n)'
BY DEF NoteSound

LEMMA SpotsCat ==
  ASSUME NEW s \in Seq(Notes), NEW t \in Seq(Notes), NEW n
  PROVE  Spots(s \o t, n) = Spots(s, n) \cup {Len(s) + i : i \in Spots(t, n)}
<1> DEFINE c == s \o t
<1>1. /\ Len(s) \in Nat /\ DOMAIN s = 1..Len(s) /\ Len(t) \in Nat /\ DOMAIN t = 1..Len(t)
      /\ DOMAIN c = 1..(Len(s) + Len(t)) /\ \A i \in 1..Len(s) : c[i] = s[i]
      /\ \A i \in 1..Len(t) : c[Len(s) + i] = t[i]
  OBVIOUS
<1> HIDE DEF c
<1>2. ASSUME NEW i \in 1..(Len(s) + Len(t)), i \notin 1..Len(s)
      PROVE  i - Len(s) \in 1..Len(t) /\ Len(s) + (i - Len(s)) = i
  BY <1>1, <1>2
<1>3. Spots(c, n) \subseteq Spots(s, n) \cup {Len(s) + i : i \in Spots(t, n)}
  <2> SUFFICES ASSUME NEW i \in DOMAIN c, c[i] = n, i \notin Spots(s, n)
               PROVE  \E k \in Spots(t, n) : i = Len(s) + k
    BY DEF Spots
  <2>1. i \notin 1..Len(s)
    BY <1>1 DEF Spots
  <2> QED BY <1>1, <1>2, <2>1 DEF Spots
<1>4. \A i \in 1..Len(s) : i \in DOMAIN c
  BY <1>1
<1>5. \A i \in 1..Len(t) : Len(s) + i \in DOMAIN c
  BY <1>1
<1>6. Spots(s, n) \subseteq Spots(c, n)
  BY <1>1, <1>4 DEF Spots
<1>7. \A i \in Spots(t, n) : Len(s) + i \in Spots(c, n)
  BY <1>1, <1>5 DEF Spots
<1> QED BY <1>3, <1>6, <1>7 DEF c

LEMMA SpotsOne ==
  ASSUME NEW m \in Notes, NEW n PROVE Spots(<<m>>, n) = IF m = n THEN {1} ELSE {}
<1>1. DOMAIN <<m>> = {1} /\ <<m>>[1] = m
  OBVIOUS
<1> QED BY <1>1 DEF Spots

LEMMA SpotsNone == \A n : Spots(<<>>, n) = {}
BY DEF Spots

LEMMA SpotsIn ==
  ASSUME NEW s \in Seq(Notes), NEW n
  PROVE  Spots(s, n) \subseteq Nat /\ (Spots(s, n) # {} <=> n \in ToSet(s))
BY DEF Spots, ToSet

LEMMA SamePlaces ==
  ASSUME NEW a, NEW n, InHook(a, n)' = InHook(a, n), InMerges(a, n)' = InMerges(a, n),
         InJobs(a, n)' = InJobs(a, n), InHand(a, n)' = InHand(a, n), Handled(a, n)' = Handled(a, n)
  PROVE  Places(a, n)' = Places(a, n)
BY DEF Places

LEMMA SameHook ==
  ASSUME NEW a, NEW n, hook'[n].todo = hook[n].todo PROVE InHook(a, n)' = InHook(a, n)
BY DEF InHook

LEMMA SameHand == ASSUME NEW a, NEW n, sess'[a] = sess[a] PROVE InHand(a, n)' = InHand(a, n)
BY DEF InHand

LEMMA SameHandled ==
  ASSUME NEW a, NEW n, handled'[a][n] = handled[a][n] PROVE Handled(a, n)' = Handled(a, n)
BY DEF Handled

LEMMA SameJobs ==
  ASSUME NEW a, NEW n, jobs'[a] = jobs[a] PROVE InJobs(a, n)' = InJobs(a, n)
BY DEF Queued, InJob, InJobs

LEMMA SameMerges ==
  ASSUME NEW a, NEW n,
         \A q \in Actors \cup Notes : merge'[q].account = merge[q].account /\ merge'[q].notes = merge[q].notes
  PROVE  InMerges(a, n)' = InMerges(a, n)
<1>1. Mergers(a)' = Mergers(a) /\ \A q \in Mergers(a) : InMerge(q, n)' = InMerge(q, n)
  BY DEF Mergers, InMerge
<1> QED BY <1>1 DEF InMerges

(* One merge changes, the others are as they were. *)
LEMMA OneMerge ==
  ASSUME NEW p \in Actors \cup Notes, \A q \in (Actors \cup Notes) \ {p} : merge'[q] = merge[q],
         NEW b, NEW n
  PROVE  InMerges(b, n)' = (InMerges(b, n) \ InMerge(p, n))
                              \cup (IF merge'[p].account = b THEN InMerge(p, n)' ELSE {})
<1> DEFINE x == merge'[p]
<1>1. merge'[p] = x /\ \A q \in (Actors \cup Notes) \ {p} : merge'[q] = merge[q]
  OBVIOUS
<1> HIDE DEF x
<1>2. /\ \A q : q # p => /\ q \in Mergers(b)' <=> q \in Mergers(b)
                         /\ q \in Mergers(b) => InMerge(q, n)' = InMerge(q, n)
      /\ p \in Mergers(b)' <=> x.account = b
      /\ InMerge(p, n)' = {"merge"} \X {p} \X Spots(x.notes, n)
  BY <1>1 DEF Mergers, InMerge
<1>3. \A q : \A y \in InMerge(q, n) : y[2] = q
  BY DEF InMerge
<1>4. \A y : y \in InMerges(b, n)' <=> \E q \in Mergers(b)' : y \in InMerge(q, n)'
  BY DEF InMerges
<1>5. \A y : y \in InMerges(b, n) <=> \E q \in Mergers(b) : y \in InMerge(q, n)
  BY DEF InMerges
<1> DEFINE In == {"merge"} \X {p} \X Spots(x.notes, n)
<1>6. InMerge(p, n)' = In
  BY <1>2
<1> HIDE DEF In
<1>7. ASSUME NEW y \in InMerges(b, n)'
      PROVE  (y \in InMerges(b, n) /\ y \notin InMerge(p, n)) \/ (x.account = b /\ y \in In)
  <2>1. PICK q \in Mergers(b)' : y \in InMerge(q, n)'
    BY <1>4
  <2>2. CASE q = p
    BY <1>2, <1>6, <2>1, <2>2
  <2>3. CASE q # p
    <3>1. q \in Mergers(b) /\ y \in InMerge(q, n)
      BY <1>2, <2>1, <2>3
    <3> QED BY <1>3, <1>5, <2>3, <3>1
  <2> QED BY <2>2, <2>3
<1>8. ASSUME NEW y \in InMerges(b, n), y \notin InMerge(p, n) PROVE y \in InMerges(b, n)'
  <2>1. PICK q \in Mergers(b) : y \in InMerge(q, n)
    BY <1>5
  <2>2. q # p
    BY <1>8, <2>1
  <2> QED BY <1>2, <1>4, <2>1, <2>2
<1>9. ASSUME x.account = b, NEW y \in In PROVE y \in InMerges(b, n)'
  BY <1>2, <1>4, <1>6, <1>9
<1> QED BY <1>1, <1>6, <1>7, <1>8, <1>9

(* A merge that ends: its notes are in no merge any more. *)
LEMMA MergeEnds ==
  ASSUME Sound, NEW p \in Actors \cup Notes, merge' = [merge EXCEPT ![p] = NoMerge],
         NEW b \in Actors, NEW n \in Notes
  PROVE  /\ InMerges(b, n)' = InMerges(b, n) \ InMerge(p, n)
         /\ merge[p].account = b => InMerge(p, n) \subseteq InMerges(b, n)
         /\ merge[p].account # b => InMerges(b, n)' = InMerges(b, n)
<1>1. InMerges(b, n)' = InMerges(b, n) \ InMerge(p, n)
  <2>1. merge'[p] = NoMerge /\ \A q \in (Actors \cup Notes) \ {p} : merge'[q] = merge[q]
    BY NoMergeIn, MergePut
  <2>2. merge'[p].account # b
    BY <2>1, NoMergeIn, Apart
  <2> QED BY <2>1, <2>2, OneMerge
<1>2. merge[p].account = b => InMerge(p, n) \subseteq InMerges(b, n)
  BY DEF InMerges, Mergers
<1>3. ASSUME merge[p].account # b PROVE InMerges(b, n) \cap InMerge(p, n) = {}
  <2>1. \A q : \A y \in InMerge(q, n) : y[2] = q
    BY DEF InMerge
  <2>2. p \notin Mergers(b)
    BY <1>3 DEF Mergers
  <2> QED BY <2>1, <2>2 DEF InMerges
<1> QED BY <1>1, <1>2, <1>3

(* A merge that begins, of an account's notes. *)
LEMMA MergeBegins ==
  ASSUME NEW p \in Actors \cup Notes, merge[p] = NoMerge,
         \A q \in (Actors \cup Notes) \ {p} : merge'[q] = merge[q], NEW b, NEW n
  PROVE  InMerges(b, n)' = InMerges(b, n) \cup (IF merge'[p].account = b THEN InMerge(p, n)' ELSE {})
<1>1. InMerge(p, n) = {}
  <2>1. Spots(merge[p].notes, n) = {}
    BY SpotsNone, NoMergeIn
  <2> QED BY <2>1 DEF InMerge
<1>2. InMerges(b, n)' = (InMerges(b, n) \ InMerge(p, n))
                          \cup (IF merge'[p].account = b THEN InMerge(p, n)' ELSE {})
  BY OneMerge
<1> QED BY <1>1, <1>2

(* One job of an account changes. *)
LEMMA OneJob ==
  ASSUME NEW a, NEW n, NEW j, jobs'[a][j].status = "queued", j \in DOMAIN jobs'[a],
         j \in Queued(a) \/ j \notin DOMAIN jobs[a],
         DOMAIN jobs'[a] \ {j} = DOMAIN jobs[a] \ {j},
         \A i \in DOMAIN jobs[a] : i # j => jobs'[a][i] = jobs[a][i]
  PROVE  InJobs(a, n)' = (IF j \in DOMAIN jobs[a] THEN InJobs(a, n) \ InJob(a, j, n) ELSE InJobs(a, n))
                           \cup ({"job"} \X {j} \X Spots(jobs'[a][j].notes, n))
<1>1. /\ \A i : i # j => /\ i \in Queued(a)' <=> i \in Queued(a)
                         /\ i \in Queued(a) => InJob(a, i, n)' = InJob(a, i, n)
      /\ j \in Queued(a)'
  BY DEF Queued, InJob
<1>2. \A i : \A y \in InJob(a, i, n) : y[2] = i
  BY DEF InJob
<1> DEFINE In == {"job"} \X {j} \X Spots(jobs'[a][j].notes, n)
<1>3. InJob(a, j, n)' = In
  BY DEF InJob, Spots
<1>4. \A y : y \in InJobs(a, n)' <=> \E i \in Queued(a)' : y \in InJob(a, i, n)'
  BY DEF InJobs
<1>5. \A y : y \in InJobs(a, n) <=> \E i \in Queued(a) : y \in InJob(a, i, n)
  BY DEF InJobs
<1>6. j \notin DOMAIN jobs[a] => j \notin Queued(a)
  BY DEF Queued
<1> HIDE DEF In
<1>7. ASSUME NEW y \in InJobs(a, n)'
      PROVE  \/ y \in InJobs(a, n) /\ (j \in DOMAIN jobs[a] => y \notin InJob(a, j, n))
             \/ y \in In
  <2>1. PICK i \in Queued(a)' : y \in InJob(a, i, n)'
    BY <1>4
  <2>2. CASE i = j
    BY <1>3, <2>1, <2>2
  <2>3. CASE i # j
    <3>1. i \in Queued(a) /\ y \in InJob(a, i, n)
      BY <1>1, <2>1, <2>3
    <3> QED BY <1>2, <1>5, <2>3, <3>1
  <2> QED BY <2>2, <2>3
<1>8. ASSUME NEW y \in InJobs(a, n), j \in DOMAIN jobs[a] => y \notin InJob(a, j, n)
      PROVE  y \in InJobs(a, n)'
  <2>1. PICK i \in Queued(a) : y \in InJob(a, i, n)
    BY <1>5
  <2>2. i # j
    BY <1>6, <1>8, <2>1
  <2> QED BY <1>1, <1>4, <2>1, <2>2
<1>9. In \subseteq InJobs(a, n)'
  BY <1>1, <1>3, <1>4
<1> QED BY <1>7, <1>8, <1>9 DEF In

(* No place has two kinds. *)
LEMMA Elsewhere ==
  ASSUME NEW a, NEW n
  PROVE  /\ InHook(a, n) \cap InMerges(a, n) = {} /\ InHook(a, n) \cap InJobs(a, n) = {}
         /\ InHook(a, n) \cap InHand(a, n) = {} /\ InHook(a, n) \cap Handled(a, n) = {}
         /\ InMerges(a, n) \cap InJobs(a, n) = {} /\ InMerges(a, n) \cap InHand(a, n) = {}
         /\ InMerges(a, n) \cap Handled(a, n) = {} /\ InJobs(a, n) \cap InHand(a, n) = {}
         /\ InJobs(a, n) \cap Handled(a, n) = {} /\ InHand(a, n) \cap Handled(a, n) = {}
<1>1. /\ \A x \in InHook(a, n) : x[1] = "hook"
      /\ \A x \in InMerges(a, n) : x[1] = "merge"
      /\ \A x \in InJobs(a, n) : x[1] = "job"
      /\ \A x \in InHand(a, n) : x[1] \in {"left", "rest", "got"}
      /\ \A x \in Handled(a, n) : x[1] = "handled"
  BY Borne
<1> QED BY <1>1

(* A step that moves no note. *)
LEMMA Keeps ==
  ASSUME NEW a, NEW n, NoteSound(a, n), hook'[n].todo = hook[n].todo,
         \A q \in Actors \cup Notes : merge'[q].account = merge[q].account /\ merge'[q].notes = merge[q].notes,
         jobs'[a] = jobs[a], InHand(a, n)' = InHand(a, n), handled'[a][n] = handled[a][n],
         owed'[n] = owed[n], dropped[a] \subseteq dropped'[a]
  PROVE  NoteSound(a, n)'
<1>1. InHook(a, n)' = InHook(a, n) /\ InMerges(a, n)' = InMerges(a, n) /\ InJobs(a, n)' = InJobs(a, n)
      /\ Handled(a, n)' = Handled(a, n)
  BY SameHook, SameMerges, SameJobs, SameHandled
<1> QED BY <1>1, SamePlaces, Stays

LEMMA MergeFields ==
  ASSUME Sound, NEW p \in Actors \cup Notes, NEW x \in Merges, merge' = [merge EXCEPT ![p] = x],
         x.account = merge[p].account, x.notes = merge[p].notes
  PROVE  \A q \in Actors \cup Notes : merge'[q].account = merge[q].account /\ merge'[q].notes = merge[q].notes
BY MergePut

LEMMA NoteSelect ==
  ASSUME Sound, NEW p \in Actors \cup Notes, Select(p), NEW b \in Actors, NEW k \in Notes, NoteSound(b, k)
  PROVE  NoteSound(b, k)'
<1>1. merge[p] \in Merges /\ UNCHANGED <<jobs, sess, hook, owed, handled, dropped>>
  BY DEF Sound, TypeOK, Select, queueVars, books
<1>2. PICK at \in {"insert", "update"}, job \in Nat :
        merge' = [merge EXCEPT ![p] = [merge[p] EXCEPT !.at = at, !.job = job]]
  BY SelectsInto
<1> DEFINE x == [merge[p] EXCEPT !.at = at, !.job = job]
<1>3. x \in Merges /\ x.account = merge[p].account /\ x.notes = merge[p].notes
  BY <1>1, <1>2 DEF Merges
<1> HIDE DEF x
<1>4. merge' = [merge EXCEPT ![p] = x]
  BY <1>2 DEF x
<1>5. \A q \in Actors \cup Notes : merge'[q].account = merge[q].account /\ merge'[q].notes = merge[q].notes
  BY <1>3, <1>4, MergeFields
<1> QED BY <1>1, <1>5, SameHand, Keeps

LEMMA NoteUpdate ==
  ASSUME Sound, NEW p \in Actors \cup Notes, Update(p), NEW b \in Actors, NEW k \in Notes, NoteSound(b, k)
  PROVE  NoteSound(b, k)'
<1> DEFINE m == merge[p]
           a == m.account
           j == m.job
<1>0. /\ m \in Merges /\ m.notes \in Seq(Notes) /\ a \in Actors /\ j \in DOMAIN jobs[a]
      /\ jobs \in [Actors -> Seq(Job)] /\ jobs[a][j] \in Job /\ jobs[a][j].notes \in Seq(Notes)
      /\ merge \in [Actors \cup Notes -> Merges]
      /\ UNCHANGED <<sess, hook, owed, handled, dropped>>
  <2>1. m \in Merges /\ MergeSound(p) /\ m.at = "update" /\ jobs \in [Actors -> Seq(Job)]
        /\ merge \in [Actors \cup Notes -> Merges] /\ UNCHANGED <<sess, hook, owed, handled, dropped>>
    BY DEF Sound, TypeOK, Update, books
  <2>2. a \in Actors /\ j \in DOMAIN jobs[a] /\ m.notes \in Seq(Notes)
    BY <2>1 DEF MergeSound, Merges
  <2>3. jobs[a][j] \in Job
    <3> HIDE DEF a, j, m
    <3> QED BY <2>1, <2>2
  <2> QED BY <2>1, <2>2, <2>3 DEF Job
<1>1. CASE ~Mergeable(jobs[a][j])
  <2>1. \A q \in Actors \cup Notes : merge'[q].account = merge[q].account /\ merge'[q].notes = merge[q].notes
    <3> DEFINE t == m.tries + 1
               y == [m EXCEPT !.at = "select", !.tries = t]
    <3>1. merge' = [merge EXCEPT ![p] = y]
      BY <1>1 DEF Update
    <3>2. t \in Nat
      BY <1>0 DEF Merges
    <3> HIDE DEF t, m
    <3>3. y \in Merges /\ y.account = m.account /\ y.notes = m.notes
      BY <1>0, <3>2 DEF Merges
    <3> HIDE DEF y
    <3> QED BY <3>1, <3>3, MergeFields DEF m
  <2>2. UNCHANGED jobs
    BY <1>1 DEF Update
  <2> QED BY <1>0, <2>1, <2>2, SameHand, Keeps
<1>2. CASE Mergeable(jobs[a][j])
  <2> DEFINE old == jobs[a][j].notes
             new == old \o m.notes
             x == [jobs[a][j] EXCEPT !.notes = new]
             q == [jobs[a] EXCEPT ![j] = x]
  <2>1. jobs' = [jobs EXCEPT ![a] = q] /\ merge' = [merge EXCEPT ![p] = NoMerge]
        /\ jobs[a][j].status = "queued"
    BY <1>2 DEF Update, Mergeable
  <2>2. x.status = "queued" /\ x.notes = new
    <3> HIDE DEF new
    <3> QED BY <1>0, <2>1 DEF Job
  <2> HIDE DEF x
  <2>3. q[j] = x /\ DOMAIN q = DOMAIN jobs[a] /\ \A i \in DOMAIN jobs[a] : i # j => q[i] = jobs[a][i]
    <3>1. jobs[a] \in Seq(Job)
      BY <1>0
    <3> HIDE DEF a, j, m
    <3> QED BY <1>0, <3>1
  <2> HIDE DEF q
  <2>4. jobs'[a] = q /\ \A c \in Actors \ {a} : jobs'[c] = jobs[c]
    BY <1>0, <2>1
  <2>5. /\ InMerges(b, k)' = InMerges(b, k) \ InMerge(p, k)
        /\ a = b => InMerge(p, k) \subseteq InMerges(b, k)
        /\ a # b => InMerges(b, k)' = InMerges(b, k)
    BY <2>1, MergeEnds
  <2>6. InHook(b, k)' = InHook(b, k) /\ InHand(b, k)' = InHand(b, k) /\ Handled(b, k)' = Handled(b, k)
    BY <1>0, SameHook, SameHand, SameHandled
  <2>7. CASE a # b
    <3>1. InJobs(b, k)' = InJobs(b, k)
      BY <2>4, <2>7, SameJobs
    <3>2. Places(b, k)' = Places(b, k)
      BY <2>5, <2>6, <2>7, <3>1, SamePlaces
    <3> QED BY <1>0, <3>2, Stays
  <2>8. CASE a = b
    <3> DEFINE Out == InMerge(p, k)
               Put == {Len(old) + i : i \in Spots(m.notes, k)}
               In == {"job"} \X {j} \X Put
    <3>1. InJobs(b, k)' = (InJobs(b, k) \ InJob(b, j, k)) \cup ({"job"} \X {j} \X Spots(new, k))
      <4>1. /\ jobs'[b][j] = x /\ jobs'[b][j].status = "queued" /\ jobs'[b][j].notes = new
            /\ j \in DOMAIN jobs[b] /\ DOMAIN jobs'[b] = DOMAIN jobs[b]
            /\ \A i \in DOMAIN jobs[b] : i # j => jobs'[b][i] = jobs[b][i]
        BY <1>0, <2>2, <2>3, <2>4, <2>8
      <4>2. j \in Queued(b)
        BY <1>0, <2>1, <2>8 DEF Queued
      <4> HIDE DEF j, new
      <4>3. InJobs(b, k)' = (IF j \in DOMAIN jobs[b] THEN InJobs(b, k) \ InJob(b, j, k) ELSE InJobs(b, k))
                              \cup ({"job"} \X {j} \X Spots(jobs'[b][j].notes, k))
        BY <4>1, <4>2, OneJob
      <4> QED BY <4>1, <4>3
    <3>2. Spots(new, k) = Spots(old, k) \cup Put
      BY <1>0, SpotsCat
    <3>3. InJob(b, j, k) = {"job"} \X {j} \X Spots(old, k) /\ InJob(b, j, k) \subseteq InJobs(b, k)
      BY <1>0, <2>1, <2>8 DEF InJob, InJobs, Queued
    <3>4. Lone(Out) => Lone(In)
      <4>1. Lone(Out) => Lone(Spots(m.notes, k))
        BY LoneRow DEF InMerge
      <4>2. Lone(Spots(m.notes, k)) => Lone(Put)
        <5> HIDE DEF m, a, j, old
        <5> QED BY DEF Lone
      <4>3. Lone(Put) => Lone(In)
        <5> HIDE DEF Put
        <5> QED BY LoneRow
      <4> QED BY <4>1, <4>2, <4>3
    <3>5. (In = {} <=> Put = {}) /\ (Out = {} <=> Spots(m.notes, k) = {})
      <4> HIDE DEF Put
      <4> QED BY LoneRow DEF InMerge
    <3>6. Put = {} <=> Spots(m.notes, k) = {}
      OBVIOUS
    <3> HIDE DEF Put
    <3>7. {"job"} \X {j} \X Spots(new, k) = ({"job"} \X {j} \X Spots(old, k)) \cup In
      <4> HIDE DEF new, old, j
      <4> QED BY <3>2
    <3> HIDE DEF In, Out
    <3>8. InJobs(b, k)' = InJobs(b, k) \cup In
      BY <3>1, <3>3, <3>7
    <3>9. InMerges(b, k)' = InMerges(b, k) \ Out /\ Out \subseteq InMerges(b, k)
      BY <2>5, <2>8 DEF Out
    <3>10. Places(b, k)' = (Places(b, k) \ Out) \cup In /\ Out \subseteq Places(b, k)
      BY <2>6, <3>8, <3>9, Elsewhere DEF Places
    <3> QED BY <1>0, <3>4, <3>5, <3>6, <3>10, Moves
  <2> QED BY <2>7, <2>8
<1> QED BY <1>1, <1>2

LEMMA NoteInsert ==
  ASSUME Sound, NEW p \in Actors \cup Notes, Insert(p), NEW b \in Actors, NEW k \in Notes, NoteSound(b, k)
  PROVE  NoteSound(b, k)'
<1> DEFINE m == merge[p]
           a == m.account
           j == Len(jobs[a]) + 1
           x == [status |-> "queued", notes |-> m.notes]
           q == Append(jobs[a], x)
<1>0. /\ a \in Actors /\ m.notes \in Seq(Notes) /\ jobs \in [Actors -> Seq(Job)]
      /\ jobs' = [jobs EXCEPT ![a] = q] /\ merge' = [merge EXCEPT ![p] = NoMerge]
      /\ UNCHANGED <<sess, hook, owed, handled, dropped>>
  BY DEF Sound, TypeOK, Insert, MergeSound, Merges, books
<1>1. x \in Job /\ x.status = "queued" /\ x.notes = m.notes
  BY <1>0 DEF Job
<1> HIDE DEF x, m
<1>2. /\ DOMAIN jobs[a] = 1..Len(jobs[a]) /\ Len(jobs[a]) \in Nat
      /\ DOMAIN q = 1..(Len(jobs[a]) + 1) /\ q[j] = x
      /\ \A i \in DOMAIN jobs[a] : q[i] = jobs[a][i]
  <2>1. jobs[a] \in Seq(Job)
    BY <1>0
  <2> QED BY <1>1, <2>1
<1>3. j \in DOMAIN q /\ j \notin DOMAIN jobs[a] /\ DOMAIN q \ {j} = DOMAIN jobs[a]
  BY <1>2
<1> HIDE DEF j, q
<1>4. jobs'[a] = q /\ \A c \in Actors \ {a} : jobs'[c] = jobs[c]
  BY <1>0
<1>5. /\ InMerges(b, k)' = InMerges(b, k) \ InMerge(p, k)
      /\ a = b => InMerge(p, k) \subseteq InMerges(b, k)
      /\ a # b => InMerges(b, k)' = InMerges(b, k)
  BY <1>0, MergeEnds DEF m
<1>6. InHook(b, k)' = InHook(b, k) /\ InHand(b, k)' = InHand(b, k) /\ Handled(b, k)' = Handled(b, k)
  BY <1>0, SameHook, SameHand, SameHandled
<1>7. CASE a # b
  <2>1. InJobs(b, k)' = InJobs(b, k)
    BY <1>4, <1>7, SameJobs
  <2>2. Places(b, k)' = Places(b, k)
    BY <1>5, <1>6, <1>7, <2>1, SamePlaces
  <2> QED BY <1>0, <2>2, Stays
<1>8. CASE a = b
  <2> DEFINE Out == InMerge(p, k)
             In == {"job"} \X {j} \X Spots(m.notes, k)
  <2>1. InJobs(b, k)' = InJobs(b, k) \cup In
    <3>1. /\ jobs'[b][j].status = "queued" /\ jobs'[b][j].notes = m.notes /\ j \in DOMAIN jobs'[b]
          /\ j \notin DOMAIN jobs[b] /\ DOMAIN jobs'[b] \ {j} = DOMAIN jobs[b] \ {j}
          /\ \A i \in DOMAIN jobs[b] : i # j => jobs'[b][i] = jobs[b][i]
      BY <1>1, <1>2, <1>3, <1>4, <1>8
    <3>2. InJobs(b, k)' = (IF j \in DOMAIN jobs[b] THEN InJobs(b, k) \ InJob(b, j, k) ELSE InJobs(b, k))
                            \cup ({"job"} \X {j} \X Spots(jobs'[b][j].notes, k))
      BY <3>1, OneJob
    <3> QED BY <3>1, <3>2
  <2>2. (Lone(Out) => Lone(In)) /\ (In = {} <=> Out = {})
    BY LoneRow DEF InMerge, m
  <2> HIDE DEF In, Out
  <2>3. InMerges(b, k)' = InMerges(b, k) \ Out /\ Out \subseteq InMerges(b, k)
    BY <1>5, <1>8 DEF Out
  <2>4. Places(b, k)' = (Places(b, k) \ Out) \cup In /\ Out \subseteq Places(b, k)
    BY <1>6, <2>1, <2>3, Elsewhere DEF Places
  <2> QED BY <1>0, <2>2, <2>4, Moves
<1> QED BY <1>7, <1>8

LEMMA NotePublish ==
  ASSUME Sound, NEW n \in Notes, Publish(n), NEW b \in Actors, NEW k \in Notes, NoteSound(b, k)
  PROVE  NoteSound(b, k)'
<1> DEFINE matrix == {a \in Actors : valid[a] /\ a # Owner[n]}
<1>1. /\ hook[n].at = "unpublished" /\ hook' = [hook EXCEPT ![n] = [at |-> "reach", todo |-> matrix]]
      /\ owed' = [owed EXCEPT ![n] = matrix] /\ hook \in [Notes -> Hooks] /\ owed \in [Notes -> SUBSET Actors]
      /\ UNCHANGED <<jobs, sess, merge, handled, dropped>>
  BY DEF Publish, Sound, TypeOK, queueVars
<1> HIDE DEF matrix
<1>2. CASE k # n
  <2>1. hook'[k] = hook[k] /\ owed'[k] = owed[k]
    BY <1>1, <1>2
  <2> QED BY <1>1, <2>1, SameHand, Keeps
<1>3. CASE k = n
  <2>1. hook'[k].todo = matrix /\ owed'[k] = matrix
    BY <1>1, <1>3
  <2>2. Places(b, k) = {}
    BY <1>1, <1>3 DEF NoteSound, Sound, HookSound
  <2>3. InMerges(b, k)' = {} /\ InJobs(b, k)' = {} /\ InHand(b, k)' = {} /\ Handled(b, k)' = {}
    <3>1. InMerges(b, k) = {} /\ InJobs(b, k) = {} /\ InHand(b, k) = {} /\ Handled(b, k) = {}
      BY <2>2 DEF Places
    <3>2. InMerges(b, k)' = InMerges(b, k) /\ InJobs(b, k)' = InJobs(b, k) /\ InHand(b, k)' = InHand(b, k)
          /\ Handled(b, k)' = Handled(b, k)
      BY <1>1, SameMerges, SameJobs, SameHand, SameHandled
    <3> QED BY <3>1, <3>2
  <2>4. Places(b, k)' = {<<"hook", k, 0>> : c \in matrix \cap {b}}
    BY <2>1, <2>3 DEF Places, InHook
  <2>5. b \in matrix => Places(b, k)' = {<<"hook", k, 0>>}
    BY <2>4
  <2>6. b \notin matrix => Places(b, k)' = {}
    BY <2>4
  <2> QED BY <2>1, <2>5, <2>6 DEF NoteSound, Lone
<1> QED BY <1>2, <1>3

LEMMA NoteReach ==
  ASSUME Sound, NEW n \in Notes, Reach(n), NEW b \in Actors, NEW k \in Notes, NoteSound(b, k)
  PROVE  NoteSound(b, k)'
<1>1. /\ hook[n].at = "reach" /\ merge[n].at = "none" /\ hook[n] \in Hooks /\ hook \in [Notes -> Hooks]
      /\ UNCHANGED <<jobs, sess, owed, handled, dropped>>
  BY DEF Reach, Sound, TypeOK, queueVars, books
<1>2. CASE hook[n].todo = {}
  <2> DEFINE x == [hook[n] EXCEPT !.at = "end"]
  <2>1. hook' = [hook EXCEPT ![n] = x] /\ UNCHANGED merge
    BY <1>2 DEF Reach
  <2>2. x.todo = hook[n].todo
    BY <1>1 DEF Hooks
  <2> HIDE DEF x
  <2>3. hook'[k].todo = hook[k].todo
    BY <1>1, <2>1, <2>2
  <2> QED BY <1>1, <2>1, <2>3, SameHand, Keeps
<1>3. CASE hook[n].todo # {}
  <2> DEFINE a == CHOOSE y \in hook[n].todo : TRUE
             x == [hook[n] EXCEPT !.todo = @ \ {a}]
             m == [at |-> "select", account |-> a, notes |-> <<n>>, job |-> 0, tries |-> 0]
  <2>1. a \in hook[n].todo /\ a \in Actors
    BY <1>1, <1>3 DEF Hooks
  <2>2. hook' = [hook EXCEPT ![n] = x] /\ merge' = [merge EXCEPT ![n] = m]
    BY <1>3 DEF Reach, Merging
  <2> HIDE DEF a
  <2>3. x.todo = hook[n].todo \ {a}
    BY <1>1 DEF Hooks
  <2>4. m \in Merges /\ m.account = a /\ m.notes = <<n>>
    BY <2>1 DEF Merges
  <2> HIDE DEF x, m
  <2>5. hook'[n] = x /\ \A i \in Notes \ {n} : hook'[i] = hook[i]
    BY <1>1, <2>2
  <2>6. merge[n] = NoMerge
    BY <1>1 DEF Sound, MergeSound
  <2>7. /\ a # b => InMerges(b, k)' = InMerges(b, k)
        /\ a = b => InMerges(b, k)' = InMerges(b, k) \cup ({"merge"} \X {n} \X Spots(<<n>>, k))
    <3>1. n \in Actors \cup Notes
      OBVIOUS
    <3>2. merge'[n] = m /\ \A q \in (Actors \cup Notes) \ {n} : merge'[q] = merge[q]
      BY <2>2, <2>4, <3>1, MergePut
    <3>3. InMerges(b, k)' = InMerges(b, k) \cup (IF merge'[n].account = b THEN InMerge(n, k)' ELSE {})
      BY <2>6, <3>1, <3>2, MergeBegins
    <3>4. InMerge(n, k)' = {"merge"} \X {n} \X Spots(<<n>>, k)
      BY <2>4, <3>2 DEF InMerge
    <3> QED BY <2>4, <3>2, <3>3, <3>4
  <2>8. InJobs(b, k)' = InJobs(b, k) /\ InHand(b, k)' = InHand(b, k) /\ Handled(b, k)' = Handled(b, k)
    BY <1>1, SameJobs, SameHand, SameHandled
  <2>9. Spots(<<n>>, k) = IF n = k THEN {1} ELSE {}
    BY SpotsOne
  <2>10. CASE k # n \/ a # b
    <3>1. InHook(b, k)' = InHook(b, k)
      BY <2>3, <2>5, <2>10 DEF InHook
    <3>2. InMerges(b, k)' = InMerges(b, k)
      <4>1. k # n => {"merge"} \X {n} \X Spots(<<n>>, k) = {}
        BY <2>9, LoneRow
      <4> QED BY <2>7, <2>10, <4>1
    <3>3. Places(b, k)' = Places(b, k)
      BY <2>8, <3>1, <3>2, SamePlaces
    <3> QED BY <1>1, <3>3, Stays
  <2>11. CASE k = n /\ a = b
    <3> DEFINE Out == InHook(b, k)
               In == {"merge"} \X {n} \X Spots(<<n>>, k)
    <3>1. Out = {<<"hook", k, 0>>} /\ InHook(b, k)' = {}
      <4>1. hook[k].todo \cap {b} = {b} /\ hook'[k].todo \cap {b} = {}
        BY <2>1, <2>3, <2>5, <2>11
      <4> QED BY <4>1 DEF InHook
    <3>2. Lone(In) /\ In # {}
      <4>1. Spots(<<n>>, k) = {1}
        BY <2>9, <2>11
      <4>2. Lone({1})
        BY DEF Lone
      <4> QED BY <4>1, <4>2, LoneRow
    <3>3. InMerges(b, k)' = InMerges(b, k) \cup In
      BY <2>7, <2>11
    <3> HIDE DEF In
    <3>4. Places(b, k)' = (Places(b, k) \ Out) \cup In /\ Out \subseteq Places(b, k)
      <4>1. Places(b, k)' = InMerges(b, k) \cup In \cup InJobs(b, k) \cup InHand(b, k) \cup Handled(b, k)
        BY <2>8, <3>1, <3>3 DEF Places
      <4> QED BY <4>1, Elsewhere DEF Places
    <3>5. Out # {}
      BY <3>1
    <3> HIDE DEF Out
    <3> QED BY <1>1, <3>2, <3>4, <3>5, Moves
  <2> QED BY <2>10, <2>11
<1> QED BY <1>2, <1>3

LEMMA NoteHookFails ==
  ASSUME Sound, NEW n \in Notes, HookFails(n), NEW b \in Actors, NEW k \in Notes, NoteSound(b, k)
  PROVE  NoteSound(b, k)'
<1> DEFINE missed == hook[n].todo \cup (IF merge[n].at = "none" THEN {} ELSE {merge[n].account})
           x == [at |-> "end", todo |-> {}]
<1>1. /\ hook' = [hook EXCEPT ![n] = x] /\ merge' = [merge EXCEPT ![n] = NoMerge]
      /\ dropped' = [a \in Actors |-> IF a \in missed THEN dropped[a] \cup {n} ELSE dropped[a]]
      /\ UNCHANGED <<jobs, sess, owed, handled>>
      /\ hook \in [Notes -> Hooks] /\ n \in Actors \cup Notes
  BY DEF HookFails, Sound, TypeOK, queueVars
<1>2. (merge[n].at = "none" => merge[n] = NoMerge) /\ (merge[n].at # "none" => merge[n].notes = <<n>>)
  BY DEF Sound, MergeSound
<1>3. x.todo = {}
  OBVIOUS
<1> HIDE DEF x
<1>4. hook'[n] = x /\ (k # n => hook'[k] = hook[k])
  BY <1>1
<1>5. dropped[b] \subseteq dropped'[b] /\ (b \in missed => n \in dropped'[b])
  BY <1>1
<1>6. /\ InMerges(b, k)' = InMerges(b, k) \ InMerge(n, k)
      /\ merge[n].account = b => InMerge(n, k) \subseteq InMerges(b, k)
      /\ merge[n].account # b => InMerges(b, k)' = InMerges(b, k)
  BY <1>1, MergeEnds
<1>7. InJobs(b, k)' = InJobs(b, k) /\ InHand(b, k)' = InHand(b, k) /\ Handled(b, k)' = Handled(b, k)
  BY <1>1, SameJobs, SameHand, SameHandled
<1>8. CASE k # n
  <2>1. Spots(merge[n].notes, k) = {}
    BY <1>2, <1>8, SpotsOne, SpotsNone, NoMergeIn
  <2>2. InMerge(n, k) = {}
    BY <2>1 DEF InMerge
  <2>3. Places(b, k)' = Places(b, k)
    BY <1>4, <1>6, <1>7, <1>8, <2>2, SameHook, SamePlaces
  <2> QED BY <1>1, <1>5, <2>3, Stays
<1>9. CASE k = n
  <2> DEFINE Out == InHook(b, k) \cup (IF merge[n].account = b THEN InMerge(n, k) ELSE {})
             In == {}
  <2>1. InHook(b, k)' = {}
    BY <1>3, <1>4, <1>9 DEF InHook
  <2>2. Out \subseteq Places(b, k)
    BY <1>6 DEF Places
  <2>3. Places(b, k)' = (Places(b, k) \ Out) \cup In
    <3>1. InMerges(b, k)' = InMerges(b, k) \ Out
      BY <1>6, Elsewhere
    <3>2. Places(b, k)' = InMerges(b, k)' \cup InJobs(b, k) \cup InHand(b, k) \cup Handled(b, k)
      BY <1>7, <2>1 DEF Places
    <3>3. Out \cap (InJobs(b, k) \cup InHand(b, k) \cup Handled(b, k)) = {}
      BY <1>6, Elsewhere
    <3>4. InHook(b, k) \subseteq Out
      OBVIOUS
    <3> HIDE DEF Out
    <3> QED BY <3>1, <3>2, <3>3, <3>4 DEF Places
  <2>4. Out # {} => b \in missed
    <3>1. InHook(b, k) # {} => b \in hook[n].todo
      BY <1>9 DEF InHook
    <3>2. merge[n].account = b => merge[n].at # "none"
      BY <1>2, NoMergeIn, Apart
    <3> QED BY <3>1, <3>2
  <2>5. Lone(In)
    BY DEF Lone
  <2> HIDE DEF Out, missed
  <2>6. Out # {} /\ k \notin dropped'[b] => In # {}
    BY <1>5, <1>9, <2>4
  <2>7. owed'[k] = owed[k]
    BY <1>1
  <2>8. In # {} => Out # {}
    OBVIOUS
  <2> HIDE DEF In
  <2> QED BY <1>5, <2>2, <2>3, <2>5, <2>6, <2>7, <2>8, Moves
<1> QED BY <1>8, <1>9

(* Two rows of places, of which one is empty. *)
LEMMA LoneTwo ==
  ASSUME NEW kind, NEW whose, NEW S, NEW other, NEW who, NEW T, Lone(S), Lone(T), S = {} \/ T = {}
  PROVE  Lone(({kind} \X {whose} \X S) \cup ({other} \X {who} \X T))
<1> DEFINE A == {kind} \X {whose} \X S
           B == {other} \X {who} \X T
<1>1. Lone(A) /\ Lone(B) /\ (A = {} \/ B = {})
  BY LoneRow
<1> HIDE DEF A, B
<1>2. Lone(A \cup B)
  BY <1>1 DEF Lone
<1> QED BY <1>2 DEF A, B

(* What a session has of a note: something still to do, or a report of it. *)
Reports(a, n) == {i \in DOMAIN sess[a].got : sess[a].got[i].note = n}

LEMMA HandOf ==
  ASSUME NEW a, NEW n, sess[a].kind = "matrix"
  PROVE  InHand(a, n) = ({"left"} \X {a} \X Spots(sess[a].left, n))
                          \cup ({"rest"} \X {a} \X Spots(sess[a].rest, n))
                          \cup ({"got"} \X {a} \X Reports(a, n))
BY DEF InHand, Reports

LEMMA OneHand ==
  ASSUME NEW a, NEW n, sess[a].kind = "matrix"
  PROVE  /\ InHand(a, n) = {} <=> Spots(sess[a].left, n) = {} /\ Spots(sess[a].rest, n) = {} /\ Reports(a, n) = {}
         /\ Lone(InHand(a, n)) =>
              /\ Lone(Spots(sess[a].left, n)) /\ Lone(Spots(sess[a].rest, n)) /\ Lone(Reports(a, n))
              /\ Spots(sess[a].left, n) = {} \/ Spots(sess[a].rest, n) = {}
              /\ Spots(sess[a].left, n) = {} \/ Reports(a, n) = {}
              /\ Spots(sess[a].rest, n) = {} \/ Reports(a, n) = {}
<1> DEFINE L == {"left"} \X {a} \X Spots(sess[a].left, n)
           R == {"rest"} \X {a} \X Spots(sess[a].rest, n)
           G == {"got"} \X {a} \X Reports(a, n)
<1>1. InHand(a, n) = L \cup R \cup G
  BY HandOf
<1>2. /\ Lone(L) <=> Lone(Spots(sess[a].left, n))
      /\ L = {} <=> Spots(sess[a].left, n) = {}
      /\ Lone(R) <=> Lone(Spots(sess[a].rest, n))
      /\ R = {} <=> Spots(sess[a].rest, n) = {}
      /\ Lone(G) <=> Lone(Reports(a, n))
      /\ G = {} <=> Reports(a, n) = {}
  BY LoneRow
<1>3. (\A x \in L : x[1] = "left") /\ (\A x \in R : x[1] = "rest") /\ (\A x \in G : x[1] = "got")
  OBVIOUS
<1> HIDE DEF L, R, G
<1>4. ASSUME Lone(L \cup R \cup G)
      PROVE  Lone(L) /\ Lone(R) /\ Lone(G) /\ (L = {} \/ R = {}) /\ (L = {} \/ G = {}) /\ (R = {} \/ G = {})
  BY <1>3, <1>4 DEF Lone
<1> QED BY <1>1, <1>2, <1>4

LEMMA SpotsCut ==
  ASSUME NEW s \in Seq(Notes), NEW c \in Nat, c <= Len(s), NEW n
  PROVE  /\ Spots(SubSeq(s, 1, c), n) = {i \in Spots(s, n) : i <= c}
         /\ Spots(SubSeq(s, c + 1, Len(s)), n) = {i \in 1..(Len(s) - c) : c + i \in Spots(s, n)}
<1> DEFINE l == SubSeq(s, 1, c)
           r == SubSeq(s, c + 1, Len(s))
<1>1. /\ Len(s) \in Nat /\ DOMAIN s = 1..Len(s) /\ DOMAIN l = 1..c /\ DOMAIN r = 1..(Len(s) - c)
      /\ \A i \in 1..c : l[i] = s[i]
      /\ \A i \in 1..(Len(s) - c) : r[i] = s[c + i]
  OBVIOUS
<1> HIDE DEF l, r
<1>2. Spots(l, n) = {i \in Spots(s, n) : i <= c}
  BY <1>1 DEF Spots
<1>3. \A i \in 1..(Len(s) - c) : c + i \in 1..Len(s)
  BY <1>1
<1>4. Spots(r, n) = {i \in 1..(Len(s) - c) : c + i \in Spots(s, n)}
  BY <1>1, <1>3 DEF Spots
<1> QED BY <1>2, <1>4 DEF l, r

(* A job that is queued no more. *)
LEMMA JobGoes ==
  ASSUME NEW a, NEW n, NEW j \in DOMAIN jobs[a], jobs'[a][j].status # "queued",
         DOMAIN jobs'[a] = DOMAIN jobs[a], \A i \in DOMAIN jobs[a] : i # j => jobs'[a][i] = jobs[a][i]
  PROVE  /\ j \in Queued(a) => InJobs(a, n)' = InJobs(a, n) \ InJob(a, j, n) /\ InJob(a, j, n) \subseteq InJobs(a, n)
         /\ j \notin Queued(a) => InJobs(a, n)' = InJobs(a, n)
<1>1. /\ \A i : i # j => /\ i \in Queued(a)' <=> i \in Queued(a)
                         /\ i \in Queued(a) => InJob(a, i, n)' = InJob(a, i, n)
      /\ j \notin Queued(a)'
  BY DEF Queued, InJob
<1>2. \A i : \A y \in InJob(a, i, n) : y[2] = i
  BY DEF InJob
<1>3. \A y : y \in InJobs(a, n)' <=> \E i \in Queued(a)' : y \in InJob(a, i, n)'
  BY DEF InJobs
<1>4. \A y : y \in InJobs(a, n) <=> \E i \in Queued(a) : y \in InJob(a, i, n)
  BY DEF InJobs
<1>5. ASSUME NEW y \in InJobs(a, n)' PROVE y \in InJobs(a, n) /\ y \notin InJob(a, j, n)
  <2>1. PICK i \in Queued(a)' : y \in InJob(a, i, n)'
    BY <1>3
  <2>2. i # j /\ i \in Queued(a) /\ y \in InJob(a, i, n)
    BY <1>1, <2>1
  <2> QED BY <1>2, <1>4, <2>2
<1>6. ASSUME NEW y \in InJobs(a, n), y \notin InJob(a, j, n) \/ j \notin Queued(a) PROVE y \in InJobs(a, n)'
  <2>1. PICK i \in Queued(a) : y \in InJob(a, i, n)
    BY <1>4
  <2>2. i # j
    BY <1>6, <2>1
  <2> QED BY <1>1, <1>3, <2>1, <2>2
<1>7. j \in Queued(a) => InJob(a, j, n) \subseteq InJobs(a, n)
  BY <1>4
<1>8. CASE j \in Queued(a)
  BY <1>5, <1>6, <1>7, <1>8
<1>9. CASE j \notin Queued(a)
  BY <1>5, <1>6, <1>9
<1> QED BY <1>8, <1>9

LEMMA NoHand == ASSUME NEW a, NEW n, sess[a].kind # "matrix" PROVE InHand(a, n) = {}
BY DEF InHand

LEMMA NoteClaimMatrix ==
  ASSUME Sound, NEW a \in Actors, NEW j \in DOMAIN jobs[a], ClaimMatrix(a, j),
         NEW b \in Actors, NEW k \in Notes, NoteSound(b, k)
  PROVE  NoteSound(b, k)'
<1> DEFINE notes == jobs[a][j].notes
           cut == Min({MatrixLimit, Len(notes)})
           l == SubSeq(notes, 1, cut)
           r == SubSeq(notes, cut + 1, Len(notes))
           x == [Idle EXCEPT !.at = "act", !.kind = "matrix", !.job = j, !.left = l, !.rest = r]
<1>1. /\ sess[a] = Idle /\ jobs[a][j].status = "queued" /\ notes \in Seq(Notes)
      /\ UNCHANGED <<hook, merge, owed, handled>> /\ dropped \in [Actors -> SUBSET Notes]
      /\ jobs \in [Actors -> Seq(Job)] /\ sess \in [Actors -> Sessions]
  <2>1. jobs[a] \in Seq(Job) /\ jobs[a][j] \in Job
    BY DEF Sound, TypeOK
  <2>2. notes \in Seq(Notes)
    BY <2>1 DEF Job
  <2> QED BY <2>2 DEF ClaimMatrix, Sound, TypeOK
<1>2. cut \in Nat /\ cut <= Len(notes)
  <2>1. Len(notes) \in Nat /\ MatrixLimit \in Nat
    BY <1>1, Apart
  <2> QED BY <2>1, SmallerOf
<1>3. PICK st \in {"running", "ended"} :
        /\ jobs' = [jobs EXCEPT ![a][j].status = st]
        /\ st = "running" => sess' = [sess EXCEPT ![a] = x] /\ UNCHANGED dropped
        /\ st = "ended" => dropped' = [dropped EXCEPT ![a] = @ \cup ToSet(notes)] /\ UNCHANGED sess
  BY DEF ClaimMatrix
<1>4. x.kind = "matrix" /\ x.left = l /\ x.rest = r /\ x.got = <<>>
  <2> HIDE DEF l, r
  <2> QED BY DEF Idle
<1> HIDE DEF x
<1>5. /\ DOMAIN jobs'[a] = DOMAIN jobs[a] /\ jobs'[a][j].status = st
      /\ \A i \in DOMAIN jobs[a] : i # j => jobs'[a][i] = jobs[a][i]
  <2> HIDE DEF notes, cut, l, r
  <2>1. st \in {"queued", "running", "ended"}
    OBVIOUS
  <2> QED BY <1>3, <2>1, StatusPut
<1>6. \A c \in Actors \ {a} : jobs'[c] = jobs[c] /\ sess'[c] = sess[c] /\ dropped'[c] = dropped[c]
  BY <1>1, <1>3
<1>7. CASE b # a
  <2>1. jobs'[b] = jobs[b] /\ sess'[b] = sess[b] /\ dropped'[b] = dropped[b]
    BY <1>6, <1>7
  <2> QED BY <1>1, <2>1, SameHand, Keeps
<1>8. CASE b = a
  <2> DEFINE Out == InJob(a, j, k)
             In == InHand(a, k)'
  <2>1. InJobs(b, k)' = InJobs(b, k) \ Out /\ Out \subseteq InJobs(b, k)
    <3>1. j \in Queued(a)
      BY <1>1 DEF Queued
    <3>2. jobs'[a][j].status # "queued"
      BY <1>5
    <3>3. /\ j \in Queued(a) => InJobs(a, k)' = InJobs(a, k) \ InJob(a, j, k) /\ InJob(a, j, k) \subseteq InJobs(a, k)
          /\ j \notin Queued(a) => InJobs(a, k)' = InJobs(a, k)
      BY <1>5, <3>2, JobGoes
    <3> QED BY <1>8, <3>1, <3>3
  <2>2. InHook(b, k)' = InHook(b, k) /\ InMerges(b, k)' = InMerges(b, k) /\ Handled(b, k)' = Handled(b, k)
    BY <1>1, SameHook, SameMerges, SameHandled
  <2>3. InHand(b, k) = {}
    BY <1>1, <1>8, NoHand, IdleIn, Apart
  <2>4. Places(b, k)' = (Places(b, k) \ Out) \cup In /\ Out \subseteq Places(b, k)
    <3> HIDE DEF Out
    <3> QED BY <1>8, <2>1, <2>2, <2>3, Elsewhere DEF Places
  <2>5. (Lone(Out) <=> Lone(Spots(notes, k))) /\ (Out = {} <=> Spots(notes, k) = {})
    BY LoneRow DEF InJob
  <2>6. CASE st = "ended"
    <3>1. In = {}
      BY <1>3, <2>3, <2>6, <1>8, SameHand
    <3>2. Lone(In)
      BY <3>1 DEF Lone
    <3>3. Out # {} => k \in dropped'[b]
      <4>1. Out # {} => k \in ToSet(notes)
        BY <1>1, <2>5, SpotsIn
      <4>2. dropped'[b] = dropped[b] \cup ToSet(notes)
        BY <1>1, <1>3, <1>8, <2>6
      <4> QED BY <4>1, <4>2
    <3>4. dropped[b] \subseteq dropped'[b]
      BY <1>1, <1>3, <1>8, <2>6
    <3> HIDE DEF Out, In
    <3> QED BY <1>1, <2>4, <3>1, <3>2, <3>3, <3>4, Moves
  <2>7. CASE st = "running"
    <3> DEFINE N == Spots(notes, k)
               L == Spots(l, k)
               R == Spots(r, k)
    <3>1. sess'[a] = x
      BY <1>1, <1>3, <2>7
    <3>2. In = ({"left"} \X {a} \X L) \cup ({"rest"} \X {a} \X R)
      <4> HIDE DEF l, r
      <4>1. In = IF x.kind # "matrix" THEN {}
                 ELSE ({"left"} \X {a} \X Spots(x.left, k)) \cup ({"rest"} \X {a} \X Spots(x.rest, k))
                        \cup ({"got"} \X {a} \X {i \in DOMAIN x.got : x.got[i].note = k})
        BY <3>1 DEF InHand
      <4>2. {i \in DOMAIN x.got : x.got[i].note = k} = {}
        BY <1>4
      <4> HIDE DEF In
      <4>3. {"got"} \X {a} \X {i \in DOMAIN x.got : x.got[i].note = k} = {}
        BY <4>2
      <4> QED BY <1>4, <4>1, <4>3
    <3>3. L = {i \in N : i <= cut} /\ R = {i \in 1..(Len(notes) - cut) : cut + i \in N} /\ N \subseteq 1..Len(notes)
      <4> HIDE DEF cut, notes
      <4>1. Spots(notes, k) \subseteq 1..Len(notes)
        BY <1>1 DEF Spots
      <4> QED BY <1>1, <1>2, <4>1, SpotsCut
    <3> HIDE DEF N, L, R
    <3>4. Len(notes) \in Nat
      BY <1>1
    <3> HIDE DEF cut, notes
    <3>5. ASSUME Lone(N) PROVE Lone(L) /\ Lone(R) /\ (L = {} \/ R = {})
      <4>1. Lone(L)
        BY <3>3, <3>5 DEF Lone
      <4>2. ASSUME NEW i \in R, NEW h \in R PROVE i = h
        <5>1. cut + i = cut + h
          BY <3>3, <3>5, <4>2 DEF Lone
        <5> QED BY <1>2, <3>3, <5>1
      <4>3. ASSUME NEW i \in L, NEW h \in R PROVE FALSE
        <5>1. i = cut + h
          BY <3>3, <3>5, <4>3 DEF Lone
        <5> QED BY <1>2, <3>3, <3>4, <5>1
      <4>4. Lone(R)
        BY <4>2 DEF Lone
      <4> QED BY <4>1, <4>3, <4>4
    <3>6. N = {} <=> L = {} /\ R = {}
      <4>1. ASSUME NEW i \in N, i \notin L PROVE i - cut \in R
        BY <1>2, <3>3, <3>4, <4>1
      <4> QED BY <3>3, <4>1
    <3>7. Lone(N) => Lone(In)
      <4> HIDE DEF In
      <4> QED BY <3>2, <3>5, LoneTwo
    <3>8. In = {} <=> L = {} /\ R = {}
      <4>1. ({"left"} \X {a} \X L = {} <=> L = {}) /\ ({"rest"} \X {a} \X R = {} <=> R = {})
        BY LoneRow
      <4> HIDE DEF In
      <4> QED BY <3>2, <4>1
    <3>9. dropped'[b] = dropped[b]
      BY <1>3, <2>7
    <3> HIDE DEF Out, In
    <3>10. Lone(Out) => Lone(In)
      BY <2>5, <3>7 DEF N, notes
    <3>11. Out = {} <=> In = {}
      BY <2>5, <3>6, <3>8 DEF N, notes
    <3> QED BY <1>1, <2>4, <3>9, <3>10, <3>11, Moves
  <2> QED BY <2>6, <2>7
<1> QED BY <1>7, <1>8

LEMMA NoteClaimRound ==
  ASSUME Sound, NEW a \in Actors, ClaimRound(a), NEW b \in Actors, NEW k \in Notes, NoteSound(b, k)
  PROVE  NoteSound(b, k)'
<1>1. sess[a] = Idle /\ UNCHANGED <<jobs, hook, merge, owed, handled, dropped>> /\ sess \in [Actors -> Sessions]
  BY DEF ClaimRound, books, Sound, TypeOK
<1>2. PICK owners : sess' = [sess EXCEPT ![a] = IF Plan(a, owners) = <<>> THEN Idle
                                 ELSE [Idle EXCEPT !.at = "act", !.kind = "backfill",
                                                   !.left = Plan(a, owners)]]
  BY DEF ClaimRound
<1> DEFINE x == IF Plan(a, owners) = <<>> THEN Idle
                ELSE [Idle EXCEPT !.at = "act", !.kind = "backfill", !.left = Plan(a, owners)]
<1>3. x.kind # "matrix"
  BY Apart DEF Idle
<1> HIDE DEF x
<1>4. sess'[a] = x /\ \A c \in Actors \ {a} : sess'[c] = sess[c]
  BY <1>1, <1>2 DEF x
<1>5. InHand(b, k)' = InHand(b, k)
  <2>1. CASE b = a
    <3>1. InHand(b, k) = {}
      BY <1>1, <2>1, NoHand, IdleIn, Apart
    <3>2. InHand(b, k)' = {}
      BY <1>3, <1>4, <2>1 DEF InHand
    <3> QED BY <3>1, <3>2
  <2>2. CASE b # a
    BY <1>4, <2>2, SameHand
  <2> QED BY <2>1, <2>2
<1> QED BY <1>1, <1>5, Keeps

LEMMA NoteEndSession ==
  ASSUME Sound, NEW a \in Actors, EndSession(a), NEW b \in Actors, NEW k \in Notes, NoteSound(b, k)
  PROVE  NoteSound(b, k)'
<1> DEFINE x == [sess[a] EXCEPT !.at = "end"]
<1>1. /\ sess' = [sess EXCEPT ![a] = x] /\ sess \in [Actors -> Sessions] /\ sess[a] \in Sessions
      /\ UNCHANGED <<jobs, hook, merge, owed, handled, dropped>>
  BY DEF EndSession, queueVars, books, Sound, TypeOK
<1>2. x.kind = sess[a].kind /\ x.left = sess[a].left /\ x.rest = sess[a].rest /\ x.got = sess[a].got
  BY <1>1 DEF Sessions
<1> HIDE DEF x
<1>3. sess'[a] = x /\ \A c \in Actors \ {a} : sess'[c] = sess[c]
  BY <1>1
<1>4. InHand(b, k)' = InHand(b, k)
  BY <1>2, <1>3 DEF InHand
<1> QED BY <1>1, <1>4, Keeps

LEMMA NoteEndRound ==
  ASSUME Sound, NEW a \in Actors, EndRound(a), NEW b \in Actors, NEW k \in Notes, NoteSound(b, k)
  PROVE  NoteSound(b, k)'
<1>1. /\ sess[a].kind = "backfill" /\ sess' = [sess EXCEPT ![a] = Idle] /\ sess \in [Actors -> Sessions]
      /\ UNCHANGED <<jobs, hook, merge, owed, handled, dropped>>
  BY DEF EndRound, queueVars, books, Sound, TypeOK
<1>2. InHand(b, k)' = InHand(b, k)
  <2>1. CASE b = a
    <3>1. InHand(b, k) = {}
      BY <1>1, <2>1, NoHand
    <3>2. sess'[b].kind # "matrix"
      BY <1>1, <2>1, IdleIn, Apart
    <3>3. InHand(b, k)' = {}
      BY <3>2 DEF InHand
    <3> QED BY <3>1, <3>3
  <2>2. CASE b # a
    BY <1>1, <2>2, SameHand
  <2> QED BY <2>1, <2>2
<1> QED BY <1>1, <1>2, Keeps

LEMMA SpotsTail ==
  ASSUME NEW s \in Seq(Notes), s # <<>>, NEW n
  PROVE  /\ \A i \in Spots(Tail(s), n) : i \in Nat \ {0} /\ i + 1 \in Spots(s, n)
         /\ Head(s) = n => 1 \in Spots(s, n)
         /\ \A i \in Spots(s, n) : (i = 1 /\ Head(s) = n) \/ i - 1 \in Spots(Tail(s), n)
<1> DEFINE t == Tail(s)
<1>1. /\ Len(s) \in Nat \ {0} /\ DOMAIN s = 1..Len(s) /\ DOMAIN t = 1..(Len(s) - 1)
      /\ s[1] = Head(s) /\ \A i \in 1..(Len(s) - 1) : t[i] = s[i + 1]
  OBVIOUS
<1> HIDE DEF t
<1>2. ASSUME NEW i \in Spots(t, n) PROVE i \in Nat \ {0} /\ i + 1 \in Spots(s, n)
  BY <1>1, <1>2 DEF Spots
<1>3. Head(s) = n => 1 \in Spots(s, n)
  BY <1>1 DEF Spots
<1>4. ASSUME NEW i \in Spots(s, n) PROVE (i = 1 /\ Head(s) = n) \/ i - 1 \in Spots(t, n)
  <2>1. CASE i = 1
    BY <1>1, <1>4, <2>1 DEF Spots
  <2>2. CASE i # 1
    <3>1. i \in 1..Len(s) /\ s[i] = n
      BY <1>1 DEF Spots
    <3>2. i - 1 \in 1..(Len(s) - 1) /\ (i - 1) + 1 = i
      BY <1>1, <2>2, <3>1
    <3>3. t[i - 1] = n
      BY <1>1, <3>1, <3>2
    <3> QED BY <1>1, <3>2, <3>3 DEF Spots
  <2> QED BY <2>1, <2>2
<1> QED BY <1>2, <1>3, <1>4 DEF t

LEMMA NoteAct ==
  ASSUME Sound, NEW a \in Actors, Act(a), NEW b \in Actors, NEW k \in Notes, NoteSound(b, k)
  PROVE  NoteSound(b, k)'
<1> DEFINE s == sess[a]
           n == Head(s.left)
<1>1. /\ s.at = "act" /\ s.left # <<>> /\ s \in Sessions /\ s.left \in Seq(Notes) /\ s.got \in Seq(Result)
      /\ given[a] \in [Notes -> SUBSET Actions] /\ sess \in [Actors -> Sessions]
      /\ UNCHANGED <<jobs, hook, merge, owed, handled, dropped>>
  BY DEF Act, Sound, TypeOK, queueVars, books, Sessions
<1>2. PICK o \in Outcomes(n, given[a][n]) :
        sess' = [sess EXCEPT ![a] = Reported(s, o.entry)] \/ sess' = [sess EXCEPT ![a] = Walled(s)]
  BY DEF Act
<1>3. n \in Notes
  <2> HIDE DEF s
  <2> QED BY <1>1
<1>4. o.entry \in Result /\ o.entry.note = n
  <2> HIDE DEF n
  <2>1. given[a][n] \in SUBSET Actions
    BY <1>1, <1>3
  <2> QED BY <1>3, <2>1, OutcomeIn
<1>5. CASE b # a
  <2>1. sess'[b] = sess[b]
    BY <1>1, <1>2, <1>5
  <2> QED BY <1>1, <2>1, SameHand, Keeps
<1>6. CASE b = a /\ sess' = [sess EXCEPT ![a] = Walled(s)]
  <2> DEFINE x == [s EXCEPT !.wall = TRUE, !.at = "end"]
  <2>1. sess'[b] = x
    BY <1>1, <1>6 DEF Walled
  <2>2. x.kind = s.kind /\ x.left = s.left /\ x.rest = s.rest /\ x.got = s.got
    <3> HIDE DEF s
    <3> QED BY <1>1 DEF Sessions
  <2> HIDE DEF x
  <2>3. InHand(b, k)' = InHand(b, k)
    BY <1>6, <2>1, <2>2 DEF InHand
  <2> QED BY <1>1, <2>3, Keeps
<1>7. CASE b = a /\ sess' = [sess EXCEPT ![a] = Reported(s, o.entry)]
  <2> DEFINE l == Tail(s.left)
             g == Append(s.got, o.entry)
             x == [s EXCEPT !.left = l, !.got = g]
  <2>1. sess'[b] = x
    BY <1>1, <1>7 DEF Reported
  <2>2. x.kind = s.kind /\ x.left = l /\ x.rest = s.rest /\ x.got = g
    <3> HIDE DEF s, l, g
    <3> QED BY <1>1 DEF Sessions
  <2> HIDE DEF x
  <2>3. CASE s.kind # "matrix"
    <3>1. InHand(b, k) = {}
      BY <1>7, <2>3, NoHand
    <3>2. InHand(b, k)' = {}
      BY <2>1, <2>2, <2>3 DEF InHand
    <3> QED BY <1>1, <3>1, <3>2, Keeps
  <2>4. CASE s.kind = "matrix"
    <3> DEFINE last == Len(s.got) + 1
               Mine == {i \in {last} : n = k}
               Out == {"left"} \X {a} \X Spots(s.left, k)
               Rest == {"rest"} \X {a} \X Spots(s.rest, k)
               Left == {"left"} \X {a} \X Spots(l, k)
               New == {"got"} \X {a} \X Mine
               In == Left \cup New
    <3>1. {i \in DOMAIN g : g[i].note = k} = Reports(a, k) \cup Mine
      <4>1. /\ DOMAIN s.got = 1..Len(s.got) /\ Len(s.got) \in Nat /\ DOMAIN g = 1..(Len(s.got) + 1)
            /\ g[last] = o.entry /\ \A i \in 1..Len(s.got) : g[i] = s.got[i]
        <5> HIDE DEF s
        <5> QED BY <1>1, <1>4
      <4>2. DOMAIN g = DOMAIN s.got \cup {last}
        BY <4>1
      <4> HIDE DEF g, last
      <4>3. {i \in DOMAIN g : g[i].note = k} = {i \in DOMAIN s.got : s.got[i].note = k} \cup Mine
        BY <1>4, <4>1, <4>2
      <4> QED BY <4>3 DEF Reports
    <3>2. InHand(b, k) = Out \cup Rest \cup ({"got"} \X {a} \X Reports(a, k))
      BY <1>7, <2>4, HandOf
    <3>3. InHand(b, k)' = Left \cup Rest \cup ({"got"} \X {a} \X (Reports(a, k) \cup Mine))
      <4>1. InHand(b, k)' = ({"left"} \X {a} \X Spots(x.left, k)) \cup ({"rest"} \X {a} \X Spots(x.rest, k))
                             \cup ({"got"} \X {a} \X {i \in DOMAIN x.got : x.got[i].note = k})
        <5> HIDE DEF s, l, g
        <5> QED BY <1>7, <2>1, <2>2, <2>4 DEF InHand
      <4> HIDE DEF Mine, g, l, s
      <4> QED BY <2>2, <3>1, <4>1
    <3>4. Out \cap Rest = {} /\ Out \cap ({"got"} \X {a} \X Reports(a, k)) = {}
      OBVIOUS
    <3>5. InHand(b, k)' = (InHand(b, k) \ Out) \cup In /\ Out \subseteq InHand(b, k)
      <4>1. {"got"} \X {a} \X (Reports(a, k) \cup Mine) = ({"got"} \X {a} \X Reports(a, k)) \cup New
        <5> HIDE DEF Mine
        <5> QED OBVIOUS
      <4> HIDE DEF Out, Rest, Left, New
      <4> QED BY <3>2, <3>3, <3>4, <4>1
    <3>6. InHook(b, k)' = InHook(b, k) /\ InMerges(b, k)' = InMerges(b, k) /\ InJobs(b, k)' = InJobs(b, k)
          /\ Handled(b, k)' = Handled(b, k)
      BY <1>1, SameHook, SameMerges, SameJobs, SameHandled
    <3>7. Places(b, k)' = (Places(b, k) \ Out) \cup In /\ Out \subseteq Places(b, k)
      <4> HIDE DEF Out, In
      <4> QED BY <3>5, <3>6, Elsewhere DEF Places
    <3>8. /\ \A i \in Spots(l, k) : i \in Nat \ {0} /\ i + 1 \in Spots(s.left, k)
          /\ n = k => 1 \in Spots(s.left, k)
          /\ \A i \in Spots(s.left, k) : (i = 1 /\ n = k) \/ i - 1 \in Spots(l, k)
      <4> HIDE DEF s
      <4> QED BY <1>1, SpotsTail
    <3> HIDE DEF n, l, last
    <3>9. ASSUME Lone(Spots(s.left, k)) PROVE Lone(Spots(l, k)) /\ Lone(Mine) /\ (Spots(l, k) = {} \/ Mine = {})
      <4>1. ASSUME NEW i \in Spots(l, k), NEW j \in Spots(l, k) PROVE i = j
        <5>1. i + 1 = j + 1
          BY <3>8, <3>9 DEF Lone
        <5> QED BY <3>8, <5>1
      <4>2. ASSUME n = k, NEW i \in Spots(l, k) PROVE FALSE
        <5>1. i + 1 = 1
          BY <3>8, <3>9, <4>2 DEF Lone
        <5> QED BY <3>8, <5>1
      <4>3. Lone(Spots(l, k)) /\ Lone(Mine)
        BY <4>1 DEF Lone
      <4> QED BY <4>2, <4>3
    <3>10. Spots(s.left, k) = {} <=> Spots(l, k) = {} /\ Mine = {}
      <4>1. Mine = {} <=> n # k
        OBVIOUS
      <4> HIDE DEF Mine
      <4> QED BY <3>8, <4>1
    <3> HIDE DEF Mine
    <3>11. Lone(Out) => Lone(In)
      <4>1. Lone(Out) => Lone(Spots(s.left, k))
        BY LoneRow
      <4> QED BY <3>9, <4>1, LoneTwo
    <3>12. Out = {} <=> In = {}
      <4>1. (Out = {} <=> Spots(s.left, k) = {}) /\ (Left = {} <=> Spots(l, k) = {}) /\ (New = {} <=> Mine = {})
        BY LoneRow
      <4> HIDE DEF Out, Left, New
      <4> QED BY <3>10, <4>1
    <3> HIDE DEF Out, In
    <3> QED BY <1>1, <3>7, <3>11, <3>12, Moves
  <2> QED BY <2>3, <2>4
<1> QED BY <1>2, <1>5, <1>6, <1>7

LEMMA ReportsOf ==
  ASSUME NEW a, NEW n PROVE Reports(a, n) # {} <=> n \in NotesOf(sess[a].got)
BY DEF Reports, NotesOf

LEMMA NoteEndMatrix ==
  ASSUME Sound, NEW a \in Actors, EndMatrix(a), NEW b \in Actors, NEW k \in Notes, NoteSound(b, k)
  PROVE  NoteSound(b, k)'
<1> DEFINE s == sess[a]
           all == LeftOver(s)
           x == [Idle EXCEPT !.at = "carry", !.kind = "matrix", !.job = s.job]
           m == [at |-> "select", account |-> a, notes |-> all, job |-> 0, tries |-> 0]
           h == handled[a][k]
           again == IF k \in NotesOf(s.got) THEN h + 1 ELSE h
<1>1. /\ s.at = "end" /\ s.kind = "matrix" /\ s.left \in Seq(Notes) /\ s.rest \in Seq(Notes)
      /\ sess' = [sess EXCEPT ![a] = x] /\ sess \in [Actors -> Sessions]
      /\ handled \in [Actors -> [Notes -> Nat]] /\ dropped \in [Actors -> SUBSET Notes]
      /\ UNCHANGED <<jobs, hook, owed>>
  BY DEF EndMatrix, Sound, TypeOK, queueVars, Sessions
<1>2. /\ handled' = [handled EXCEPT ![a] = [n \in Notes |-> IF n \in NotesOf(s.got) THEN @[n] + 1 ELSE @[n]]]
      /\ dropped' = [dropped EXCEPT ![a] = IF s.wall THEN @ \cup ToSet(all) ELSE @]
      /\ merge' = IF s.wall \/ all = <<>> THEN merge ELSE [merge EXCEPT ![a] = m]
  BY DEF EndMatrix, Merging
<1>3. merge[a] = NoMerge
  BY <1>1, NotCarrying
<1>4. x.left = <<>> /\ x.rest = <<>> /\ x.got = <<>>
  BY DEF Idle
<1>5. all \in Seq(Notes)
  <2> HIDE DEF s
  <2> QED BY <1>1 DEF LeftOver
<1>6. all = s.left \o s.rest
  BY DEF LeftOver
<1> HIDE DEF x, s, all
<1>7. handled'[a][k] = again /\ h \in Nat /\ \A c \in Actors \ {a} : handled'[c] = handled[c]
  BY <1>1, <1>2
<1>8. dropped[b] \subseteq dropped'[b] /\ (b = a /\ s.wall => ToSet(all) \subseteq dropped'[b])
  BY <1>1, <1>2
<1>9. sess'[a] = x /\ \A c \in Actors \ {a} : sess'[c] = sess[c]
  BY <1>1
<1> DEFINE Carried == IF s.wall THEN {} ELSE Spots(all, k)
<1>10. InMerges(b, k)' = InMerges(b, k) \cup (IF a = b THEN {"merge"} \X {a} \X Carried ELSE {})
  <2>1. CASE s.wall \/ all = <<>>
    <3>1. Carried = {}
      BY <2>1, SpotsNone
    <3>2. {"merge"} \X {a} \X Carried = {}
      BY <3>1
    <3>3. InMerges(b, k)' = InMerges(b, k)
      BY <1>2, <2>1, SameMerges
    <3> QED BY <3>2, <3>3
  <2>2. CASE ~(s.wall \/ all = <<>>)
    <3>1. m \in Merges /\ m.account = a /\ m.notes = all
      BY <1>5 DEF Merges
    <3>2. merge' = [merge EXCEPT ![a] = m] /\ a \in Actors \cup Notes
      BY <1>2, <2>2
    <3> HIDE DEF m
    <3>3. merge'[a] = m /\ \A q \in (Actors \cup Notes) \ {a} : merge'[q] = merge[q]
      BY <3>1, <3>2, MergePut
    <3>4. InMerges(b, k)' = InMerges(b, k) \cup (IF merge'[a].account = b THEN InMerge(a, k)' ELSE {})
      BY <1>3, <3>2, <3>3, MergeBegins
    <3>5. InMerge(a, k)' = {"merge"} \X {a} \X Carried
      BY <2>2, <3>1, <3>3 DEF InMerge
    <3> QED BY <3>1, <3>3, <3>4, <3>5
  <2> QED BY <2>1, <2>2
<1>11. InHook(b, k)' = InHook(b, k) /\ InJobs(b, k)' = InJobs(b, k)
  BY <1>1, SameHook, SameJobs
<1>12. CASE b # a
  <2>1. InHand(b, k)' = InHand(b, k) /\ Handled(b, k)' = Handled(b, k)
    BY <1>7, <1>9, <1>12, SameHand, SameHandled
  <2>2. Places(b, k)' = Places(b, k)
    BY <1>10, <1>11, <1>12, <2>1, SamePlaces
  <2> QED BY <1>1, <1>8, <2>2, Stays
<1>13. CASE b = a
  <2> DEFINE Out == InHand(b, k)
             Told == {i \in {h + 1} : k \in NotesOf(s.got)}
             In == ({"merge"} \X {a} \X Carried) \cup ({"handled"} \X {a} \X Told)
  <2>1. InHand(b, k)' = {}
    <3>1. InHand(b, k)' = IF x.kind # "matrix" THEN {}
             ELSE ({"left"} \X {b} \X Spots(x.left, k)) \cup ({"rest"} \X {b} \X Spots(x.rest, k))
                    \cup ({"got"} \X {b} \X {i \in DOMAIN x.got : x.got[i].note = k})
      BY <1>9, <1>13 DEF InHand
    <3>2. Spots(x.left, k) = {} /\ Spots(x.rest, k) = {} /\ {i \in DOMAIN x.got : x.got[i].note = k} = {}
      BY <1>4, SpotsNone
    <3> QED BY <3>1, <3>2
  <2>2. Handled(b, k)' = Handled(b, k) \cup ({"handled"} \X {a} \X Told)
    <3>1. 1..again = (1..h) \cup Told
      BY <1>7
    <3>2. Handled(b, k)' = {"handled"} \X {a} \X (1..again)
      BY <1>7, <1>13 DEF Handled
    <3>3. Handled(b, k) = {"handled"} \X {a} \X (1..h)
      BY <1>13 DEF Handled
    <3> HIDE DEF again, Told
    <3> QED BY <3>1, <3>2, <3>3
  <2> HIDE DEF Told, Carried, again, h
  <2>3. Places(b, k)' = (Places(b, k) \ Out) \cup In /\ Out \subseteq Places(b, k)
    <3>1. InMerges(b, k)' = InMerges(b, k) \cup ({"merge"} \X {a} \X Carried)
      BY <1>10, <1>13
    <3> DEFINE M == {"merge"} \X {a} \X Carried
               D == {"handled"} \X {a} \X Told
    <3> HIDE DEF M, D
    <3>2. InMerges(b, k)' = InMerges(b, k) \cup M /\ Handled(b, k)' = Handled(b, k) \cup D /\ In = M \cup D
      BY <2>2, <3>1 DEF M, D
    <3> HIDE DEF In
    <3> QED BY <1>11, <2>1, <3>2, Elsewhere DEF Places
  <2>4. /\ Out = {} <=> Spots(s.left, k) = {} /\ Spots(s.rest, k) = {} /\ Reports(a, k) = {}
        /\ Lone(Out) =>
             /\ Lone(Spots(s.left, k)) /\ Lone(Spots(s.rest, k)) /\ Lone(Reports(a, k))
             /\ Spots(s.left, k) = {} \/ Spots(s.rest, k) = {}
             /\ Spots(s.left, k) = {} \/ Reports(a, k) = {}
             /\ Spots(s.rest, k) = {} \/ Reports(a, k) = {}
    BY <1>1, <1>13, OneHand DEF s
  <2>5. Reports(a, k) # {} <=> k \in NotesOf(s.got)
    BY ReportsOf DEF s
  <2>6. Lone(Told) /\ (Told # {} <=> k \in NotesOf(s.got))
    BY DEF Told, Lone
  <2>7. Spots(all, k) = Spots(s.left, k) \cup {Len(s.left) + i : i \in Spots(s.rest, k)}
    BY <1>1, <1>6, SpotsCat
  <2>8. Len(s.left) \in Nat /\ Spots(s.rest, k) \subseteq Nat
    BY <1>1, SpotsIn
  <2> DEFINE Put == {Len(s.left) + i : i \in Spots(s.rest, k)}
  <2>9. (Put = {} <=> Spots(s.rest, k) = {}) /\ (Lone(Spots(s.rest, k)) => Lone(Put))
    BY DEF Lone
  <2> HIDE DEF Put
  <2>10. Spots(all, k) = Spots(s.left, k) \cup Put
    BY <2>7 DEF Put
  <2>11. Lone(Out) => Lone(Spots(all, k)) /\ (Spots(all, k) = {} \/ Told = {})
    <3>1. ASSUME Lone(Out) PROVE Lone(Spots(all, k))
      BY <2>4, <2>9, <2>10, <3>1 DEF Lone
    <3> HIDE DEF Out
    <3> QED BY <2>4, <2>5, <2>6, <2>9, <2>10, <3>1
  <2>12. Out # {} <=> Spots(all, k) # {} \/ Told # {}
    BY <2>4, <2>5, <2>6, <2>9, <2>10
  <2>13. Carried = {} \/ Carried = Spots(all, k)
    BY DEF Carried
  <2>14. Lone(Out) => Lone(In)
    <3>1. Lone({})
      BY DEF Lone
    <3> QED BY <2>6, <2>11, <2>13, <3>1, LoneTwo
  <2>15. In = {} <=> Carried = {} /\ Told = {}
    <3>1. ({"merge"} \X {a} \X Carried = {} <=> Carried = {}) /\ ({"handled"} \X {a} \X Told = {} <=> Told = {})
      BY LoneRow
    <3> QED BY <3>1
  <2>16. k \notin dropped'[b] /\ Spots(all, k) # {} => Carried # {}
    <3>1. Spots(all, k) # {} => k \in ToSet(all)
      BY <1>5, SpotsIn
    <3> QED BY <1>8, <1>13, <3>1 DEF Carried
  <2> HIDE DEF Out, In
  <2>17. In # {} => Out # {}
    BY <2>12, <2>13, <2>15
  <2>18. Out # {} /\ k \notin dropped'[b] => In # {}
    BY <2>12, <2>15, <2>16
  <2> QED BY <1>1, <1>8, <2>3, <2>14, <2>17, <2>18, Moves
<1> QED BY <1>12, <1>13

(* The job of a session is running: whatever becomes of it, no queued note goes. *)
LEMMA RunningGoes ==
  ASSUME Sound, NEW a \in Actors, sess[a].kind = "matrix",
         jobs' = [jobs EXCEPT ![a][sess[a].job].status = "ended"], NEW b \in Actors, NEW k
  PROVE  InJobs(b, k)' = InJobs(b, k)
<1> DEFINE j == sess[a].job
<1>1. j \in DOMAIN jobs[a] /\ jobs[a][j].status = "running" /\ jobs \in [Actors -> Seq(Job)]
  BY DEF Sound, SessionSound, TypeOK
<1> HIDE DEF j
<1>2. /\ DOMAIN jobs'[a] = DOMAIN jobs[a] /\ jobs'[a][j].status = "ended"
      /\ \A i \in DOMAIN jobs[a] : i # j => jobs'[a][i] = jobs[a][i]
  BY <1>1, StatusPut DEF j
<1>3. CASE b # a
  <2>1. jobs'[b] = jobs[b]
    BY <1>1, <1>3
  <2> QED BY <2>1, SameJobs
<1>4. CASE b = a
  <2>1. j \notin Queued(a)
    BY <1>1 DEF Queued
  <2>2. jobs'[a][j].status # "queued"
    BY <1>2
  <2>3. j \notin Queued(a) => InJobs(a, k)' = InJobs(a, k)
    BY <1>1, <1>2, <2>2, JobGoes
  <2> QED BY <1>4, <2>1, <2>3
<1> QED BY <1>3, <1>4

LEMMA NoteFinish ==
  ASSUME Sound, NEW a \in Actors, Finish(a), NEW b \in Actors, NEW k \in Notes, NoteSound(b, k)
  PROVE  NoteSound(b, k)'
<1> DEFINE s == sess[a]
<1>1. /\ s.kind = "matrix" /\ s.left = <<>> /\ s.rest = <<>> /\ s.got = <<>>
      /\ jobs' = [jobs EXCEPT ![a][s.job].status = "ended"] /\ sess' = [sess EXCEPT ![a] = Idle]
      /\ UNCHANGED <<hook, owed, handled>> /\ sess \in [Actors -> Sessions]
      /\ dropped \in [Actors -> SUBSET Notes] /\ merge[a].notes \in Seq(Notes)
  BY DEF Finish, Sound, SessionSound, TypeOK, Merges
<1>2. \/ merge[a].at = "none" /\ UNCHANGED <<merge, dropped>>
      \/ /\ merge[a].at # "none" /\ merge' = [merge EXCEPT ![a] = NoMerge]
         /\ dropped' = [dropped EXCEPT ![a] = @ \cup ToSet(merge[a].notes)]
  BY DEF Finish
<1>3. merge[a].at # "none" => merge[a].account = a
  BY DEF Sound, MergeSound
<1>4. InJobs(b, k)' = InJobs(b, k)
  BY <1>1, RunningGoes
<1>5. InHand(b, k)' = InHand(b, k)
  <2>1. CASE b = a
    <3>1. InHand(b, k) = {}
      <4>1. Spots(s.left, k) = {} /\ Spots(s.rest, k) = {} /\ Reports(a, k) = {}
        BY <1>1, SpotsNone DEF Reports
      <4> QED BY <1>1, <2>1, <4>1, OneHand
    <3>2. sess'[b].kind # "matrix"
      BY <1>1, <2>1, IdleIn, Apart
    <3>3. InHand(b, k)' = {}
      BY <3>2 DEF InHand
    <3> QED BY <3>1, <3>3
  <2>2. CASE b # a
    BY <1>1, <2>2, SameHand
  <2> QED BY <2>1, <2>2
<1>6. InHook(b, k)' = InHook(b, k) /\ Handled(b, k)' = Handled(b, k)
  BY <1>1, SameHook, SameHandled
<1> HIDE DEF s
<1>7. CASE UNCHANGED <<merge, dropped>>
  <2>1. Places(b, k)' = Places(b, k)
    BY <1>4, <1>5, <1>6, <1>7, SameMerges, SamePlaces
  <2> QED BY <1>1, <1>7, <2>1, Stays
<1>8. CASE /\ merge[a].at # "none" /\ merge' = [merge EXCEPT ![a] = NoMerge]
           /\ dropped' = [dropped EXCEPT ![a] = @ \cup ToSet(merge[a].notes)]
  <2>1. /\ InMerges(b, k)' = InMerges(b, k) \ InMerge(a, k)
        /\ merge[a].account = b => InMerge(a, k) \subseteq InMerges(b, k)
        /\ merge[a].account # b => InMerges(b, k)' = InMerges(b, k)
    <3>1. a \in Actors \cup Notes
      OBVIOUS
    <3> QED BY <1>8, <3>1, MergeEnds
  <2>2. CASE b # a
    <3>1. Places(b, k)' = Places(b, k)
      BY <1>3, <1>4, <1>5, <1>6, <1>8, <2>1, <2>2, SamePlaces
    <3>2. dropped'[b] = dropped[b]
      BY <1>1, <1>8, <2>2
    <3> QED BY <1>1, <3>1, <3>2, Stays
  <2>3. CASE b = a
    <3> DEFINE Out == InMerge(a, k)
               In == {}
    <3>1. Out \subseteq InMerges(b, k)
      BY <1>3, <1>8, <2>1, <2>3
    <3>2. dropped'[b] = dropped[b] \cup ToSet(merge[a].notes)
      BY <1>1, <1>8, <2>3
    <3>3. Out # {} => k \in dropped'[b]
      <4>1. Out # {} => Spots(merge[a].notes, k) # {}
        BY LoneRow DEF InMerge
      <4>2. Spots(merge[a].notes, k) # {} => k \in ToSet(merge[a].notes)
        BY <1>1, SpotsIn
      <4> QED BY <3>2, <4>1, <4>2
    <3>4. Lone(In)
      BY DEF Lone
    <3>5. InMerges(b, k)' = InMerges(b, k) \ Out
      BY <2>1
    <3> HIDE DEF Out
    <3>6. Places(b, k)' = (Places(b, k) \ Out) \cup In /\ Out \subseteq Places(b, k)
      BY <1>4, <1>5, <1>6, <3>1, <3>5, Elsewhere DEF Places
    <3>7. (In # {} => Out # {}) /\ (Out # {} /\ k \notin dropped'[b] => In # {})
      BY <3>3
    <3> HIDE DEF In
    <3> QED BY <1>1, <3>2, <3>4, <3>6, <3>7, Moves
  <2> QED BY <2>2, <2>3
<1> QED BY <1>2, <1>7, <1>8

LEMMA NoteKill ==
  ASSUME Sound, NEW a \in Actors, Kill(a), NEW b \in Actors, NEW k \in Notes, NoteSound(b, k)
  PROVE  NoteSound(b, k)'
<1> DEFINE s == sess[a]
           lost == ToSet(s.left) \cup ToSet(s.rest) \cup NotesOf(s.got) \cup ToSet(merge[a].notes)
<1>1. /\ sess' = [sess EXCEPT ![a] = Idle] /\ merge' = [merge EXCEPT ![a] = NoMerge]
      /\ UNCHANGED <<hook, owed, handled>> /\ sess \in [Actors -> Sessions] /\ s \in Sessions
      /\ dropped \in [Actors -> SUBSET Notes] /\ merge[a].notes \in Seq(Notes)
      /\ s.left \in Seq(Notes) /\ s.rest \in Seq(Notes)
  BY DEF Kill, Sound, TypeOK, Merges, Sessions
<1>2. /\ s.kind = "matrix" => /\ jobs' = [jobs EXCEPT ![a][s.job].status = "ended"]
                              /\ dropped' = [dropped EXCEPT ![a] = @ \cup lost]
      /\ s.kind # "matrix" => UNCHANGED <<jobs, dropped>>
  BY DEF Kill
<1>3. /\ merge[a].at # "none" => merge[a].account = a /\ s.kind = "matrix"
      /\ merge[a].at = "none" => merge[a] = NoMerge
  BY DEF Sound, MergeSound, SessionSound
<1>4. InJobs(b, k)' = InJobs(b, k)
  BY <1>2, RunningGoes, SameJobs
<1>5. InHook(b, k)' = InHook(b, k) /\ Handled(b, k)' = Handled(b, k)
  BY <1>1, SameHook, SameHandled
<1>6. /\ InMerges(b, k)' = InMerges(b, k) \ InMerge(a, k)
      /\ merge[a].account = b => InMerge(a, k) \subseteq InMerges(b, k)
      /\ merge[a].account # b => InMerges(b, k)' = InMerges(b, k)
  <2>1. a \in Actors \cup Notes
    OBVIOUS
  <2> QED BY <1>1, <2>1, MergeEnds
<1>7. merge[a].at = "none" => InMerge(a, k) = {}
  <2>1. merge[a].at = "none" => Spots(merge[a].notes, k) = {}
    BY <1>3, NoMergeIn, SpotsNone
  <2> QED BY <2>1, LoneRow DEF InMerge
<1>8. CASE b # a
  <2>1. InHand(b, k)' = InHand(b, k) /\ dropped'[b] = dropped[b]
    BY <1>1, <1>2, <1>8, SameHand
  <2>2. InMerges(b, k)' = InMerges(b, k)
    BY <1>3, <1>6, <1>7, <1>8
  <2>3. Places(b, k)' = Places(b, k)
    BY <1>4, <1>5, <2>1, <2>2, SamePlaces
  <2> QED BY <1>1, <2>1, <2>3, Stays
<1>9. CASE b = a
  <2>1. InHand(b, k)' = {}
    <3>1. sess'[b].kind # "matrix"
      BY <1>1, <1>9, IdleIn, Apart
    <3> QED BY <3>1 DEF InHand
  <2>2. CASE s.kind # "matrix"
    <3>1. InHand(b, k) = {}
      BY <1>9, <2>2, NoHand
    <3>2. InMerges(b, k)' = InMerges(b, k)
      BY <1>3, <1>6, <1>7, <2>2
    <3>3. Places(b, k)' = Places(b, k)
      BY <1>4, <1>5, <2>1, <3>1, <3>2, SamePlaces
    <3> QED BY <1>1, <1>2, <2>2, <3>3, Stays
  <2>3. CASE s.kind = "matrix"
    <3> DEFINE Out == InHand(b, k) \cup InMerge(a, k)
               In == {}
    <3>1. InMerge(a, k) \subseteq InMerges(b, k)
      BY <1>3, <1>6, <1>7, <1>9
    <3>2. dropped'[b] = dropped[b] \cup lost
      BY <1>1, <1>2, <1>9, <2>3
    <3>3. Out # {} => k \in lost
      <4>1. InMerge(a, k) # {} => Spots(merge[a].notes, k) # {}
        BY LoneRow DEF InMerge
      <4>2. InHand(b, k) # {} => Spots(s.left, k) # {} \/ Spots(s.rest, k) # {} \/ Reports(a, k) # {}
        BY <1>9, <2>3, OneHand
      <4>3. /\ Spots(merge[a].notes, k) # {} => k \in ToSet(merge[a].notes)
            /\ Spots(s.left, k) # {} => k \in ToSet(s.left)
            /\ Spots(s.rest, k) # {} => k \in ToSet(s.rest)
            /\ Reports(a, k) # {} => k \in NotesOf(s.got)
        BY <1>1, SpotsIn, ReportsOf
      <4> QED BY <4>1, <4>2, <4>3
    <3>4. Lone(In)
      BY DEF Lone
    <3>5. Places(b, k)' = (Places(b, k) \ Out) \cup In /\ Out \subseteq Places(b, k)
      BY <1>4, <1>5, <1>6, <2>1, <3>1, Elsewhere DEF Places
    <3> HIDE DEF Out, lost
    <3>6. (In # {} => Out # {}) /\ (Out # {} /\ k \notin dropped'[b] => In # {})
      BY <3>2, <3>3
    <3> HIDE DEF In
    <3> QED BY <1>1, <3>2, <3>4, <3>5, <3>6, Moves
  <2> QED BY <2>2, <2>3
<1> QED BY <1>8, <1>9

(* The steps that touch no note, no queue and no session. *)
LEMMA NoteOther ==
  ASSUME Sound, UNCHANGED <<jobs, hook, merge, sess, owed, handled, dropped>>, NEW b, NEW k, NoteSound(b, k)
  PROVE  NoteSound(b, k)'
BY SameHand, Keeps

LEMMA NoteInit == ASSUME Init, NEW a \in Actors, NEW n \in Notes PROVE NoteSound(a, n)
<1>1. /\ hook[n].todo = {} /\ jobs[a] = <<>> /\ sess[a] = Idle /\ handled[a][n] = 0 /\ owed[n] = {}
      /\ \A p \in Actors \cup Notes : merge[p] = NoMerge
  BY DEF Init
<1>2. InHook(a, n) = {}
  BY <1>1 DEF InHook
<1>3. InMerges(a, n) = {}
  <2>1. Mergers(a) = {}
    BY <1>1, NoMergeIn, Apart DEF Mergers
  <2> QED BY <2>1 DEF InMerges
<1>4. InJobs(a, n) = {}
  <2>1. Queued(a) = {}
    BY <1>1 DEF Queued
  <2> QED BY <2>1 DEF InJobs
<1>5. InHand(a, n) = {}
  BY <1>1, IdleIn, Apart, NoHand
<1>6. Handled(a, n) = {}
  <2>1. 1..handled[a][n] = {}
    BY <1>1
  <2> QED BY <2>1 DEF Handled
<1>7. Places(a, n) = {}
  BY <1>2, <1>3, <1>4, <1>5, <1>6 DEF Places
<1> QED BY <1>1, <1>7 DEF NoteSound, Lone

LEMMA NoteNext ==
  ASSUME Sound, [Next]_vars, NEW b \in Actors, NEW k \in Notes, NoteSound(b, k)
  PROVE  NoteSound(b, k)'
<1>1. ASSUME NEW p \in Actors \cup Notes, Merger(p) PROVE NoteSound(b, k)'
  BY <1>1, NoteSelect, NoteUpdate, NoteInsert DEF Merger
<1>2. ASSUME NEW n \in Notes, Publish(n) \/ Reach(n) \/ HookFails(n) PROVE NoteSound(b, k)'
  BY <1>2, NotePublish, NoteReach, NoteHookFails
<1>3. ASSUME (\E a \in Actors : Ask(a)) \/ Scan \/ \E owner \in AllOwners : AfterSync(owner)
      PROVE  NoteSound(b, k)'
  <2>1. PICK S \in SUBSET Actors : Enqueue(S)
    BY <1>3, RequestSound
  <2>2. UNCHANGED <<jobs, hook, merge, sess, owed, handled, dropped>>
    BY <2>1 DEF Enqueue, books
  <2> QED BY <2>2, NoteOther
<1>4. ASSUME NEW a \in Actors, Claim(a) PROVE NoteSound(b, k)'
  BY <1>4, NoteClaimRound, NoteClaimMatrix DEF Claim
<1>5. ASSUME NEW a \in Actors, Session(a) PROVE NoteSound(b, k)'
  BY <1>5, NoteAct, NoteEndSession, NoteEndRound, NoteEndMatrix, NoteFinish DEF Session
<1>6. ASSUME NEW a \in Actors, Kill(a) PROVE NoteSound(b, k)'
  BY <1>6, NoteKill
<1>7. ASSUME NEW a \in Actors, Revalidate(a) PROVE NoteSound(b, k)'
  <2>1. UNCHANGED <<jobs, hook, merge, sess, owed, handled, dropped>>
    BY <1>7 DEF Revalidate, books
  <2> QED BY <2>1, NoteOther
<1>8. CASE HalfDay
  <2>1. UNCHANGED <<jobs, hook, merge, sess, owed, handled, dropped>>
    BY <1>8 DEF HalfDay, books, queueVars
  <2> QED BY <2>1, NoteOther
<1>9. CASE UNCHANGED vars
  <2>1. UNCHANGED <<jobs, hook, merge, sess, owed, handled, dropped>>
    BY <1>9 DEF vars, books, queueVars
  <2> QED BY <2>1, NoteOther
<1> QED BY <1>1, <1>2, <1>3, <1>4, <1>5, <1>6, <1>7, <1>8, <1>9 DEF Next

(* At most one member, counted. *)
LEMMA LoneCount ==
  ASSUME NEW S, Lone(S)
  PROVE  Cardinality(S) <= 1 /\ (S # {} => Cardinality(S) = 1)
<1>1. CASE S = {}
  BY <1>1, FS_EmptySet
<1>2. CASE S # {}
  <2>1. PICK x \in S : TRUE
    BY <1>2
  <2>2. S = {x}
    BY <2>1 DEF Lone
  <2>3. Cardinality({x}) = 1
    BY FS_Singleton
  <2> QED BY <2>2, <2>3
<1> QED BY <1>1, <1>2

NotesSound == \A a \in Actors, n \in Notes : NoteSound(a, n)

(* Every publication reaches every account it was meant for exactly once, or is *)
(* given up with a report: whatever hooks, remainders and claims meet at a       *)
(* queued job, a note is in one hook, one merge, one queued job, one session or   *)
(* one report, and never in two of them.                                      *)
THEOREM EachNoteIsOnce == Spec => []EachNoteOnce
<1>1. Init => NotesSound
  BY NoteInit DEF NotesSound
<1>2. Sound /\ Sound' /\ NotesSound /\ [Next]_vars => NotesSound'
  BY NoteNext DEF NotesSound
<1>3. NotesSound => EachNoteOnce
  <2> SUFFICES ASSUME NotesSound, NEW n \in Notes, NEW a \in Actors
               PROVE  IF a \in owed[n] /\ n \notin dropped[a] THEN Cardinality(Places(a, n)) = 1
                      ELSE Cardinality(Places(a, n)) <= 1
    BY DEF EachNoteOnce
  <2>1. NoteSound(a, n)
    BY DEF NotesSound
  <2> QED BY <2>1, LoneCount DEF NoteSound
<1> QED BY <1>1, <1>2, <1>3, SoundInit, SoundNext, PTL DEF Spec
=============================================================================
