------------------------------ MODULE Accounts ------------------------------
(***************************************************************************)
(* The rows of the managed accounts: imports of cookies that the extension    *)
(* pushes after a login (services/cookie_service.py), the checks of them       *)
(* (services/cookie_check.py, browser/cookie_checker.py), the scan that has     *)
(* newcomers checked (services/onboarding_scheduler.py), and the reaper of      *)
(* rows that nobody was recognised for (services/placeholder_reaper.py).  Each  *)
(* reads a row in one transaction and writes it in a later one.               *)
(*                                                                         *)
(*   managed  id -> row; a new id is the highest one plus one, as SQLite has it *)
(*   grants   operator_account_access                                       *)
(*   imp[p]   the import p; done with row r it has been acknowledged          *)
(*   check[k] a cookie_check job, or the patrol's current check              *)
(*   reaper   what the reaper has selected                                   *)
(*   hands    deletions and new names that operators asked for               *)
(* In a row, mixed is history: somebody wrote to it from what he had read of    *)
(* another one.                                                            *)
(***************************************************************************)
EXTENDS Naturals, FiniteSets, FiniteSetsExt

CONSTANTS People,      \* identities on the platform
          Nick,        \* person -> nickname; two may have one
          Imports,     \* bound: requests
          Login,       \* import -> whose login it may be
          Op,          \* import -> operator
          Stamp,       \* import -> xhs_account_<time>, the name it gives to nobody
          Slots,       \* bound: checks under way or recent
          MaxHands,    \* bound: deletions, changed names
          MaxMisses,   \* bound: failed checks, dead processes, failed writes
          Nobody

VARIABLES managed, grants, imp, check, reaper, hands, misses
accountVars == <<managed, grants, imp, check, reaper, hands, misses>>

Stamps == {Stamp[p] : p \in Imports}

(* No nickname is a name that an import gives to nobody.                              *)
Given ==
  /\ Nobody \notin People /\ \A p \in Imports : Login[p] \subseteq People
  /\ "own" \notin Stamps /\ \A w \in People : Nick[w] \notin Stamps
  /\ MaxHands \in Nat /\ MaxMisses \in Nat
ASSUME AccountsGiven == Given

(* What a jar is: whose login, by which import. *)
Jar(p) == [who |-> imp[p].who, by |-> p]
Ids == DOMAIN managed
NewId == IF Ids = {} THEN 1 ELSE Max(Ids) + 1
Without(gone) == [r \in Ids \ gone |-> managed[r]]

Unused == [at |-> "new", who |-> Nobody, knows |-> "nothing", stamp |-> Nobody, row |-> 0,
           seen |-> Nobody, gone |-> {}, void |-> FALSE]
Failed(p) == [imp EXCEPT ![p] = [Unused EXCEPT !.at = "failed"]]
Acknowledged(p) ==
  [imp EXCEPT ![p] = [@ EXCEPT !.at = "done", !.seen = Nobody, !.gone = {}]]
Free == [at |-> "free", row |-> 0, jar |-> Nobody]

AccountsInit ==
  /\ managed = <<>> /\ grants = {}
  /\ imp = [p \in Imports |-> Unused] /\ check = [k \in Slots |-> Free]
  /\ reaper = {} /\ hands = 0 /\ misses = 0

Fault == misses < MaxMisses /\ misses' = misses + 1

(* The unique index on user_id. *)
Taken(user, r) == \E x \in Ids \ {r} : managed[x].user = user

(***************************************************************************)
(* Imports                                                                 *)
(***************************************************************************)

(* The extension pushes what it could make out: the id and the nickname, the     *)
(* nickname, or nothing.                                                     *)
Known == {"id", "nick", "nothing"}
UserIn(i) == IF i.knows = "id" THEN i.who ELSE Nobody
NameIn(i) == IF i.knows = "nothing" THEN i.stamp ELSE Nick[i.who]
UserOf(p) == UserIn(imp[p])

ByUser(i) == {r \in Ids : UserIn(i) # Nobody /\ managed[r].user = UserIn(i)}
(* The first row of the name, unless it is known to be another's.  (Mutant:      *)
(* whoever's it is.)                                                         *)
ByName_m(i) ==
  LET named == {r \in Ids : managed[r].name = NameIn(i)} IN IF named = {} THEN {} ELSE {Min(named)}
ByName(i) ==
  LET named == {r \in Ids : managed[r].name = NameIn(i)} IN
  {r \in IF named = {} THEN {} ELSE {Min(named)} :
     UserIn(i) = Nobody \/ managed[r].user \in {Nobody, UserIn(i)}}
Found(i) == IF ByUser(i) # {} THEN ByUser(i) ELSE ByName(i)

(* Who has no access to the row is refused. *)
Goes(p, i, r) ==
  imp' = IF <<Op[p], r>> \notin grants THEN Failed(p)
         ELSE [imp EXCEPT ![p] = [i EXCEPT !.at = "update", !.row = r, !.seen = managed[r].user]]

Match(p) ==
  /\ imp[p].at = "new"
  /\ \E who \in Login[p], knows \in Known :
       LET i == [Unused EXCEPT !.who = who, !.knows = knows, !.stamp = Stamp[p]] IN
       \/ Found(i) = {} /\ imp' = [imp EXCEPT ![p] = [i EXCEPT !.at = "insert"]]
       \/ \E r \in Found(i) : Goes(p, i, r)
  /\ UNCHANGED <<managed, grants, check, reaper, hands, misses>>

(* _apply_cookie_state: the id if it is another than was read, and the cookies; the  *)
(* columns that did not change are not written.  No such row, or the id taken by   *)
(* another one: the request fails.                                            *)
Update(p) ==
  LET i == imp[p]
      r == i.row
      sets == UserOf(p) # Nobody /\ UserOf(p) # i.seen
      user == IF sets THEN UserOf(p) ELSE managed[r].user
  IN
  /\ i.at = "update"
  /\ IF r \in Ids /\ ~(sets /\ Taken(user, r))
     THEN /\ managed' = [managed EXCEPT ![r].user = user, ![r].jar = Jar(p),
                        ![r].mixed = @ \/ managed[r].user # i.seen
                                       \/ (UserOf(p) = Nobody /\ user \notin {Nobody, i.who})]
          /\ imp' = IF sets \/ i.seen # Nobody THEN [imp EXCEPT ![p].at = "clean", ![p].seen = Nobody]
                     ELSE Acknowledged(p)
     ELSE imp' = Failed(p) /\ UNCHANGED managed
  /\ UNCHANGED <<grants, check, reaper, hands, misses>>

Insert(p) ==
  /\ imp[p].at = "insert"
  /\ IF UserOf(p) # Nobody /\ Taken(UserOf(p), 0)
     THEN imp' = [imp EXCEPT ![p].at = "rematch"] /\ UNCHANGED managed
     ELSE /\ managed' = [r \in Ids \cup {NewId} |->
                        IF r # NewId THEN managed[r]
                        ELSE [user |-> UserOf(p), name |-> NameIn(imp[p]), jar |-> Jar(p),
                              status |-> "unknown", fresh |-> TRUE, mixed |-> FALSE]]
          /\ imp' = [imp EXCEPT ![p].at = "grant", ![p].row = NewId]
  /\ UNCHANGED <<grants, check, reaper, hands, misses>>

(* After the index refused the row. *)
Rematch(p) ==
  /\ imp[p].at = "rematch"
  /\ \/ ByUser(imp[p]) = {} /\ imp' = Failed(p)
     \/ \E r \in ByUser(imp[p]) : Goes(p, imp[p], r)
  /\ UNCHANGED <<managed, grants, check, reaper, hands, misses>>

(* grant_access, in a transaction of its own. *)
Grant(p) ==
  /\ imp[p].at = "grant"
  /\ grants' = grants \cup {<<Op[p], imp[p].row>>}
  /\ imp' = IF UserOf(p) # Nobody THEN [imp EXCEPT ![p].at = "clean"] ELSE Acknowledged(p)
  /\ UNCHANGED <<managed, check, reaper, hands, misses>>

(* The process dies before the answer. *)
Dies(p) ==
  /\ imp[p].at \notin {"new", "done", "failed"} /\ Fault
  /\ imp' = Failed(p)
  /\ UNCHANGED <<managed, grants, check, reaper, hands>>

(***************************************************************************)
(* Rows of nobody                                                          *)
(***************************************************************************)

(* placeholder_clauses, once more in the DELETE.  (Mutant: not once more.)       *)
IsNobody(r) == managed[r].user = Nobody /\ managed[r].name \in Stamps
StillNobody_m(r) == TRUE
StillNobody(r) == IsNobody(r)

(* delete_placeholder_rows: with the grants of what has gone. *)
Drop(selected) ==
  LET gone == {r \in selected \cap Ids : StillNobody(r)} IN
  /\ managed' = Without(gone)
  /\ grants' = IF gone = {} THEN grants ELSE {g \in grants : g[2] \notin selected \/ g[2] \in Ids \ gone}

(* _clean_placeholder_accounts: the operator's own, of the last half hour. *)
CleanSelect(p) ==
  /\ imp[p].at = "clean"
  /\ LET mine == {r \in Ids \ {imp[p].row} :
                    IsNobody(r) /\ managed[r].fresh /\ <<Op[p], r>> \in grants}
     IN imp' = IF mine = {} THEN Acknowledged(p)
               ELSE [imp EXCEPT ![p].at = "delete", ![p].gone = mine]
  /\ UNCHANGED <<managed, grants, check, reaper, hands, misses>>

(* What fails here does not fail the import. *)
CleanDelete(p) ==
  /\ imp[p].at = "delete"
  /\ imp' = Acknowledged(p)
  /\ \/ Drop(imp[p].gone) /\ UNCHANGED misses
     \/ Fault /\ UNCHANGED <<managed, grants>>
  /\ UNCHANGED <<check, reaper, hands>>

ReapSelect ==
  /\ reaper = {} /\ \E r \in Ids : IsNobody(r) /\ ~managed[r].fresh
  /\ reaper' = {r \in Ids : IsNobody(r) /\ ~managed[r].fresh}
  /\ UNCHANGED <<managed, grants, imp, check, hands, misses>>

ReapDelete ==
  /\ reaper # {} /\ Drop(reaper) /\ reaper' = {}
  /\ UNCHANGED <<imp, check, hands, misses>>

(***************************************************************************)
(* Checks                                                                  *)
(***************************************************************************)

(* execute loads the cookies before it waits for the account's lock; a row that has   *)
(* gone has none.                                                            *)
JarOf(r) == IF r \in Ids THEN managed[r].jar ELSE Nobody

Register(k, r) ==
  /\ check[k].at = "free"
  /\ check' = [check EXCEPT ![k] = [Free EXCEPT !.at = "running", !.row = r, !.jar = JarOf(r)]]
  /\ UNCHANGED <<managed, grants, imp, reaper, hands, misses>>

(* An operator who has access asks for one, whatever is under way; or it is one of the  *)
(* patrol's, of an account listed as valid or unknown, whatever has become of it.     *)
Ask(k, r) == r \in Ids /\ Register(k, r)

(* scan_once: unknown, with no job queued or running however old, and none of the    *)
(* last hour.                                                                *)
Onboard(k, r) ==
  /\ r \in Ids /\ managed[r].status = "unknown"
  /\ ~\E x \in Slots : check[x].row = r
  /\ Register(k, r)

(* check_login: the platform's answer, or what the page looks like when there is     *)
(* none; whose page it is may be found out when somebody is logged in.            *)
Verdicts(jar) ==
  {[status |-> "refused", info |-> FALSE]}
  \cup IF jar = Nobody THEN {} ELSE [status : {"valid", "refused"}, info : BOOLEAN]

(* Of a job something remains, of a check by the patrol nothing. *)
EndCheck(k) == \E end \in {Free, [check[k] EXCEPT !.at = "done", !.jar = Nobody]} :
                 check' = [check EXCEPT ![k] = end]

(* _write_back: the verdict, and what was found out about the person. *)
WriteBack(k) ==
  LET c == check[k]
      r == c.row
  IN
  /\ c.at = "running" /\ EndCheck(k)
  /\ \E v \in Verdicts(c.jar) :
       IF r \notin Ids \/ (v.info /\ Taken(c.jar.who, r))
       THEN UNCHANGED managed
       ELSE managed' = [managed EXCEPT ![r].status = v.status,
                       ![r].user = IF v.info THEN c.jar.who ELSE @,
                       ![r].name = IF v.info THEN Nick[c.jar.who] ELSE @,
                       ![r].mixed = @ \/ (v.info /\ managed[r].jar # c.jar)]
  /\ UNCHANGED <<grants, imp, reaper, hands, misses>>

(* The browser does not start, or hangs until the watchdog: nothing is written. *)
CheckFails(k) ==
  /\ check[k].at = "running" /\ Fault /\ EndCheck(k)
  /\ UNCHANGED <<managed, grants, imp, reaper, hands>>

(* The child dies: a check may be run again. *)
CheckDies(k) ==
  /\ check[k].at = "running" /\ Fault
  /\ check' = [check EXCEPT ![k].jar = JarOf(check[k].row)]
  /\ UNCHANGED <<managed, grants, imp, reaper, hands>>

(***************************************************************************)
(* Operators and time                                                      *)
(***************************************************************************)

(* delete_account; what was said of the row, or is still to be said, is void. *)
Remove(r) ==
  /\ r \in Ids /\ hands < MaxHands /\ hands' = hands + 1
  /\ managed' = Without({r}) /\ grants' = {g \in grants : g[2] # r}
  /\ imp' = [p \in Imports |-> [imp[p] EXCEPT !.void = @ \/ imp[p].row = r]]
  /\ UNCHANGED <<check, reaper, misses>>

(* PATCH of the name, to one that is nobody's. *)
Rename(r) ==
  /\ r \in Ids /\ hands < MaxHands /\ hands' = hands + 1
  /\ managed[r].name # "own" /\ managed' = [managed EXCEPT ![r].name = "own"]
  /\ UNCHANGED <<grants, imp, check, reaper, misses>>

(* An hour and more: finished checks no longer keep others away, and rows are no     *)
(* longer of the last half hour; from then on the reaper may take one for old enough.  *)
Pass ==
  /\ managed' = [r \in Ids |-> [managed[r] EXCEPT !.fresh = FALSE]]
  /\ check' = [k \in Slots |-> IF check[k].at = "done" THEN Free ELSE check[k]]
  /\ UNCHANGED <<grants, imp, reaper, hands, misses>>

Importing(p) ==
  Match(p) \/ Update(p) \/ Insert(p) \/ Rematch(p) \/ Grant(p) \/ CleanSelect(p) \/ CleanDelete(p)
Onboards(r) == \E k \in Slots : Onboard(k, r)

AccountsNext ==
  \/ \E p \in Imports : Importing(p) \/ Dies(p)
  \/ \E k \in Slots : WriteBack(k) \/ CheckFails(k) \/ CheckDies(k)
  \/ \E k \in Slots : \E r \in Ids : Ask(k, r)
  \/ (\E r \in Ids : Onboards(r)) \/ ReapSelect \/ ReapDelete \/ Pass
  \/ \E r \in Ids : Remove(r) \/ Rename(r)

AccountsSpec == AccountsInit /\ [][AccountsNext]_accountVars

(***************************************************************************)
(* Properties                                                              *)
(***************************************************************************)

Row == [user : People \cup {Nobody}, name : Stamps \cup {Nick[w] : w \in People} \cup {"own"},
        jar : [who : People, by : Imports], fresh : BOOLEAN, mixed : BOOLEAN,
        status : {"unknown", "valid", "refused"}]
Request == [at : {"new", "update", "insert", "rematch", "grant", "clean", "delete", "done", "failed"},
            who : People \cup {Nobody}, knows : Known, stamp : Stamps \cup {Nobody}, row : Nat,
            seen : People \cup {Nobody}, gone : SUBSET Nat, void : BOOLEAN]
Check == [at : {"free", "running", "done"}, row : Nat,
          jar : [who : People, by : Imports] \cup {Nobody}]

AccountsTypeOK ==
  /\ Ids \subseteq Nat \ {0} /\ \A r \in Ids : managed[r] \in Row
  /\ grants \subseteq {Op[p] : p \in Imports} \X Nat
  /\ imp \in [Imports -> Request] /\ check \in [Slots -> Check]
  /\ reaper \subseteq Nat /\ hands \in 0..MaxHands /\ misses \in 0..MaxMisses

(* An account's cookies are its own person's, whoever imported, checked and cleaned   *)
(* at the same time, unless somebody wrote from what he had read before it changed,   *)
(* or an import that did not know the id went by a nickname; and who was told that his *)
(* login is kept has access to the account it is kept in.                         *)
OwnAccount ==
  /\ \A r \in Ids : managed[r].user \in {Nobody, managed[r].jar.who} \/ managed[r].mixed
  /\ \A p \in Imports :
       imp[p].at = "done" /\ ~imp[p].void /\ UserOf(p) # Nobody =>
         /\ imp[p].row \in Ids /\ <<Op[p], imp[p].row>> \in grants
         /\ managed[imp[p].row].user = imp[p].who \/ managed[imp[p].row].mixed

(* Only an operator deletes an account that has been recognised, though it may be       *)
(* recognised after it was selected; and an account keeps those who have access.     *)
RowsKept ==
  /\ \A r \in Ids : r \in DOMAIN managed' \/ IsNobody(r) \/ hands' # hands
  /\ \A g \in grants : g \in grants' \/ g[2] \notin DOMAIN managed'
AccountsKept == [][RowsKept]_accountVars
=============================================================================
