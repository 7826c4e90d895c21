----------------------------- MODULE MCAccounts -----------------------------
(* A behaviour is one of the children that publish the jobs of one account, or one of  *)
(* the rows of the accounts themselves, with two imports, of one person or of two, and  *)
(* one trouble: an operator's change, or a fault.                                   *)
EXTENDS MCPublishWorker, Accounts

TwoPeople == {"x", "y"}
OneNick == [w \in TwoPeople |-> "n"]
TwoImports == 1..2
Logins == <<{"x"}, TwoPeople>>
OneOperator == <<"o", "o">>
TwoStamps == <<"s1", "s2">>
OneSlot == {1}

(* Only the rows of the accounts have had, or have yet to have, their one trouble. *)
Manages == hands + misses > 0
OneTrouble ==
  /\ managed = <<>> /\ grants = {} /\ reaper = {} /\ hands \in 0..1 /\ misses = 1 - hands
  /\ imp = [p \in Imports |-> Unused] /\ check = [k \in Slots |-> Free]

MCInit == Init /\ (OneTrouble \/ AccountsInit)
MCNext ==
  \/ ~Manages /\ Next /\ UNCHANGED accountVars
  \/ Manages /\ AccountsNext /\ UNCHANGED vars
MCSpec == MCInit /\ [][MCNext]_<<vars, accountVars>>
=============================================================================
