SPECIFICATION FairSpec
CONSTANTS
  Null = Null
  Jobs = {1, 2, 3, 4}
  Accounts = {1, 2}
  Account <- TwoAccounts
  Operated = {2}
  Publishes = {1}
  Redone = {1, 4}
  MaxBatch = 1
  MaxProcs = 1
  SessionCap = 1
  OperatorCap = 1
  Window = 1
  MaxKills = 1
  MaxFaults = 1
INVARIANTS SessionsNearCap
PROPERTIES NotOvertakenTwice QueueDrains
CHECK_DEADLOCK FALSE
