SPECIFICATION MCSpec
CONSTANTS
  acc = acc
  Null = Null
  Jobs = {1, 2}
  Accounts = {acc}
  Account <- OneAccount
  MinInterval = 2
  MaxInterval = 2
  RetryWaits = {1}
  MaxRetries = 1
  JobTimeout = 1
  DailyCap = 1
  MaxPatches = 0
  Editable = {}
  MaxBatch = 2
  MaxProcs = 1
  MaxKills = 1
  MaxFaults = 1
  People <- TwoPeople
  Nick <- OneNick
  Imports <- TwoImports
  Login <- Logins
  Op <- OneOperator
  Stamp <- TwoStamps
  Slots <- OneSlot
  MaxHands = 1
  MaxMisses = 1
  Nobody = Nobody
INVARIANTS HeldWhilePublishing DailyCapKept OwnAccount
PROPERTIES ClaimsSpaced AccountsKept
CHECK_DEADLOCK FALSE
