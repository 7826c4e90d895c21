SPECIFICATION FairSpec
CONSTANTS
  acc = acc
  Null = Null
  Jobs = {1, 2}
  Accounts = {acc}
  Account <- OneAccount
  MinInterval = 1
  MaxInterval = 1
  RetryWaits = {1}
  MaxRetries = 0
  JobTimeout = 1
  DailyCap = 1
  MaxPatches = 0
  Editable = {1}
  MaxBatch = 1
  MaxProcs = 1
  MaxKills = 1
  MaxFaults = 1
PROPERTIES KeepsPublishPromise CanceledStays EveryJobEnds
CHECK_DEADLOCK FALSE
