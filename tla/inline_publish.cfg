SPECIFICATION Spec
CONSTANTS
  acc = acc
  w1 = w1
  w2 = w2
  Null = Null
  Jobs = {1, 2}
  Accounts = {acc}
  Account <- OneAccount
  MinInterval = 1
  MaxInterval = 1
  RetryWaits = {1}
  MaxRetries = 0
  JobTimeout = 1
  DailyCap = 1
  MaxPatches = 1
  Editable = {1}
  Workers = {w1, w2}
  MaxQueue = 2
  MaxTroubles = 1
SYMMETRY Alike
INVARIANTS OneSessionPerAccount
PROPERTIES PostsCurrentText
CHECK_DEADLOCK FALSE
