SPECIFICATION FairSpec
CONSTANTS
  sup = sup
  child = child
  api = api
  del = del
  read = read
  Jobs = {del, read}
  Procs = {sup, child}
  Recoverer = sup
  Serial = {child}
  Idempotent = {read}
  Consumers <- MixedConsumers
  Supervised = TRUE
  StaleAge = 2
  HeartbeatsReliable = TRUE
  MaxCrashes = 1
  MaxFaults = 1
  NoTag = NoTag
INVARIANTS SoleExecution NonIdempotentOnce
PROPERTIES KeepsPromise EveryJobSettles
CHECK_DEADLOCK FALSE
