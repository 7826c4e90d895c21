SPECIFICATION FairSpec
CONSTANTS
  Null = Null
  Clips = {1, 2}
  Requests = {1, 2, 3}
  Shots <- OneBatch
  Batches = {1}
  Budget <- Enough
  MaxKills = 1
  MaxFaults = 1
INVARIANTS PaidOncePerRevival FormsHold
PROPERTIES EveryClipSettles
CHECK_DEADLOCK FALSE
