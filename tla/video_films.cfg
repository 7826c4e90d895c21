SPECIFICATION MCSpec
CONSTANTS
  Notice = {3}
  CLOSING_LINE = "thanks"
  MaxJobs = 2
  Plans <- SomePlans
  Wording <- Literal
  MaxRetries = 1
  MaxMishaps = 1
  MaxRequests = 2
  Troubles = TRUE
INVARIANTS FilmsArePlanned RetriesAreLosses BoardSound
PROPERTIES EveryJobSettles
CHECK_DEADLOCK FALSE
