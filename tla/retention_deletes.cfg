CONSTANTS
  Jobs <- MCJobs
  Title <- MCTitle
  OtherTitle <- MCOther
  Untitled = none
  j1 = j1
  j2 = j2
  Nobody = Nobody
  t1 = t1
  none = none
  Troubles = FALSE
  LastDay = 3
  Notes <- ThreeNotes
  TitleOf <- TwoTitles
  Ceilings <- TwoCeilings
  Scores <- TwoScores
  DailyMax = 1
  GraceDays = 1
  LastDate = 2
  MaxChanges = 1
  MaxDeaths = 1
  Null = none
  Posted <- TwoNotes
  Named <- OneTitle
  CardTitles <- ThreeTitles
  MaxTasks = 2
  MaxTurns = 1
  Void = none
  Narrow = 0
  Wide = 1
  MaxNotes = 3
  MaxUndated = 1
SPECIFICATION RoundsSpec
INVARIANT DeletionsSucceed
CHECK_DEADLOCK FALSE
