SPECIFICATION MCSpec
CONSTANTS
  Null = Null
  OldDrafts <- SomeDrafts
  ReceiptsLast = TRUE
  MaxTries = 2
  MaxFaults = 1
  TopicNames = {"t1"}
  Wanted <- SomeWanted
  None = None
  Names <- TheNames
  Within <- OneWithin
  Topics = {"t1", "t2"}
  MaxTopics = 2
  Images = 3
  Levels = {"public", "private"}
  Asked <- Mix
  Starts <- Used
  Shelf <- Shelved
  RoundLimit = 1
  MaxAsks = 2
  MaxAsked = 2
  MaxUpsets = 1
  Lists <- FewLists
INVARIANTS OneNotePerSession OwnNote VerdictTrue WearsWhatIsTold EditsTrue ClaimsHold ShelfTrue
CHECK_DEADLOCK FALSE
