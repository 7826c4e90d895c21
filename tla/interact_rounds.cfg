SPECIFICATION Spec
CONSTANTS
  None = None
  Actors = {a1}
  Notes = {1, 2, 3}
  Fresh = {2, 3}
  Owner <- FirstByActor
  Actions = {"like"}
  RoundLimit = 2
  MatrixLimit = 1
  DailyLimit = 1
  BreakerNotes = 1
  Quorum = 1
  Attempts = 1
  MaxHalves = 2
  MaxRounds = 2
  MaxFaults = 1
INVARIANTS CapKept EachNoteOnce
PROPERTIES NeverUndone
CHECK_DEADLOCK FALSE
