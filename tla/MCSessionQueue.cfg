CONSTANTS
  Requests = {r}
  Locals = {d}
  Found <- MCFound
  EarlyAnswers = FALSE
  MaxRestarts = 1
  MaxFaults = 1
  MaxClicks = 2
  MaxEvents = 2
SPECIFICATION Spec
INVARIANTS
  NothingIsForgotten
  HandedOverOnce
  CancellationArrives
  ComesToRestSaved
  SnapshotsAreValid
PROPERTIES
  RecoveredComeFirst
CHECK_DEADLOCK FALSE
