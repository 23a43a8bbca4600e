CONSTANTS
  Requests = {r}
  Locals = {d}
  Found <- MCFound
  EarlyAnswers = TRUE
  MaxRestarts = 1
  MaxFaults = 1
  MaxClicks = 2
  MaxEvents = 2
SPECIFICATION Spec
INVARIANT HandedOverOnce
CHECK_DEADLOCK FALSE
