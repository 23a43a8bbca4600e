CONSTANTS
  Ids = {a, b}
  Tickets = {1, 2}
  Schedules = {1}
  Paths = {"file"}
  KeysOf <- MCKeysOf
  MaxTime = 1
  MaxBacks = 0
  NoEntry = NoEntry
  NoTicket = NoTicket
  NoTime = NoTime
  NoPath = NoPath
  Absent = Absent
SPECIFICATION Spec
INVARIANTS
  NobodyWaitsForNothing
PROPERTIES
  TurnsComeRound
CHECK_DEADLOCK FALSE
