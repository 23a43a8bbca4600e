CONSTANTS
  Ids = {a, b}
  Tickets = {1, 2}
  Schedules = {1}
  Paths = {"file", "file.quiver-part"}
  KeysOf <- MCKeysOf
  MaxTime = 1
  MaxBacks = 1
  NoEntry = NoEntry
  NoTicket = NoTicket
  NoTime = NoTime
  NoPath = NoPath
  Absent = Absent
SPECIFICATION Spec
INVARIANTS
  PlaceKept
  CommandOwnsRegistration
  NoSharedFiles
  UpdateIsAlone
PROPERTIES
  OldestDueFirst
  GivesFairTurns
SYMMETRY Symmetric
CHECK_DEADLOCK FALSE
