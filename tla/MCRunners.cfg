CONSTANTS
  Media = Media
  Torrent = Torrent
  Nobody = Nobody
  MaxStarts = 2
  Magnets <- MCMagnets
  MaxTrackers = 3
  Addresses = {a1, a2, local}
  Public = {a1, a2}
  MaxPeers = 1
  MaxTries = 2
SPECIFICATION Spec
INVARIANTS
  OneWorks
  OnlyPublicAddresses
PROPERTIES
  FirstAnswerEnds
  CancelledRunsEnd
CHECK_DEADLOCK FALSE
