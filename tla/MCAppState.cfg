CONSTANTS
  Calls = {c1, c2}
  Contents <- MCContents
  Originals <- MCOriginals
  MaxDownloads = 4
  MaxLength = 4
  NoticeLength = 1
  NoFile = NoFile
  Damaged = Damaged
  NoCall = NoCall
SPECIFICATION Spec
INVARIANTS
  QueueStaysUsable
PROPERTIES
  KeepsPromise
  EveryCallEnds
