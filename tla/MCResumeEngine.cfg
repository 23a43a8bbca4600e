CONSTANTS
  Urls <- MCUrls
  Requests <- MCRequests
  Versions = {1, 2, 3, 4}
  UrlOf <- MCUrlOf
  Size <- MCSize
  Told <- MCTold
  Ranged <- MCRanged
  Curt <- MCCurt
  Etag <- MCEtag
  Modified <- MCModified
  MaxSegments = 1
  MinSegment = 1
  MaxAttempts = 2
  VersionsReturn = FALSE
  MaxFaults = 4
  MaxChanges = 3
  Unknown = Unknown
  NoTag = NoTag
  NoFile = NoFile
  NoState = NoState
  Foreign = Foreign
SPECIFICATION Spec
INVARIANTS
  PublishedIsOneVersion
  ResumesOwnBytes
PROPERTIES
  NeverClobbers
  PublishedIsExpected
