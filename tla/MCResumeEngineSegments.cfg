CONSTANTS
  Urls <- OneUrl
  Requests <- OneRequest
  Versions = {1, 2, 3}
  UrlOf <- OneUrlOf
  Size <- SegmentSize
  Told <- Always
  Ranged <- Always
  Curt <- Never
  Etag <- SegmentEtag
  Modified <- MCModified
  MaxSegments = 3
  MinSegment = 1
  MaxAttempts = 2
  VersionsReturn = FALSE
  MaxFaults = 3
  MaxChanges = 3
  Unknown = Unknown
  NoTag = NoTag
  NoFile = NoFile
  NoState = NoState
  Foreign = Foreign
SPECIFICATION Spec
INVARIANTS
  TypeOK
  PublishedIsOneVersion
  SegmentsResumeOwnBytes
PROPERTIES
  EventuallyPublished
