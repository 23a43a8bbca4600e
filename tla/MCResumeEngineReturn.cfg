CONSTANTS
  Urls <- OneUrl
  Requests <- OneRequest
  Versions = {1, 2}
  UrlOf <- OneUrlOf
  Size <- ShortSize
  Told <- Always
  Ranged <- Always
  Curt <- Never
  Etag <- SegmentEtag
  Modified <- MCModified
  MaxSegments = 1
  MinSegment = 1
  MaxAttempts = 2
  VersionsReturn = TRUE
  MaxFaults = 4
  MaxChanges = 3
  Unknown = Unknown
  NoTag = NoTag
  NoFile = NoFile
  NoState = NoState
  Foreign = Foreign
SPECIFICATION Spec
INVARIANT
  PublishedIsOneVersion
