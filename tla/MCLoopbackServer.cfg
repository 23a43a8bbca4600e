CONSTANTS
  Requests = {r1, r2}
  MaxScanned = 2
  MaxResults = 1
  QueueLimit = 1
  MaxLosses = 1
  Handshake = Handshake
  NoRequest = NoRequest
SPECIFICATION Spec
INVARIANTS
  
  ListedIsWhole
PROPERTIES
  NeverBeyondLimit
  
