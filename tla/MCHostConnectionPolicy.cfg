CONSTANTS
  Tasks = {t1, t2, t3}
  Origins = {o1}
  States = {s1, s2, s3}
  Caps = {1, 2}
  MaxCalls = 1
  NoState = NoState
  NoTask = NoTask
SPECIFICATION Spec
INVARIANTS
  OneStatePerOrigin
  CapRespected
  NoStrandedWaiter
PROPERTIES
  AcquireEnds
CHECK_DEADLOCK FALSE
