CONSTANTS
  Controllers = {c1, c2}
  Checkers = {k1, k2}
  Watchers = {w1}
SPECIFICATION Spec
INVARIANTS
  NoLostWakeup
PROPERTIES
  PauseLetsGo
  CancellationEndsWaits
