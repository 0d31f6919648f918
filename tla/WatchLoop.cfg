SPECIFICATION WatchFairSpec
CONSTANTS
  Vars <- MCVars
  Opaque = {b}
  MaxLimit = 2
  MaxChanges = 2
  a = a
  b = b
INVARIANTS
  WatchInv
PROPERTIES
  CountIsReached
  SignalEnds
CHECK_DEADLOCK FALSE
