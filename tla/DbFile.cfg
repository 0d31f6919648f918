SPECIFICATION FairSpec
CONSTANTS
  Handlers <- MCHandlersMixed
  DBs <- MCDBs
  Size <- MCSize
  Bit <- MCBit
  Request <- Mixed
INVARIANTS
  Inv
  ReadSeesAcked
PROPERTIES
  StoreContract
  EveryRequestAnswered
CHECK_DEADLOCK FALSE
