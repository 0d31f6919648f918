SPECIFICATION Spec
CONSTANTS
  Handlers <- MCHandlersSiblings
  DBs <- MCDBs
  Size <- MCSize
  Bit <- MCBit
  Request <- Siblings
PROPERTIES
  SiblingBitsPreserved
CHECK_DEADLOCK FALSE
