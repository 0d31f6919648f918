SPECIFICATION FairSpec
CONSTANTS
  Options <- AllFlags
  Count = 2
  Timeout = 70
  DialTimes = {0, 2}
INVARIANTS
  Inv
PROPERTIES
  Alternates
  BeatsOrGivesUp
  CancelEnds
CHECK_DEADLOCK FALSE
