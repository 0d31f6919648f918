SPECIFICATION FairSpec
CONSTANTS
  Uris = {a, b}
  MaxEdits = 3
INVARIANTS
  Inv
  QuietIsCurrent
PROPERTIES
  EveryTextPublished
CHECK_DEADLOCK FALSE
