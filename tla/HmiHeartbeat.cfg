SPECIFICATION HmiFairSpec
CONSTANTS
  HbTags = 2
  Settings <- MCSettings
  MaxStarts = 2
  MaxOutages = 1
INVARIANTS
  HmiInv
PROPERTIES
  StopEndsLoops
  
CHECK_DEADLOCK FALSE
