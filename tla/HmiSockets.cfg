SPECIFICATION FairSpec
CONSTANTS
  c1 = c1
  c2 = c2
  level = level
  nobody = nobody
  Clients = {c1, c2}
  Tags = {level}
  Unknown = {nobody}
  Analog = {level}
  CanWrite = {c1, c2}
  ReadOnly = FALSE
  Slow = {c2}
  QueueSize = 2
  MaxSets <- TwoOfOne
INVARIANTS
  Inv
  OkIsWritten
PROPERTIES
  NotOverwrittenByOlder
  SetsAnswered
CHECK_DEADLOCK FALSE
