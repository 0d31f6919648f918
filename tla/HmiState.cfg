SPECIFICATION FairSpec
CONSTANTS
  valve = valve
  level = level
  NoValue = NoValue
  TagSeq <- TwoTags
  Values = {0, 1}
  Viewers = {v1, v2}
  Early = {v1}
  Slow = {v2}
  Pages <- OnePage
  Puts = {w1}
  MaxChanges = 1
  MaxFails = 1
INVARIANTS
  Inv
PROPERTIES
  StateConverges
  ViewersConverge
CHECK_DEADLOCK FALSE
