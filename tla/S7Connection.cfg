SPECIFICATION FairSpec
CONSTANTS
  Sent <- AnyPacket
  MaxPackets = 4
INVARIANTS
  Inv
PROPERTIES
  RequestsAnswered
CHECK_DEADLOCK FALSE
