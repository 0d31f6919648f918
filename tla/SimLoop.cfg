SPECIFICATION SimFairSpec
CONSTANTS
  Names <- MCNames
  Inputs <- MCNames
  Exprs <- MCExprs
  Code <- LampAndReady
  Outcomes <- MCOutcomes
  Tags <- MCTags
  Writable <- MCWritable
  Field = {"Start", "Door"}
  ByteOf <- MCByteOf
  Reconnect = TRUE
  Signals = TRUE
INVARIANTS
  SimInv
PROPERTIES
  RunsTheRunner
  SignalStops
  PulseReturnsFalse
CHECK_DEADLOCK FALSE
