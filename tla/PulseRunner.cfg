SPECIFICATION FairSpec
CONSTANTS
  Names <- MCNames
  Inputs <- MCInputs
  Exprs <- MCExprs
  Code <- Script
  Outcomes <- MCOutcomes
INVARIANTS
  Inv
  OnceContract
  ChangesAreTheDifference
PROPERTIES
  PulseContract
  PulseEnds
CHECK_DEADLOCK FALSE
