SPECIFICATION Spec
CONSTANTS
  Float32 <- MCFloat32
  Reparsed <- MCReparsed
  Truths <- MCTruths
  HandWritten <- MCHandWritten
  Externals <- MCExternals
  Additions <- MCAdditions
  Changes <- MCChanges
  Keys <- MCKeys
  DBFlags <- MCDBFlags
  Sizes <- MCSizes
  Fills = {170}
  Pads = {0, 4}
  Scripts <- MCScripts
  MaxTags = 3
  MaxCommands = 3
INVARIANTS
  Inv
  PackedTagsStand
  RepackIsStable
  CodecsAgree
  CompiledNeverFails
CHECK_DEADLOCK FALSE
