SPECIFICATION Spec
CONSTANTS
  Capacity = 2
  NoBlock = NoBlock
  Blocks = {b1, b2}
  StallThreshold = 3
  ReorgDepthThreshold = 2
  MaxDuration = 10
  MaxDepth = 2
  MaxDelay = 1
INVARIANTS
  TypeOK
  StallIsReal
PROPERTIES
  ReportsConsistent
  RecoveryMatchesStall
  SilenceIsReported
CHECK_DEADLOCK FALSE
