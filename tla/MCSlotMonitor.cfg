SPECIFICATION Spec
CONSTANTS
  Capacity = 2
  SlotTimeout = 2
  PerSlotThreshold = 1
  AvgSlotThreshold = 1
  WindowSize = 3
  MaxSlot = 4
  MaxTime = 8
  MaxDelay = 1
INVARIANTS
  TypeOK
  WindowInOrder
  WindowTimeComplete
  StallMeansQuiet
  StallIsReal
  SilenceReportedInTime
  AverageNotOverstated
PROPERTY
  ReportsConsistent
CHECK_DEADLOCK FALSE
