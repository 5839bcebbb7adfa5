SPECIFICATION Spec
CONSTANTS
  Modes <- MCModes
  MaxSent = 1
  MaxFaults = 2
INVARIANTS
  NoBroadcastMissed
  FailureReported
PROPERTIES
  BadConfigFatal
  FailureEndsProcess
CHECK_DEADLOCK FALSE
