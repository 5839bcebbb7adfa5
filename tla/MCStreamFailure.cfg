SPECIFICATION Spec
CONSTANTS
  CacheHeaderDepth = 1
  FetchWindow = 2
  StartNumber = 1
  MaxNumber = 4
  MaxImports = 2
  MaxFaults = 2
PROPERTY Reconnects
CHECK_DEADLOCK FALSE
