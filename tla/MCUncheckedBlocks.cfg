SPECIFICATION Spec
CONSTANTS
  CacheHeaderDepth = 1
  FetchWindow = 2
  StartNumber = 1
  MaxNumber = 4
  MaxImports = 3
  MaxFaults = 1
INVARIANT AllBlocksChecked
CHECK_DEADLOCK FALSE
