SPECIFICATION Spec
CONSTANTS
  CacheHeaderDepth = 1
  FetchWindow = 2
  StartNumber = 1
  MaxNumber = 4
  MaxImports = 3
  MaxFaults = 0
INVARIANT SurvivesReorgs
CHECK_DEADLOCK FALSE
