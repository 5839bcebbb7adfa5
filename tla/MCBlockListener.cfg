SPECIFICATION Spec
CONSTANTS
  CacheHeaderDepth = 2
  FetchWindow = 2
  StartNumber = 0
  MaxNumber = 4
  MaxImports = 4
  MaxFaults = 1
INVARIANTS
  TypeOK
  CacheIndexed
  FirstSessionComplete
PROPERTIES
  NoAncestorLeft
  FollowsChain
  CatchesUp
CHECK_DEADLOCK FALSE
