SPECIFICATION SystemSpec
CONSTANTS
  CacheHeaderDepth = 1
  FetchWindow = 1
  StartNumber = 1
  MaxNumber = 4
  MaxImports = 3
  MaxFaults = 1
  Capacity = 2
  MaxBalance = 1
  MaxMantissa = 1
INVARIANTS
  OncePerEnactment
  ParentsFirst
  ReorgAddsUp
PROPERTIES
  BestChainChecked
CHECK_DEADLOCK FALSE
