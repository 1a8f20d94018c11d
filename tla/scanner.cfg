SPECIFICATION FairSpec
CONSTANTS
  aave = aave
  Readers = {aave}
  BusCap = 1
  MaxBlock = 4
  MaxReorgs = 1
  MaxDepth = 1
  Interval = 2
  MaxCandidates = 2
  PayloadCap = 1
INVARIANTS
  OneScan
  StopsOnlyOnShutdown
PROPERTIES
  ScansAreSpaced
  ScansAreRecent
  ScansEnd
  ShutdownStops
CHECK_DEADLOCK FALSE
