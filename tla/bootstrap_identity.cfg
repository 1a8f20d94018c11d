SPECIFICATION Spec
CONSTANTS
  x = x
  y = y
  None = None
  Protocols = {"aave", "morpho"}
  Pairs = {x}
  DeployBlock = 0
  Overlap = 0
  Batch = 0
  MaxAttempts = 2
  MaxBlock = 1
  MaxDepth = 1
  MaxReorgs = 0
  MaxCrashes = 1
INVARIANT IndexedIsTracked
CHECK_DEADLOCK FALSE
