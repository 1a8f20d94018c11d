SPECIFICATION FairSpec
CONSTANTS
  x = x
  y = y
  None = None
  Protocols = {"aave", "morpho"}
  Pairs = {x}
  DeployBlock = 1
  Overlap = 0
  Batch = 0
  MaxAttempts = 2
  MaxBlock = 2
  MaxDepth = 1
  MaxReorgs = 1
  MaxCrashes = 1
INVARIANTS
  Complete
  ResumesSafely
PROPERTY RunsEnd
CHECK_DEADLOCK FALSE
