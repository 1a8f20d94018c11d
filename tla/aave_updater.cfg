SPECIFICATION FairSpec
CONSTANTS
  Borrowers = {alice}
  Assets = {weth, wbtc}
  Channels = {"pool"}
  Channel <- MCChannel
  MayEnd = {"pool"}
  MaxEvents = 3
  MaxSledFailures = 1
  Concurrency = 2
  CmdCap = 1
INVARIANTS
  NoDebtorLost
  TreeMatchesMap
PROPERTY StaleBorrowersPruned
CHECK_DEADLOCK FALSE
