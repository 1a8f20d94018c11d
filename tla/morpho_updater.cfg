SPECIFICATION FairSpec
CONSTANTS
  alice = alice
  bob = bob
  m1 = m1
  m2 = m2
  Borrowers = {alice}
  Assets = {m1, m2}
  Channels = {"borrow", "repay", "liquidate"}
  Channel <- MCChannel
  MayEnd = {"borrow"}
  MaxEvents = 3
  MaxSledFailures = 1
  Concurrency = 2
  CmdCap = 1
INVARIANTS
  NoDebtorLost
  TrackedOnDisk
PROPERTIES
  StalePairsPruned
  BorrowsTracked
CHECK_DEADLOCK FALSE
