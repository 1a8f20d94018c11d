SPECIFICATION Spec
CONSTANTS
  alice = alice
  bob = bob
  m1 = m1
  m2 = m2
  Borrowers = {alice}
  Assets = {m1, m2}
  Channels = {"borrow", "repay", "liquidate"}
  Channel <- MCChannel
  MayEnd = {}
  MaxEvents = 0
  MaxSledFailures = 0
  Concurrency = 2
  CmdCap = 1
INVARIANT TreeMatchesMap
CHECK_DEADLOCK FALSE
