SPECIFICATION MCSpec
CONSTANTS
  weth = weth
  usdc = usdc
  Wad = 10
  PriceScale = 3
  Cursor = 3
  MaxIncentive = 12
  VirtualAssets = 1
  VirtualShares = 2
  Lltv = 7
  MaxAmount = 6
  MaxPrice = 8
  Reserves = {weth, usdc}
  NoReserve = NoReserve
  Mapped = {weth}
  Unit <- MCUnit
  Bps = 10
  HfOne = 10
  CloseThreshold = 5
  HealthFactors = {4, 5, 10}
  Debts = {1, 3}
  Balances = {1, 4}
  AssetPrices = {0, 2, 3}
  Bonuses = {9, 11, 20}
  Callers = {t1, t2}
  TokenPairs = {p1}
  Routes = {r1, r2}
  NoRoute = NoRoute
  SwapAmounts = {600, 6600}
  MaxOut = 2
  Ttl = 2
  Simulations = {t1, t2}
  Accounts = {weth}
  Spacing = 3
  MaxHead = 6
  BusCap = 1
  MaxBlock = 4
  MaxReorgs = 0
  MaxDepth = 1
  PruneInterval = 2
  CommandCap = 1
INVARIANTS
  TypesOK
  Executable
  FlashShortByOne
  AaveExecutable
  RoutesAreRecent
  FailsOnlyWithoutRoutes
  SnapshotsBounded
  ChannelsStayOpen
PROPERTIES
  NothingOverlooked
  BestCollateral
  PrunesArrive
  ShutdownCompletes
CHECK_DEADLOCK FALSE
