SPECIFICATION Spec
CONSTANTS
  weth = weth
  wbtc = wbtc
  None = None
  Payloads = {1, 2}
  Assets <- MCAssets
  Profiles <- MCProfiles
  MaxQuote = 2
  MaxGas = 2
  PayloadCap = 1
  ConcurrencyLimit = 2
CHECK_DEADLOCK FALSE
INVARIANT RefreshHandled
