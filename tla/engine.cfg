SPECIFICATION FairSpec
CONSTANTS
  weth = weth
  wbtc = wbtc
  None = None
  Payloads = {1, 2, 3}
  Assets <- MCAssets
  Profiles <- MCProfiles
  MaxQuote = 2
  MaxGas = 1
  PayloadCap = 1
  ConcurrencyLimit = 2
INVARIANTS
  SentWasSimulated
  SentIsFresh
  SentPays
  PermitsConserved
PROPERTIES
  Dispatch
  EveryPayloadEnds
CHECK_DEADLOCK FALSE
