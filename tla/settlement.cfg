SPECIFICATION FairSpec
CONSTANTS
  wpol = wpol
  usdc = usdc
  mkr = mkr
  NoAsset = NoAsset
  Assets = {wpol, usdc, mkr}
  Collaterals = {usdc}
  Wpol = wpol
  Fee = 1
  Slots = {1, 2}
  MaxProfit = 1
  MaxLiqs = 1
  MaxAgain = 1
  MaxFaults = 1
  MaxGas = 1
  Listed = {wpol, usdc, mkr}
  Broken = {mkr}
  Threshold = 2
  RefuelTo = 3
  MaxRestarts = 1
INVARIANTS
  Covered
  RecordedOnce
PROPERTIES
  WpolIsForGas
  ProfitsPaid
  GasRestored
CHECK_DEADLOCK FALSE
