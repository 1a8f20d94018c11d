SPECIFICATION Spec
CONSTANTS
  wpol = wpol
  usdc = usdc
  mkr = mkr
  NoAsset = NoAsset
  Assets = {wpol, usdc}
  Collaterals = {usdc}
  Wpol = wpol
  Fee = 1
  Slots = {1}
  MaxProfit = 1
  MaxLiqs = 1
  MaxAgain = 1
  MaxFaults = 1
  MaxGas = 1
  Listed = {wpol}
  Broken = {}
  Threshold = 1
  RefuelTo = 1
  MaxRestarts = 1
PROPERTY
  RecordedIsDiscovered
CHECK_DEADLOCK FALSE
