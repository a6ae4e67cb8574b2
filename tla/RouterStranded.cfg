SPECIFICATION RouterSpec
CONSTANTS
  Accounts = {router}
  Keeper = router
  NoAccount = NoAccount
  ApprovalLedgers = 1
  Scalar = 1
  RewardThreshold = 1
  Rates = {1}
  MaxLedger = 2
  MaxBlnd = 3
  MaxUnderlying = 5
  HarvestMin = 1
  Prices = {1, 2}
  Basis = 2
  Slippage = 0
  OwnBlnd = 0
  OwnAsset = 0
  Faults = {"timeout"}
  MaxFaults = 1
  MaxEmitted = 2
INVARIANTS NeverStranded
