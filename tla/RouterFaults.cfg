SPECIFICATION RouterSpec
CONSTANTS
  Accounts = {router}
  Keeper = router
  NoAccount = NoAccount
  ApprovalLedgers = 1
  Scalar = 1
  RewardThreshold = 1
  Rates = {1, 2}
  MaxLedger = 3
  MaxBlnd = 4
  MaxUnderlying = 8
  HarvestMin = 2
  Prices = {1, 2}
  Basis = 2
  Slippage = 1
  OwnBlnd = 0
  OwnAsset = 1
  Faults = {"timeout", "crash", "quote", "market"}
  MaxFaults = 2
  MaxEmitted = 3
INVARIANTS ReportedIsLevered KeeperKeepsItsOwn
