SPECIFICATION LiveRouterSpec
CONSTANTS
  Accounts = {router}
  Keeper = router
  NoAccount = NoAccount
  ApprovalLedgers = 1
  Scalar = 1
  RewardThreshold = 1
  Rates = {1}
  MaxLedger = 9
  MaxBlnd = 4
  MaxUnderlying = 8
  HarvestMin = 1
  Prices = {1, 2}
  Basis = 2
  Slippage = 0
  OwnBlnd = 1
  OwnAsset = 1
  Faults = {"timeout", "crash", "quote", "market", "late"}
  MaxFaults = 2
  MaxEmitted = 3
INVARIANTS LossOnlyByFault
PROPERTIES BlndIsSold
