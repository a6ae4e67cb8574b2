SPECIFICATION OrderlySpec
CONSTANTS
  Accounts = {a, b}
  NoAccount = NoAccount
  ApprovalLedgers = 1
  Scalar = 2
  RewardThreshold = 2
  Rates = {1, 3}
  MaxLedger = 2
  MaxBlnd = 3
  MaxUnderlying = 3
SYMMETRY Symmetry
INVARIANTS PullsAreFloored
PROPERTIES SaleKept
