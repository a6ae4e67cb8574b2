SPECIFICATION Spec
CONSTANTS
  Holders = {h1, h2}
  Self = self
  Unit7 = 100
  Unit12 = 100
  CFactor = 50
  TargetLoops = 2
  MaxLayers = 20
  DesignNotional = 10000
  Infinite = 1000000
  MinHf = 105
  OrangeHf = 108
  HfBuffer = 2
  Lockup = 200
  MaxUtilization = 95
  RebalanceCooldown = 1
  ReleverageCooldown = 2
  Amounts = {901, 4000}
  Targets = {100, 160}
  Others <- MCOthers
  RatesSeen <- MCRates
  Risks <- MCRisks
  Never = never
  MaxSteps = 5
SYMMETRY Symmetry
CHECK_DEADLOCK FALSE
INVARIANTS TypeOK LossesArePriced SharesAccounted ExitIsPossible
PROPERTIES OthersKeepValue SolventDepositKeepsValue DebtIsAddedByDesign UnwindRestores
