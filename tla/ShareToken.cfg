SPECIFICATION MCSpec
CONSTANTS
  Accounts = {a1, a2, a3}
  Spenders = {a3}
  Strategy = a3
  LegacyShares = {0, 2}
  MaxAmount = 7
  Amounts = {2, 5}
  Deadlines = {1}
  MaxLedger = 2
  MaxSteps = 5
SYMMETRY Symmetry
CHECK_DEADLOCK FALSE
INVARIANTS TransfersHaveRoom ApprovalsBind EachShareOnce
PROPERTIES ConsentIsNeeded
