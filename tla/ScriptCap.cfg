SPECIFICATION FrontSpec
CONSTANTS
    MinHF = 10100
    Pools = {"fixed", "yield"}
    Accounts = {"ana", "bob"}
    Market <- MCMarket
    Inflow = 500
    Start <- MCStart
    Purse <- MCPurse
    Flows = {1, 2}
    Loads = {1}
    Amounts = {100}
    Leverages = {10, 20}
    Frozen = {}
    Budgets <- MCBudgets
    Vaults = {"usdc", "xlm"}
    Holders = {"ana"}
    Shares = {0, 1, 2}
    Details = {1, 2}
    Deals = {1}
    Chances <- MCChances
    Fallback = {"XLM", "USDC", "EURC"}
    Rated = {"XLM", "USDC", "AQUA"}
    Sizes = {0, 1}
    Sessions = {1, 2, 3}
    Leeways <- MCLeeways
    Reserves <- MCReserves
    Held <- MCHeld
    CFactors = {80, 10}
    Initial = 1000
    NumLoops = 2
    HfThreshold = 10500
    Interest = {250}
    Accruals = 2
    Outages = 2
    Assets <- MCAssets
    Risks <- MCRisks
    Launches = 2
    Shifts = 1
    Mishaps = 1
INVARIANT RefusedOnlyAboveCap
CHECK_DEADLOCK FALSE
