SPECIFICATION MCSpec
CONSTANTS
    Keys = {"push", "hf"}
    Kind <- MCKind
    AssetOf <- MCAssetOf
    BracketOf <- MCBracketOf
    Threshold <- MCThreshold
    Assets <- MCAssets
    Brackets <- MCBrackets
    RateValues <- MCRates
    Floor = 3
    Series = {"usdc", "eurc"}
    Limit = 2
    MaxRow = 5
INVARIANTS OneAlertPerEpisode LatchMeansTold PagesAreTheSeries
PROPERTIES FloorBetweenAlerts LatchFollowsMetric
