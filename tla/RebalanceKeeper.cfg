SPECIFICATION FairSpec
CONSTANTS
    Vaults <- MCVaults
    Unreadable = {"broken"}
    OldVaults = {}
    OrangeHf = 1
    DesignHf = 0
    HfBuffer = 1
    FallbackOrange = 0
    Top = 3
INVARIANT NoPingPong
PROPERTY VaultsAreTended
