SPECIFICATION FairClient
CONSTANTS
    QMax = 8
    Modes <- MCModes
    AlwaysRun = FALSE
    Configs <- MCConfigs
    HciMax = 1
INVARIANTS
    HandleAgrees
    OneAttempt
    KeepsLooking
PROPERTIES
    Reconnects
