SPECIFICATION MCSpec
CONSTANTS
    QMax = 6
    NotifyMax = 6
    HciMax = 1
    InputMax = 3
    AlwaysRun = FALSE
    Modes <- MCModes
    Sels <- MCSels
    ListNum = 1
    SofFills = {FALSE}
    Configs <- MCConfigs
INVARIANTS
    DongleTypeOK
    MediaFollowsWorld
    CopiesAgree
    MicServed
VIEW MCView
\* After POWEROFF the application takes no event any more.
CHECK_DEADLOCK FALSE
