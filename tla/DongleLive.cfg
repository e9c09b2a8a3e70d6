SPECIFICATION LiveSpec
CONSTANTS
    QMax = 6
    NotifyMax = 6
    HciMax = 1
    InputMax = 3
    AlwaysRun = FALSE
    Modes <- MCModes
    Sels <- MCSels
    ListNum = 1
    SofFills = {FALSE}
    Configs <- MCPlain
PROPERTIES
    SoundComesUp SoundGoesDown
\* After POWEROFF the application takes no event any more.
CHECK_DEADLOCK FALSE
