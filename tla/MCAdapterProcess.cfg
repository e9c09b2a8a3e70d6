\* The two media of duplex_earphone.c: 0 over the radio, 1 over USB.
SPECIFICATION Spec
CONSTANTS
    QMax = 10
    NotifyMax = 3
    Modes <- MCModes
    Sels <- MCSels
    ListNum = 2
    AlwaysRun = FALSE
INVARIANTS
    TypeOK
    MediaNeedsBoth
    OpenHasMode
    SilenceExplained
    SelectionHonoured
PROPERTIES
    RestartOnlyThroughClose
    SessionSpec
\* The application leaves its loop on POWEROFF and nothing runs any more.
CHECK_DEADLOCK FALSE
