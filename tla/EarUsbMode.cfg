SPECIFICATION EarSpec
CONSTANTS
    QMax = 5
    NotifyMax = 4
    InputMax = 1
    AlwaysRun = FALSE
    Modes <- MCModes
    Sels <- MCSels
    ListNum = 2
    Builds = {TRUE}
    Vols = {0, 1}
INVARIANTS
    UsbModePlays
\* The earphone may wait for its peer for ever, and stops after POWEROFF.
CHECK_DEADLOCK FALSE
