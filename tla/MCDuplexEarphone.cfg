SPECIFICATION EarSpec
CONSTANTS
    QMax = 5
    NotifyMax = 4
    InputMax = 3
    AlwaysRun = FALSE
    Modes <- MCModes
    Sels <- MCSels
    ListNum = 2
    Builds = {TRUE, FALSE}
    Vols = {0, 1}
INVARIANTS
    EarTypeOK
    HandleAgrees
    ProfileAgrees
    AdvertisesAsAsked
    ForgottenLinkEnds
    SoundFollowsLink
    VolumeKept
\* The earphone may wait for its peer for ever, and stops after POWEROFF.
CHECK_DEADLOCK FALSE
