SPECIFICATION FairPower
CONSTANTS
    MsgMax = 5
    Filter <- MCFilter
    LowUnits = 1
    WarnUnits = 3
    NormalUnits = 1
    UnitMax = 2
    MoveMax = 3
INVARIANTS
    PowTypeOK
    ChargerFollowsPlug
PROPERTIES
    OffStillCharges
    PlugCharges
    LowPowersOff
\* An earphone that is switched off may stay so.
CHECK_DEADLOCK FALSE
