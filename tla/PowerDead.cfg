SPECIFICATION FairPower
CONSTANTS
    MsgMax = 5
    Filter <- MCFilter
    LowUnits = 1
    WarnUnits = 3
    NormalUnits = 1
    UnitMax = 2
    MoveMax = 3
PROPERTY LowPowerShutsDown
CHECK_DEADLOCK FALSE
