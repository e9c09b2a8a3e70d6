SPECIFICATION ClientSpec
CONSTANTS
    QMax = 8
    Modes <- MCModes
    AlwaysRun = FALSE
    Configs <- MCLiteEmf
    HciMax = 1
PROPERTIES
    OffMeansOff
