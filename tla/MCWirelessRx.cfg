SPECIFICATION FairRx
CONSTANTS
    Cap = 2
    Limit = 2
    Packets <- MCPackets
    HistMax = 3
INVARIANTS
    RecTypeOK
    WriteFindsBuffer
    SleeperIsAwaited
PROPERTIES
    RxImplementsSink
    FramesAreTaken
