SPECIFICATION RecSpec
CONSTANTS
    Cap = 3
    Limit = 2
    Packets <- MCPackets
INVARIANT OnlyAudioIsDecoded
