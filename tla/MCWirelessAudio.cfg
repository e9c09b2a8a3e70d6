SPECIFICATION AudioSpec
CONSTANTS
    SeqMod = 3
    Frames = 3
    Cmds = 2
    AirMax = 1
INVARIANTS
    PlayedInOrder
    ObeyedOnce
