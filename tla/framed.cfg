SPECIFICATION FairSpec
CONSTANTS
    MaxLen = 4
    BufSize = 2
    LineBuf = 6
    RecvSize = 2
    Prefix = 1
    Window = 3
    RWindow = 4
    Counts = {9}
    Kills = {}
    MaxSize = 6
    MaxNuls = 0
    Inputs <- FramedTexts
INVARIANTS
    InStep
PROPERTIES
    Converses
    Termination
