SPECIFICATION FairSpec
CONSTANTS
    MaxLen = 3
    BufSize = 2
    LineBuf = 4
    RecvSize = 2
    Prefix = 1
    Window = 3
    RWindow = 5
    Counts = {9}
    Kills = {"client", "server"}
    MaxSize = 6
    MaxNuls = 1
    Inputs <- AllTexts
INVARIANTS
    StoresInBounds
    BytesInOrder
    RecvInOrder
    WholeReply
    MutualWaitOnlyOnPartialLine
PROPERTIES
    EndNoticed
CHECK_DEADLOCK FALSE
