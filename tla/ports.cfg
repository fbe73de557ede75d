\* A bind(), two connect()s and another socket that changes the table once; any three
\* searches, one after the other or at once.  2^32 is no multiple of the range's length.
SPECIFICATION FairSpec
CONSTANTS
    Low = 2
    High = 5
    Reserved = {3}
    Varied = {4}
    Tables <- SomeTables
    BhashSize = 2
    Binders = {b1}
    Connectors = {c1, c2}
    U32 = 18
    PortOffsets = {0, 15}
    MaxChanges = 1
    MaxSearches = 3
INVARIANTS
    LowParityLast
PROPERTIES
    NextBehind
    SearchEnds
\* The callers may call no more.
CHECK_DEADLOCK FALSE
