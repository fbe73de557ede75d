SPECIFICATION Spec
CONSTANTS
    Low = 2
    High = 5
    Reserved = {}
    Varied = {3, 4}
    Tables <- SomeTables
    BhashSize = 2
    Binders = {b1}
    Connectors = {}
    U32 = 16
    PortOffsets = {0}
    MaxChanges = 0
    MaxSearches = 2
INVARIANTS
    InRange
\* The caller may call no more.
CHECK_DEADLOCK FALSE
