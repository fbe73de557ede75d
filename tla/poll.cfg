\* Two readers, one of them with a bad buffer; behaviours in which only one
\* ever opens the device are among them.
SPECIFICATION FairSpec
CONSTANTS
    Readers = {r1, r2}
    BadBuffers = {r2}
    Radix = 2
    Prefix = 1
    MaxCounter = 3
INVARIANTS
    NoEmptyRead
    LostOnlyIfStraddled
    InOrder
    AtMostTwice
PROPERTIES
    SleeperWoken
CHECK_DEADLOCK FALSE
