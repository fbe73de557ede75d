\* Two sessions of the page, one after the other.
CONSTANTS
    MaxSessions = 2
    MaxMessages = 1
    Capacity = 1
SPECIFICATION FairSpec
INVARIANTS OneSession
PROPERTIES CloseCompletes
CHECK_DEADLOCK FALSE
