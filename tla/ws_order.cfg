\* One session with several messages under way.
CONSTANTS
    MaxSessions = 1
    MaxMessages = 3
    Capacity = 2
SPECIFICATION FairSpec
INVARIANTS EchoInOrder
PROPERTIES HandlerEnds Answered
CHECK_DEADLOCK FALSE
