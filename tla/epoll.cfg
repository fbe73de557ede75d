\* Three connections and two descriptors, so that accept() fails; batches of up
\* to two of the three ready descriptors.
CONSTANTS
    c1 = c1  c2 = c2  c3 = c3
    Conns = {c1, c2, c3}
    None = None
    MaxFd = 6
    EPOLL_SIZE = 2
    Backlog = 1
    Bufsiz = 1
    MaxBytes = 1
    StdinWritable = TRUE
    Signals = TRUE
SPECIFICATION FairSpec
INVARIANTS NeverBlocks
PROPERTIES GoneIsClosed BytesAreRead QueuedIsAccepted
CHECK_DEADLOCK FALSE
