\* Two loopers and a client that connects once, or three dialers; the accept queue, the ports, the
\* clients' and the server's descriptors are all fewer than the connections wanted.
SPECIFICATION Spec
CONSTANTS
    Loopers = {l1, l2}
    Onces = {o1}
    Dialers = {d1, d2, d3}
    Target = 4
    ClientFds = 3
    ServerFds = 3
    Backlog = 1
    Ports = 4
    SynRetries = 1
INVARIANTS
    NoFdLeaked
PROPERTIES
    ClientsEnd
    QueueIsServed
CHECK_DEADLOCK FALSE
