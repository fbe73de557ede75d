\* A terminal or a pipe; lines shorter and longer than the buffers, and replies
\* longer than recv_line.
CONSTANTS
    Input = 3
    MAXLINE = 3
    StdioSize = 2
    Ttys = {TRUE, FALSE}
    Replies = 4
    Nuls = 1
SPECIFICATION FairSpec
INVARIANTS NothingStranded AllPrinted
PROPERTIES EndIsNoticed EndDrains
CHECK_DEADLOCK FALSE
