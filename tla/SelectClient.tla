----------------------------- MODULE SelectClient -----------------------------
(***************************************************************************)
(* The client of live/epoll/select_test.c: select() over standard input    *)
(* and a socket, read() on the socket, but fgets() on standard input.      *)
(* fgets() works on stdio's buffer, which select() knows nothing of: it    *)
(* may leave lines behind there, and it blocks on half a line.             *)
(*                                                                         *)
(* Bytes of the input and of the server are identified by their positions  *)
(* 1, 2, ...; nls are the positions of newlines, nuls and rnuls those of   *)
(* NULs, at which strlen() and fputs() stop.  The kernel's terminal or     *)
(* pipe, stdio, the connection's buffers and the server are external.      *)
(***************************************************************************)
EXTENDS Integers, FiniteSets

CONSTANTS
    Input,     \* bound on the bytes typed
    MAXLINE,   \* size of send_line and recv_line: 1024
    StdioSize, \* size of stdio's buffer
    Ttys,      \* whether standard input may be a terminal, a pipe or either
    Replies,   \* bound on the bytes the server sends
    Nuls       \* bound on the NULs in either direction

ASSUME SelectAssumption ==
    /\ Input \in Nat /\ Replies \in Nat /\ Nuls \in Nat
    /\ MAXLINE \in Nat \ {0, 1} /\ StdioSize \in Nat \ {0}
    /\ Ttys \subseteq BOOLEAN

VARIABLES
    tty,       \* standard input is a terminal: one whole line per read()
    nls, nuls, \* positions of newlines and NULs in the input
    typed,     \* bytes that have reached the kernel
    eof,       \* the input has ended
    pulled,    \* bytes stdio has read
    used,      \* bytes fgets() has returned
    feof,      \* stdio's end-of-file flag
    chunk,     \* the bytes that strlen(send_line) counts when it is written
    reply,     \* number of bytes of the server not yet read
    replied,   \* number of bytes the server has sent
    rnuls,     \* the NULs among them
    got,       \* the bytes of the server that have been printed
    wrote,     \* the bytes written to the socket
    room,      \* the socket and the server can hold another line
    srv,       \* "open"; "fin": it has finished; "rst": a reset not yet
               \* reported; "broken": a reset already reported
    mask,      \* read_mask as select() left it
    pc,        \* "connect", "select", "sock", "stdin", "fgets", "write", "exit"
    why        \* how the program ended

inputvars  == <<tty, nls, nuls, typed, eof>>
stdiovars  == <<pulled, used, feof, chunk>>
servervars == <<reply, replied, rnuls, srv, wrote, room>>
vars == <<inputvars, stdiovars, servervars, got, mask, pc, why>>

Init ==
    /\ tty \in Ttys
    /\ nls \in SUBSET (1 .. Input)
    /\ nuls \in {z \in SUBSET (1 .. Input \ nls) : Cardinality(z) <= Nuls}
    /\ typed = 0 /\ eof = FALSE
    /\ pulled = 0 /\ used = 0 /\ feof = FALSE /\ chunk = {}
    /\ reply = 0 /\ replied = 0 /\ rnuls = {} /\ got = {}
    /\ wrote = {} /\ room = TRUE /\ srv = "open"
    /\ mask = {} /\ pc = "connect" /\ why = "none"

-----------------------------------------------------------------------------
(* The user and the server. *)

Type ==
    /\ pc # "exit" /\ ~eof /\ typed < Input /\ typed' = typed + 1
    /\ UNCHANGED <<tty, nls, nuls, eof, stdiovars, servervars, got, mask, pc, why>>

CloseInput ==
    /\ pc # "exit" /\ ~eof /\ eof' = TRUE
    /\ UNCHANGED <<tty, nls, nuls, typed, stdiovars, servervars, got, mask, pc, why>>

Connected == pc \notin {"connect", "exit"}

\* It sends a byte, which may be a NUL.
ServerSends ==
    /\ Connected /\ srv = "open" /\ replied < Replies
    /\ reply' = reply + 1 /\ replied' = replied + 1
    /\ \/ UNCHANGED rnuls
       \/ Cardinality(rnuls) < Nuls /\ rnuls' = rnuls \cup {replied'}
    /\ UNCHANGED <<srv, wrote, room, inputvars, stdiovars, got, mask, pc, why>>

\* It reads what is on the way to it, or not: nothing obliges it to.
ServerReads ==
    /\ Connected /\ srv \in {"open", "fin"} /\ ~room
    /\ room' = TRUE
    /\ UNCHANGED <<reply, replied, rnuls, srv, wrote, inputvars, stdiovars, got, mask, pc, why>>

\* It finishes, or resets the connection; one that has finished and still does
\* not read resets it when it closes its socket.
ServerEnds ==
    /\ Connected
    /\ \/ srv = "open" /\ srv' \in {"fin", "rst"}
       \/ srv = "fin" /\ ~room /\ srv' = "broken"
    /\ UNCHANGED <<reply, replied, rnuls, wrote, room, inputvars, stdiovars, got, mask, pc, why>>

-----------------------------------------------------------------------------
LeastOf(a, b) == IF a < b THEN a ELSE b

\* How far one read() of stdio gets.  A terminal gives out nothing before the
\* line is complete, and not more than the line.
LineEnd(e) == e \in pulled + 1 .. typed /\ e \in nls /\ \A k \in pulled + 1 .. e - 1 : k \notin nls
PullEnd ==
    IF tty
    THEN {e \in pulled + 1 .. typed :
            \/ LineEnd(e) /\ e - pulled <= StdioSize
            \/ e = pulled + StdioSize /\ \E l \in e + 1 .. typed : LineEnd(l)
            \/ e = LeastOf(typed, pulled + StdioSize) /\ eof /\ \A l \in pulled + 1 .. typed : l \notin nls}
    ELSE {e \in pulled + 1 .. typed : e = LeastOf(typed, pulled + StdioSize)}

StdinReady == PullEnd # {} \/ (eof /\ typed = pulled)
SockReady  == reply > 0 \/ srv # "open"

Exit(reason) == pc' = "exit" /\ why' = reason

\* tcp_connect()
Connect ==
    /\ pc = "connect"
    /\ \/ pc' = "select" /\ UNCHANGED why
       \/ Exit("connect")
    /\ UNCHANGED <<inputvars, stdiovars, servervars, got, mask>>

\* Mutation of Select: standard input is left out once it has ended.
SelectWithoutEof ==
    /\ pc = "select" /\ (PullEnd # {} \/ SockReady)
    /\ mask' = (IF SockReady THEN {"sock"} ELSE {}) \cup (IF PullEnd # {} THEN {"stdin"} ELSE {})
    /\ pc' = IF SockReady THEN "sock" ELSE "stdin"
    /\ UNCHANGED <<inputvars, stdiovars, servervars, got, why>>

\* select() over both descriptors.
Select ==
    /\ pc = "select" /\ (StdinReady \/ SockReady)
    /\ mask' = (IF SockReady THEN {"sock"} ELSE {}) \cup (IF StdinReady THEN {"stdin"} ELSE {})
    /\ pc' = IF SockReady THEN "sock" ELSE "stdin"
    /\ UNCHANGED <<inputvars, stdiovars, servervars, got, why>>

\* select() is interrupted: err_exit.
SelectFails ==
    /\ pc = "select"
    /\ Exit("select")
    /\ UNCHANGED <<inputvars, stdiovars, servervars, got, mask>>

\* What fputs() prints of the next n unread bytes: those in front of the first NUL.
Printed(n) ==
    LET first == replied - reply + 1
    IN  {k \in first .. first + n - 1 : \A z \in first .. k : z \notin rnuls}

\* Mutation of ReadSock: the rest of a longer reply is overwritten.
ReadSockTruncates ==
    /\ pc = "sock" /\ reply > 0
    /\ reply' = 0 /\ got' = got \cup Printed(LeastOf(reply, MAXLINE))
    /\ pc' = "stdin"
    /\ UNCHANGED <<replied, rnuls, srv, wrote, room, inputvars, stdiovars, mask, why>>

\* read() of up to MAXLINE bytes, which fputs() prints up to a NUL.
ReadSock ==
    /\ pc = "sock" /\ reply > 0
    /\ LET n == LeastOf(reply, MAXLINE)
       IN reply' = reply - n /\ got' = got \cup Printed(n)
    /\ pc' = "stdin"
    /\ UNCHANGED <<replied, rnuls, srv, wrote, room, inputvars, stdiovars, mask, why>>

\* read() returns 0 or -1: err_exit.
ReadEnds ==
    /\ pc = "sock" /\ reply = 0
    /\ Exit(IF srv = "rst" THEN "error" ELSE "terminated")
    /\ UNCHANGED <<inputvars, stdiovars, servervars, got, mask>>

\* FD_ISSET(STDIN_FILENO, &read_mask); the mask is set anew before select().
TestStdin ==
    /\ pc = "stdin"
    /\ pc' = IF "stdin" \in mask THEN "fgets" ELSE "select"
    /\ mask' = {}
    /\ UNCHANGED <<inputvars, stdiovars, servervars, got, why>>

(* fgets(send_line, MAXLINE, stdin) *)

\* Where it stops: behind a newline, when send_line is full, or at the end.
ChunkEnd ==
    {e \in used + 1 .. pulled :
        /\ \A k \in used + 1 .. e - 1 : k \notin nls
        /\ e - used <= MAXLINE - 1
        /\ e \in nls \/ e - used = MAXLINE - 1 \/ (feof /\ e = pulled)}

\* The buffer holds less than that: it is read into again, which may block.
FgetsFills ==
    /\ pc = "fgets" /\ ChunkEnd = {} /\ ~feof
    /\ pulled' \in PullEnd
    /\ UNCHANGED <<used, feof, chunk, inputvars, servervars, got, mask, pc, why>>

FgetsMeetsEnd ==
    /\ pc = "fgets" /\ ChunkEnd = {} /\ ~feof
    /\ eof /\ typed = pulled
    /\ feof' = TRUE
    /\ UNCHANGED <<pulled, used, chunk, inputvars, servervars, got, mask, pc, why>>

\* What strlen() counts of a chunk up to e: the bytes in front of its newline, and
\* in front of the first NUL.
Line(e) == {k \in used + 1 .. e : k \notin nls /\ \A z \in used + 1 .. k : z \notin nuls}

\* Mutation of FgetsLine: only the line's first byte is taken.
FgetsHalfLine ==
    /\ pc = "fgets"
    /\ ChunkEnd # {}
    /\ used' = used + 1 /\ chunk' = Line(used + 1)
    /\ pc' = "write"
    /\ UNCHANGED <<pulled, feof, inputvars, servervars, got, mask, why>>

\* A line, whose newline is cut off, and what strlen() does not see is lost.  (With a
\* NUL in front send_line[i - 1] is the byte before the array.)
FgetsLine ==
    /\ pc = "fgets"
    /\ \E e \in ChunkEnd : used' = e /\ chunk' = Line(e)
    /\ pc' = "write"
    /\ UNCHANGED <<pulled, feof, inputvars, servervars, got, mask, why>>

\* Mutation of FgetsNull: fgets() is called until it returns a line.
FgetsNullRetries ==
    /\ pc = "fgets" /\ feof /\ used = pulled
    /\ UNCHANGED vars

\* NULL: nothing is done about it, and select() reports standard input again.
FgetsNull ==
    /\ pc = "fgets" /\ feof /\ used = pulled
    /\ pc' = "select"
    /\ UNCHANGED <<inputvars, stdiovars, servervars, got, mask, why>>

\* write() to the socket, which waits until there is room for all of the line and may
\* leave none for the next.  A server that has closed its end answers bytes by a reset.
Write ==
    /\ pc = "write"
    /\ srv \in {"open", "fin"} /\ (room \/ chunk = {})
    /\ wrote' = wrote \cup chunk
    /\ srv' \in IF srv = "fin" /\ chunk # {} THEN {"fin", "broken"} ELSE {srv}
    /\ room' \in IF chunk # {} THEN BOOLEAN ELSE {room}
    /\ pc' = "select"
    /\ UNCHANGED <<reply, replied, rnuls, inputvars, stdiovars, got, mask, why>>

\* It fails with ECONNRESET, but "rt < 0" is never true of a size_t.
WriteFails ==
    /\ pc = "write" /\ srv = "rst"
    /\ srv' = "broken"
    /\ pc' = "select"
    /\ UNCHANGED <<reply, replied, rnuls, wrote, room, inputvars, stdiovars, got, mask, why>>

\* EPIPE comes with SIGPIPE.
WriteKills ==
    /\ pc = "write" /\ srv = "broken"
    /\ Exit("killed")
    /\ UNCHANGED <<inputvars, stdiovars, servervars, got, mask>>

Fgets == FgetsFills \/ FgetsMeetsEnd \/ FgetsLine \/ FgetsNull
Writes == Write \/ WriteFails \/ WriteKills
Program ==
    Connect \/ Select \/ ReadSock \/ ReadEnds \/ TestStdin \/ Fgets \/ Writes

Next == Type \/ CloseInput \/ ServerSends \/ ServerReads \/ ServerEnds \/ Program \/ SelectFails

Spec == Init /\ [][Next]_vars

\* The program runs unless it is blocked; the user and the server need not.
FairSpec == Spec /\ WF_vars(Program)

-----------------------------------------------------------------------------
SelectTypeOK ==
    /\ tty \in BOOLEAN /\ nls \subseteq 1 .. Input /\ nuls \subseteq 1 .. Input
    /\ typed \in 0 .. Input /\ eof \in BOOLEAN
    /\ pulled \in 0 .. typed /\ used \in 0 .. pulled /\ feof \in BOOLEAN
    /\ chunk \subseteq 1 .. used /\ \A k \in chunk : used - k < MAXLINE - 1
    /\ replied \in 0 .. Replies /\ reply \in 0 .. replied
    /\ rnuls \subseteq 1 .. replied /\ got \subseteq 1 .. replied
    /\ wrote \subseteq 1 .. used /\ room \in BOOLEAN
    /\ srv \in {"open", "fin", "rst", "broken"}
    /\ mask \subseteq {"sock", "stdin"}
    /\ pc \in {"connect", "select", "sock", "stdin", "fgets", "write", "exit"}
    /\ why \in {"none", "connect", "select", "terminated", "error", "killed"}

\* The input is lines that fit into send_line and into stdio's buffer.
ShortLines ==
    \A k \in 0 .. Input : k = 0 \/ k \in nls =>
        \E e \in k + 1 .. LeastOf(k + MAXLINE - 1, k + StdioSize) : e \in nls \/ e > Input

\* On a terminal, and with lines that fit, no byte waits in stdio's buffer
\* while the program waits in select(), which could not see it there.
NothingStranded ==
    tty /\ ShortLines /\ ~eof /\ pc \in {"select", "sock", "stdin"} => used = pulled

\* Whatever way the program ends by reading, what the server sent has been printed:
\* data queued in front of its end is not passed over, and a NUL hides at most the
\* rest of the MAXLINE bytes it was read with.
AllPrinted ==
    why \in {"terminated", "error"} =>
        \A k \in 1 .. replied : k \in got \/ \E z \in rnuls : z <= k /\ k < z + MAXLINE

\* No NUL stands between the beginning of a byte's line and the byte.
InFront(k) == \A z \in nuls : z <= k => \E l \in nls : z < l /\ l < k

\* As long as the server is there, it gets every byte fgets() has returned that
\* is no newline and stands in front of its line's first NUL, and never a newline
\* or a NUL: lines longer than send_line come in pieces without a newline, of
\* which nothing may be cut off.
SentIsInput ==
    srv = "open" =>
        LET Out == wrote \cup (IF pc = "write" THEN chunk ELSE {})
        IN  /\ Out \subseteq 1 .. used \ (nls \cup nuls)
            /\ \A k \in 1 .. used : k \notin nls /\ InFront(k) => k \in Out

\* The program blocks in fgets() on half a line.
InHalfLine == pc = "fgets" /\ ChunkEnd = {} /\ PullEnd = {} /\ ~eof

\* The program waits in write() for the server to read.
WriteBlocked == pc = "write" /\ srv \in {"open", "fin"} /\ ~room /\ chunk # {}

\* write() comes back sooner or later: the server reads, or goes away.
WritesReturn == []<>~WriteBlocked

\* Once the server has gone the program ends, although the error of write() is
\* never noticed and the end of the input makes the loop spin, unless it is
\* blocked on half a line.  (A server that has only finished sending must read on.)
EndIsNoticed ==
    WritesReturn => ((Connected /\ srv # "open") ~> (pc = "exit" \/ InHalfLine))

\* On a terminal it never is.
NeverInHalfLine == tty /\ ShortLines => ~InHalfLine

\* When the input ends, all of it is taken and sent on, the lines left behind in
\* stdio's buffer too, if the server reads what it is sent.
EndDrains ==
    WritesReturn => ((Connected /\ eof) ~> (pc = "exit" \/ (used = typed /\ pc # "write")))

=============================================================================
