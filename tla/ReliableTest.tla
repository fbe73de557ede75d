----------------------------- MODULE ReliableTest -----------------------------
(***************************************************************************)
(* The programs intro/reliable_test_client.c and reliable_test_server.c    *)
(* and the TCP connection between them.  The client sends what fgets()     *)
(* returns and waits for one reply line; the server replies once for every *)
(* return of its readline().  Module Readline is the server's reader and   *)
(* RecvLine the client's.                                                  *)
(*                                                                         *)
(* The kernel's part (external) is what the two programs see of it: bytes  *)
(* arrive in order and in arbitrary portions, send() waits while the       *)
(* buffers of its direction are full, closing a socket with unread data    *)
(* resets the connection, and so does sending to a closed one.             *)
(***************************************************************************)
EXTENDS Readline, RecvLine, FiniteSets

CONSTANTS
    Inputs,     \* the texts typed into the client: [size, nls, nuls]
    Counts,     \* values the uninitialised counter of the server may start with
    Prefix,     \* length of "receive msg ", 12
    Window,     \* unread bytes the connection can hold on their way to the server ...
    RWindow,    \* ... and to the client
    Kills       \* the programs the user may kill: subset of {"client", "server"}

ASSUME ReliableTestAssumption ==
    /\ \A t \in Inputs : t.size \in Nat /\ t.nls \subseteq 1 .. t.size
    /\ Window \in Nat /\ RWindow \in Nat
    /\ Counts \subseteq Int
    /\ Prefix \in Nat
    /\ Kills \subseteq {"client", "server"}

VARIABLES
    text,       \* the text on the client's stdin
    inPos,      \* bytes fgets() has taken from it
    slen,       \* strlen(buf) after fgets() ...
    snl,        \* ... and whether the last of these bytes is a newline
    cpc,        \* "connect", "fgets", "send", "readline" or "exit"
    spc,        \* "start", "accept", "loop" or "exit"
    conn,       \* the connection is established
    count,      \* the number the next reply carries
    asked, answered, printed  \* sends, replies and printed replies

clientvars == <<inPos, slen, snl, cpc>>
progvars   == <<text, inPos, slen, snl, cpc, spc, conn, count, asked, answered, printed>>
vars == <<sockvars, readervars, rsockvars, recvvars, progvars>>

Init ==
    /\ ReaderInit /\ RecvInit
    /\ text \in Inputs
    /\ count \in Counts
    /\ nls = {} /\ sent = 0 /\ fin = FALSE /\ rst = FALSE
    /\ rnls = {} /\ rsent = 0 /\ sfin = FALSE /\ crst = FALSE
    /\ inPos = 0 /\ slen = 0 /\ snl = FALSE /\ cpc = "connect"
    /\ spc = "start" /\ conn = FALSE
    /\ asked = 0 /\ answered = 0 /\ printed = 0

-----------------------------------------------------------------------------
(* Sockets. *)

\* The client's process ends and its socket is closed: a reset if replies are
\* still unread, else a FIN.
CloseClient ==
    /\ cpc' = "exit"
    /\ rst' = (rst \/ (conn /\ rsent > rpulled))
    /\ fin' = (fin \/ (conn /\ rsent = rpulled))

\* The server's process ends; a connection it has not accepted is reset.
CloseServer ==
    LET unread == sent > pulled \/ spc = "accept"
    IN  /\ spc' = "exit"
        /\ crst' = (crst \/ (conn /\ unread))
        /\ sfin' = (sfin \/ (conn /\ ~unread))

-----------------------------------------------------------------------------
(* The client, main(). *)

\* tcp_connect(): refused unless the server listens.
Connect ==
    /\ cpc = "connect"
    /\ IF spc = "accept"
       THEN conn' = TRUE /\ cpc' = "fgets"
       ELSE cpc' = "exit" /\ UNCHANGED conn
    /\ UNCHANGED <<sockvars, readervars, rsockvars, recvvars,
                   text, inPos, slen, snl, spc, count, asked, answered, printed>>

\* Where fgets() stops: after the first newline, when buf is full, or at end of
\* file, whichever comes first.
FgetsEnd ==
    {e \in inPos + 1 .. text.size :
        /\ e - inPos <= LineBuf - 1
        /\ \A p \in inPos + 1 .. e - 1 : p \notin text.nls
        /\ e \in text.nls \/ e - inPos = LineBuf - 1 \/ e = text.size}

\* strlen() of what fgets() stored up to e: the bytes in front of the first NUL.
\* The rest of the chunk is never sent, and nothing at all if it begins with one.
Strlen(e) ==
    {l \in 0 .. e - inPos :
        /\ \A p \in inPos + 1 .. inPos + l : p \notin text.nuls
        /\ l = e - inPos \/ inPos + l + 1 \in text.nuls}

Fgets ==
    /\ cpc = "fgets"
    /\ IF inPos = text.size
       THEN CloseClient /\ UNCHANGED <<inPos, slen, snl>>
       ELSE /\ inPos' \in FgetsEnd
            /\ slen' \in Strlen(inPos')
            /\ snl' = (inPos' \in text.nls /\ slen' = inPos' - inPos)
            /\ cpc' = "send"
            /\ UNCHANGED <<rst, fin>>
    /\ UNCHANGED <<nls, sent, readervars, rsockvars, recvvars,
                   text, spc, conn, count, asked, answered, printed>>

\* send() waits until the connection has room and takes all strlen(buf) bytes, if
\* there are any; then readline() is called.
Send ==
    /\ cpc = "send"
    /\ sent + slen - pulled <= Window
    /\ sent' = sent + slen
    /\ nls' = IF snl THEN nls \cup {sent'} ELSE nls
    /\ asked' = asked + 1
    /\ cpc' = "readline"
    /\ BeginLine
    /\ crst' = (crst \/ (spc = "exit" /\ slen > 0))
    /\ UNCHANGED <<fin, rst, readervars, rnls, rsent, sfin,
                   text, inPos, slen, snl, spc, conn, count, answered, printed>>

\* send() fails (or raises SIGPIPE) on a reset connection: exit.  crst says the
\* reset has been sent; until it arrives send() still succeeds, so that Send
\* remains possible.
SendFails ==
    /\ cpc = "send" /\ crst
    /\ CloseClient
    /\ UNCHANGED <<nls, sent, readervars, rsockvars, recvvars,
                   text, inPos, slen, snl, spc, conn, count, asked, answered, printed>>

ClientReads ==
    /\ cpc = "readline"
    /\ RecvNext
    /\ UNCHANGED <<sockvars, readervars, progvars>>

\* readline() has returned: fputs() and the next round, or error() and exit.
Fputs ==
    /\ cpc = "readline" /\ lpc = "return"
    /\ lpc' = "idle"
    /\ IF lrc > 0
       THEN cpc' = "fgets" /\ printed' = printed + 1 /\ UNCHANGED <<rst, fin>>
       ELSE CloseClient /\ UNCHANGED printed
    /\ UNCHANGED <<nls, sent, readervars, rsockvars,
                   cnt, bp, b, len, stored, reply, lrc, rpulled, rconsumed, rbase,
                   text, inPos, slen, snl, spc, conn, count, asked, answered>>

-----------------------------------------------------------------------------
(* The server, main(). *)

\* init_sock(): listen, or LOG_FATAL when the port is taken.
Start ==
    /\ spc = "start"
    /\ spc' \in {"accept", "exit"}
    /\ UNCHANGED <<sockvars, readervars, rsockvars, recvvars,
                   text, clientvars, conn, count, asked, answered, printed>>

Accept ==
    /\ spc = "accept" /\ conn
    /\ spc' = "loop"
    /\ UNCHANGED <<sockvars, readervars, rsockvars, recvvars,
                   text, clientvars, conn, count, asked, answered, printed>>

ServerReads ==
    /\ spc = "loop"
    /\ ReaderNext
    /\ UNCHANGED <<rsockvars, recvvars, progvars>>

\* sprintf(buf, "receive msg %d\n", count): the prefix, a sign if count is
\* negative, its digits (at most 10 in 32 bits) and the newline.  With 7 digits or
\* more sprintf() stores behind the 20 bytes of buf; what that overwrites is not
\* modelled, as send() takes the bytes from where sprintf() put them.
Digits(c) == 1 + Cardinality({d \in 1 .. 9 : c >= 10^d})
ReplyLen(c) == Prefix + (IF c < 0 THEN 1 + Digits(-c) ELSE Digits(c)) + 1

\* readline() has returned a line: count++ and send() of the reply, which waits
\* until the connection has room.  A reply to a client that has gone is answered
\* by a reset.
Reply ==
    /\ spc = "loop" /\ rpc = "return" /\ rc > 0
    /\ rsent + ReplyLen(count) - rpulled <= RWindow
    /\ rpc' = "call"
    /\ count' = count + 1
    /\ answered' = answered + 1
    /\ rsent' = rsent + ReplyLen(count)
    /\ rnls' = rnls \cup {rsent'}
    /\ rst' = (rst \/ cpc = "exit")
    /\ UNCHANGED <<nls, sent, fin, bufvars, n, line, rc, consumed, base, sfin, crst,
                   recvvars, text, clientvars, spc, conn, asked, printed>>

\* send() fails on a reset connection: LOG_FATAL (or SIGPIPE).
ReplyFails ==
    /\ spc = "loop" /\ rpc = "return" /\ rc > 0 /\ rst
    /\ count' = count + 1
    /\ CloseServer
    /\ UNCHANGED <<sockvars, readervars, rnls, rsent, recvvars,
                   text, clientvars, conn, asked, answered, printed>>

\* readline() has returned 0 or -1: main() returns.
ServerEnds ==
    /\ spc = "loop" /\ rpc = "return" /\ rc <= 0
    /\ CloseServer
    /\ UNCHANGED <<sockvars, readervars, rnls, rsent, recvvars,
                   text, clientvars, conn, count, asked, answered, printed>>

-----------------------------------------------------------------------------
(* The user kills a program: its sockets are closed by the kernel. *)

KillClient ==
    /\ "client" \in Kills /\ cpc # "exit"
    /\ CloseClient
    /\ UNCHANGED <<nls, sent, readervars, rsockvars, recvvars,
                   text, inPos, slen, snl, spc, conn, count, asked, answered, printed>>

KillServer ==
    /\ "server" \in Kills /\ spc # "exit"
    /\ CloseServer
    /\ UNCHANGED <<sockvars, readervars, rnls, rsent, recvvars,
                   text, clientvars, conn, count, asked, answered, printed>>

-----------------------------------------------------------------------------
\* Both programs are over, or the server waits for a client that is not there.
Over == cpc = "exit" /\ (spc = "exit" \/ (spc = "accept" /\ ~conn))
Idle == Over /\ UNCHANGED vars

Client == Connect \/ Fgets \/ Send \/ SendFails \/ ClientReads \/ Fputs
Server == Start \/ Accept \/ ServerReads \/ Reply \/ ReplyFails \/ ServerEnds

Next == Client \/ Server \/ KillClient \/ KillServer \/ Idle

Spec     == Init /\ [][Next]_vars
FairSpec == Spec /\ WF_vars(Client) /\ WF_vars(Server)

-----------------------------------------------------------------------------
TypeOK ==
    /\ text \in Inputs /\ inPos \in 0 .. text.size
    /\ slen \in 0 .. LineBuf - 1 /\ snl \in BOOLEAN
    /\ sent \in Nat /\ nls \subseteq 1 .. sent
    /\ rsent \in Nat /\ rnls \subseteq 1 .. rsent
    /\ fin \in BOOLEAN /\ rst \in BOOLEAN /\ sfin \in BOOLEAN /\ crst \in BOOLEAN
    /\ ReaderTypeOK /\ RecvTypeOK
    /\ cpc \in {"connect", "fgets", "send", "readline", "exit"}
    /\ spc \in {"start", "accept", "loop", "exit"}
    /\ conn \in BOOLEAN /\ count \in Int
    /\ asked \in Nat /\ answered \in Nat /\ printed \in Nat

\* The text is empty or its last line is terminated.
Terminated(t) == t.size = 0 \/ t.size \in t.nls

\* fgets() and strlen() agree on how long a line is.
NoNul(t) == t.nuls = {}

\* Every line fits in the server's buffer of MaxLen bytes, '\0' included.
Short(t) == \A p \in 1 .. t.size : p + MaxLen - 2 <= t.size =>
                \E q \in p .. p + MaxLen - 2 : q \in t.nls

\* When the client is ready for the next line of input, the server has taken
\* everything sent so far and the client has printed every reply: a reply is
\* never one to an earlier line.  (Lines that fit in the server's buffer.)
InStep ==
    cpc = "fgets" => consumed = sent /\ rconsumed = rsent /\ printed = answered

\* The pair implements the alternating conversation, its liveness included.
Conv == INSTANCE Conversation
Converses == Conv!Spec

\* The client in readline() and the server in readline() both wait for bytes
\* and none are on the way ...
MutualWait ==
    /\ cpc = "readline" /\ lpc = "loop" /\ cnt <= 1 /\ rpulled = rsent
    /\ spc = "loop" /\ rpc = "loop" /\ read_cnt <= 0 /\ pulled = sent
    /\ ~fin /\ ~rst /\ ~sfin /\ ~crst

\* ... only if the last chunk did not reach the server as a line: it does not end
\* with a newline, or a NUL has cut it off, possibly to nothing.  The server
\* replies to lines, the client waits for a reply to any chunk, also to none.
MutualWaitOnlyOnPartialLine == MutualWait => sent \notin nls \/ slen = 0

\* The client waits in send() for the server to read and the server in send() for
\* the client to read.
BothBlocked ==
    /\ cpc = "send" /\ sent + slen - pulled > Window
    /\ spc = "loop" /\ rpc = "return" /\ rc > 0
    /\ rsent + ReplyLen(count) - rpulled > RWindow

\* Neither readline() stores a byte or its terminating 0 outside its caller's array
\* or the buffer it reads into.
StoresInBounds == InBounds /\ RecvInBounds

\* Once one of the two is gone, the other finds out and exits, whatever it was
\* doing: readline() returns 0 or -1, or send() fails.
EndNoticed == (spc = "exit" ~> cpc = "exit") /\ ((cpc = "exit" /\ conn) ~> spc = "exit")

\* Every session comes to its end.
Termination == <>Over

=============================================================================
