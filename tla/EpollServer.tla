------------------------------ MODULE EpollServer ------------------------------
(***************************************************************************)
(* The server of live/epoll/epoll_test.c: one thread that accepts          *)
(* connections and copies what they send to descriptor 0, driven by a      *)
(* level-triggered epoll set over blocking sockets.                        *)
(*                                                                         *)
(* epoll_wait() returns a snapshot of the ready descriptors; the for loop  *)
(* works through it while clients connect, send and go away and while the  *)
(* loop itself closes descriptors and gets their numbers back from         *)
(* accept().  The order of the snapshot is the kernel's: it is kept as the *)
(* set of events still to be handled, which are taken in any order.        *)
(***************************************************************************)
EXTENDS Integers, Sequences, FiniteSets

CONSTANTS
    Conns,         \* connections clients may make
    MaxFd,         \* highest descriptor the process may have (RLIMIT_NOFILE)
    EPOLL_SIZE,    \* events one epoll_wait() may return: 50
    Backlog,       \* of listen(): 5
    Bufsiz,        \* BUFSIZ
    MaxBytes,      \* bound on what a client sends
    StdinWritable, \* descriptor 0 can be written to
    Signals        \* epoll_wait() may be interrupted

server_socket_fd == 3
\* epoll_fd is 4; the accepted sockets get the lowest free number after it.
Fds == 5 .. MaxFd

CONSTANT None      \* what a free descriptor stands for

ASSUME EpollAssumption ==
    /\ MaxFd \in Nat /\ EPOLL_SIZE \in Nat \ {0} /\ Backlog \in Nat
    /\ Bufsiz \in Nat \ {0} /\ MaxBytes \in Nat
    /\ StdinWritable \in BOOLEAN /\ Signals \in BOOLEAN
    /\ None \notin Conns

VARIABLES
    running,   \* the while loop has not been left
    batch,     \* ep_events[i ..]: descriptors still to be handled
    open,      \* per client descriptor: its connection, or None
    interest,  \* the epoll set, server_socket_fd apart
    backlog,   \* established connections waiting for accept()
    conn,      \* per connection: "none", "queued", "accepted" or "closed"
    peer,      \* what the client has done: "open", "fin" or "rst"
    unread,    \* bytes in the connection's receive queue
    sent,      \* bytes the client has sent
    written    \* bytes that have come out of descriptor 0

clientvars == <<peer, sent>>
vars == <<running, batch, open, interest, backlog, conn, unread, written, clientvars>>

Init ==
    /\ running = TRUE /\ batch = {} /\ interest = {} /\ backlog = <<>>
    /\ open = [f \in Fds |-> None]
    /\ conn = [c \in Conns |-> "none"] /\ peer = [c \in Conns |-> "open"]
    /\ unread = [c \in Conns |-> 0] /\ sent = [c \in Conns |-> 0]
    /\ written = [c \in Conns |-> 0]

-----------------------------------------------------------------------------
(* The clients (external). *)

\* A handshake is completed as long as the accept queue has room.
Connect(c) ==
    /\ running /\ conn[c] = "none" /\ Len(backlog) <= Backlog
    /\ conn' = [conn EXCEPT ![c] = "queued"]
    /\ backlog' = Append(backlog, c)
    /\ UNCHANGED <<running, batch, open, interest, unread, written, clientvars>>

Alive(c) == conn[c] \in {"queued", "accepted"} /\ peer[c] = "open"

ClientSends(c) ==
    /\ Alive(c) /\ sent[c] < MaxBytes
    /\ sent' = [sent EXCEPT ![c] = @ + 1]
    /\ unread' = [unread EXCEPT ![c] = @ + 1]
    /\ UNCHANGED <<running, batch, open, interest, backlog, conn, written, peer>>

\* close() or shutdown(), or a reset; a reset connection keeps its receive
\* queue and its place in the accept queue.
ClientLeaves(c) ==
    /\ Alive(c)
    /\ \E how \in {"fin", "rst"} : peer' = [peer EXCEPT ![c] = how]
    /\ UNCHANGED <<running, batch, open, interest, backlog, conn, unread, written, sent>>

-----------------------------------------------------------------------------
(* The loop. *)

LeastOf(a, b) == IF a < b THEN a ELSE b

Readable(c) == unread[c] > 0 \/ peer[c] # "open"

\* Mutation of Ready: the listening socket is reported once per queue that
\* fills up (EPOLLET) although accept() is called once.
ReadyEdge ==
    {f \in interest : Readable(open[f])}
        \cup (IF Len(backlog) = 1 THEN {server_socket_fd} ELSE {})

Ready ==
    {f \in interest : Readable(open[f])}
        \cup (IF backlog = <<>> THEN {} ELSE {server_socket_fd})

\* epoll_wait() returns as many ready descriptors as fit.
EpollWait ==
    /\ running /\ batch = {} /\ Ready # {}
    /\ batch' \in SUBSET Ready
    /\ Cardinality(batch') = LeastOf(EPOLL_SIZE, Cardinality(Ready))
    /\ UNCHANGED <<running, open, interest, backlog, conn, unread, written, clientvars>>

\* epoll_wait() fails: the loop is left, and everything is closed by exit().
EpollFails ==
    /\ Signals /\ running /\ batch = {}
    /\ running' = FALSE
    /\ open' = [f \in Fds |-> None] /\ interest' = {} /\ backlog' = <<>>
    /\ conn' = [c \in Conns |-> IF conn[c] = "none" THEN "none" ELSE "closed"]
    /\ UNCHANGED <<batch, unread, written, clientvars>>

Free == {f \in Fds : open[f] = None}

\* accept(), which takes the lowest free descriptor, and EPOLL_CTL_ADD.
Accept ==
    /\ server_socket_fd \in batch /\ backlog # <<>>
    /\ \E fd \in Free :
         /\ \A f \in Free : fd <= f
         /\ open' = [open EXCEPT ![fd] = Head(backlog)]
         /\ interest' = interest \cup {fd}
    /\ conn' = [conn EXCEPT ![Head(backlog)] = "accepted"]
    /\ backlog' = Tail(backlog)
    /\ batch' = batch \ {server_socket_fd}
    /\ UNCHANGED <<running, unread, written, clientvars>>

\* Mutation of AcceptFails: accept() is tried until it succeeds.
AcceptFailsRetries ==
    /\ server_socket_fd \in batch /\ backlog # <<>> /\ Free = {}
    /\ UNCHANGED vars

\* EMFILE: accept() returns -1, which EPOLL_CTL_ADD does not accept either.
AcceptFails ==
    /\ server_socket_fd \in batch /\ backlog # <<>> /\ Free = {}
    /\ batch' = batch \ {server_socket_fd}
    /\ UNCHANGED <<running, open, interest, backlog, conn, unread, written, clientvars>>

\* close(): the descriptor leaves the epoll set by itself.
CloseFd(f) ==
    /\ open' = [open EXCEPT ![f] = None]
    /\ interest' = interest \ {f}
    /\ conn' = [conn EXCEPT ![open[f]] = "closed"]

\* Mutation of ReadData: the event is not done with after one read().
ReadDataAgain(f) ==
    /\ f \in batch \cap Fds /\ unread[open[f]] > 0
    /\ LET c == open[f]
           n == LeastOf(unread[c], Bufsiz)
       IN /\ unread' = [unread EXCEPT ![c] = @ - n]
          /\ written' = IF StdinWritable THEN [written EXCEPT ![c] = @ + n] ELSE written
    /\ UNCHANGED <<running, batch, open, interest, backlog, conn, clientvars>>

\* read() returns n > 0, and n bytes are written to descriptor 0; a failure of
\* that write goes unnoticed.
ReadData(f) ==
    /\ f \in batch \cap Fds /\ unread[open[f]] > 0
    /\ LET c == open[f]
           n == LeastOf(unread[c], Bufsiz)
       IN /\ unread' = [unread EXCEPT ![c] = @ - n]
          /\ written' = IF StdinWritable THEN [written EXCEPT ![c] = @ + n] ELSE written
    /\ batch' = batch \ {f}
    /\ UNCHANGED <<running, open, interest, backlog, conn, clientvars>>

\* read() returns 0: EPOLL_CTL_DEL and close().
ReadEof(f) ==
    /\ f \in batch \cap Fds /\ unread[open[f]] = 0 /\ peer[open[f]] = "fin"
    /\ CloseFd(f)
    /\ batch' = batch \ {f}
    /\ UNCHANGED <<running, backlog, unread, written, clientvars>>

\* Mutation of ReadError: the descriptor is not closed.
ReadErrorKeeps(f) ==
    /\ f \in batch \cap Fds /\ unread[open[f]] = 0 /\ peer[open[f]] = "rst"
    /\ batch' = {}
    /\ UNCHANGED <<running, open, interest, backlog, conn, unread, written, clientvars>>

\* read() fails with ECONNRESET: close(), and "break" drops the other events.
\* (EAGAIN does not happen: the sockets are blocking and read once per event.)
ReadError(f) ==
    /\ f \in batch \cap Fds /\ unread[open[f]] = 0 /\ peer[open[f]] = "rst"
    /\ CloseFd(f)
    /\ batch' = {}
    /\ UNCHANGED <<running, backlog, unread, written, clientvars>>

Handle(f) == ReadData(f) \/ ReadEof(f) \/ ReadError(f)
Loop == Accept \/ AcceptFails \/ \E f \in Fds : Handle(f)
Client(c) == Connect(c) \/ ClientSends(c) \/ ClientLeaves(c)

Next == EpollWait \/ EpollFails \/ Loop \/ \E c \in Conns : Client(c)

Spec == Init /\ [][Next]_vars

\* The thread runs, and the kernel's list of ready descriptors is served in
\* turn: one that is ready again and again is reported.  Nothing is assumed of
\* the clients.
FairSpec ==
    /\ Spec
    /\ WF_vars(Loop)
    /\ \A f \in Fds \cup {server_socket_fd} : SF_vars(EpollWait /\ f \in batch')

-----------------------------------------------------------------------------
EpollTypeOK ==
    /\ running \in BOOLEAN /\ batch \subseteq Fds \cup {server_socket_fd}
    /\ open \in [Fds -> Conns \cup {None}] /\ interest \subseteq Fds
    /\ backlog \in Seq(Conns)
    /\ conn \in [Conns -> {"none", "queued", "accepted", "closed"}]
    /\ peer \in [Conns -> {"open", "fin", "rst"}]
    /\ unread \in [Conns -> Nat] /\ sent \in [Conns -> 0 .. MaxBytes]
    /\ written \in [Conns -> Nat]

\* No event of a batch is stale when the loop comes to it, whatever it and the
\* clients have done since epoll_wait(): accept() finds a connection, and the
\* descriptor is still open, watched and readable.  The blocking calls of the
\* single thread therefore never block it.
NeverBlocks ==
    \A f \in batch :
        IF f = server_socket_fd THEN backlog # <<>>
        ELSE f \in interest /\ open[f] # None /\ Readable(open[f])

\* No descriptor is forgotten or shared: the open ones are exactly those epoll
\* watches, each stands for one accepted connection, and every accepted
\* connection has one.
Watched ==
    /\ interest = {f \in Fds : open[f] # None}
    /\ \A f \in interest : conn[open[f]] = "accepted"
    /\ \A f, g \in interest : open[f] = open[g] => f = g
    /\ \A c \in Conns : conn[c] = "accepted" => \E f \in interest : open[f] = c

\* A connection is closed by the loop only when everything its client sent has
\* been copied to descriptor 0: what a read error drops is other events, never
\* bytes.
AllWritten ==
    \A c \in Conns : running /\ StdinWritable /\ conn[c] = "closed" =>
        /\ written[c] = sent[c]
        /\ peer[c] # "open"

\* A client that has gone is disconnected, although the read errors of others
\* cut batches short and a failing accept() is repeated without end.
GoneIsClosed == \A c \in Conns : (conn[c] = "accepted" /\ peer[c] # "open") ~> (conn[c] = "closed")

\* What a client has sent is read.
BytesAreRead ==
    \A c \in Conns : (conn[c] = "accepted" /\ unread[c] > 0) ~> (unread[c] = 0 \/ conn[c] = "closed")

\* A client in the accept queue is accepted if descriptors do not run out, or
\* when those who have one leave.
QueuedIsAccepted ==
    \A c \in Conns : []<>(Free # {} \/ ~running) => ((conn[c] = "queued") ~> (conn[c] # "queued"))

=============================================================================
