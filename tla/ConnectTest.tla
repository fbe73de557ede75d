----------------------------- MODULE ConnectTest -----------------------------
(***************************************************************************)
(* Programs that open connections and servers that accept them or do not:  *)
(* connect_test_client.c (Loopers) and syn_retries.c (Onces) connect to    *)
(* connect_test_server.c ("epoll"); the goroutines of connect_client.go    *)
(* (Dialers), all of one process, to syn_queue_test_server.cpp ("accept")  *)
(* or accept_queue_test_server.cpp ("none").  Between them are the two     *)
(* queues of the listening socket, of which the lengths are kept.          *)
(***************************************************************************)
EXTENDS Integers, Functions, FiniteSets

CONSTANTS Loopers, Onces, Dialers,
          Target,       \* the connections a looper wants: 50000
          ClientFds,    \* descriptors a client's process may have open
          ServerFds,    \* connections a server has descriptors for
          Backlog,      \* the accept queue takes Backlog + 1 connections
          Ports,        \* local ports for connections to the server
          SynRetries    \* retransmissions of a SYN before connect() fails

ASSUME ConnectAssumption ==
    /\ Loopers \cap Onces = {} /\ (Loopers \cup Onces) \cap Dialers = {}
    /\ IsFiniteSet(Loopers \cup Onces \cup Dialers)
    /\ \A n \in {Target, ClientFds, ServerFds, Backlog, Ports, SynRetries} : n \in Nat

Clients == Loopers \cup Onces \cup Dialers

VARIABLES
    server, spc,        \* which server runs, and where it is
    half, queue,        \* requests whose last ACK is still to come, and the accept queue
    ready,              \* the listening socket is on the ready list of epoll
    accepted,           \* connections accept() returned
    cpc, tries, fds, success_counter    \* per client

servervars == <<server, spc, half, queue, ready, accepted>>
clientvars == <<cpc, tries, fds, success_counter>>
vars == <<servervars, clientvars>>

Up == spc # "exited"
Full == queue > Backlog

\* A client is written for the port of its server, 8080 or 9090.
Meets(c) == IF server = "epoll" THEN c \notin Dialers ELSE c \in Dialers

Init ==
    /\ server \in {"epoll", "accept", "none"} /\ spc = "wait"
    /\ half = 0 /\ queue = 0 /\ ready = FALSE /\ accepted = 0
    /\ cpc = [c \in Clients |-> IF Meets(c) THEN "top" ELSE "exited"] /\ tries = [c \in Clients |-> 0]
    /\ fds = [c \in Clients |-> 0] /\ success_counter = [c \in Clients |-> 0]

-----------------------------------------------------------------------------
(* The clients. *)

Becomes(c, l) == cpc' = [cpc EXCEPT ![c] = l]
Wanted(c) == IF c \in Loopers THEN Target ELSE 1
OpenFds(c) == IF c \in Dialers THEN SumFunction([d \in Dialers |-> fds[d]]) ELSE fds[c]

\* socket(), at the top of the loop.
Socket(c) ==
    /\ cpc[c] = "top" /\ success_counter[c] < Wanted(c) /\ OpenFds(c) < ClientFds
    /\ fds' = [fds EXCEPT ![c] = @ + 1]
    /\ tries' = [tries EXCEPT ![c] = 0]
    /\ Becomes(c, "connect")
    /\ UNCHANGED <<servervars, success_counter>>

\* There are enough connections, or no descriptor is left.  syn_retries.c does not
\* look at the descriptor: connect() fails for it.
Leave(c) ==
    /\ cpc[c] = "top"
    /\ success_counter[c] >= Wanted(c) \/ OpenFds(c) >= ClientFds
    /\ Becomes(c, "end")
    /\ UNCHANGED <<servervars, tries, fds, success_counter>>

\* Mutation of ConnectFailed: the loop goes on.
ConnectFailedRetries(c) ==
    /\ Becomes(c, "top")
    /\ fds' = [fds EXCEPT ![c] = @ - 1]
    /\ UNCHANGED <<servervars, tries, success_counter>>

\* Mutation of ConnectFailed: the socket is not closed.
ConnectFailedLeaks(c) ==
    /\ Becomes(c, "end")
    /\ UNCHANGED <<servervars, fds, tries, success_counter>>

\* connect() returned an error: the socket is closed, but syn_retries.c keeps it.
ConnectFailed(c) ==
    /\ Becomes(c, "end")
    /\ fds' = IF c \in Onces THEN fds ELSE [fds EXCEPT ![c] = @ - 1]
    /\ UNCHANGED <<servervars, tries, success_counter>>

\* The local ports in use: by connections of the clients still running, and by a
\* connect() that has sent its SYN.
PortsTaken ==
    SumFunction([c \in Clients |->
        CASE cpc[c] = "exited"                  -> 0
          [] cpc[c] = "connect" /\ tries[c] > 0 -> success_counter[c] + 1
          [] OTHER                              -> success_counter[c]])

\* The port search fails, or nobody listens.
ConnectRefused(c) ==
    /\ cpc[c] = "connect"
    /\ (tries[c] = 0 /\ PortsTaken >= Ports) \/ ~Up
    /\ ConnectFailed(c)

\* The SYN meets a full accept queue and is not answered.  It is sent again until
\* the retries are used up (ETIMEDOUT).
ConnectUnanswered(c) ==
    /\ cpc[c] = "connect" /\ Up /\ Full
    /\ tries[c] > 0 \/ PortsTaken < Ports
    /\ IF tries[c] < SynRetries
       THEN tries' = [tries EXCEPT ![c] = @ + 1] /\ UNCHANGED <<servervars, cpc, fds, success_counter>>
       ELSE ConnectFailed(c)

\* The SYN is answered: connect() returns 0, whatever becomes of the last ACK.
Connected(c) ==
    /\ cpc[c] = "connect" /\ Up /\ ~Full
    /\ tries[c] > 0 \/ PortsTaken < Ports
    /\ half' = half + 1
    /\ success_counter' = [success_counter EXCEPT ![c] = @ + 1]
    /\ Becomes(c, "top")
    /\ UNCHANGED <<server, spc, queue, ready, accepted, tries, fds>>

\* sleep() and getchar() are over; or a dialer's connection, which nothing refers to,
\* is closed by the garbage collector.
Exit(c) ==
    /\ cpc[c] = "end"
    /\ Becomes(c, "exited")
    /\ fds' = [fds EXCEPT ![c] = 0]
    /\ UNCHANGED <<servervars, tries, success_counter>>

-----------------------------------------------------------------------------
(* The listening socket. *)

\* The last ACK finds room in the accept queue, and epoll is told.
AckArrives ==
    /\ half > 0 /\ Up /\ ~Full
    /\ half' = half - 1 /\ queue' = queue + 1 /\ ready' = (server = "epoll")
    /\ UNCHANGED <<server, spc, accepted, clientvars>>

\* It finds none until the SYN-ACK has been retransmitted too often: the request is
\* dropped, though the client has a connection.
RequestDropped ==
    /\ half > 0 /\ Up /\ Full
    /\ half' = half - 1
    /\ UNCHANGED <<server, spc, queue, ready, accepted, clientvars>>

(* The servers. *)

Exhausted == accepted >= ServerFds

ServerExits ==
    /\ spc' = "exited"
    /\ half' = 0 /\ queue' = 0 /\ ready' = FALSE /\ accepted' = 0
    /\ UNCHANGED <<server, clientvars>>

TakeFirst == accepted' = accepted + 1 /\ queue' = queue - 1

\* Mutation of EpollWait: EPOLLIN | EPOLLET.
EpollWaitEdge ==
    /\ server = "epoll" /\ spc = "wait" /\ ready /\ queue > 0
    /\ spc' = "event" /\ ready' = FALSE
    /\ UNCHANGED <<server, half, queue, accepted, clientvars>>

\* epoll_wait() on the listening socket alone.  EPOLLIN is level-triggered: the socket
\* stays on the ready list until a call finds its queue empty.
EpollWait ==
    /\ server = "epoll" /\ spc = "wait" /\ ready /\ queue > 0
    /\ spc' = "event"
    /\ UNCHANGED <<server, half, queue, ready, accepted, clientvars>>

EpollEmpty ==
    /\ server = "epoll" /\ spc = "wait" /\ ready /\ queue = 0
    /\ ready' = FALSE
    /\ UNCHANGED <<server, spc, half, queue, accepted, clientvars>>

\* accept(), once per event; its result is ignored, also when no descriptor is left.
EpollAccept ==
    /\ spc = "event" /\ spc' = "wait"
    /\ IF Exhausted THEN UNCHANGED <<queue, accepted>> ELSE TakeFirst
    /\ UNCHANGED <<server, half, ready, clientvars>>

\* The blocking accept().
Accept ==
    /\ server = "accept" /\ spc = "wait" /\ ~Exhausted /\ queue > 0
    /\ TakeFirst
    /\ UNCHANGED <<server, spc, half, ready, clientvars>>

\* accept() fails, with no descriptor left even before there is a connection: exit(1).
AcceptFails ==
    /\ server = "accept" /\ spc = "wait" /\ Exhausted
    /\ ServerExits

\* cin.get() returns in the server that never accepts.
KeyPressed ==
    /\ server = "none" /\ spc = "wait"
    /\ ServerExits

-----------------------------------------------------------------------------
Client(c) == Socket(c) \/ Leave(c) \/ ConnectRefused(c) \/ ConnectUnanswered(c) \/ Connected(c)
Network == AckArrives \/ RequestDropped
Server == EpollWait \/ EpollEmpty \/ EpollAccept \/ Accept \/ AcceptFails

Next == (\E c \in Clients : Client(c) \/ Exit(c)) \/ Network \/ Server \/ KeyPressed

Spec == Init /\ [][Next]_vars
        /\ WF_vars(Network) /\ WF_vars(Server) /\ \A c \in Clients : WF_vars(Client(c))

-----------------------------------------------------------------------------
(* Correctness. *)

\* No limit is exceeded: of the accept queue, of the descriptors of the server and of a
\* client that has a process of its own, of the retransmissions, of what is wanted.
TypeOK ==
    /\ server \in {"epoll", "accept", "none"} /\ spc \in {"wait", "event", "exited"}
    /\ half \in Nat /\ queue \in 0 .. Backlog + 1 /\ ready \in BOOLEAN
    /\ accepted \in 0 .. ServerFds
    /\ cpc \in [Clients -> {"top", "connect", "end", "exited"}]
    /\ tries \in [Clients -> 0 .. SynRetries]
    /\ fds \in [Clients -> Nat] /\ \A c \in Clients \ Dialers : fds[c] <= ClientFds
    /\ success_counter \in [Clients -> Nat] /\ \A c \in Clients : success_counter[c] <= Wanted(c)

\* A looper or a dialer has a descriptor for every connection it counted and for the
\* one it is at, and none else: whether connect() finds no port, is refused or times
\* out after any number of SYNs, it leaks nothing.  (syn_retries.c does not close.)
NoFdLeaked ==
    \A c \in Clients \ Onces :
        fds[c] = CASE cpc[c] = "exited"  -> 0
                   [] cpc[c] = "connect" -> success_counter[c] + 1
                   [] OTHER              -> success_counter[c]

\* Every client comes to its end, even if the server never accepts: connect() does
\* not wait for ever.
ClientsEnd == <>(\A c \in Clients : cpc[c] \in {"end", "exited"})

\* The accept queue is emptied again, unless the server has run out of descriptors, has
\* exited or never accepts: however many connections come between epoll_wait() and the
\* one accept() that answers an event, the ones left give the next event.
QueueIsServed == (queue > 0 /\ server # "none") ~> (queue = 0 \/ Exhausted \/ ~Up)

=============================================================================
