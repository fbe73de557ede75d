-------------------------- MODULE ConnectTestProofs --------------------------
(***************************************************************************)
(* The connection tests for any number of clients and any limits: what     *)
(* keeps the queue and the descriptors within their limits, and that no    *)
(* descriptor of a client is lost.                                         *)
(***************************************************************************)
EXTENDS ConnectTest, TLAPS

\* The epoll server is woken only by a connection, and nobody else takes it.
EventInv == spc = "event" => server = "epoll" /\ queue > 0

\* A client in connect() has a socket and wants its connection.
ConnectInv ==
    \A c \in Clients : cpc[c] = "connect" => success_counter[c] < Wanted(c) /\ fds[c] >= 1

Inv == TypeOK /\ EventInv /\ ConnectInv /\ NoFdLeaked

-----------------------------------------------------------------------------
LEMMA InitInv == Init => Inv
<1>. SUFFICES ASSUME Init PROVE Inv
  OBVIOUS
<1>0. /\ Target \in Nat /\ ClientFds \in Nat /\ ServerFds \in Nat
      /\ Backlog \in Nat /\ SynRetries \in Nat
  BY ConnectAssumption
<1>1. \A c \in Clients : Wanted(c) \in Nat
  BY <1>0 DEF Wanted
<1>2. TypeOK
  <2>1. cpc \in [Clients -> {"top", "connect", "end", "exited"}]
    BY DEF Init
  <2>2. /\ tries \in [Clients -> 0 .. SynRetries] /\ fds \in [Clients -> Nat]
        /\ success_counter \in [Clients -> Nat]
        /\ \A c \in Clients : fds[c] <= ClientFds /\ success_counter[c] <= Wanted(c)
    BY <1>0, <1>1 DEF Init
  <2>3. server \in {"epoll", "accept", "none"} /\ spc \in {"wait", "event", "exited"}
    BY DEF Init
  <2>4. half \in Nat /\ queue \in 0 .. Backlog + 1 /\ accepted \in 0 .. ServerFds
    <3>1. half = 0 /\ queue = 0 /\ accepted = 0
      BY DEF Init
    <3>. QED  BY ONLY <1>0, <3>1
  <2>5. ready \in BOOLEAN
    BY Zenon DEF Init
  <2>. QED  BY <2>1, <2>2, <2>3, <2>4, <2>5, Zenon DEF TypeOK
<1>3. EventInv /\ ConnectInv /\ NoFdLeaked
  BY DEF Init, EventInv, ConnectInv, NoFdLeaked
<1>. QED  BY <1>2, <1>3 DEF Inv

\* A step of the server or the network.
LEMMA ClientsUntouched ==
    ASSUME Inv, UNCHANGED clientvars
    PROVE  ConnectInv' /\ NoFdLeaked'
BY DEF Inv, ConnectInv, NoFdLeaked, clientvars

\* socket() and what follows on a client's side, without a connection.
LEMMA ClientLocal ==
    ASSUME Inv, NEW c \in Clients,
           Socket(c) \/ Leave(c) \/ Exit(c) \/ (ConnectFailed(c) /\ cpc[c] = "connect")
    PROVE  Inv'
<1>. USE DEF Inv
<1>0. /\ Target \in Nat /\ ClientFds \in Nat /\ ServerFds \in Nat
      /\ Backlog \in Nat /\ SynRetries \in Nat
  BY ConnectAssumption
<1>1. UNCHANGED <<servervars, success_counter>>
  BY DEF Socket, Leave, Exit, ConnectFailed
<1>2. EventInv'
  BY <1>1 DEF EventInv, servervars
<1>3. fds[c] \in Nat /\ (cpc[c] = "connect" => fds[c] - 1 \in Nat) /\ success_counter[c] \in Nat
  BY DEF TypeOK, ConnectInv
<1>4. TypeOK'
  <2>1. cpc' \in [Clients -> {"top", "connect", "end", "exited"}]
    BY DEF TypeOK, Socket, Leave, Exit, ConnectFailed, Becomes
  <2>2. tries' \in [Clients -> 0 .. SynRetries]
    <3>1. tries' = tries \/ tries' = [tries EXCEPT ![c] = 0]
      BY DEF Socket, Leave, Exit, ConnectFailed
    <3>2. tries \in [Clients -> 0 .. SynRetries] /\ 0 \in 0 .. SynRetries
      BY <1>0 DEF TypeOK
    <3>3. [tries EXCEPT ![c] = 0] \in [Clients -> 0 .. SynRetries]
      BY ONLY <3>2, c \in Clients
    <3>. QED  BY ONLY <3>1, <3>2, <3>3
  <2>3. fds' \in [Clients -> Nat] /\ \A d \in Clients \ Dialers : fds'[d] <= ClientFds
    <3>1. CASE Socket(c)
      <4>1. fds' = [fds EXCEPT ![c] = @ + 1] /\ (c \notin Dialers => fds[c] < ClientFds)
        BY <3>1 DEF Socket, OpenFds
      <4>. QED  BY <1>0, <1>3, <4>1 DEF TypeOK
    <3>2. CASE Leave(c) \/ Exit(c)
      <4>1. fds' = fds \/ fds' = [fds EXCEPT ![c] = 0]
        BY <3>2 DEF Leave, Exit
      <4>2. fds \in [Clients -> Nat] /\ \A d \in Clients \ Dialers : fds[d] <= ClientFds
        BY DEF TypeOK
      <4>3. CASE fds' = [fds EXCEPT ![c] = 0]
        BY ONLY <1>0, <4>2, <4>3, c \in Clients
      <4>. QED  BY <4>1, <4>2, <4>3
    <3>3. CASE ConnectFailed(c) /\ cpc[c] = "connect"
      BY <1>0, <1>3, <3>3 DEF TypeOK, ConnectFailed
    <3>. QED  BY <3>1, <3>2, <3>3
  <2>. QED  BY <1>1, <2>1, <2>2, <2>3 DEF TypeOK, servervars
<1>5. ConnectInv'
  BY <1>1, <1>3
     DEF TypeOK, ConnectInv, Socket, Leave, Exit, ConnectFailed, Becomes
<1>6. NoFdLeaked'
  <2>1. ASSUME NEW d \in Clients \ Onces
        PROVE  fds'[d] = CASE cpc'[d] = "exited"  -> 0
                           [] cpc'[d] = "connect" -> success_counter'[d] + 1
                           [] OTHER               -> success_counter'[d]
    <3>1. CASE d # c
      BY <1>1, <3>1 DEF TypeOK, NoFdLeaked, Socket, Leave, Exit, ConnectFailed, Becomes
    <3>2. CASE d = c
      BY <1>1, <1>3, <3>2 DEF TypeOK, NoFdLeaked, Socket, Leave, Exit, ConnectFailed, Becomes
    <3>. QED  BY <3>1, <3>2
  <2>. QED  BY <2>1 DEF NoFdLeaked
<1>. QED  BY <1>2, <1>4, <1>5, <1>6

\* connect() returns 0: a new connection, which the server has half open.
LEMMA ConnectedStep == ASSUME Inv, NEW c \in Clients, Connected(c) PROVE Inv'
<1>. USE DEF Inv
<1>0. /\ Target \in Nat /\ ClientFds \in Nat /\ ServerFds \in Nat
      /\ Backlog \in Nat /\ SynRetries \in Nat
  BY ConnectAssumption
<1>1. /\ cpc[c] = "connect"
      /\ half' = half + 1
      /\ success_counter' = [success_counter EXCEPT ![c] = @ + 1]
      /\ cpc' = [cpc EXCEPT ![c] = "top"]
      /\ UNCHANGED <<server, spc, queue, ready, accepted, tries, fds>>
  BY DEF Connected, Becomes
<1>2. success_counter \in [Clients -> Nat] /\ success_counter[c] < Wanted(c)
  BY <1>1 DEF TypeOK, ConnectInv
<1>3. success_counter' \in [Clients -> Nat]
  BY <1>1, <1>2
<1>4. TypeOK'
  <2>1. \A d \in Clients : Wanted(d) \in Nat /\ success_counter'[d] <= Wanted(d)
    BY <1>0, <1>1, <1>2 DEF TypeOK, Wanted
  <2>. QED  BY <1>1, <1>3, <2>1 DEF TypeOK
<1>5. EventInv' /\ ConnectInv' /\ NoFdLeaked'
  BY <1>1, <1>2 DEF EventInv, ConnectInv, NoFdLeaked, TypeOK
<1>. QED  BY <1>4, <1>5

\* A SYN is sent again.
LEMMA RetryStep == ASSUME Inv, NEW c \in Clients, ConnectUnanswered(c) PROVE Inv'
<1>1. CASE tries[c] < SynRetries
  <2>1. /\ tries' = [tries EXCEPT ![c] = @ + 1]
        /\ UNCHANGED <<servervars, cpc, fds, success_counter>>
    BY <1>1 DEF ConnectUnanswered
  <2>2. EventInv'
    BY <2>1 DEF Inv, EventInv, servervars
  <2>3. SynRetries \in Nat
    BY ConnectAssumption
  <2>4. TypeOK'
    BY <1>1, <2>1, <2>3 DEF Inv, TypeOK, servervars
  <2>5. ConnectInv' /\ NoFdLeaked'
    BY <2>1 DEF Inv, ConnectInv, NoFdLeaked
  <2>. QED  BY <2>2, <2>4, <2>5 DEF Inv
<1>2. CASE ~(tries[c] < SynRetries)
  BY <1>2, ClientLocal DEF ConnectUnanswered
<1>. QED  BY <1>1, <1>2

LEMMA ClientStep == ASSUME Inv, NEW c \in Clients, Client(c) \/ Exit(c) PROVE Inv'
<1>1. CASE Socket(c) \/ Leave(c) \/ Exit(c)
  <2>1. Socket(c) \/ Leave(c) \/ Exit(c) \/ (ConnectFailed(c) /\ cpc[c] = "connect")
    BY <1>1
  <2>. QED  BY <2>1, ClientLocal
<1>2. CASE ConnectRefused(c)
  BY <1>2, ClientLocal DEF ConnectRefused
<1>3. CASE ConnectUnanswered(c)
  BY <1>3, RetryStep
<1>4. CASE Connected(c)
  BY <1>4, ConnectedStep
<1>. QED  BY <1>1, <1>2, <1>3, <1>4 DEF Client

-----------------------------------------------------------------------------
\* The last ACK.
LEMMA NetworkStep == ASSUME Inv, Network PROVE Inv'
<1>. USE DEF Inv
<1>0. Backlog \in Nat
  BY ConnectAssumption
<1>1. UNCHANGED <<server, spc, accepted, clientvars>> /\ half > 0 /\ half' = half - 1
  BY DEF Network, AckArrives, RequestDropped
<1>2. ConnectInv' /\ NoFdLeaked'
  BY <1>1, ClientsUntouched
<1>3. CASE AckArrives
  <2>1. queue' = queue + 1 /\ ready' \in BOOLEAN /\ ~(queue > Backlog)
    BY <1>3 DEF AckArrives, Full
  <2>2. TypeOK'
    BY <1>0, <1>1, <2>1 DEF TypeOK, clientvars
  <2>3. EventInv'
    BY <1>1, <2>1 DEF EventInv, TypeOK
  <2>. QED  BY <1>2, <2>2, <2>3
<1>4. CASE RequestDropped
  <2>1. queue' = queue /\ ready' = ready
    BY <1>4 DEF RequestDropped
  <2>. QED  BY <1>1, <1>2, <2>1 DEF TypeOK, EventInv, clientvars
<1>. QED  BY <1>3, <1>4 DEF Network

\* accept() takes the first connection of the queue.
LEMMA TakeFirstStep ==
    ASSUME Inv, TakeFirst, ~Exhausted, queue > 0,
           UNCHANGED <<server, half, ready, clientvars>>, spc' = "wait"
    PROVE  Inv'
<1>. USE DEF Inv
<1>1. ServerFds \in Nat /\ Backlog \in Nat
  BY ConnectAssumption
<1>2. TypeOK'
  BY <1>1 DEF TypeOK, TakeFirst, Exhausted, clientvars
<1>3. EventInv' /\ ConnectInv' /\ NoFdLeaked'
  BY ClientsUntouched DEF EventInv
<1>. QED  BY <1>2, <1>3

LEMMA ServerStep == ASSUME Inv, Server \/ KeyPressed PROVE Inv'
<1>. USE DEF Inv
<1>1. ServerFds \in Nat /\ Backlog \in Nat
  BY ConnectAssumption
<1>2. CASE EpollWait \/ EpollEmpty
  <2>1. /\ UNCHANGED <<server, half, queue, accepted, clientvars>> /\ ready' \in BOOLEAN
        /\ spc' = spc \/ (spc' = "event" /\ server = "epoll" /\ queue > 0)
    BY <1>2 DEF EpollWait, EpollEmpty, TypeOK
  <2>2. ConnectInv' /\ NoFdLeaked'
    BY <2>1, ClientsUntouched
  <2>3. TypeOK' /\ EventInv'
    BY <2>1 DEF TypeOK, EventInv, clientvars
  <2>. QED  BY <2>2, <2>3
<1>3. CASE EpollAccept /\ Exhausted
  <2>1. UNCHANGED <<server, half, queue, ready, accepted, clientvars>> /\ spc' = "wait"
    BY <1>3 DEF EpollAccept
  <2>2. ConnectInv' /\ NoFdLeaked'
    BY <2>1, ClientsUntouched
  <2>3. TypeOK' /\ EventInv'
    BY <2>1 DEF TypeOK, EventInv, clientvars
  <2>. QED  BY <2>2, <2>3
<1>4. CASE EpollAccept /\ ~Exhausted
  BY <1>4, TakeFirstStep DEF EpollAccept, EventInv
<1>5. CASE Accept
  BY <1>5, TakeFirstStep DEF Accept
<1>6. CASE AcceptFails \/ KeyPressed
  <2>1. /\ spc' = "exited" /\ half' = 0 /\ queue' = 0 /\ ready' = FALSE /\ accepted' = 0
        /\ UNCHANGED <<server, clientvars>>
    BY <1>6 DEF AcceptFails, KeyPressed, ServerExits
  <2>2. ConnectInv' /\ NoFdLeaked'
    BY <2>1, ClientsUntouched
  <2>3. EventInv'
    BY <2>1 DEF EventInv
  <2>4. TypeOK'
    <3>1. half' \in Nat /\ queue' \in 0 .. Backlog + 1 /\ accepted' \in 0 .. ServerFds
      BY ONLY <1>1, <2>1
    <3>2. spc' \in {"wait", "event", "exited"} /\ ready' \in BOOLEAN
      BY <2>1, Zenon
    <3>. QED  BY <2>1, <3>1, <3>2 DEF TypeOK, clientvars
  <2>. QED  BY <2>2, <2>3, <2>4
<1>. QED  BY <1>2, <1>3, <1>4, <1>5, <1>6 DEF Server

LEMMA Invariance == Spec => []Inv
<1>1. Init => Inv
  BY InitInv
<1>2. Inv /\ [Next]_vars => Inv'
  <2>1. ASSUME Inv, UNCHANGED vars PROVE Inv'
    BY <2>1 DEF Inv, TypeOK, EventInv, ConnectInv, NoFdLeaked, vars, servervars, clientvars
  <2>. QED  BY <2>1, ClientStep, NetworkStep, ServerStep DEF Next
<1>. QED  BY <1>1, <1>2, PTL DEF Spec

-----------------------------------------------------------------------------
\* Whatever the limits are: the accept queue has at most Backlog + 1 connections, the
\* server has accepted no more than it has descriptors for, a client with a process of
\* its own has no more descriptors than it may have, no client makes more connections
\* than it wants, and no SYN is retransmitted too often.  (It says nothing of the ports,
\* nor of the descriptors that the dialers share.)
THEOREM TypeCorrect == Spec => []TypeOK
<1>1. Inv => TypeOK
  BY DEF Inv
<1>. QED  BY <1>1, Invariance, PTL

\* connect_test_client.c and connect_client.go leak no descriptor, however many of
\* their connects fail.
THEOREM NoDescriptorLeaks == Spec => []NoFdLeaked
<1>1. Inv => NoFdLeaked
  BY DEF Inv
<1>. QED  BY <1>1, Invariance, PTL

=============================================================================
