--------------------------- MODULE EpollServerProofs ---------------------------
(***************************************************************************)
(* The safety properties of EpollServer, for any number of connections,    *)
(* descriptors and events per epoll_wait().                                *)
(***************************************************************************)
EXTENDS EpollServer, TLAPS

\* The accept queue holds the queued connections, each once.
QueueOK ==
    /\ \A i \in 1 .. Len(backlog) : conn[backlog[i]] = "queued"
    /\ \A i, j \in 1 .. Len(backlog) : backlog[i] = backlog[j] => i = j

\* Once the loop has been left nothing is open.
Stopped == ~running => batch = {} /\ interest = {} /\ backlog = <<>>

\* Every byte is unread or written, and the bytes of a connection the loop has
\* closed have all been read.
BytesOK ==
    \A c \in Conns :
        /\ StdinWritable => written[c] + unread[c] = sent[c]
        /\ running /\ conn[c] = "closed" => unread[c] = 0 /\ peer[c] # "open"

EpollInv == EpollTypeOK /\ NeverBlocks /\ Watched /\ QueueOK /\ Stopped /\ BytesOK

LEMMA LeastIsNat ==
    ASSUME NEW a \in Nat, NEW b \in Nat
    PROVE  LeastOf(a, b) \in Nat /\ LeastOf(a, b) <= a /\ a - LeastOf(a, b) \in Nat
BY DEF LeastOf

LEMMA InitInv == Init => EpollInv
<1> SUFFICES ASSUME Init PROVE EpollInv
    OBVIOUS
<1> USE EpollAssumption DEF Init
<1>1. EpollTypeOK
    BY DEF EpollTypeOK
<1>2. NeverBlocks /\ Stopped /\ QueueOK
    BY DEF NeverBlocks, Stopped, QueueOK
<1>3. Watched
    BY DEF Watched
<1>4. BytesOK
    BY DEF BytesOK
<1> QED BY <1>1, <1>2, <1>3, <1>4 DEF EpollInv


\* The clients' steps.
LEMMA ClientInv ==
    ASSUME EpollInv, NEW c \in Conns, Client(c)
    PROVE  EpollInv'
<1> USE EpollAssumption DEF EpollInv
<1>1. CASE Connect(c)
    <2> USE <1>1 DEF Connect, clientvars
    <2>1. EpollTypeOK' /\ Stopped'
        BY DEF EpollTypeOK, Stopped
    <2>2. backlog' # <<>> /\ Len(backlog') = Len(backlog) + 1
          /\ \A i \in 1 .. Len(backlog') : backlog'[i] = IF i = Len(backlog') THEN c ELSE backlog[i]
        BY DEF EpollTypeOK
    <2>3. NeverBlocks'
        BY <2>2 DEF NeverBlocks, Readable
    <2>4. Watched'
        BY DEF Watched, EpollTypeOK
    <2>5. QueueOK'
        <3>1. \A i \in 1 .. Len(backlog) : backlog[i] \in Conns /\ backlog[i] # c
            BY DEF QueueOK, EpollTypeOK
        <3>2. Len(backlog) \in Nat
            BY DEF EpollTypeOK
        <3>3. ASSUME NEW i \in 1 .. Len(backlog') PROVE conn'[backlog'[i]] = "queued"
            <4>1. CASE i = Len(backlog')
                BY <4>1, <2>2 DEF EpollTypeOK
            <4>2. CASE i # Len(backlog')
                <5>1. i \in 1 .. Len(backlog) /\ backlog'[i] = backlog[i]
                    BY <4>2, <2>2, <3>2
                <5> QED BY <5>1, <3>1 DEF QueueOK, EpollTypeOK
            <4> QED BY <4>1, <4>2
        <3>4. ASSUME NEW i \in 1 .. Len(backlog'), NEW j \in 1 .. Len(backlog'),
                     backlog'[i] = backlog'[j]
              PROVE  i = j
            <4> HIDE <1>1 DEF Connect
            <4> QED BY <2>2, <3>1, <3>2, <3>4 DEF QueueOK
        <3> QED BY <3>3, <3>4 DEF QueueOK
    <2>6. BytesOK'
        BY DEF BytesOK, EpollTypeOK
    <2> QED BY <2>1, <2>3, <2>4, <2>5, <2>6
<1>2. CASE ClientSends(c)
    <2> USE <1>2 DEF ClientSends, clientvars
    <2>1. EpollTypeOK' /\ Stopped' /\ QueueOK'
        BY DEF EpollTypeOK, Stopped, QueueOK
    <2>2. \A d \in Conns : Readable(d) => Readable(d)'
        BY DEF EpollTypeOK, Readable
    <2>3. NeverBlocks'
        BY <2>2 DEF NeverBlocks, EpollTypeOK
    <2>4. Watched'
        BY DEF Watched, EpollTypeOK
    <2>5. BytesOK'
        BY DEF BytesOK, EpollTypeOK, Alive
    <2> QED BY <2>1, <2>3, <2>4, <2>5
<1>3. CASE ClientLeaves(c)
    <2> USE <1>3 DEF ClientLeaves, clientvars
    <2>1. EpollTypeOK' /\ Stopped' /\ QueueOK'
        BY DEF EpollTypeOK, Stopped, QueueOK
    <2>2. \A d \in Conns : Readable(d) => Readable(d)'
        BY DEF EpollTypeOK, Readable
    <2>3. NeverBlocks'
        BY <2>2 DEF NeverBlocks, EpollTypeOK
    <2>4. Watched'
        BY DEF Watched, EpollTypeOK
    <2>5. BytesOK'
        BY DEF BytesOK, EpollTypeOK, Alive
    <2> QED BY <2>1, <2>3, <2>4, <2>5
<1> QED BY <1>1, <1>2, <1>3 DEF Client

\* epoll_wait() reports what is ready, or fails.
LEMMA WaitInv ==
    ASSUME EpollInv, EpollWait \/ EpollFails
    PROVE  EpollInv'
<1> USE EpollAssumption DEF EpollInv
<1>1. CASE EpollWait
    <2> USE <1>1 DEF EpollWait, clientvars
    <2>1. EpollTypeOK' /\ Stopped' /\ QueueOK' /\ Watched' /\ BytesOK'
        BY DEF EpollTypeOK, Stopped, QueueOK, Watched, BytesOK, Ready
    <2>2. NeverBlocks'
        BY DEF NeverBlocks, Ready, EpollTypeOK, Watched, Readable, Fds, server_socket_fd
    <2> QED BY <2>1, <2>2
<1>2. CASE EpollFails
    <2> USE <1>2 DEF EpollFails, clientvars
    <2>1. EpollTypeOK'
        <3>1. conn' \in [Conns -> {"none", "queued", "accepted", "closed"}]
            OBVIOUS
        <3>2. open' \in [Fds -> Conns \cup {None}] /\ backlog' \in Seq(Conns)
            OBVIOUS
        <3> QED BY <3>1, <3>2 DEF EpollTypeOK
    <2>2. Watched'
        BY DEF Watched, EpollTypeOK
    <2>3. Stopped' /\ NeverBlocks' /\ BytesOK'
        BY DEF Stopped, NeverBlocks, BytesOK, EpollTypeOK
    <2>4. QueueOK'
        BY DEF QueueOK
    <2> QED BY <2>1, <2>2, <2>3, <2>4
<1> QED BY <1>1, <1>2

\* The events of the listening socket.
LEMMA AcceptInv ==
    ASSUME EpollInv, Accept \/ AcceptFails
    PROVE  EpollInv'
<1> USE EpollAssumption DEF EpollInv
<1>1. CASE Accept
    <2> USE <1>1 DEF clientvars
    <2>1. PICK fd \in Free :
             open' = [open EXCEPT ![fd] = Head(backlog)] /\ interest' = interest \cup {fd}
        BY DEF Accept
    <2> DEFINE c == Head(backlog)
    <2>2. /\ backlog # <<>> /\ server_socket_fd \in batch
          /\ conn' = [conn EXCEPT ![c] = "accepted"]
          /\ backlog' = Tail(backlog) /\ batch' = batch \ {server_socket_fd}
          /\ UNCHANGED <<running, unread, written, peer, sent>>
        BY DEF Accept
    <2>3. /\ Len(backlog) \in Nat /\ Len(backlog) > 0 /\ c = backlog[1] /\ c \in Conns
          /\ backlog' \in Seq(Conns) /\ Len(backlog') = Len(backlog) - 1
          /\ \A i \in 1 .. Len(backlog') : backlog'[i] = backlog[i + 1]
        BY <2>2 DEF EpollTypeOK
    <2>4. fd \in Fds /\ open[fd] = None /\ c # None /\ conn[c] = "queued" /\ fd \notin interest
        BY <2>3 DEF Free, QueueOK, Watched
    <2>5. EpollTypeOK'
        BY <2>1, <2>2, <2>3, <2>4 DEF EpollTypeOK
    <2>6. Stopped'
        BY <2>2 DEF Stopped
    <2>7. NeverBlocks'
        BY <2>1, <2>2, <2>4 DEF NeverBlocks, Readable, EpollTypeOK, Watched
    <2>8. QueueOK'
        <3>1. ASSUME NEW i \in 1 .. Len(backlog')
              PROVE  i + 1 \in 1 .. Len(backlog) /\ backlog'[i] = backlog[i + 1]
                     /\ backlog[i + 1] # c /\ backlog[i + 1] \in Conns
            <4>1. i + 1 \in 1 .. Len(backlog) /\ i + 1 # 1 /\ 1 \in 1 .. Len(backlog)
                BY <2>3
            <4>2. backlog[i + 1] # backlog[1]
                BY <4>1 DEF QueueOK
            <4> QED BY <4>1, <4>2, <2>3 DEF EpollTypeOK
        <3>2. ASSUME NEW i \in 1 .. Len(backlog') PROVE conn'[backlog'[i]] = "queued"
            BY <3>1, <2>2 DEF QueueOK, EpollTypeOK
        <3>3. ASSUME NEW i \in 1 .. Len(backlog'), NEW j \in 1 .. Len(backlog'),
                     backlog'[i] = backlog'[j]
              PROVE  i = j
            <4>1. i + 1 = j + 1
                BY <3>1, <3>3 DEF QueueOK
            <4> QED BY <4>1
        <3> QED BY <3>2, <3>3 DEF QueueOK
    <2>9. Watched'
        BY <2>1, <2>2, <2>3, <2>4 DEF Watched, EpollTypeOK
    <2>10. BytesOK'
        BY <2>2, <2>3, <2>4 DEF BytesOK, EpollTypeOK
    <2> QED BY <2>5, <2>6, <2>7, <2>8, <2>9, <2>10
<1>2. CASE AcceptFails
    BY <1>2 DEF AcceptFails, clientvars, EpollTypeOK, Stopped, NeverBlocks, QueueOK, Watched, BytesOK, Readable
<1> QED BY <1>1, <1>2

\* The events of a connection.
LEMMA HandleInv ==
    ASSUME EpollInv, NEW f \in Fds, Handle(f)
    PROVE  EpollInv'
<1> USE EpollAssumption DEF EpollInv
<1> DEFINE c == open[f]
<1>1. /\ f \in batch /\ f \in interest /\ c \in Conns /\ conn[c] = "accepted"
      /\ f # server_socket_fd /\ running
      /\ \A g \in interest : g # f => open[g] # c
    BY DEF Handle, ReadData, ReadEof, ReadError, NeverBlocks, Watched, EpollTypeOK,
           Stopped, Fds, server_socket_fd
<1>2. CASE ReadData(f)
    <2> DEFINE n == LeastOf(unread[c], Bufsiz)
    <2>1. /\ unread' = [unread EXCEPT ![c] = @ - n]
          /\ written' = IF StdinWritable THEN [written EXCEPT ![c] = @ + n] ELSE written
          /\ batch' = batch \ {f}
          /\ UNCHANGED <<running, open, interest, backlog, conn, peer, sent>>
        BY <1>2 DEF ReadData, clientvars
    <2>2. n \in Nat /\ unread[c] \in Nat /\ unread[c] - n \in Nat
        BY <1>1, LeastIsNat DEF EpollTypeOK
    <2> HIDE DEF n
    <2>3. EpollTypeOK' /\ Stopped' /\ QueueOK' /\ Watched'
        BY <2>1, <2>2, <1>1 DEF EpollTypeOK, Stopped, QueueOK, Watched
    <2>4. NeverBlocks'
        BY <2>1, <1>1 DEF NeverBlocks, Readable, EpollTypeOK
    <2>5. BytesOK'
        BY <2>1, <2>2, <1>1 DEF BytesOK, EpollTypeOK
    <2> QED BY <2>3, <2>4, <2>5
<1>3. ASSUME ReadEof(f) \/ ReadError(f) PROVE EpollInv'
    <2>1. /\ open' = [open EXCEPT ![f] = None] /\ interest' = interest \ {f}
          /\ conn' = [conn EXCEPT ![c] = "closed"]
          /\ batch' \subseteq batch \ {f} /\ unread[c] = 0 /\ peer[c] # "open"
          /\ UNCHANGED <<running, backlog, unread, written, peer, sent>>
        BY <1>3 DEF ReadEof, ReadError, CloseFd, clientvars
    <2>2. EpollTypeOK' /\ Stopped'
        BY <2>1, <1>1 DEF EpollTypeOK, Stopped
    <2>3. QueueOK'
        BY <2>1, <1>1 DEF QueueOK, EpollTypeOK
    <2>4. NeverBlocks'
        BY <2>1, <1>1 DEF NeverBlocks, Readable, EpollTypeOK
    <2>5. Watched'
        BY <2>1, <1>1 DEF Watched, EpollTypeOK
    <2>6. BytesOK'
        BY <2>1, <1>1 DEF BytesOK, EpollTypeOK
    <2> QED BY <2>2, <2>3, <2>4, <2>5, <2>6
<1> QED BY <1>2, <1>3 DEF Handle

LEMMA NextInv == EpollInv /\ [Next]_vars => EpollInv'
<1> SUFFICES ASSUME EpollInv, [Next]_vars PROVE EpollInv'
    OBVIOUS
<1>1. CASE UNCHANGED vars
    BY <1>1 DEF vars, clientvars, EpollInv, EpollTypeOK, NeverBlocks, Readable, Watched,
                QueueOK, Stopped, BytesOK
<1>2. CASE EpollWait \/ EpollFails
    BY <1>2, WaitInv
<1>3. CASE Accept \/ AcceptFails
    BY <1>3, AcceptInv
<1>4. ASSUME NEW f \in Fds, Handle(f) PROVE EpollInv'
    BY <1>4, HandleInv
<1>5. ASSUME NEW c \in Conns, Client(c) PROVE EpollInv'
    BY <1>5, ClientInv
<1> QED BY <1>1, <1>2, <1>3, <1>4, <1>5 DEF Next, Loop

LEMMA Invariance == Spec => []EpollInv
<1>1. Init => EpollInv
    BY InitInv
<1>2. EpollInv /\ [Next]_vars => EpollInv'
    BY NextInv
<1> QED BY <1>1, <1>2, PTL DEF Spec

-----------------------------------------------------------------------------
\* The server's descriptors, queues and counters keep their types.
THEOREM EpollTypeCorrect == Spec => []EpollTypeOK
<1>1. EpollInv => EpollTypeOK
    BY DEF EpollInv
<1> QED BY <1>1, Invariance, PTL

\* No event is stale when the for loop comes to it: accept() and read() on the
\* blocking sockets never block the server's only thread.
THEOREM EventsStayValid == Spec => []NeverBlocks
<1>1. EpollInv => NeverBlocks
    BY DEF EpollInv
<1> QED BY <1>1, Invariance, PTL

\* accept(), EPOLL_CTL_ADD, EPOLL_CTL_DEL and close() keep the epoll set, the
\* open descriptors and the accepted connections in step.
THEOREM NoDescriptorForgotten == Spec => []Watched
<1>1. EpollInv => Watched
    BY DEF EpollInv
<1> QED BY <1>1, Invariance, PTL

\* The loop closes a connection only after it has copied all its bytes.
THEOREM NothingLostAtClose == Spec => []AllWritten
<1>1. EpollInv => AllWritten
    BY DEF EpollInv, BytesOK, AllWritten, EpollTypeOK
<1> QED BY <1>1, Invariance, PTL

=============================================================================
