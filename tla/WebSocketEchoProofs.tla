-------------------------- MODULE WebSocketEchoProofs --------------------------
(***************************************************************************)
(* The safety properties of WebSocketEcho, for any number of sessions and  *)
(* messages and any capacity of the connection.                            *)
(***************************************************************************)
EXTENDS WebSocketEcho, TLAPS

\* Sessions above opened have not begun.
SessionOK ==
    /\ \A s \in Sessions : s > opened => state[s] = "none"
    /\ \A s \in Sessions : state[s] \in {"none", "connecting"} => browser[s] = "open"
    /\ OneSession

LEMMA FramesAreInt ==
    /\ \A x \in Frames : x \in Int
    /\ \A q \in Seq(Frames) : \A i \in 1 .. Len(q) : q[i] \in Int
<1>1. \A x \in Frames : x \in Int
    BY WebSocketAssumption DEF Frames
<1> QED BY <1>1

LEMMA Queue ==
    ASSUME NEW q \in Seq(Frames), q # <<>>
    PROVE  /\ Head(q) \in Frames /\ Tail(q) \in Seq(Frames)
           /\ Len(q) \in Nat /\ Len(q) > 0 /\ Len(Tail(q)) = Len(q) - 1
           /\ Head(q) = q[1]
           /\ \A i \in 1 .. Len(Tail(q)) : i + 1 \in 1 .. Len(q) /\ Tail(q)[i] = q[i + 1]
OBVIOUS

LEMMA Enqueue ==
    ASSUME NEW q \in Seq(Frames), NEW x \in Frames
    PROVE  /\ Append(q, x) \in Seq(Frames)
           /\ Len(q) \in Nat /\ Len(Append(q, x)) = Len(q) + 1
           /\ \A i \in 1 .. Len(q) : Append(q, x)[i] = q[i]
           /\ Append(q, x)[Len(q) + 1] = x
OBVIOUS

-----------------------------------------------------------------------------
LEMMA TypeInit == Init => WsTypeOK
<1> SUFFICES ASSUME Init PROVE WsTypeOK
    OBVIOUS
<1> USE WebSocketAssumption DEF Init
<1>1. <<>> \in Seq(Frames) /\ Len(<<>>) = 0
    OBVIOUS
<1>2. ws \in {0} \cup Sessions /\ opened \in 0 .. MaxSessions /\ 0 \in 0 .. MaxMessages
    OBVIOUS
<1> QED BY <1>1, <1>2 DEF WsTypeOK

LEMMA TypeNext == WsTypeOK /\ [Next]_vars => WsTypeOK'
<1> SUFFICES ASSUME WsTypeOK, [Next]_vars PROVE WsTypeOK'
    OBVIOUS
<1> USE WebSocketAssumption DEF WsTypeOK, pagevars, connvars, handvars
<1>1. CASE UNCHANGED vars
    BY <1>1 DEF vars
<1>2. CASE OpenClick
    <2>1. opened' \in Sessions /\ opened' \in 0 .. MaxSessions
        BY <1>2 DEF OpenClick, Sessions
    <2> QED BY <1>2, <2>1 DEF OpenClick
<1>3. CASE SendClick
    <2>1. ws \in Sessions /\ sent[ws] + 1 \in 0 .. MaxMessages /\ sent[ws] + 1 \in Frames
        BY <1>3 DEF SendClick, Frames
    <2>2. Append(up[ws], sent[ws] + 1) \in Seq(Frames)
        BY <2>1, Enqueue
    <2> QED BY <1>3, <2>1, <2>2 DEF SendClick
<1>4. CASE CloseClick
    <2>1. ws \in Sessions /\ CloseFrame \in Frames
        BY <1>4 DEF CloseClick, Frames, CloseFrame
    <2>2. Append(up[ws], CloseFrame) \in Seq(Frames)
        BY <2>1, Enqueue
    <2> QED BY <1>4, <2>1, <2>2 DEF CloseClick
<1>5. ASSUME NEW s \in Sessions,
             Browser(s) \/ Vanish(s) \/ Echo(s) \/ Ping(s) \/ TcpTimesOut(s)
      PROVE  WsTypeOK'
    <2> DEFINE d == down[s]
               u == up[s]
    <2>1. d \in Seq(Frames) /\ u \in Seq(Frames) /\ PingPong \in Frames /\ CloseFrame \in Frames
          /\ held[s] \in Frames /\ Len(d) \in Nat /\ Len(d) <= Capacity
        BY DEF Frames, PingPong, CloseFrame
    <2>2. ASSUME d # <<>> PROVE Tail(d) \in Seq(Frames) /\ Len(Tail(d)) <= Capacity /\ Head(d) \in Frames
        BY <2>1, <2>2, Queue
    <2>3. ASSUME u # <<>> PROVE Tail(u) \in Seq(Frames) /\ Head(u) \in Frames
        BY <2>1, <2>3, Queue
    <2>4. ASSUME NEW x \in Frames, Len(d) < Capacity
          PROVE  Append(d, x) \in Seq(Frames) /\ Len(Append(d, x)) <= Capacity
        BY <2>1, <2>4, Enqueue
    <2>5. ASSUME NEW x \in Frames PROVE Append(u, x) \in Seq(Frames)
        BY <2>1, Enqueue
    <2>6. CASE OnOpen(s) \/ OnClose(s) \/ Vanish(s) \/ Upgrade(s) \/ TcpTimesOut(s)
        BY <2>6 DEF OnOpen, OnClose, Vanish, Upgrade, TcpTimesOut
    <2>7. CASE OnMessage(s)
        <3>1. Head(d) \in 0 .. MaxMessages
            BY <2>2, <2>7 DEF OnMessage, Receiving, Frames
        <3> QED BY <2>7, <2>2, <3>1 DEF OnMessage, Receiving, Take
    <2>8. CASE OnPing(s)
        BY <2>8, <2>1, <2>2, <2>5 DEF OnPing, Receiving, Take
    <2>9. CASE OnCloseFrame(s)
        BY <2>9, <2>2 DEF OnCloseFrame, Receiving, Take
    <2>10. CASE ReadMessage(s)
        <3>1. Head(u) \in 0 .. MaxMessages
            BY <2>3, <2>10 DEF ReadMessage, Frames
        <3> QED BY <2>10, <2>3, <3>1 DEF ReadMessage
    <2>11. CASE ReadPong(s)
        BY <2>11, <2>3 DEF ReadPong
    <2>12. CASE ReadClose(s)
        BY <2>12, <2>1, <2>3, <2>4 DEF ReadClose, Ends
    <2>13. CASE ReadFails(s) \/ WriteBegins(s) \/ WriteFails(s)
        BY <2>13 DEF ReadFails, WriteBegins, WriteFails, Ends
    <2>14. CASE WriteMessage(s)
        BY <2>14, <2>1, <2>4 DEF WriteMessage
    <2>15. CASE Ping(s)
        BY <2>15, <2>1, <2>4 DEF Ping
    <2> QED BY <1>5, <2>6, <2>7, <2>8, <2>9, <2>10, <2>11, <2>12, <2>13, <2>14, <2>15
            DEF Browser, Echo
<1> QED BY <1>1, <1>2, <1>3, <1>4, <1>5 DEF Next, Click

\* Frames, sessions and connections keep their types, and the frames on their
\* way to a browser never exceed what the connection holds.
THEOREM WsTypeCorrect == Spec => []WsTypeOK
<1>1. Init => WsTypeOK
    BY TypeInit
<1>2. WsTypeOK /\ [Next]_vars => WsTypeOK'
    BY TypeNext
<1> QED BY <1>1, <1>2, PTL DEF Spec

-----------------------------------------------------------------------------
LEMMA SessionNext == WsTypeOK /\ SessionOK /\ [Next]_vars => SessionOK'
<1> SUFFICES ASSUME WsTypeOK, SessionOK, [Next]_vars PROVE SessionOK'
    OBVIOUS
<1> USE WebSocketAssumption DEF SessionOK, OneSession, pagevars, connvars, handvars
<1>1. CASE UNCHANGED vars
    BY <1>1 DEF vars
<1>2. CASE OpenClick
    <2>1. /\ opened' = opened + 1 /\ ws' = opened' /\ ws = 0 /\ browser' = browser
          /\ state' = [state EXCEPT ![opened'] = "connecting"] /\ opened < MaxSessions
        BY <1>2 DEF OpenClick
    <2>2. opened \in Nat /\ opened' \in Nat /\ opened' \in Sessions /\ 0 \notin Sessions
        BY <2>1 DEF WsTypeOK, Sessions
    <2>3. opened' > opened /\ \A s \in Sessions : s > opened' => s > opened
        BY <2>1, <2>2 DEF Sessions
    <2>4. \A s \in Sessions : s # opened' => state'[s] = state[s]
        BY <2>1, <2>2 DEF WsTypeOK
    <2>5. state'[opened'] = "connecting" /\ state[opened'] = "none"
        BY <2>1, <2>2, <2>3 DEF WsTypeOK
    <2>6. \A s \in Sessions : s > opened' => state'[s] = "none"
        BY <2>2, <2>3, <2>4 DEF Sessions
    <2>7. OneSession'
        BY <2>1, <2>2, <2>4, <2>5
    <2>8. browser[opened'] = "open"
        BY <2>2, <2>5
    <2> QED BY <2>1, <2>4, <2>6, <2>7, <2>8
<1>3. CASE SendClick
    BY <1>3 DEF SendClick
<1>4. CASE CloseClick
    BY <1>4 DEF CloseClick, WsTypeOK
<1>5. ASSUME NEW s \in Sessions,
             Browser(s) \/ Vanish(s) \/ Echo(s) \/ Ping(s) \/ TcpTimesOut(s)
      PROVE  SessionOK'
    <2>1. CASE OnOpen(s) \/ OnClose(s) \/ Vanish(s)
        <3>1. /\ state[s] \in {"connecting", "open", "closing"}
              /\ \/ state' = [state EXCEPT ![s] = "open"] /\ ws' = ws /\ browser' = browser
                 \/ /\ state' = [state EXCEPT ![s] = "closed"] /\ ws' = 0
                    /\ \A t \in Sessions : t # s => browser'[t] = browser[t]
              /\ opened' = opened
            BY <2>1 DEF OnOpen, OnClose, Vanish, WsTypeOK
        <3>2. ws = s /\ 0 \notin Sessions /\ s <= opened /\ opened \in Nat
            <4>1. ws = s
                BY <3>1
            <4>2. ~(s > opened)
                BY <3>1
            <4> QED BY <4>1, <4>2 DEF Sessions, WsTypeOK
        <3>3. CASE state' = [state EXCEPT ![s] = "open"] /\ ws' = ws /\ browser' = browser
            BY <3>1, <3>2, <3>3 DEF WsTypeOK, Sessions
        <3>4. CASE /\ state' = [state EXCEPT ![s] = "closed"] /\ ws' = 0
                   /\ \A t \in Sessions : t # s => browser'[t] = browser[t]
            BY <3>1, <3>2, <3>4 DEF WsTypeOK, Sessions
        <3> QED BY <3>1, <3>3, <3>4
    <2>2. CASE OnMessage(s) \/ OnPing(s) \/ OnCloseFrame(s)
        BY <2>2 DEF OnMessage, OnPing, OnCloseFrame
    <2>3. CASE Echo(s)
        BY <2>3 DEF Echo, Upgrade, ReadMessage, ReadPong, ReadClose, ReadFails, WriteBegins,
                    WriteMessage, WriteFails
    <2>4. CASE Ping(s) \/ TcpTimesOut(s)
        BY <2>4 DEF Ping, TcpTimesOut
    <2> QED BY <1>5, <2>1, <2>2, <2>3, <2>4 DEF Browser
<1> QED BY <1>1, <1>2, <1>3, <1>4, <1>5 DEF Next, Click

\* ws is null exactly when no session is under way.
THEOREM OneAtATime == Spec => []OneSession
<1>1. Init => SessionOK
    BY WebSocketAssumption DEF Init, SessionOK, OneSession, Sessions
<1>2. WsTypeOK /\ SessionOK /\ [Next]_vars => SessionOK'
    BY SessionNext
<1>3. SessionOK => OneSession
    BY DEF SessionOK
<1> QED BY <1>1, <1>2, <1>3, WsTypeCorrect, PTL DEF Spec

-----------------------------------------------------------------------------
(* The order of the messages.  One session is looked at at a time. *)

LEMMA TailIncreasing ==
    ASSUME NEW q \in Seq(Frames), q # <<>>, Increasing(q)
    PROVE  Increasing(Tail(q)) /\ \A j \in 1 .. Len(Tail(q)) : Head(q) > 0 /\ Tail(q)[j] > 0 => Head(q) < Tail(q)[j]
<1>1. \A j \in 1 .. Len(Tail(q)) : j + 1 \in 1 .. Len(q) /\ Tail(q)[j] = q[j + 1]
    BY Queue
<1>2. Increasing(Tail(q))
    <2> SUFFICES ASSUME NEW i \in 1 .. Len(Tail(q)), NEW j \in 1 .. Len(Tail(q)),
                        i < j, Tail(q)[i] > 0, Tail(q)[j] > 0
                 PROVE  Tail(q)[i] < Tail(q)[j]
        BY DEF Increasing
    <2>1. i + 1 < j + 1
        BY Queue
    <2> QED BY <1>1, <2>1 DEF Increasing
<1>3. ASSUME NEW j \in 1 .. Len(Tail(q)), Head(q) > 0, Tail(q)[j] > 0 PROVE Head(q) < Tail(q)[j]
    <2>1. 1 \in 1 .. Len(q) /\ 1 < j + 1 /\ Head(q) = q[1]
        BY Queue
    <2> QED BY <1>1, <1>3, <2>1 DEF Increasing
<1> QED BY <1>2, <1>3

LEMMA AppendIncreasing ==
    ASSUME NEW q \in Seq(Frames), NEW x \in Frames, Increasing(q),
           x > 0 => \A i \in 1 .. Len(q) : q[i] > 0 => q[i] < x
    PROVE  Increasing(Append(q, x))
<1> DEFINE p == Append(q, x)
           n == Len(q)
<1>1. n \in Nat /\ Len(p) = n + 1 /\ (\A i \in 1 .. n : p[i] = q[i]) /\ p[n + 1] = x
    BY Enqueue
<1> HIDE DEF p
<1> SUFFICES ASSUME NEW i \in 1 .. Len(p), NEW j \in 1 .. Len(p), i < j, p[i] > 0, p[j] > 0
             PROVE  p[i] < p[j]
    BY DEF Increasing, p
<1>2. i \in 1 .. n
    BY <1>1
<1>3. CASE j = n + 1
    BY <1>1, <1>2, <1>3
<1>4. CASE j # n + 1
    <2>1. j \in 1 .. n
        BY <1>1, <1>4
    <2> QED BY <1>1, <1>2, <2>1 DEF Increasing
<1> QED BY <1>3, <1>4

\* The order within a session, over its parts: the frames on their way up and
\* down, the message held, if one is, the last received and the number sent.
\* Nothing is on its way that has not been sent.
Order(u, d, h, holding, r, n) ==
    /\ Increasing(u) /\ Increasing(d)
    /\ \A i \in 1 .. Len(d) : d[i] > 0 =>
         /\ r < d[i] /\ d[i] <= n
         /\ holding => d[i] < h
         /\ \A j \in 1 .. Len(u) : u[j] > 0 => d[i] < u[j]
    /\ \A j \in 1 .. Len(u) : u[j] > 0 => r < u[j] /\ (holding => h < u[j]) /\ u[j] <= n
    /\ r <= n
    /\ holding => r < h /\ h <= n

OrderOf(s) == Order(up[s], down[s], held[s], Holding(s), rcvd[s], sent[s])
OrderOK == \A s \in Sessions : OrderOf(s)

\* A frame goes up: the next message, or a control frame.
LEMMA OrderUp ==
    ASSUME NEW u \in Seq(Frames), NEW d \in Seq(Frames), NEW h \in Int, NEW holding \in BOOLEAN,
           NEW r \in Int, NEW n \in Int, NEW x \in Frames, NEW m \in Int,
           Order(u, d, h, holding, r, n),
           (x = n + 1 /\ m = n + 1) \/ (x <= 0 /\ m = n)
    PROVE  Order(Append(u, x), d, h, holding, r, m)
<1> DEFINE v == Append(u, x)
<1>1. \A i \in 1 .. Len(d) : d[i] \in Int
    BY FramesAreInt
<1>2. \A j \in 1 .. Len(u) : u[j] \in Int
    BY FramesAreInt
<1>3. Increasing(v)
    <2>1. x > 0 => \A i \in 1 .. Len(u) : u[i] > 0 => u[i] < x
        BY <1>2 DEF Order, Frames
    <2> QED BY <2>1, AppendIncreasing DEF Order
<1>4. \A j \in 1 .. Len(v) : v[j] = x \/ \E i \in 1 .. Len(u) : v[j] = u[i]
    BY Enqueue
<1> HIDE DEF v
<1>5. ASSUME NEW i \in 1 .. Len(d), d[i] > 0
      PROVE  r < d[i] /\ d[i] <= m /\ (holding => d[i] < h)
             /\ \A j \in 1 .. Len(v) : v[j] > 0 => d[i] < v[j]
    <2>1. r < d[i] /\ d[i] <= n /\ (holding => d[i] < h) /\ \A j \in 1 .. Len(u) : u[j] > 0 => d[i] < u[j]
        BY <1>5 DEF Order
    <2>2. \A j \in 1 .. Len(v) : v[j] > 0 => d[i] < v[j]
        <3> SUFFICES ASSUME NEW j \in 1 .. Len(v), v[j] > 0 PROVE d[i] < v[j]
            OBVIOUS
        <3>1. CASE v[j] = x
            <4>1. x = n + 1
                BY <3>1, FramesAreInt
            <4> QED BY <3>1, <4>1, <1>1, <2>1
        <3>2. CASE \E k \in 1 .. Len(u) : v[j] = u[k]
            BY <3>2, <2>1
        <3> QED BY <1>4, <3>1, <3>2
    <2> QED BY <1>1, <2>1, <2>2
<1>6. ASSUME NEW j \in 1 .. Len(v), v[j] > 0
      PROVE  r < v[j] /\ (holding => h < v[j]) /\ v[j] <= m
    <2>1. CASE v[j] = x
        BY <1>6, <2>1 DEF Order, Frames
    <2>2. CASE \E i \in 1 .. Len(u) : v[j] = u[i]
        <3>1. PICK i \in 1 .. Len(u) : v[j] = u[i]
            BY <2>2
        <3>2. r < u[i] /\ (holding => h < u[i]) /\ u[i] <= n
            BY <1>6, <3>1 DEF Order
        <3> QED BY <1>2, <3>1, <3>2
    <2> QED BY <1>4, <2>1, <2>2
<1>7. r <= m /\ (holding => r < h /\ h <= m)
    BY DEF Order
<1> QED BY <1>3, <1>5, <1>6, <1>7 DEF Order, v

\* The handler takes a frame: a message, which it then holds, or another.
LEMMA OrderRead ==
    ASSUME NEW u \in Seq(Frames), NEW d \in Seq(Frames), NEW h \in Int,
           NEW r \in Int, NEW n \in Int, u # <<>>, NEW g \in Int, NEW holding \in BOOLEAN,
           Order(u, d, h, FALSE, r, n),
           holding => Head(u) > 0 /\ g = Head(u)
    PROVE  Order(Tail(u), d, g, holding, r, n)
<1> DEFINE v == Tail(u)
<1>1. \A j \in 1 .. Len(v) : j + 1 \in 1 .. Len(u) /\ v[j] = u[j + 1]
    BY Queue
<1>2. 1 \in 1 .. Len(u) /\ Head(u) = u[1]
    BY Queue
<1>3. Increasing(v) /\ \A j \in 1 .. Len(v) : Head(u) > 0 /\ v[j] > 0 => Head(u) < v[j]
    BY TailIncreasing DEF Order
<1> HIDE DEF v
<1>4. ASSUME NEW i \in 1 .. Len(d), d[i] > 0
      PROVE  r < d[i] /\ d[i] <= n /\ (holding => d[i] < g)
             /\ \A j \in 1 .. Len(v) : v[j] > 0 => d[i] < v[j]
    BY <1>1, <1>2, <1>4 DEF Order
<1>5. ASSUME NEW j \in 1 .. Len(v), v[j] > 0
      PROVE  r < v[j] /\ (holding => g < v[j]) /\ v[j] <= n
    BY <1>1, <1>3, <1>5 DEF Order
<1>6. r <= n /\ (holding => r < g /\ g <= n)
    BY <1>2 DEF Order
<1> QED BY <1>3, <1>4, <1>5, <1>6 DEF Order, v

\* A frame goes down: the message held, which then is no longer, or another.
LEMMA OrderDown ==
    ASSUME NEW u \in Seq(Frames), NEW d \in Seq(Frames), NEW h \in Int, NEW holding \in BOOLEAN,
           NEW r \in Int, NEW n \in Int, NEW x \in Frames, NEW still \in BOOLEAN,
           Order(u, d, h, holding, r, n),
           \/ x = h /\ holding /\ ~still
           \/ x <= 0 /\ (still => holding)
    PROVE  Order(u, Append(d, x), h, still, r, n)
<1> DEFINE e == Append(d, x)
<1>1. \A i \in 1 .. Len(d) : d[i] \in Int
    BY FramesAreInt
<1>2. Increasing(e)
    <2>1. x > 0 => \A i \in 1 .. Len(d) : d[i] > 0 => d[i] < x
        BY DEF Order, Frames
    <2> QED BY <2>1, AppendIncreasing DEF Order
<1>3. \A i \in 1 .. Len(e) : e[i] = x \/ \E k \in 1 .. Len(d) : e[i] = d[k]
    BY Enqueue
<1> HIDE DEF e
<1>4. ASSUME NEW i \in 1 .. Len(e), e[i] > 0
      PROVE  r < e[i] /\ e[i] <= n /\ (still => e[i] < h)
             /\ \A j \in 1 .. Len(u) : u[j] > 0 => e[i] < u[j]
    <2>1. CASE e[i] = x
        BY <1>4, <2>1 DEF Order, Frames
    <2>2. CASE \E k \in 1 .. Len(d) : e[i] = d[k]
        BY <1>4, <2>2 DEF Order, Frames
    <2> QED BY <1>3, <2>1, <2>2
<1>5. ASSUME NEW j \in 1 .. Len(u), u[j] > 0
      PROVE  r < u[j] /\ (still => h < u[j]) /\ u[j] <= n
    BY <1>5 DEF Order, Frames
<1>6. r <= n /\ (still => r < h /\ h <= n)
    BY DEF Order, Frames
<1> QED BY <1>2, <1>4, <1>5, <1>6 DEF Order, e

\* The browser takes a frame: a message, which is then the last received, or
\* another.
LEMMA OrderReceive ==
    ASSUME NEW u \in Seq(Frames), NEW d \in Seq(Frames), NEW h \in Int, NEW holding \in BOOLEAN,
           NEW r \in Int, NEW n \in Int, d # <<>>, NEW q \in Int,
           Order(u, d, h, holding, r, n),
           (Head(d) > 0 /\ q = Head(d)) \/ q = r
    PROVE  Order(u, Tail(d), h, holding, q, n)
<1> DEFINE e == Tail(d)
<1>1. \A j \in 1 .. Len(e) : j + 1 \in 1 .. Len(d) /\ e[j] = d[j + 1]
    BY Queue
<1>2. 1 \in 1 .. Len(d) /\ Head(d) = d[1]
    BY Queue
<1>3. Increasing(e) /\ \A j \in 1 .. Len(e) : Head(d) > 0 /\ e[j] > 0 => Head(d) < e[j]
    BY TailIncreasing DEF Order
<1> HIDE DEF e
<1>4. ASSUME NEW i \in 1 .. Len(e), e[i] > 0
      PROVE  q < e[i] /\ e[i] <= n /\ (holding => e[i] < h)
             /\ \A j \in 1 .. Len(u) : u[j] > 0 => e[i] < u[j]
    BY <1>1, <1>3, <1>4 DEF Order
<1>5. ASSUME NEW j \in 1 .. Len(u), u[j] > 0
      PROVE  q < u[j] /\ (holding => h < u[j]) /\ u[j] <= n
    BY <1>2, <1>5 DEF Order
<1>6. q <= n /\ (holding => q < h /\ h <= n)
    BY <1>2 DEF Order
<1> QED BY <1>3, <1>4, <1>5, <1>6 DEF Order, e

\* The handler lets go of what it holds.
LEMMA OrderDrop ==
    ASSUME NEW u, NEW d, NEW h, NEW holding, NEW r, NEW n, Order(u, d, h, holding, r, n)
    PROVE  Order(u, d, h, FALSE, r, n)
BY DEF Order

LEMMA OrderSame ==
    ASSUME NEW s, OrderOf(s),
           up'[s] = up[s], down'[s] = down[s], held'[s] = held[s], Holding(s)' = Holding(s),
           rcvd'[s] = rcvd[s], sent'[s] = sent[s]
    PROVE  OrderOf(s)'
BY DEF OrderOf

LEMMA OrderNext == WsTypeOK /\ OrderOK /\ [Next]_vars => OrderOK'
<1> SUFFICES ASSUME WsTypeOK, OrderOK, [Next]_vars, NEW t \in Sessions PROVE OrderOf(t)'
    BY DEF OrderOK
<1> USE DEF pagevars, connvars, handvars
<1>1. /\ OrderOf(t) /\ up[t] \in Seq(Frames) /\ down[t] \in Seq(Frames) /\ held[t] \in Int
      /\ rcvd[t] \in Int /\ sent[t] \in Int /\ Holding(t) \in BOOLEAN
    BY WebSocketAssumption DEF OrderOK, WsTypeOK, Holding
<1>2. CASE UNCHANGED vars
    BY <1>1, <1>2, OrderSame DEF vars, Holding
<1>3. CASE OpenClick
    BY <1>1, <1>3, OrderSame DEF OpenClick, Holding
<1>4. CASE SendClick
    <2>1. ws \in Sessions /\ UNCHANGED <<rcvd, down, echo, held>>
          /\ sent' = [sent EXCEPT ![ws] = @ + 1] /\ up' = [up EXCEPT ![ws] = Append(@, sent[ws] + 1)]
          /\ sent[ws] < MaxMessages
        BY <1>4 DEF SendClick, WsTypeOK
    <2>2. CASE t = ws
        <3>1. sent[t] + 1 \in Frames
            BY <2>1, <2>2, WebSocketAssumption DEF WsTypeOK, Frames
        <3>2. up'[t] = Append(up[t], sent[t] + 1) /\ sent'[t] = sent[t] + 1
            BY <2>1, <2>2 DEF WsTypeOK
        <3>3. Order(Append(up[t], sent[t] + 1), down[t], held[t], Holding(t), rcvd[t], sent[t] + 1)
            BY <1>1, <3>1, OrderUp DEF OrderOf
        <3> QED BY <2>1, <3>2, <3>3 DEF OrderOf, Holding
    <2>3. CASE t # ws
        BY <1>1, <2>1, <2>3, OrderSame DEF Holding, WsTypeOK
    <2> QED BY <2>2, <2>3
<1>5. CASE CloseClick
    <2>1. ws \in Sessions /\ UNCHANGED <<rcvd, sent, down, echo, held>>
          /\ (up' = up \/ up' = [up EXCEPT ![ws] = Append(@, CloseFrame)])
        BY <1>5 DEF CloseClick, WsTypeOK
    <2>2. CASE t = ws /\ up' = [up EXCEPT ![ws] = Append(@, CloseFrame)]
        <3>1. CloseFrame \in Frames /\ CloseFrame <= 0
            BY WebSocketAssumption DEF Frames, CloseFrame
        <3>2. up'[t] = Append(up[t], CloseFrame)
            BY <2>1, <2>2 DEF WsTypeOK
        <3>3. Order(Append(up[t], CloseFrame), down[t], held[t], Holding(t), rcvd[t], sent[t])
            BY <1>1, <3>1, OrderUp DEF OrderOf
        <3> QED BY <2>1, <3>2, <3>3 DEF OrderOf, Holding
    <2>3. CASE t # ws \/ up' = up
        BY <1>1, <2>1, <2>3, OrderSame DEF Holding, WsTypeOK
    <2> QED BY <2>1, <2>2, <2>3
<1>6. ASSUME NEW s \in Sessions, s # t,
             Browser(s) \/ Vanish(s) \/ Echo(s) \/ Ping(s) \/ TcpTimesOut(s)
      PROVE  OrderOf(t)'
    <2>1. /\ up'[t] = up[t] /\ down'[t] = down[t] /\ held'[t] = held[t]
          /\ echo'[t] = echo[t] /\ rcvd'[t] = rcvd[t] /\ sent'[t] = sent[t]
        BY <1>6 DEF WsTypeOK, Browser, OnOpen, OnMessage, OnPing, OnCloseFrame, OnClose, Take, Vanish,
             Echo, Upgrade, ReadMessage, ReadPong, ReadClose, ReadFails, WriteBegins, WriteMessage,
             WriteFails, Ends, Ping, TcpTimesOut
    <2> QED BY <1>1, <2>1, OrderSame DEF Holding
<1>7. ASSUME Browser(t) \/ Vanish(t) \/ Echo(t) \/ Ping(t) \/ TcpTimesOut(t)
      PROVE  OrderOf(t)'
    <2>1. PingPong \in Frames /\ PingPong <= 0 /\ CloseFrame \in Frames /\ CloseFrame <= 0
        BY WebSocketAssumption DEF Frames, PingPong, CloseFrame
    <2>2. CASE OnOpen(t) \/ OnClose(t) \/ Vanish(t) \/ TcpTimesOut(t)
        BY <1>1, <2>2, OrderSame DEF OnOpen, OnClose, Vanish, TcpTimesOut, Holding
    <2>3. CASE OnMessage(t) \/ OnCloseFrame(t)
        <3>1. /\ down[t] # <<>> /\ down'[t] = Tail(down[t]) /\ UNCHANGED <<up, echo, held, sent>>
              /\ (rcvd'[t] = Head(down[t]) /\ Head(down[t]) > 0) \/ rcvd'[t] = rcvd[t]
              /\ rcvd'[t] \in Int
            BY <2>3, <1>1, FramesAreInt, Queue DEF OnMessage, OnCloseFrame, Receiving, Take, WsTypeOK
        <3>2. Order(up[t], Tail(down[t]), held[t], Holding(t), rcvd'[t], sent[t])
            BY <1>1, <3>1, OrderReceive DEF OrderOf
        <3> QED BY <3>1, <3>2 DEF OrderOf, Holding
    <2>4. CASE OnPing(t)
        <3>1. /\ down[t] # <<>> /\ down'[t] = Tail(down[t]) /\ UNCHANGED <<echo, held, sent, rcvd>>
              /\ up'[t] = up[t] \/ up'[t] = Append(up[t], PingPong)
            BY <2>4 DEF OnPing, Receiving, Take, WsTypeOK
        <3>2. Order(up[t], Tail(down[t]), held[t], Holding(t), rcvd[t], sent[t])
            BY <1>1, <3>1, OrderReceive DEF OrderOf
        <3>3. Tail(down[t]) \in Seq(Frames)
            BY <1>1, <3>1, Queue
        <3>4. Order(Append(up[t], PingPong), Tail(down[t]), held[t], Holding(t), rcvd[t], sent[t])
            BY <1>1, <2>1, <3>2, <3>3, OrderUp
        <3> QED BY <3>1, <3>2, <3>4 DEF OrderOf, Holding
    <2>5. CASE Upgrade(t)
        <3>1. UNCHANGED <<up, down, held, rcvd, sent>> /\ Holding(t)' = FALSE
            BY <2>5 DEF Upgrade, Holding, WsTypeOK
        <3> QED BY <1>1, <3>1, OrderDrop DEF OrderOf
    <2>6. CASE ReadMessage(t)
        <3>1. /\ up[t] # <<>> /\ Head(up[t]) > 0 /\ held'[t] = Head(up[t]) /\ up'[t] = Tail(up[t])
              /\ Holding(t)' = TRUE /\ Holding(t) = FALSE /\ UNCHANGED <<down, rcvd, sent>>
            BY <2>6 DEF ReadMessage, Holding, WsTypeOK
        <3>2. Head(up[t]) \in Int
            BY <1>1, <3>1, FramesAreInt, Queue
        <3>3. Order(Tail(up[t]), down[t], Head(up[t]), TRUE, rcvd[t], sent[t])
            BY <1>1, <3>1, <3>2, OrderRead DEF OrderOf
        <3> QED BY <3>1, <3>3 DEF OrderOf
    <2>7. CASE ReadPong(t)
        <3>1. /\ up[t] # <<>> /\ up'[t] = Tail(up[t]) /\ Holding(t)' = FALSE /\ Holding(t) = FALSE
              /\ UNCHANGED <<down, held, rcvd, sent>>
            BY <2>7 DEF ReadPong, Holding, WsTypeOK
        <3>2. Order(Tail(up[t]), down[t], held[t], FALSE, rcvd[t], sent[t])
            BY <1>1, <3>1, OrderRead DEF OrderOf
        <3> QED BY <3>1, <3>2 DEF OrderOf
    <2>8. CASE ReadClose(t)
        <3>1. /\ up[t] # <<>> /\ up'[t] = Tail(up[t]) /\ Holding(t)' = FALSE /\ Holding(t) = FALSE
              /\ UNCHANGED <<held, rcvd, sent>>
              /\ down'[t] = down[t] \/ down'[t] = Append(down[t], CloseFrame)
            BY <2>8 DEF ReadClose, Ends, Holding, WsTypeOK
        <3>2. Order(Tail(up[t]), down[t], held[t], FALSE, rcvd[t], sent[t])
            BY <1>1, <3>1, OrderRead DEF OrderOf
        <3>3. Tail(up[t]) \in Seq(Frames)
            BY <1>1, <3>1, Queue
        <3>4. Order(Tail(up[t]), Append(down[t], CloseFrame), held[t], FALSE, rcvd[t], sent[t])
            BY <1>1, <2>1, <3>2, <3>3, OrderDown
        <3> QED BY <3>1, <3>2, <3>4 DEF OrderOf
    <2>9. CASE ReadFails(t) \/ WriteFails(t)
        <3>1. UNCHANGED <<up, down, held, rcvd, sent>> /\ Holding(t)' = FALSE
            BY <2>9 DEF ReadFails, WriteFails, Ends, Holding, WsTypeOK
        <3> QED BY <1>1, <3>1, OrderDrop DEF OrderOf
    <2>10. CASE WriteBegins(t)
        <3>1. UNCHANGED <<up, down, held, rcvd, sent>> /\ Holding(t)' = Holding(t)
            BY <2>10 DEF WriteBegins, Holding, WsTypeOK
        <3> QED BY <1>1, <3>1, OrderSame
    <2>11. CASE WriteMessage(t)
        <3>1. /\ Holding(t) = TRUE /\ Holding(t)' = FALSE /\ UNCHANGED <<up, held, rcvd, sent>>
              /\ down'[t] = down[t] \/ down'[t] = Append(down[t], held[t])
            BY <2>11 DEF WriteMessage, Holding, WsTypeOK
        <3>2. held[t] \in Frames
            BY WebSocketAssumption DEF WsTypeOK, Frames
        <3>3. Order(up[t], Append(down[t], held[t]), held[t], FALSE, rcvd[t], sent[t])
            BY <1>1, <3>1, <3>2, OrderDown DEF OrderOf
        <3>4. Order(up[t], down[t], held[t], FALSE, rcvd[t], sent[t])
            BY <1>1, OrderDrop DEF OrderOf
        <3> QED BY <3>1, <3>3, <3>4 DEF OrderOf
    <2>12. CASE Ping(t)
        <3>1. /\ UNCHANGED <<up, echo, held, rcvd, sent>>
              /\ down'[t] = down[t] \/ down'[t] = Append(down[t], PingPong)
            BY <2>12 DEF Ping, WsTypeOK
        <3>2. Order(up[t], Append(down[t], PingPong), held[t], Holding(t), rcvd[t], sent[t])
            BY <1>1, <2>1, OrderDown DEF OrderOf
        <3> QED BY <1>1, <3>1, <3>2 DEF OrderOf, Holding
    <2> QED BY <1>7, <2>2, <2>3, <2>4, <2>5, <2>6, <2>7, <2>8, <2>9, <2>10, <2>11, <2>12
            DEF Browser, Echo
<1> QED BY <1>2, <1>3, <1>4, <1>5, <1>6, <1>7 DEF Next, Click

\* Pings, pongs and closing never make the server echo a message twice or
\* before an earlier one.
THEOREM EchoesInOrder == Spec => []EchoInOrder
<1>1. Init => OrderOK
    <2> SUFFICES ASSUME Init, NEW s \in Sessions PROVE OrderOf(s)
        BY DEF OrderOK
    <2>1. up[s] = <<>> /\ down[s] = <<>> /\ rcvd[s] = 0 /\ sent[s] = 0 /\ Holding(s) = FALSE
        BY DEF Init, Holding
    <2> QED BY <2>1 DEF OrderOf, Order, Increasing
<1>2. WsTypeOK /\ OrderOK /\ [Next]_vars => OrderOK'
    BY OrderNext
<1>3. OrderOK => EchoInOrder
    BY DEF OrderOK, OrderOf, Order, EchoInOrder
<1> QED BY <1>1, <1>2, <1>3, WsTypeCorrect, PTL DEF Spec

=============================================================================
