---------------------------- MODULE WebSocketEcho ----------------------------
(***************************************************************************)
(* websocket/server.go: the echo handler, the goroutine that pings, and    *)
(* the page with its Open, Send and Close buttons, over one connection per *)
(* session.  The page starts a session when it has none.                   *)
(*                                                                         *)
(* The websocket library, the browser's WebSocket and TCP are external,    *)
(* modelled as the handlers see them: ReadMessage() answers a close frame  *)
(* and reports it as an error, writers take turns on the connection's      *)
(* mutex, a ping that cannot be written within writeWait spoils the        *)
(* connection for writing, and TCP gives up on a peer that acknowledges    *)
(* neither frames nor the listener's keep-alive probes.                    *)
(***************************************************************************)
EXTENDS Integers, Sequences

CONSTANTS
    MaxSessions,  \* bound on the sessions the user opens
    MaxMessages,  \* bound on the messages sent in each
    Capacity      \* frames the connection holds towards the browser

Sessions == 1 .. MaxSessions

ASSUME WebSocketAssumption ==
    MaxSessions \in Nat /\ MaxMessages \in Nat /\ Capacity \in Nat \ {0}

\* Frames: messages are numbered from 1 in their session.
PingPong == 0
CloseFrame == -1
Frames == -1 .. MaxMessages

VARIABLES
    ws,       \* the page's ws: a session, or 0 for null
    opened,   \* sessions opened so far
    state,    \* per session: "none", or the readyState of its WebSocket
    browser,  \* its end of TCP: "open", "aborted", or "lost" without a trace
    server,   \* its end: "none", "open", "failed" (no upgrade) or "closed"
    broken,   \* TCP has given up
    werr,     \* writing has failed for good
    up, down, \* frames on their way to the server and to the browser
    echo,     \* the handler: "none", "read", "write", "writing" or "ended"
    held,     \* the message it echoes
    sent,     \* messages passed to ws.send() while it was open
    rcvd      \* the last message the browser has received

pagevars == <<ws, opened, state, sent, rcvd>>
connvars == <<browser, server, broken, werr>>
handvars == <<echo, held>>
vars == <<pagevars, connvars, up, down, handvars>>

Init ==
    /\ ws = 0 /\ opened = 0
    /\ state = [s \in Sessions |-> "none"] /\ browser = [s \in Sessions |-> "open"]
    /\ server = [s \in Sessions |-> "none"]
    /\ broken = [s \in Sessions |-> FALSE] /\ werr = [s \in Sessions |-> FALSE]
    /\ up = [s \in Sessions |-> <<>>] /\ down = [s \in Sessions |-> <<>>]
    /\ echo = [s \in Sessions |-> "none"] /\ held = [s \in Sessions |-> 0]
    /\ sent = [s \in Sessions |-> 0] /\ rcvd = [s \in Sessions |-> 0]

-----------------------------------------------------------------------------
(* The page. *)

\* Open: if (ws) return; ws = new WebSocket(...)
OpenClick ==
    /\ ws = 0 /\ opened < MaxSessions
    /\ opened' = opened + 1 /\ ws' = opened'
    /\ state' = [state EXCEPT ![opened'] = "connecting"]
    /\ UNCHANGED <<sent, rcvd, connvars, up, down, handvars>>

OnOpen(s) ==
    /\ state[s] = "connecting" /\ server[s] \in {"open", "closed"}
    /\ state' = [state EXCEPT ![s] = "open"]
    /\ UNCHANGED <<ws, opened, sent, rcvd, connvars, up, down, handvars>>

\* Send: ws.send() throws before the connection is open and does nothing when
\* it is closing; "SEND:" has been printed all the same.
SendClick ==
    /\ ws # 0 /\ state[ws] = "open" /\ sent[ws] < MaxMessages
    /\ sent' = [sent EXCEPT ![ws] = @ + 1]
    /\ up' = [up EXCEPT ![ws] = Append(@, sent[ws] + 1)]
    /\ UNCHANGED <<ws, opened, state, rcvd, connvars, down, handvars>>

\* Mutation of CloseClick: ws = null at once.
CloseClickForgets ==
    /\ ws # 0 /\ state[ws] \in {"connecting", "open"}
    /\ state' = [state EXCEPT ![ws] = "closing"]
    /\ IF state[ws] = "open"
       THEN up' = [up EXCEPT ![ws] = Append(@, CloseFrame)] /\ UNCHANGED browser
       ELSE browser' = [browser EXCEPT ![ws] = "aborted"] /\ UNCHANGED up
    /\ ws' = 0
    /\ UNCHANGED <<opened, sent, rcvd, server, broken, werr, down, handvars>>

\* Close: before the connection is open this gives it up.
CloseClick ==
    /\ ws # 0 /\ state[ws] \in {"connecting", "open"}
    /\ state' = [state EXCEPT ![ws] = "closing"]
    /\ IF state[ws] = "open"
       THEN up' = [up EXCEPT ![ws] = Append(@, CloseFrame)] /\ UNCHANGED browser
       ELSE browser' = [browser EXCEPT ![ws] = "aborted"] /\ UNCHANGED up
    /\ UNCHANGED <<ws, opened, sent, rcvd, server, broken, werr, down, handvars>>

Receiving(s) == state[s] \in {"open", "closing"} /\ browser[s] = "open" /\ down[s] # <<>>
Take(s) == down' = [down EXCEPT ![s] = Tail(@)]

\* A message: onmessage prints it, unless the page is closing.
OnMessage(s) ==
    /\ Receiving(s) /\ Head(down[s]) > 0
    /\ Take(s)
    /\ rcvd' = [rcvd EXCEPT ![s] = Head(down[s])]
    /\ UNCHANGED <<ws, opened, state, sent, connvars, up, handvars>>

\* A ping is answered by the browser; one answer at a time is enough.
OnPing(s) ==
    /\ Receiving(s) /\ Head(down[s]) = PingPong
    /\ Take(s)
    /\ up' = IF state[s] = "open" /\ (up[s] = <<>> \/ up[s][Len(up[s])] # PingPong)
             THEN [up EXCEPT ![s] = Append(@, PingPong)] ELSE up
    /\ UNCHANGED <<pagevars, connvars, handvars>>

\* A close frame, which here is always the answer to the page's own.
OnCloseFrame(s) ==
    /\ Receiving(s) /\ Head(down[s]) = CloseFrame
    /\ Take(s)
    /\ UNCHANGED <<pagevars, connvars, up, handvars>>

\* The connection is over for the browser: onerror perhaps, and onclose, which
\* sets ws = null.
OnClose(s) ==
    /\ state[s] \in {"connecting", "open", "closing"}
    /\ \/ server[s] = "failed"
       \/ server[s] = "closed" /\ down[s] = <<>> /\ state[s] # "connecting"
       \/ browser[s] = "aborted"
    /\ state' = [state EXCEPT ![s] = "closed"]
    /\ browser' = [browser EXCEPT ![s] = IF @ = "lost" THEN @ ELSE "aborted"]
    /\ ws' = 0
    /\ UNCHANGED <<opened, sent, rcvd, server, broken, werr, up, down, handvars>>

\* The browser's host disappears without a word; the page is loaded again.
Vanish(s) ==
    /\ state[s] \in {"connecting", "open", "closing"} /\ browser[s] = "open"
    /\ state' = [state EXCEPT ![s] = "closed"]
    /\ browser' = [browser EXCEPT ![s] = "lost"]
    /\ ws' = 0
    /\ UNCHANGED <<opened, sent, rcvd, server, broken, werr, up, down, handvars>>

-----------------------------------------------------------------------------
(* The server. *)

\* upgrader.Upgrade(), then "go ping(...)"; or an error, and the handler returns.
Upgrade(s) ==
    /\ state[s] # "none" /\ server[s] = "none"
    /\ \/ /\ server' = [server EXCEPT ![s] = "open"]
          /\ echo' = [echo EXCEPT ![s] = "read"]
       \/ /\ server' = [server EXCEPT ![s] = "failed"]
          /\ echo' = [echo EXCEPT ![s] = "ended"]
    /\ UNCHANGED <<pagevars, browser, broken, werr, up, down, held>>

\* ReadMessage() returns a message.
ReadMessage(s) ==
    /\ echo[s] = "read" /\ ~broken[s] /\ up[s] # <<>> /\ Head(up[s]) > 0
    /\ held' = [held EXCEPT ![s] = Head(up[s])]
    /\ up' = [up EXCEPT ![s] = Tail(@)]
    /\ echo' = [echo EXCEPT ![s] = "write"]
    /\ UNCHANGED <<pagevars, connvars, down>>

\* A pong is dealt with inside ReadMessage().
ReadPong(s) ==
    /\ echo[s] = "read" /\ ~broken[s] /\ up[s] # <<>> /\ Head(up[s]) = PingPong
    /\ up' = [up EXCEPT ![s] = Tail(@)]
    /\ UNCHANGED <<pagevars, connvars, down, handvars>>

\* "break", and the deferred c.Close().
Ends(s) ==
    /\ echo' = [echo EXCEPT ![s] = "ended"]
    /\ server' = [server EXCEPT ![s] = "closed"]

\* Mutation of ReadClose: the error is logged and the loop goes on.
ReadCloseGoesOn(s) ==
    /\ echo[s] = "read" /\ ~broken[s] /\ up[s] # <<>> /\ Head(up[s]) = CloseFrame
    /\ up' = [up EXCEPT ![s] = Tail(@)]
    /\ UNCHANGED <<pagevars, connvars, down, handvars>>

\* A close frame is answered inside ReadMessage(), if that can be written, and
\* reported as an error.
ReadClose(s) ==
    /\ echo[s] = "read" /\ ~broken[s] /\ up[s] # <<>> /\ Head(up[s]) = CloseFrame
    /\ up' = [up EXCEPT ![s] = Tail(@)]
    /\ down' = IF werr[s] \/ Len(down[s]) >= Capacity
               THEN down ELSE [down EXCEPT ![s] = Append(@, CloseFrame)]
    /\ Ends(s)
    /\ UNCHANGED <<pagevars, browser, broken, werr, held>>

\* Mutation of ReadFails: the same.
ReadFailsRetries(s) ==
    /\ echo[s] = "read"
    /\ broken[s] \/ (browser[s] = "aborted" /\ up[s] = <<>>)
    /\ UNCHANGED vars

\* The end of the stream or an error.
ReadFails(s) ==
    /\ echo[s] = "read"
    /\ broken[s] \/ (browser[s] = "aborted" /\ up[s] = <<>>)
    /\ Ends(s)
    /\ UNCHANGED <<pagevars, browser, broken, werr, up, down, held>>

\* WriteMessage() gets the connection's mutex ...
WriteBegins(s) ==
    /\ echo[s] = "write"
    /\ echo' = [echo EXCEPT ![s] = "writing"]
    /\ UNCHANGED <<pagevars, connvars, up, down, held>>

\* Mutation of WriteMessage: the message is written again.
WriteMessageTwice(s) ==
    /\ echo[s] = "writing" /\ ~werr[s] /\ ~broken[s]
    /\ IF browser[s] = "aborted"
       THEN UNCHANGED down
       ELSE /\ Len(down[s]) < Capacity
            /\ down' = [down EXCEPT ![s] = Append(@, held[s])]
    /\ echo' = [echo EXCEPT ![s] = "write"]
    /\ UNCHANGED <<pagevars, connvars, up, held>>

\* ... and writes, when there is room; what is written to a browser that has
\* closed its end is lost.
WriteMessage(s) ==
    /\ echo[s] = "writing" /\ ~werr[s] /\ ~broken[s]
    /\ IF browser[s] = "aborted"
       THEN UNCHANGED down
       ELSE /\ Len(down[s]) < Capacity
            /\ down' = [down EXCEPT ![s] = Append(@, held[s])]
    /\ echo' = [echo EXCEPT ![s] = "read"]
    /\ UNCHANGED <<pagevars, connvars, up, held>>

\* Mutation of WriteFails: the error is logged and the loop goes on.
WriteFailsLogs(s) ==
    /\ echo[s] = "writing" /\ (werr[s] \/ broken[s] \/ browser[s] = "aborted")
    /\ echo' = [echo EXCEPT ![s] = "read"]
    /\ UNCHANGED <<pagevars, connvars, up, down, held>>

\* WriteMessage() returns an error.
WriteFails(s) ==
    /\ echo[s] = "writing" /\ (werr[s] \/ broken[s] \/ browser[s] = "aborted")
    /\ Ends(s)
    /\ UNCHANGED <<pagevars, browser, broken, werr, up, down, held>>

\* <-ticker.C in ping(): WriteControl().  When the connection has no room for
\* writeWait it is spoiled.  (An error is logged, and the loop goes on.)
Ping(s) ==
    /\ server[s] = "open" /\ echo[s] # "writing"
    /\ ~werr[s] /\ ~broken[s] /\ browser[s] # "aborted"
    /\ IF Len(down[s]) < Capacity
       THEN down' = [down EXCEPT ![s] = Append(@, PingPong)] /\ UNCHANGED werr
       ELSE werr' = [werr EXCEPT ![s] = TRUE] /\ UNCHANGED down
    /\ UNCHANGED <<pagevars, browser, server, broken, up, handvars>>

\* TCP gives up on a browser that has vanished.
TcpTimesOut(s) ==
    /\ browser[s] = "lost" /\ server[s] = "open" /\ ~broken[s]
    /\ broken' = [broken EXCEPT ![s] = TRUE]
    /\ UNCHANGED <<pagevars, browser, server, werr, up, down, handvars>>

Click == OpenClick \/ SendClick \/ CloseClick
Browser(s) == OnOpen(s) \/ OnMessage(s) \/ OnPing(s) \/ OnCloseFrame(s) \/ OnClose(s)
Echo(s) ==
    \/ Upgrade(s) \/ ReadMessage(s) \/ ReadPong(s) \/ ReadClose(s) \/ ReadFails(s)
    \/ WriteBegins(s) \/ WriteMessage(s) \/ WriteFails(s)

Next ==
    \/ Click
    \/ \E s \in Sessions : Browser(s) \/ Vanish(s) \/ Echo(s) \/ Ping(s) \/ TcpTimesOut(s)

Spec == Init /\ [][Next]_vars

\* Browser, goroutines, ticker and TCP's timers run; the user need not click.
FairSpec ==
    /\ Spec
    /\ \A s \in Sessions :
         WF_vars(Browser(s)) /\ WF_vars(Echo(s)) /\ WF_vars(Ping(s)) /\ WF_vars(TcpTimesOut(s))

-----------------------------------------------------------------------------
WsTypeOK ==
    /\ ws \in {0} \cup Sessions /\ opened \in 0 .. MaxSessions
    /\ state \in [Sessions -> {"none", "connecting", "open", "closing", "closed"}]
    /\ browser \in [Sessions -> {"open", "aborted", "lost"}]
    /\ server \in [Sessions -> {"none", "open", "failed", "closed"}]
    /\ broken \in [Sessions -> BOOLEAN] /\ werr \in [Sessions -> BOOLEAN]
    /\ up \in [Sessions -> Seq(Frames)] /\ down \in [Sessions -> Seq(Frames)]
    /\ echo \in [Sessions -> {"none", "read", "write", "writing", "ended"}]
    /\ held \in [Sessions -> 0 .. MaxMessages]
    /\ sent \in [Sessions -> 0 .. MaxMessages] /\ rcvd \in [Sessions -> 0 .. MaxMessages]
    /\ \A s \in Sessions : Len(down[s]) <= Capacity

\* The page's ws is the one session that is not over: the button handlers and
\* the onclose of an earlier session never touch a later one.
OneSession ==
    \A s \in Sessions : state[s] \in {"connecting", "open", "closing"} <=> ws = s

\* Frames of a sequence that are messages come in the order they were sent in.
Increasing(q) == \A i, j \in 1 .. Len(q) : i < j /\ q[i] > 0 /\ q[j] > 0 => q[i] < q[j]
Holding(s) == echo[s] \in {"write", "writing"}

\* Nothing is echoed twice or out of order, whatever pings, pongs and closing
\* come in between: what the browser has received comes before what is on its
\* way down, that before the message the handler holds, and that before what
\* is on its way up.
EchoInOrder ==
    \A s \in Sessions :
        /\ Increasing(up[s]) /\ Increasing(down[s])
        /\ \A i \in 1 .. Len(down[s]) : down[s][i] > 0 =>
             /\ rcvd[s] < down[s][i]
             /\ Holding(s) => down[s][i] < held[s]
             /\ \A j \in 1 .. Len(up[s]) : up[s][j] > 0 => down[s][i] < up[s][j]
        /\ \A j \in 1 .. Len(up[s]) : up[s][j] > 0 =>
             rcvd[s] < up[s][j] /\ (Holding(s) => held[s] < up[s][j]) /\ up[s][j] <= sent[s]
        /\ Holding(s) => rcvd[s] < held[s]

\* A session the page wants to close is closed, and "Open" works again.
CloseCompletes == \A s \in Sessions : (state[s] = "closing") ~> (state[s] = "closed")

\* The handler of a session that is over ends too, wherever it was: reading,
\* waiting for ping() to release the mutex, or blocked writing to a browser
\* that went without a word.
HandlerEnds == \A s \in Sessions : (state[s] = "closed" /\ echo[s] # "none") ~> (echo[s] = "ended")

\* Every message sent is echoed, unless the session comes to its end.
Answered ==
    \A s \in Sessions, k \in 1 .. MaxMessages :
        (sent[s] >= k) ~> (rcvd[s] >= k \/ state[s] = "closed")

=============================================================================
