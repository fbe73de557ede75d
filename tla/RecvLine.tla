------------------------------- MODULE RecvLine -------------------------------
(***************************************************************************)
(* The client's line reader, readline() of intro/reliable_test_client.c.   *)
(* Its buffer b, the cursor bp and the counter cnt are static and survive  *)
(* from one call to the next; cnt is decremented before a byte is taken,   *)
(* except for the first byte after recv().  As in module Readline a byte   *)
(* is its position in the stream the server sends.                         *)
(***************************************************************************)
EXTENDS Integers

CONSTANTS
    LineBuf,  \* the len argument: sizeof(buf), 120 in main(), 20 in main2()
    RecvSize  \* sizeof(b), 1500

ASSUME RecvLineAssumption == LineBuf \in Nat \ {0, 1} /\ RecvSize \in Nat \ {0}

VARIABLES
    \* The inbound half of the client's socket.
    rnls,       \* positions of the newlines the server has sent
    rsent,      \* number of bytes the server has sent
    sfin,       \* the server's FIN follows those bytes
    crst,       \* the connection has been reset, as the client sees it
    \* readline()'s statics and locals.
    cnt, bp, b, len,
    stored,     \* bufptr - bufx
    reply,      \* what bufx[] holds: an index gives a stream position
    lpc,        \* "idle", "loop" or "return"
    lrc,        \* the value returned
    \* Accounting of the stream, not in the code.
    rpulled,    \* bytes the kernel has given to recv()
    rconsumed,  \* bytes readline() has stored
    rbase       \* the value of rconsumed when readline() was last called

rsockvars == <<rnls, rsent, sfin, crst>>
recvvars  == <<cnt, bp, b, len, stored, reply, lpc, lrc, rpulled, rconsumed, rbase>>

RIdx == 0 .. RecvSize - 1

RecvInit ==
    /\ cnt = 0 /\ bp = 0 /\ b = [i \in RIdx |-> 0]
    /\ len = 0 /\ stored = 0 /\ reply = <<>> /\ lpc = "idle" /\ lrc = 0
    /\ rpulled = 0 /\ rconsumed = 0 /\ rbase = 0

-----------------------------------------------------------------------------
\* Mutation of BeginLine: cnt is not static, so that what the last recv() left
\* in b is dropped.
BeginLineForgets ==
    /\ lpc' = "loop"
    /\ len' = LineBuf /\ stored' = 0 /\ reply' = <<>>
    /\ rbase' = rconsumed
    /\ cnt' = 0
    /\ UNCHANGED <<bp, b, lrc, rpulled, rconsumed>>

\* readline(socket_fd, buf, sizeof(buf)) is called.  The caller conjoins this
\* with its own step.
BeginLine ==
    /\ lpc' = "loop"
    /\ len' = LineBuf /\ stored' = 0 /\ reply' = <<>>
    /\ rbase' = rconsumed
    /\ UNCHANGED <<cnt, bp, b, lrc, rpulled, rconsumed>>

\* Mutation of Store: what one recv() returned is taken for the whole line.
StorePortion(byte) ==
    /\ stored' = stored + 1
    /\ reply' = [i \in 1 .. stored + 1 |-> IF i = stored + 1 THEN byte ELSE reply[i]]
    /\ rconsumed' = rconsumed + 1
    /\ IF byte \in rnls \/ cnt' = 1
       THEN lpc' = "return" /\ lrc' = stored + 1
       ELSE UNCHANGED <<lpc, lrc>>

\* c = *bp++; *bufptr++ = c; a newline ends the line and the call.
Store(byte) ==
    /\ stored' = stored + 1
    /\ reply' = [i \in 1 .. stored + 1 |-> IF i = stored + 1 THEN byte ELSE reply[i]]
    /\ rconsumed' = rconsumed + 1
    /\ IF byte \in rnls
       THEN lpc' = "return" /\ lrc' = stored + 1
       ELSE UNCHANGED <<lpc, lrc>>

\* "--len > 0" fails: errno = EMSGSIZE, the line does not fit.
TooLong ==
    /\ lpc = "loop" /\ len - 1 = 0
    /\ len' = 0
    /\ lpc' = "return" /\ lrc' = -1
    /\ UNCHANGED <<rsockvars, cnt, bp, b, stored, reply, rpulled, rconsumed, rbase>>

\* "--cnt <= 0": b is used up and recv() is called.
BufferEmpty == lpc = "loop" /\ len - 1 > 0 /\ cnt - 1 <= 0

\* recv() returns k > 0 bytes and the first of them is taken.
Recv(k) ==
    /\ BufferEmpty
    /\ k \in 1 .. RecvSize
    /\ rpulled + k <= rsent
    /\ len' = len - 1
    /\ cnt' = k
    /\ b' = [i \in RIdx |-> IF i < k THEN rpulled + 1 + i ELSE b[i]]
    /\ bp' = 1
    /\ rpulled' = rpulled + k
    /\ Store(b'[0])
    /\ UNCHANGED <<rsockvars, rbase>>

\* EINTR: "the while will decrement", so len is what it was.
RecvInterrupted ==
    /\ BufferEmpty
    /\ cnt' = -1
    /\ UNCHANGED <<rsockvars, bp, b, len, stored, reply, lpc, lrc, rpulled, rconsumed, rbase>>

\* recv() fails otherwise (-1) or returns 0, "server terminated".
RecvEnd ==
    /\ BufferEmpty
    /\ \/ crst /\ cnt' = -1
       \/ sfin /\ rpulled = rsent /\ cnt' = 0
    /\ len' = len - 1
    /\ lpc' = "return" /\ lrc' = cnt'
    /\ UNCHANGED <<rsockvars, bp, b, stored, reply, rpulled, rconsumed, rbase>>

\* Mutation of NextByte: the guard is "cnt-- <= 0", one byte too many.
NextByteTooMany ==
    /\ lpc = "loop" /\ len - 1 > 0 /\ cnt > 0
    /\ len' = len - 1
    /\ cnt' = cnt - 1
    /\ bp' = bp + 1
    /\ Store(b[bp])
    /\ UNCHANGED <<rsockvars, b, rpulled, rbase>>

\* A byte is left in b.
NextByte ==
    /\ lpc = "loop" /\ len - 1 > 0 /\ cnt - 1 > 0
    /\ len' = len - 1
    /\ cnt' = cnt - 1
    /\ bp' = bp + 1
    /\ Store(b[bp])
    /\ UNCHANGED <<rsockvars, b, rpulled, rbase>>

RecvNext ==
    \/ TooLong
    \/ \E k \in 1 .. RecvSize : Recv(k)
    \/ RecvInterrupted
    \/ RecvEnd
    \/ NextByte

-----------------------------------------------------------------------------
RecvTypeOK ==
    /\ cnt \in -1 .. RecvSize /\ bp \in 0 .. RecvSize
    /\ b \in [RIdx -> Nat]
    /\ len \in 0 .. LineBuf /\ stored \in Nat /\ lrc \in -1 .. LineBuf
    /\ lpc \in {"idle", "loop", "return"}
    /\ rpulled \in 0 .. rsent /\ rconsumed \in 0 .. rpulled /\ rbase \in 0 .. rconsumed

\* The bytes in the caller's buffer are the next ones of the stream, in order,
\* although cnt is decremented before a byte is taken and starts over with
\* every recv().
RecvInOrder ==
    /\ stored = rconsumed - rbase
    /\ DOMAIN reply = 1 .. stored
    /\ \A i \in 1 .. stored : reply[i] = rbase + i

\* bp never passes the bytes recv() has stored, and the '\0' behind a line has
\* room in the caller's buffer.
RecvInBounds ==
    /\ cnt > 1 => bp + cnt - 1 <= RecvSize
    /\ stored <= LineBuf - 1

\* A line that is returned is exactly one reply of the server: it starts
\* behind a newline, ends with the next one and counts every byte between.
WholeReply ==
    lpc = "return" /\ lrc > 0 =>
        /\ lrc = stored
        /\ rbase \in rnls \cup {0}
        /\ rconsumed \in rnls
        /\ \A p \in rnls : p <= rbase \/ p >= rconsumed

=============================================================================
