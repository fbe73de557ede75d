------------------------------- MODULE Readline -------------------------------
(***************************************************************************)
(* The server's buffered line reader of intro/reliable_test_server.c:      *)
(* my_read() hands out the bytes of a static buffer one by one and refills *)
(* it with read(); readline() collects them until a newline, the end of    *)
(* the caller's buffer, end of file or an error.                           *)
(*                                                                         *)
(* A byte of the connection is represented by its position in the stream,  *)
(* so a lost, repeated or stale byte is visible; its only content is       *)
(* whether it is a newline, i.e. whether its position is in nls.           *)
(***************************************************************************)
EXTENDS Integers

CONSTANTS
    MaxLen,   \* the maxlen argument of readline(): sizeof(buf), 20 in main()
    BufSize   \* sizeof(read_buf), MAXLINE = 1024

ASSUME ReadlineAssumption == MaxLen \in Nat \ {0, 1} /\ BufSize \in Nat \ {0}

VARIABLES
    \* The inbound half of the socket, driven by the peer and the kernel.
    nls,        \* positions of the newlines of the stream
    sent,       \* number of bytes the peer has written
    fin,        \* the peer's FIN follows those bytes
    rst,        \* the connection has been reset, as the server sees it
    \* my_read()'s static variables.
    read_cnt, read_ptr, read_buf,
    \* readline()'s locals and its caller's view of it.
    n,          \* the loop counter
    line,       \* what *vptr holds: an index gives a stream position
    rpc,        \* "call", "loop" or "return"
    rc,         \* the value returned
    \* Accounting of the stream, not in the code.
    pulled,     \* bytes the kernel has given to read()
    consumed,   \* bytes my_read() has given to readline()
    base        \* the value of consumed when readline() was last called

sockvars == <<nls, sent, fin, rst>>
bufvars  == <<read_cnt, read_ptr, read_buf, pulled>>
linevars == <<n, line, rpc, rc, consumed, base>>
readervars == <<bufvars, linevars>>

Idx == 0 .. BufSize - 1

\* Zero-initialised statics; the server has not called readline() yet.
ReaderInit ==
    /\ read_cnt = 0 /\ read_ptr = 0 /\ read_buf = [i \in Idx |-> 0]
    /\ n = 1 /\ line = <<>> /\ rpc = "call" /\ rc = 0
    /\ pulled = 0 /\ consumed = 0 /\ base = 0

-----------------------------------------------------------------------------
\* readline(fd, buf, sizeof(buf)) is called: ptr = vptr, n = 1.
Call ==
    /\ rpc = "call"
    /\ n' = 1 /\ line' = <<>> /\ rpc' = "loop"
    /\ base' = consumed
    /\ UNCHANGED <<sockvars, bufvars, rc, consumed>>

\* my_read() finds its buffer used up, and read() has something to say.
Refill == rpc = "loop" /\ read_cnt <= 0

\* Mutation of Fill: "read_ptr = read_buf" is forgotten.
FillKeepsCursor(k) ==
    /\ Refill
    /\ k \in 1 .. BufSize
    /\ pulled + k <= sent
    /\ read_cnt' = k
    /\ read_buf' = [i \in Idx |-> IF i < k THEN pulled + 1 + i ELSE read_buf[i]]
    /\ pulled' = pulled + k
    /\ UNCHANGED <<sockvars, read_ptr, linevars>>

\* read() returns k > 0 bytes: any part of what has arrived that fits.
Fill(k) ==
    /\ Refill
    /\ k \in 1 .. BufSize
    /\ pulled + k <= sent
    /\ read_cnt' = k
    /\ read_ptr' = 0
    /\ read_buf' = [i \in Idx |-> IF i < k THEN pulled + 1 + i ELSE read_buf[i]]
    /\ pulled' = pulled + k
    /\ UNCHANGED <<sockvars, linevars>>

\* A signal interrupts read(): EINTR, "goto again".
Interrupted ==
    /\ Refill
    /\ read_cnt' = -1
    /\ UNCHANGED <<sockvars, read_ptr, read_buf, pulled, linevars>>

\* Mutation of Fail: every error is retried.
FailRetries ==
    /\ Refill
    /\ rst
    /\ read_cnt' = -1
    /\ UNCHANGED <<sockvars, read_ptr, read_buf, pulled, linevars>>

\* read() fails with anything else: readline() returns -1.
Fail ==
    /\ Refill
    /\ rst
    /\ read_cnt' = -1
    /\ rpc' = "return" /\ rc' = -1
    /\ UNCHANGED <<sockvars, read_ptr, read_buf, pulled, n, line, consumed, base>>

\* Mutation of EndOfFile: 0 means "try again".
EndOfFileRetries ==
    /\ Refill
    /\ fin /\ pulled = sent
    /\ read_cnt' = 0
    /\ UNCHANGED <<sockvars, read_ptr, read_buf, pulled, linevars>>

\* read() returns 0: end of file, readline() returns n - 1.
EndOfFile ==
    /\ Refill
    /\ fin /\ pulled = sent
    /\ read_cnt' = 0
    /\ rpc' = "return" /\ rc' = n - 1
    /\ UNCHANGED <<sockvars, read_ptr, read_buf, pulled, n, line, consumed, base>>

\* Mutations of LineDone: the bound is off by one, either way, or a newline
\* does not end the loop.
LineDoneEarly(newline, m) == newline \/ m = MaxLen - 1
LineDoneLate(newline, m)  == newline \/ m = MaxLen + 1
LineDoneFull(newline, m)  == m = MaxLen

\* readline()'s loop ends: break on a newline, or "n < maxlen" fails for m.
LineDone(newline, m) == newline \/ m = MaxLen

\* my_read() returns 1, readline() stores the byte and goes round again unless
\* its loop is done.
TakeByte ==
    /\ rpc = "loop" /\ read_cnt > 0
    /\ read_cnt' = read_cnt - 1
    /\ read_ptr' = read_ptr + 1
    /\ line' = [i \in 1 .. n |-> IF i = n THEN read_buf[read_ptr] ELSE line[i]]
    /\ consumed' = consumed + 1
    /\ LET newline == read_buf[read_ptr] \in nls
       IN  /\ n' = IF newline THEN n ELSE n + 1
           /\ IF LineDone(newline, n')
              THEN rpc' = "return" /\ rc' = n'
              ELSE UNCHANGED <<rpc, rc>>
    /\ UNCHANGED <<sockvars, read_buf, pulled, base>>

ReaderNext ==
    \/ Call
    \/ \E k \in 1 .. BufSize : Fill(k)
    \/ Interrupted
    \/ Fail
    \/ EndOfFile
    \/ TakeByte

-----------------------------------------------------------------------------
ReaderTypeOK ==
    /\ read_cnt \in -1 .. BufSize /\ read_ptr \in 0 .. BufSize
    /\ read_buf \in [Idx -> Nat]
    /\ n \in 1 .. MaxLen /\ rc \in -1 .. MaxLen
    /\ rpc \in {"call", "loop", "return"}
    /\ pulled \in 0 .. sent /\ consumed \in 0 .. pulled /\ base \in 0 .. consumed

\* The number of bytes readline() has stored in the caller's buffer.
Stored == consumed - base

\* The bytes readline() has put into the caller's buffer are the ones of the
\* stream that follow what earlier calls returned, in order: refilling the
\* static buffer of my_read() in portions of any size, being interrupted and
\* returning in the middle of it loses, repeats and reorders nothing.
BytesInOrder ==
    /\ DOMAIN line = 1 .. Stored
    /\ \A i \in 1 .. Stored : line[i] = base + i

\* The stores of my_read() and readline() stay inside their arrays: read_ptr
\* never passes the end of read_buf, and the final "*ptr = 0" has room.
InBounds ==
    /\ read_cnt > 0 => read_ptr + read_cnt <= BufSize
    /\ Stored <= MaxLen - 1

\* A positive return is one line and no more: no newline is passed over, and
\* the last byte is one unless the buffer is full (the value returned is then
\* maxlen, one more than the bytes stored) or the peer has finished.
OneLinePerReturn ==
    rpc = "return" /\ rc > 0 =>
        /\ \A i \in 1 .. Stored - 1 : base + i \notin nls
        /\ \/ consumed \in nls /\ rc = Stored
           \/ Stored = MaxLen - 1 /\ rc = MaxLen
           \/ fin /\ consumed = sent /\ rc = Stored

=============================================================================
