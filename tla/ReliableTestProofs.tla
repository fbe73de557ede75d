-------------------------- MODULE ReliableTestProofs --------------------------
(***************************************************************************)
(* The reliable_test pair, for every size of the buffers, every text and   *)
(* every start value of the counter, whatever is killed when.              *)
(*                                                                         *)
(*  1. The server's reader: its inductive invariant ReaderInv, kept by its *)
(*     own steps and by those of its environment.                          *)
(*  2. The client's reader: the same with RecvInv.                         *)
(*  3. The two readers in their system, Inv: the lines the two programs    *)
(*     read are the lines that were sent.                                  *)
(*  4. Who owes whom a reply, TalkInv: when the two wait for each other,   *)
(*     in readline() or in send().                                         *)
(*  5. Texts of lines that fit, SyncInv: the two stay in step, and take no *)
(*     step that module Conversation does not take.                        *)
(***************************************************************************)
EXTENDS ReliableTest, FiniteSetTheorems, TLAPS

-----------------------------------------------------------------------------
(* 1. The server's readline() and my_read(). *)

\* What the environment keeps about the socket.
SocketOK == sent \in Nat /\ nls \subseteq 1 .. sent /\ fin \in BOOLEAN /\ rst \in BOOLEAN

\* my_read(): read_ptr stands on the first of read_cnt bytes that are pulled
\* from the socket and not yet consumed.
BufferInv ==
    /\ read_cnt > 0 => read_ptr + read_cnt <= BufSize /\ pulled = consumed + read_cnt
    /\ read_cnt <= 0 => pulled = consumed
    /\ \A i \in Idx : i >= read_ptr /\ i < read_ptr + read_cnt
                        => read_buf[i] = consumed + 1 + (i - read_ptr)

\* readline(): inside the loop n counts the bytes stored, none a newline.
LoopInv ==
    /\ Stored <= MaxLen - 1
    /\ rpc = "loop" =>
        /\ n = Stored + 1 /\ n < MaxLen
        /\ \A i \in 1 .. Stored : base + i \notin nls

ReaderInv == ReaderTypeOK /\ BufferInv /\ LoopInv /\ BytesInOrder /\ OneLinePerReturn

\* The statics start empty, the socket has brought nothing.
LEMMA ReaderInitially ==
    ASSUME SocketOK, sent = 0, ReaderInit
    PROVE  ReaderInv
BY ReadlineAssumption
   DEF SocketOK, ReaderInit, ReaderInv, ReaderTypeOK, BufferInv, LoopInv,
       BytesInOrder, OneLinePerReturn, Stored, Idx

\* A step of the environment: it may add bytes behind the ones of the stream, but
\* not behind a FIN, and it may answer a return of readline() by going on to the
\* next call.
LEMMA ReaderEnvironment ==
    ASSUME SocketOK, ReaderInv,
           UNCHANGED <<bufvars, n, line, rc, consumed, base>>,
           sent' \in Nat, sent' >= sent, fin' \in BOOLEAN,
           nls \subseteq nls', \A p \in nls' : p \in nls \/ p > sent,
           fin => fin' /\ sent' = sent,
           rpc' = rpc \/ rpc' = "call"
    PROVE  ReaderInv'
<1>1. ReaderTypeOK'
  BY DEF SocketOK, ReaderInv, ReaderTypeOK, bufvars
<1>2. BufferInv' /\ BytesInOrder'
  BY DEF ReaderInv, BufferInv, BytesInOrder, Stored, bufvars
<1>3. ASSUME NEW i \in 1 .. Stored
      PROVE  base + i \in nls' <=> base + i \in nls
  BY DEF SocketOK, ReaderInv, ReaderTypeOK, Stored, bufvars
<1>4. LoopInv'
  BY <1>3 DEF ReaderInv, LoopInv, Stored
<1>5. OneLinePerReturn'
  <2>1. Stored' = Stored /\ Stored \in Nat
    BY DEF SocketOK, ReaderInv, ReaderTypeOK, Stored, bufvars
  <2>2. \A i \in 1 .. Stored - 1 : base + i \in nls' <=> base + i \in nls
    BY <1>3, <2>1
  <2>. QED  BY <2>1, <2>2 DEF SocketOK, ReaderInv, ReaderTypeOK, OneLinePerReturn
<1>. QED  BY <1>1, <1>2, <1>4, <1>5 DEF ReaderInv

\* read() brings k bytes behind the ones already consumed.
LEMMA FillPreserves ==
    ASSUME SocketOK, ReaderInv, NEW k \in 1 .. BufSize, Fill(k)
    PROVE  ReaderInv'
<1>. USE ReadlineAssumption
<1>. USE DEF SocketOK, ReaderInv, Fill, Refill, sockvars, linevars
<1>1. ReaderTypeOK'
  <2>1. read_buf' \in [Idx -> Nat]
    BY DEF ReaderTypeOK, Idx
  <2>. QED  BY <2>1 DEF ReaderTypeOK
<1>2. BufferInv'
  BY DEF ReaderTypeOK, BufferInv, Idx
<1>3. LoopInv' /\ BytesInOrder' /\ OneLinePerReturn'
  BY DEF LoopInv, BytesInOrder, OneLinePerReturn, Stored
<1>. QED  BY <1>1, <1>2, <1>3

\* A byte moves from the buffer to the line; a newline or the bound ends it.
LEMMA TakeBytePreserves ==
    ASSUME SocketOK, ReaderInv, TakeByte
    PROVE  ReaderInv'
<1>. USE ReadlineAssumption
<1>. USE DEF SocketOK, ReaderInv, TakeByte, LineDone, sockvars
<1>1. /\ read_ptr \in Idx
      /\ read_buf[read_ptr] = consumed + 1
      /\ n = Stored + 1 /\ n < MaxLen
      /\ pulled = consumed + read_cnt /\ read_ptr + read_cnt <= BufSize
  BY DEF ReaderTypeOK, BufferInv, LoopInv, Stored, Idx
<1>2. ReaderTypeOK'
  BY <1>1 DEF ReaderTypeOK, Stored
<1>3. BufferInv'
  BY <1>1 DEF ReaderTypeOK, BufferInv, Idx
<1>4. /\ Stored' = Stored + 1 /\ Stored \in Nat
      /\ base' = base /\ nls' = nls /\ base \in Nat /\ base + Stored = consumed
      /\ \A i \in 1 .. Stored : base + i \notin nls
  BY DEF Stored, ReaderTypeOK, LoopInv
<1>5. LoopInv'
  <2>1. CASE consumed + 1 \in nls
    BY <1>1, <1>4, <2>1 DEF ReaderTypeOK, LoopInv, Stored
  <2>2. CASE consumed + 1 \notin nls
    <3>1. ASSUME NEW i \in 1 .. Stored'
          PROVE  base' + i \notin nls'
      <4>1. CASE i = Stored + 1
        BY ONLY <4>1, <1>4, <2>2
      <4>2. CASE i # Stored + 1
        <5>1. i \in 1 .. Stored  BY ONLY <4>2, <3>1, <1>4
        <5>. QED  BY ONLY <5>1, <1>4
      <4>. QED  BY <4>1, <4>2
    <3>. QED  BY <1>1, <1>4, <2>2, <3>1 DEF ReaderTypeOK, LoopInv, Stored
  <2>. QED  BY <2>1, <2>2
<1>6. BytesInOrder'
  <2>1. line' = [i \in 1 .. Stored + 1 |-> IF i = n THEN consumed + 1 ELSE line[i]]
    BY <1>1
  <2>2. DOMAIN line' = 1 .. Stored'
    BY <1>4, <2>1
  <2>3. ASSUME NEW i \in 1 .. Stored'
        PROVE  line'[i] = base' + i
    BY <1>1, <1>4, <2>1 DEF BytesInOrder, ReaderTypeOK, Stored
  <2>. QED  BY <2>2, <2>3 DEF BytesInOrder
<1>7. OneLinePerReturn'
  <2>1. \A i \in 1 .. Stored' - 1 : base' + i \notin nls'
    <3>1. Stored' - 1 = Stored  BY ONLY <1>4
    <3>. QED  BY ONLY <3>1, <1>4
  <2>2. CASE consumed + 1 \in nls
    BY <1>1, <1>4, <2>1, <2>2 DEF OneLinePerReturn, ReaderTypeOK
  <2>3. CASE consumed + 1 \notin nls
    BY <1>1, <1>4, <2>1, <2>3 DEF OneLinePerReturn, ReaderTypeOK
  <2>. QED  BY <2>2, <2>3
<1>. QED  BY <1>2, <1>3, <1>5, <1>6, <1>7

\* Every step of the reader preserves its invariant.
LEMMA ReaderStep ==
    ASSUME SocketOK, ReaderInv, ReaderNext
    PROVE  ReaderInv'
<1>. USE ReadlineAssumption
<1>. USE DEF SocketOK, ReaderInv, Refill, sockvars, bufvars, linevars
<1>1. CASE Call
  <2>1. ReaderTypeOK' /\ BufferInv'
    BY <1>1 DEF Call, ReaderTypeOK, BufferInv
  <2>2. LoopInv' /\ BytesInOrder' /\ OneLinePerReturn'
    BY <1>1 DEF Call, ReaderTypeOK, LoopInv, BytesInOrder, OneLinePerReturn, Stored
  <2>. QED  BY <2>1, <2>2
<1>2. CASE \E k \in 1 .. BufSize : Fill(k)
  BY <1>2, FillPreserves
<1>3. CASE Interrupted
  <2>1. ReaderTypeOK' /\ BufferInv'
    BY <1>3 DEF Interrupted, ReaderTypeOK, BufferInv, Idx
  <2>2. LoopInv' /\ BytesInOrder' /\ OneLinePerReturn'
    BY <1>3 DEF Interrupted, LoopInv, BytesInOrder, OneLinePerReturn, Stored
  <2>. QED  BY <2>1, <2>2
<1>4. CASE Fail
  <2>1. ReaderTypeOK' /\ BufferInv'
    BY <1>4 DEF Fail, ReaderTypeOK, BufferInv, Idx
  <2>2. LoopInv' /\ BytesInOrder' /\ OneLinePerReturn'
    BY <1>4 DEF Fail, LoopInv, BytesInOrder, OneLinePerReturn, Stored
  <2>. QED  BY <2>1, <2>2
<1>5. CASE EndOfFile
  <2>1. ReaderTypeOK' /\ BufferInv'
    BY <1>5 DEF EndOfFile, ReaderTypeOK, BufferInv, Idx
  <2>2. LoopInv' /\ BytesInOrder'
    BY <1>5 DEF EndOfFile, LoopInv, BytesInOrder, Stored
  <2>3. OneLinePerReturn'
    BY <1>5 DEF EndOfFile, ReaderTypeOK, BufferInv, LoopInv, OneLinePerReturn, Stored
  <2>. QED  BY <2>1, <2>2, <2>3
<1>6. CASE TakeByte
  BY <1>6, TakeBytePreserves
<1>. QED  BY <1>1, <1>2, <1>3, <1>4, <1>5, <1>6 DEF ReaderNext

\* The invariant keeps my_read() and readline() inside their arrays.
LEMMA ReaderInvInBounds == ASSUME ReaderInv PROVE InBounds
BY DEF ReaderInv, ReaderTypeOK, BufferInv, LoopInv, InBounds, Stored

-----------------------------------------------------------------------------
(* 2. The client's readline(). *)

\* What the environment keeps about the socket.
RecvSocketOK ==
    /\ rsent \in Nat /\ rnls \subseteq 1 .. rsent
    /\ sfin \in BOOLEAN /\ crst \in BOOLEAN

\* cnt counts the byte just taken as well: bp stands on the first of cnt - 1
\* bytes that are received and not yet stored.
RecvBufferInv ==
    /\ cnt > 1 => bp + cnt - 1 <= RecvSize /\ rpulled = rconsumed + cnt - 1
    /\ cnt <= 1 => rpulled = rconsumed
    /\ \A i \in RIdx : i >= bp /\ i < bp + cnt - 1 => b[i] = rconsumed + 1 + (i - bp)

\* The loop: len shrinks as the line grows, and the line starts behind a
\* newline and holds none yet.
RecvLoopInv ==
    /\ stored <= LineBuf - 1
    /\ rbase \in rnls \cup {0}
    /\ lpc = "loop" =>
        /\ len = LineBuf - stored
        /\ \A p \in rnls : p <= rbase \/ p > rconsumed

RecvInv == RecvTypeOK /\ RecvBufferInv /\ RecvLoopInv /\ RecvInOrder /\ WholeReply

\* Nothing has been received.
LEMMA RecvInitially ==
    ASSUME RecvSocketOK, rsent = 0, RecvInit
    PROVE  RecvInv
BY RecvLineAssumption
   DEF RecvSocketOK, RecvInit, RecvInv, RecvTypeOK, RecvBufferInv, RecvLoopInv,
       RecvInOrder, WholeReply, RIdx

\* A step of the environment: replies are added behind the old ones, and a
\* return of readline() may be taken note of.
LEMMA RecvEnvironment ==
    ASSUME RecvSocketOK, RecvInv,
           UNCHANGED <<cnt, bp, b, len, stored, reply, lrc, rpulled, rconsumed, rbase>>,
           lpc' = lpc \/ lpc' = "idle",
           rsent' \in Nat, rsent' >= rsent, rnls \subseteq rnls',
           \A p \in rnls' : p \in rnls \/ p > rsent
    PROVE  RecvInv'
<1>. USE DEF RecvInv
<1>1. RecvTypeOK'
  BY DEF RecvSocketOK, RecvTypeOK
<1>2. RecvBufferInv' /\ RecvInOrder'
  BY DEF RecvBufferInv, RecvInOrder
<1>3. RecvLoopInv'
  BY DEF RecvSocketOK, RecvTypeOK, RecvLoopInv
<1>4. WholeReply'
  BY DEF RecvSocketOK, RecvTypeOK, WholeReply
<1>. QED  BY <1>1, <1>2, <1>3, <1>4

\* A call of readline() that starts behind a newline, or at the beginning.
LEMMA BeginLinePreserves ==
    ASSUME RecvSocketOK, RecvInv, BeginLine, UNCHANGED <<rnls, rsent>>,
           rconsumed \in rnls \cup {0}
    PROVE  RecvInv'
<1>. USE RecvLineAssumption DEF RecvInv, BeginLine
<1>1. RecvTypeOK' /\ RecvBufferInv'
  BY DEF RecvTypeOK, RecvBufferInv
<1>2. RecvLoopInv'
  BY DEF RecvTypeOK, RecvLoopInv, RecvSocketOK
<1>3. RecvInOrder' /\ WholeReply'
  BY DEF RecvTypeOK, RecvInOrder, WholeReply
<1>. QED  BY <1>1, <1>2, <1>3

\* Storing the next byte of the stream keeps the line in order, and ends it
\* exactly at a newline.
LEMMA StorePreserves ==
    ASSUME RecvSocketOK, RecvTypeOK, RecvLoopInv, RecvInOrder, lpc = "loop", len - 1 > 0,
           Store(rconsumed + 1), len' = len - 1, UNCHANGED <<rnls, rbase>>
    PROVE  /\ RecvLoopInv' /\ RecvInOrder' /\ WholeReply'
           /\ lrc' \in -1 .. LineBuf /\ lpc' \in {"loop", "return"}
<1>. USE RecvLineAssumption DEF Store
<1>1. stored' = stored + 1 /\ stored' \in Nat /\ rconsumed' = rconsumed + 1
  BY DEF RecvTypeOK
<1>2. stored + 1 <= LineBuf - 1 /\ stored = rconsumed - rbase
  BY DEF RecvTypeOK, RecvLoopInv, RecvInOrder
<1>3. RecvInOrder'
  <2>1. reply' = [i \in 1 .. stored + 1 |->
                    IF i = stored + 1 THEN rconsumed + 1 ELSE reply[i]]
    OBVIOUS
  <2>2. ASSUME NEW i \in 1 .. stored'
        PROVE  reply'[i] = rbase' + i
    BY <1>1, <1>2, <2>1 DEF RecvTypeOK, RecvInOrder
  <2>. QED  BY <1>1, <1>2, <2>1, <2>2 DEF RecvInOrder, RecvTypeOK
<1>4. \A p \in rnls : p <= rbase \/ p >= rconsumed + 1
  BY DEF RecvLoopInv, RecvTypeOK, RecvSocketOK
<1>5. CASE rconsumed + 1 \in rnls
  BY <1>1, <1>2, <1>3, <1>4, <1>5 DEF RecvLoopInv, WholeReply, RecvTypeOK
<1>6. CASE rconsumed + 1 \notin rnls
  <2>1. \A p \in rnls : p <= rbase \/ p > rconsumed + 1
    BY <1>4, <1>6 DEF RecvSocketOK, RecvTypeOK
  <2>. QED  BY <1>1, <1>2, <1>3, <1>6, <2>1 DEF RecvLoopInv, WholeReply, RecvTypeOK
<1>. QED  BY <1>5, <1>6

\* recv() brings k bytes, the first of which is stored at once.
LEMMA RecvPreserves ==
    ASSUME RecvSocketOK, RecvInv, NEW k \in 1 .. RecvSize, Recv(k)
    PROVE  RecvInv'
<1>. USE RecvLineAssumption
<1>. USE DEF RecvInv, Recv, BufferEmpty, rsockvars
<1>1. cnt <= 1 /\ rpulled = rconsumed
  BY DEF RecvTypeOK, RecvBufferInv
<1>2. b' \in [RIdx -> Nat] /\ b'[0] = rconsumed + 1
  BY <1>1 DEF RecvTypeOK, RIdx
<1>3. /\ RecvLoopInv' /\ RecvInOrder' /\ WholeReply'
      /\ lrc' \in -1 .. LineBuf /\ lpc' \in {"loop", "return"}
  <2>1. Store(rconsumed + 1)
    BY <1>2
  <2>. QED  BY <2>1, StorePreserves
<1>4. RecvTypeOK'
  BY <1>1, <1>2, <1>3 DEF RecvTypeOK, Store
<1>5. RecvBufferInv'
  BY <1>1, <1>2 DEF RecvTypeOK, RecvBufferInv, RIdx, Store
<1>. QED  BY <1>3, <1>4, <1>5

\* A byte left over from an earlier recv() is stored.
LEMMA NextBytePreserves ==
    ASSUME RecvSocketOK, RecvInv, NextByte
    PROVE  RecvInv'
<1>. USE RecvLineAssumption
<1>. USE DEF RecvInv, NextByte, rsockvars
<1>1. bp \in RIdx /\ b[bp] = rconsumed + 1
  BY DEF RecvTypeOK, RecvBufferInv, RIdx
<1>2. /\ RecvLoopInv' /\ RecvInOrder' /\ WholeReply'
      /\ lrc' \in -1 .. LineBuf /\ lpc' \in {"loop", "return"}
  <2>1. Store(rconsumed + 1)
    BY <1>1
  <2>. QED  BY <2>1, StorePreserves
<1>3. RecvTypeOK'
  BY <1>1, <1>2 DEF RecvTypeOK, RecvBufferInv, Store
<1>4. RecvBufferInv'
  BY <1>1 DEF RecvTypeOK, RecvBufferInv, RIdx, Store
<1>. QED  BY <1>2, <1>3, <1>4

\* Every step of the reader preserves its invariant.
LEMMA RecvStep ==
    ASSUME RecvSocketOK, RecvInv, RecvNext
    PROVE  RecvInv'
<1>. USE RecvLineAssumption
<1>. USE DEF RecvInv, BufferEmpty, rsockvars
<1>1. CASE TooLong
  <2>1. RecvTypeOK' /\ RecvBufferInv'
    BY <1>1 DEF TooLong, RecvTypeOK, RecvBufferInv
  <2>2. RecvLoopInv' /\ RecvInOrder' /\ WholeReply'
    BY <1>1 DEF TooLong, RecvLoopInv, RecvInOrder, WholeReply
  <2>. QED  BY <2>1, <2>2
<1>2. CASE \E k \in 1 .. RecvSize : Recv(k)
  BY <1>2, RecvPreserves
<1>3. CASE RecvInterrupted
  <2>1. RecvTypeOK' /\ RecvBufferInv'
    BY <1>3 DEF RecvInterrupted, RecvTypeOK, RecvBufferInv, RIdx
  <2>2. RecvLoopInv' /\ RecvInOrder' /\ WholeReply'
    BY <1>3 DEF RecvInterrupted, RecvLoopInv, RecvInOrder, WholeReply
  <2>. QED  BY <2>1, <2>2
<1>4. CASE RecvEnd
  <2>1. RecvTypeOK' /\ RecvBufferInv'
    BY <1>4 DEF RecvEnd, RecvTypeOK, RecvBufferInv, RIdx
  <2>2. RecvLoopInv' /\ RecvInOrder' /\ WholeReply'
    BY <1>4 DEF RecvEnd, RecvTypeOK, RecvLoopInv, RecvInOrder, WholeReply
  <2>. QED  BY <2>1, <2>2
<1>5. CASE NextByte
  BY <1>5, NextBytePreserves
<1>. QED  BY <1>1, <1>2, <1>3, <1>4, <1>5 DEF RecvNext

\* The invariant keeps bp and bufptr inside their arrays.
LEMMA RecvInvInBounds == ASSUME RecvInv PROVE RecvInBounds
BY DEF RecvInv, RecvTypeOK, RecvBufferInv, RecvLoopInv, RecvInBounds

-----------------------------------------------------------------------------
(* 3. The two programs and their sockets. *)

\* The client sends nothing behind its FIN, a newline is a byte, and readline() is
\* called only where a line of the server begins.
ProgramInv ==
    /\ fin => cpc = "exit"
    /\ snl => slen > 0
    /\ cpc \in {"connect", "fgets", "send"} => rconsumed \in rnls \cup {0}

Inv == TypeOK /\ ReaderInv /\ RecvInv /\ ProgramInv

\* What the readers ask of their sockets.
LEMMA SocketsOK == ASSUME TypeOK PROVE SocketOK /\ RecvSocketOK
BY DEF TypeOK, SocketOK, RecvSocketOK

\* A reply has at least one byte, its newline.
LEMMA ReplyLenType == ASSUME NEW c \in Int PROVE ReplyLen(c) \in Nat \ {0}
<1>1. ASSUME NEW d \in Int PROVE Digits(d) \in Nat
  <2>0. 1 \in Int /\ 9 \in Int
    OBVIOUS
  <2>1. IsFiniteSet(1 .. 9)
    BY <2>0, FS_Interval, Zenon
  <2>2. IsFiniteSet({e \in 1 .. 9 : d >= 10^e})
    BY <2>1, FS_Subset, Zenon
  <2>. QED  BY <2>2, FS_CardinalityType DEF Digits
<1>2. Digits(c) \in Nat /\ Digits(-c) \in Nat
  BY <1>1
<1>. QED  BY <1>2, ReliableTestAssumption DEF ReplyLen

LEMMA InitInv == Init => Inv
<1>. SUFFICES ASSUME Init PROVE Inv
  OBVIOUS
<1>1. text \in Inputs /\ text.size \in Nat /\ LineBuf \in Nat \ {0}
  BY ReliableTestAssumption, RecvLineAssumption DEF Init
<1>a. /\ fin \in BOOLEAN /\ rst \in BOOLEAN /\ sfin \in BOOLEAN /\ crst \in BOOLEAN
      /\ conn \in BOOLEAN /\ snl \in BOOLEAN
  BY Zenon DEF Init
<1>b. sent = 0 /\ nls = {} /\ rsent = 0 /\ rnls = {}
  BY Zenon DEF Init
<1>3. SocketOK /\ RecvSocketOK
  BY <1>a, <1>b DEF SocketOK, RecvSocketOK
<1>4. ReaderInv /\ RecvInv
  BY <1>3, ReaderInitially, RecvInitially DEF Init
<1>5. TypeOK
  BY <1>1, <1>a, <1>b, <1>4, ReliableTestAssumption DEF Init, TypeOK, ReaderInv, RecvInv
<1>6. ProgramInv
  BY DEF Init, RecvInit, ProgramInv
<1>. QED  BY <1>4, <1>5, <1>6 DEF Inv

\* A step that leaves both readers and the streams alone.
LEMMA ReadersUnchanged ==
    ASSUME Inv, UNCHANGED <<nls, sent, readervars, rnls, rsent, recvvars>>,
           fin' \in BOOLEAN, fin => fin'
    PROVE  ReaderInv' /\ RecvInv'
<1>1. SocketOK /\ RecvSocketOK
  BY SocketsOK DEF Inv
<1>2. ReaderInv'
  BY <1>1, ReaderEnvironment DEF Inv, SocketOK, readervars, linevars
<1>3. RecvInv'
  BY <1>1, RecvEnvironment DEF Inv, RecvSocketOK, recvvars
<1>. QED  BY <1>2, <1>3

\* The client's steps.
LEMMA ClientStep == ASSUME Inv, Client PROVE Inv'
<1>. USE DEF Inv
<1>0. SocketOK /\ RecvSocketOK
  BY SocketsOK
<1>1. CASE Connect
  <2>1. ReaderInv' /\ RecvInv'
    BY <1>1, ReadersUnchanged DEF Connect, sockvars, rsockvars, TypeOK
  <2>2. TypeOK'
    BY <1>1, <2>1 DEF Connect, TypeOK, ReaderInv, RecvInv, sockvars, rsockvars
  <2>3. ProgramInv'
    BY <1>1 DEF Connect, ProgramInv, sockvars, rsockvars, recvvars
  <2>. QED  BY <2>1, <2>2, <2>3
<1>2. CASE Fgets
  <2>0. fin' \in BOOLEAN /\ (fin => fin') /\ rst' \in BOOLEAN
    BY <1>2 DEF Fgets, CloseClient, TypeOK
  <2>1. ReaderInv' /\ RecvInv'
    BY <1>2, <2>0, ReadersUnchanged DEF Fgets, rsockvars
  <2>2. inPos' \in 0 .. text.size /\ slen' \in 0 .. LineBuf - 1
    <3>1. text.size \in Nat /\ LineBuf \in Nat
      BY ReliableTestAssumption, RecvLineAssumption DEF TypeOK
    <3>2. CASE inPos = text.size
      BY <1>2, <3>2 DEF Fgets, TypeOK
    <3>3. CASE inPos # text.size
      BY <1>2, <3>1, <3>3 DEF Fgets, FgetsEnd, Strlen, TypeOK
    <3>. QED  BY <3>2, <3>3
  <2>4. snl' \in BOOLEAN
    BY <1>2 DEF Fgets, TypeOK
  <2>5. cpc' \in {"send", "exit"}
    BY <1>2 DEF Fgets, CloseClient
  <2>6. TypeOK'
    BY <1>2, <2>0, <2>1, <2>2, <2>4, <2>5 DEF Fgets, TypeOK, ReaderInv, RecvInv, rsockvars
  <2>3. ProgramInv'
    <3>1. snl' => slen' > 0
      <4>1. CASE inPos = text.size
        BY <1>2, <4>1 DEF Fgets, ProgramInv
      <4>2. CASE inPos # text.size
        <5>1. PICK e \in FgetsEnd : inPos' = e
          BY <1>2, <4>2 DEF Fgets
        <5>2. inPos \in Nat /\ e \in Int /\ e >= inPos + 1
          BY <5>1, ReliableTestAssumption DEF FgetsEnd, TypeOK
        <5>3. e - inPos > 0
          BY <5>2
        <5>4. snl' => slen' = e - inPos
          BY <1>2, <4>2, <5>1 DEF Fgets
        <5>. QED  BY <5>3, <5>4, Zenon
      <4>. QED  BY <4>1, <4>2
    <3>. QED  BY <1>2, <3>1 DEF Fgets, CloseClient, ProgramInv, rsockvars, recvvars, TypeOK
  <2>. QED  BY <2>1, <2>3, <2>6
<1>3. CASE Send
  <2>0. /\ sent' \in Nat /\ sent' >= sent /\ nls \subseteq nls' /\ nls' \subseteq 1 .. sent'
        /\ \A p \in nls' : p \in nls \/ p > sent
    <3>1. CASE snl
      <4>1. slen > 0
        BY <1>3, <3>1 DEF Send, ProgramInv
      <4>. QED  BY <1>3, <3>1, <4>1 DEF Send, TypeOK
    <3>2. CASE ~snl
      BY <1>3, <3>2 DEF Send, TypeOK
    <3>. QED  BY <3>1, <3>2
  <2>1. ReaderInv'
    BY <1>0, <1>3, <2>0, ReaderEnvironment
       DEF Send, TypeOK, ProgramInv, readervars, linevars
  <2>2. RecvInv'
    BY <1>0, <1>3, BeginLinePreserves DEF Send, ProgramInv
  <2>3. TypeOK'
    BY <1>3, <2>0, <2>1, <2>2 DEF Send, TypeOK, ReaderInv, RecvInv
  <2>4. ProgramInv'
    BY <1>3 DEF Send, ProgramInv
  <2>. QED  BY <2>1, <2>2, <2>3, <2>4
<1>4. CASE SendFails
  <2>0. fin' \in BOOLEAN /\ (fin => fin') /\ rst' \in BOOLEAN
    BY <1>4 DEF SendFails, CloseClient, TypeOK
  <2>1. ReaderInv' /\ RecvInv'
    BY <1>4, <2>0, ReadersUnchanged DEF SendFails, rsockvars
  <2>2. TypeOK'
    BY <1>4, <2>0, <2>1 DEF SendFails, CloseClient, TypeOK, ReaderInv, RecvInv, rsockvars
  <2>3. ProgramInv'
    BY <1>4 DEF SendFails, CloseClient, ProgramInv
  <2>. QED  BY <2>1, <2>2, <2>3
<1>5. CASE ClientReads
  <2>0. UNCHANGED rsockvars
    BY <1>5 DEF ClientReads, RecvNext, TooLong, Recv, RecvInterrupted, RecvEnd, NextByte
  <2>1. ReaderInv'
    BY <1>0, <1>5, ReaderEnvironment
       DEF ClientReads, SocketOK, sockvars, readervars, linevars
  <2>2. RecvInv'
    BY <1>0, <1>5, RecvStep DEF ClientReads
  <2>3. TypeOK'
    BY <1>5, <2>0, <2>1, <2>2
       DEF ClientReads, TypeOK, ReaderInv, RecvInv, sockvars, rsockvars, progvars
  <2>4. ProgramInv'
    BY <1>5 DEF ClientReads, ProgramInv, sockvars, progvars
  <2>. QED  BY <2>1, <2>2, <2>3, <2>4
<1>6. CASE Fputs
  <2>0. fin' \in BOOLEAN /\ (fin => fin') /\ rst' \in BOOLEAN
    BY <1>6 DEF Fputs, CloseClient, TypeOK
  <2>1. ReaderInv'
    BY <1>0, <1>6, <2>0, ReaderEnvironment DEF Fputs, SocketOK, readervars, linevars
  <2>2. RecvInv'
    BY <1>0, <1>6, RecvEnvironment DEF Fputs, RecvSocketOK, rsockvars
  <2>3. TypeOK'
    BY <1>6, <2>0, <2>1, <2>2
       DEF Fputs, CloseClient, TypeOK, ReaderInv, RecvInv, rsockvars
  <2>4. ProgramInv'
    BY <1>6 DEF Fputs, CloseClient, ProgramInv, RecvInv, WholeReply, rsockvars
  <2>. QED  BY <2>1, <2>2, <2>3, <2>4
<1>. QED  BY <1>1, <1>2, <1>3, <1>4, <1>5, <1>6 DEF Client

\* The server's steps.
LEMMA ServerStep == ASSUME Inv, Server PROVE Inv'
<1>. USE DEF Inv
<1>0. SocketOK /\ RecvSocketOK
  BY SocketsOK
<1>1. CASE Start \/ Accept
  <2>1. ReaderInv' /\ RecvInv'
    BY <1>1, ReadersUnchanged DEF Start, Accept, sockvars, rsockvars, TypeOK
  <2>2. TypeOK'
    BY <1>1, <2>1
       DEF Start, Accept, TypeOK, ReaderInv, RecvInv, sockvars, rsockvars, clientvars
  <2>3. ProgramInv'
    BY <1>1 DEF Start, Accept, ProgramInv, sockvars, rsockvars, recvvars, clientvars
  <2>. QED  BY <2>1, <2>2, <2>3
<1>2. CASE ServerReads
  <2>0. UNCHANGED sockvars
    BY <1>2 DEF ServerReads, ReaderNext, Call, Fill, Interrupted, Fail, EndOfFile, TakeByte
  <2>1. ReaderInv'
    BY <1>0, <1>2, ReaderStep DEF ServerReads
  <2>2. RecvInv'
    BY <1>0, <1>2, RecvEnvironment DEF ServerReads, RecvSocketOK, rsockvars, recvvars
  <2>3. TypeOK'
    BY <1>2, <2>0, <2>1, <2>2
       DEF ServerReads, TypeOK, ReaderInv, RecvInv, sockvars, rsockvars, progvars
  <2>4. ProgramInv'
    BY <1>2, <2>0 DEF ServerReads, ProgramInv, sockvars, rsockvars, recvvars, progvars
  <2>. QED  BY <2>1, <2>2, <2>3, <2>4
<1>3. CASE Reply
  <2>0. /\ rsent' \in Nat /\ rsent' > rsent /\ rnls' = rnls \cup {rsent'}
        /\ rsent \in Nat /\ rnls \subseteq 1 .. rsent
    BY <1>3, ReplyLenType DEF Reply, TypeOK
  <2>1. ReaderInv'
    BY <1>0, <1>3, ReaderEnvironment DEF Reply, SocketOK
  <2>2. RecvInv'
    BY <1>0, <1>3, <2>0, RecvEnvironment DEF Reply, recvvars
  <2>3. TypeOK'
    <3>1. rnls' \subseteq 1 .. rsent'
      BY <2>0
    <3>. QED  BY <1>3, <2>0, <2>1, <2>2, <3>1
                 DEF Reply, TypeOK, ReaderInv, RecvInv, clientvars
  <2>4. ProgramInv'
    BY <1>3 DEF Reply, ProgramInv, recvvars, clientvars
  <2>. QED  BY <2>1, <2>2, <2>3, <2>4
<1>4. CASE ReplyFails \/ ServerEnds
  <2>1. ReaderInv' /\ RecvInv'
    BY <1>4, ReadersUnchanged DEF ReplyFails, ServerEnds, sockvars, TypeOK
  <2>0. crst' \in BOOLEAN /\ sfin' \in BOOLEAN
    BY <1>4, Zenon DEF ReplyFails, ServerEnds, CloseServer
  <2>a. /\ UNCHANGED <<sockvars, rnls, rsent, text, clientvars, conn, asked, answered, printed>>
        /\ count' \in {count, count + 1} /\ spc' = "exit"
    BY <1>4 DEF ReplyFails, ServerEnds, CloseServer
  <2>2. TypeOK'
    BY <2>0, <2>1, <2>a DEF TypeOK, ReaderInv, RecvInv, sockvars, clientvars
  <2>3. ProgramInv'
    BY <1>4 DEF ReplyFails, ServerEnds, ProgramInv, sockvars, recvvars, clientvars
  <2>. QED  BY <2>1, <2>2, <2>3
<1>. QED  BY <1>1, <1>2, <1>3, <1>4 DEF Server

\* Killing a program closes its socket and touches no reader.
LEMMA KillStep == ASSUME Inv, KillClient \/ KillServer PROVE Inv'
<1>. USE DEF Inv
<1>0. fin' \in BOOLEAN /\ (fin => fin') /\ rst' \in BOOLEAN
  BY DEF KillClient, KillServer, CloseClient, TypeOK, sockvars
<1>1. ReaderInv' /\ RecvInv'
  BY <1>0, ReadersUnchanged DEF KillClient, KillServer, sockvars, rsockvars
<1>2. CASE KillClient
  BY <1>0, <1>1, <1>2
     DEF KillClient, CloseClient, TypeOK, ProgramInv, ReaderInv, RecvInv, rsockvars
<1>3. CASE KillServer
  BY <1>0, <1>1, <1>3
     DEF KillServer, CloseServer, TypeOK, ProgramInv, ReaderInv, RecvInv,
         sockvars, recvvars, clientvars
<1>. QED  BY <1>2, <1>3

\* Inv holds of every reachable state.
LEMMA Invariance == Spec => []Inv
<1>1. Init => Inv
  BY InitInv
<1>2. Inv /\ [Next]_vars => Inv'
  <2>1. ASSUME Inv, UNCHANGED vars PROVE Inv'
    <3>1. ReaderInv' /\ RecvInv'
      BY <2>1, ReadersUnchanged DEF vars, sockvars, rsockvars, Inv, TypeOK
    <3>. QED  BY <2>1, <3>1
                 DEF Inv, TypeOK, ProgramInv, ReaderInv, RecvInv,
                     vars, sockvars, rsockvars, recvvars, progvars
  <2>. QED  BY <2>1, ClientStep, ServerStep, KillStep DEF Next, Idle
<1>. QED  BY <1>1, <1>2, PTL DEF Spec

\* Every variable of the two programs keeps its type: in particular the
\* cursors of both buffers and the loop counters stay in their ranges.
THEOREM TypeCorrect == Spec => []TypeOK
<1>1. Inv => TypeOK
  BY DEF Inv
<1>. QED  BY <1>1, Invariance, PTL

\* The server's readline() returns the client's bytes, none lost, repeated or
\* reordered, however read() cuts the stream up and whoever is killed.
THEOREM ServerReadsInOrder == Spec => []BytesInOrder
<1>1. Inv => BytesInOrder
  BY DEF Inv, ReaderInv
<1>. QED  BY <1>1, Invariance, PTL

\* Both readline()s store inside their arrays.
THEOREM NothingOverrun == Spec => []StoresInBounds
<1>1. Inv => InBounds
  BY ReaderInvInBounds DEF Inv
<1>2. Inv => RecvInBounds
  BY RecvInvInBounds DEF Inv
<1>3. Inv => StoresInBounds
  BY <1>1, <1>2 DEF StoresInBounds
<1>. QED  BY <1>3, Invariance, PTL

\* A positive return of the server's readline() is one line, the part of one
\* that fits, or what stands before the end of file.
THEOREM ServerReadsOneLine == Spec => []OneLinePerReturn
<1>1. Inv => OneLinePerReturn
  BY DEF Inv, ReaderInv
<1>. QED  BY <1>1, Invariance, PTL

\* The client's readline() stores the server's bytes in order although its
\* counter runs ahead of the bytes it has taken.
THEOREM ClientReadsInOrder == Spec => []RecvInOrder
<1>1. Inv => RecvInOrder
  BY DEF Inv, RecvInv
<1>. QED  BY <1>1, Invariance, PTL

\* What the client prints is exactly one reply of the server.
THEOREM ClientReadsWholeReplies == Spec => []WholeReply
<1>1. Inv => WholeReply
  BY DEF Inv, RecvInv
<1>. QED  BY <1>1, Invariance, PTL

-----------------------------------------------------------------------------
(* 4. Who owes whom what. *)

\* Where the reply the client waits for, or will wait for, begins; the ends of
\* the replies sent and not printed yet.
Mark == IF cpc = "readline" THEN rbase ELSE rconsumed
Pending == {p \in rnls : p > Mark}

\* Where the bytes begin that the server's readline() has not returned yet.
LineStart == IF rpc = "call" THEN consumed ELSE base

\* The client sends one chunk and waits for one reply.
AskInv ==
    /\ cpc \in {"connect", "fgets", "send"} => asked = printed
    /\ cpc = "readline" => asked = printed + 1
    /\ asked <= printed + 1 /\ printed <= answered

\* As many replies are on the way as were sent and not printed.
PendingInv ==
    /\ rsent \in rnls \cup {0}
    /\ cpc # "exit" => Cardinality(Pending) = answered - printed

\* A server that has returned everything owes no reply, unless the client waits for
\* one to a chunk of no bytes.
OwedInv ==
    cpc = "readline" /\ slen > 0 /\ rpc # "return" /\ LineStart = sent => answered >= asked

TalkInv == AskInv /\ PendingInv /\ OwedInv

LEMMA PendingFinite == ASSUME TypeOK PROVE IsFiniteSet(Pending) /\ Cardinality(Pending) \in Nat
<1>1. IsFiniteSet(1 .. rsent)
  BY FS_Interval DEF TypeOK
<1>2. Pending \subseteq 1 .. rsent
  BY DEF TypeOK, Pending
<1>3. IsFiniteSet(Pending)
  BY <1>1, <1>2, FS_Subset
<1>. QED  BY <1>3, FS_CardinalityType

\* What is printed is the first pending reply.
LEMMA PrintsPending ==
    ASSUME Inv, PendingInv, Fputs, lrc > 0
    PROVE  /\ printed < answered
           /\ Cardinality(Pending') = Cardinality(Pending) - 1
<1>1. /\ rconsumed \in rnls /\ rbase \in Nat /\ rconsumed \in Nat /\ rnls \subseteq Nat
      /\ \A p \in rnls : p <= rbase \/ p >= rconsumed
      /\ rconsumed > rbase
  BY DEF Inv, TypeOK, RecvInv, RecvTypeOK, RecvInOrder, WholeReply, Fputs
<1>2. cpc = "readline" /\ cpc' = "fgets" /\ UNCHANGED <<rnls, rbase, rconsumed>>
  BY DEF Fputs, rsockvars
<1>3. Mark = rbase /\ Mark' = rconsumed
  BY <1>2 DEF Mark
<1>4. rconsumed \in Pending
  BY <1>1, <1>3 DEF Pending
<1>5. Pending' = Pending \ {rconsumed}
  <2>1. Pending = {p \in rnls : p > rbase} /\ Pending' = {p \in rnls : p > rconsumed}
    BY <1>2, <1>3 DEF Pending
  <2>2. ASSUME NEW p \in rnls
        PROVE  p > rconsumed <=> p > rbase /\ p # rconsumed
    BY <1>1
  <2>. QED  BY <2>1, <2>2
<1>6. IsFiniteSet(Pending) /\ Cardinality(Pending) \in Nat
  BY PendingFinite DEF Inv
<1>7. Cardinality(Pending') = Cardinality(Pending) - 1
  BY <1>4, <1>5, <1>6, FS_RemoveElement
<1>8. Cardinality(Pending') \in Nat
  BY <1>5, <1>6, FS_RemoveElement, FS_Subset, FS_CardinalityType
<1>9. Cardinality(Pending) = answered - printed
  BY <1>2 DEF PendingInv
<1>. QED  BY <1>6, <1>7, <1>8, <1>9 DEF Inv, TypeOK

LEMMA TalkInit == ASSUME Init, Inv PROVE TalkInv
<1>1. AskInv /\ OwedInv
  BY DEF Init, ReaderInit, AskInv, OwedInv, LineStart
<1>2. Pending = {}
  BY DEF Init, Pending
<1>3. PendingInv
  BY <1>2, FS_EmptySet DEF Init, PendingInv
<1>. QED  BY <1>1, <1>3 DEF TalkInv

LEMMA AskStep ==
    ASSUME Inv, TalkInv, Next
    PROVE  AskInv'
<1>. USE DEF TalkInv, AskInv
<1>0. inPos \in Nat /\ sent \in Nat /\ asked \in Nat /\ answered \in Nat /\ printed \in Nat
  BY DEF Inv, TypeOK
<1>1. CASE Connect
  BY <1>0, <1>1 DEF Connect, sockvars
<1>2. CASE Fgets
  BY <1>0, <1>2 DEF Fgets, CloseClient
<1>3. CASE Send
  BY <1>0, <1>3 DEF Send
<1>4. CASE SendFails \/ KillClient
  BY <1>0, <1>4 DEF SendFails, KillClient, CloseClient
<1>5. CASE ClientReads
  BY <1>0, <1>5 DEF ClientReads, sockvars, progvars
<1>6. CASE Fputs
  <2>1. CASE lrc > 0
    <3>1. printed < answered
      BY <1>6, <2>1, PrintsPending
    <3>2. /\ cpc = "readline" /\ cpc' = "fgets" /\ printed' = printed + 1
          /\ UNCHANGED <<inPos, sent, asked, answered>>
      BY <1>6, <2>1 DEF Fputs
    <3>. QED  BY <1>0, <3>1, <3>2
  <2>2. CASE ~(lrc > 0)
    BY <1>0, <1>6, <2>2 DEF Fputs, CloseClient
  <2>. QED  BY <2>1, <2>2
<1>7. CASE Start \/ Accept
  BY <1>0, <1>7 DEF Start, Accept, sockvars, clientvars
<1>8. CASE ServerReads
  <2>1. UNCHANGED sockvars
    BY <1>8 DEF ServerReads, ReaderNext, Call, Fill, Interrupted, Fail, EndOfFile, TakeByte
  <2>. QED  BY <1>0, <1>8, <2>1 DEF ServerReads, sockvars, progvars
<1>9. CASE Reply
  BY <1>0, <1>9 DEF Reply, clientvars
<1>10. CASE ReplyFails \/ ServerEnds \/ KillServer
  BY <1>0, <1>10 DEF ReplyFails, ServerEnds, KillServer, sockvars, clientvars
<1>11. CASE Idle
  BY <1>0, <1>11 DEF Idle, vars, sockvars, progvars
<1>. QED  BY <1>1, <1>2, <1>3, <1>4, <1>5, <1>6, <1>7, <1>8, <1>9, <1>10, <1>11
             DEF Next, Client, Server

LEMMA PendingStep ==
    ASSUME Inv, TalkInv, Next
    PROVE  PendingInv'
<1>. USE DEF TalkInv
<1>1. CASE Reply
  <2>1. /\ rsent' \in Nat /\ rsent' > rsent /\ rnls' = rnls \cup {rsent'}
        /\ rsent \in Nat /\ rnls \subseteq 1 .. rsent
    BY <1>1, ReplyLenType DEF Reply, Inv, TypeOK
  <2>2. Mark' = Mark /\ Mark \in Nat /\ Mark <= rsent /\ cpc' = cpc
    BY <1>1 DEF Reply, Mark, clientvars, recvvars, Inv, TypeOK, RecvTypeOK
  <2>3. Pending' = Pending \cup {rsent'}
    BY <2>1, <2>2 DEF Pending
  <2>4. rsent' \notin Pending
    BY <2>1 DEF Pending
  <2>5. IsFiniteSet(Pending) /\ Cardinality(Pending) \in Nat
    BY PendingFinite DEF Inv
  <2>6. Cardinality(Pending') = Cardinality(Pending) + 1
    BY <2>3, <2>4, <2>5, FS_AddElement
  <2>7. answered' = answered + 1 /\ printed' = printed
    BY <1>1 DEF Reply
  <2>. QED  BY <2>1, <2>2, <2>5, <2>6, <2>7 DEF PendingInv, Inv, TypeOK
<1>2. CASE Fputs /\ lrc > 0
  <2>1. Cardinality(Pending') = Cardinality(Pending) - 1
    BY <1>2, PrintsPending
  <2>2. cpc = "readline" /\ printed' = printed + 1 /\ UNCHANGED <<rnls, rsent, answered>>
    BY <1>2 DEF Fputs, rsockvars
  <2>. QED  BY <2>1, <2>2 DEF PendingInv, Inv, TypeOK
<1>3. CASE cpc' # "exit" /\ UNCHANGED <<rnls, rsent, answered, printed, Mark>> /\ cpc # "exit"
  <2>1. Pending' = Pending
    BY <1>3 DEF Pending
  <2>. QED  BY <1>3, <2>1 DEF PendingInv
<1>4. CASE cpc' = "exit" /\ UNCHANGED <<rnls, rsent>>
  BY <1>4 DEF PendingInv
<1>5. CASE Connect
  BY <1>3, <1>4, <1>5 DEF Connect, Mark, rsockvars, recvvars
<1>6. CASE Fgets
  BY <1>3, <1>4, <1>6 DEF Fgets, CloseClient, Mark, rsockvars, recvvars
<1>7. CASE Send
  BY <1>3, <1>7 DEF Send, BeginLine, Mark
<1>8. CASE SendFails \/ KillClient
  BY <1>4, <1>8 DEF SendFails, KillClient, CloseClient, rsockvars
<1>9. CASE ClientReads
  <2>1. UNCHANGED <<rnls, rsent, rbase>>
    BY <1>9 DEF ClientReads, RecvNext, TooLong, Recv, RecvInterrupted, RecvEnd, NextByte, rsockvars
  <2>. QED  BY <1>3, <1>9, <2>1 DEF ClientReads, Mark, progvars
<1>10. CASE Fputs /\ ~(lrc > 0)
  BY <1>4, <1>10 DEF Fputs, CloseClient, rsockvars
<1>11. CASE UNCHANGED <<rnls, rsent, cpc, answered, printed, recvvars>>
  BY <1>3, <1>4, <1>11 DEF Mark, recvvars
<1>12. CASE Start \/ Accept \/ ServerReads \/ ReplyFails \/ ServerEnds \/ KillServer \/ Idle
  BY <1>11, <1>12 DEF Start, Accept, ServerReads, ReplyFails, ServerEnds, KillServer, Idle,
                      vars, rsockvars, clientvars, progvars
<1>. QED  BY <1>1, <1>2, <1>5, <1>6, <1>7, <1>8, <1>9, <1>10, <1>12 DEF Next, Client, Server

LEMMA OwedStep ==
    ASSUME Inv, TalkInv, Next
    PROVE  OwedInv'
<1>. USE DEF TalkInv, OwedInv
<1>0. /\ sent \in Nat /\ base \in 0 .. consumed /\ consumed \in 0 .. sent
      /\ asked \in Nat /\ answered \in Nat /\ printed \in Nat
  BY DEF Inv, TypeOK, ReaderTypeOK
<1>1. CASE Send
  BY <1>0, <1>1 DEF Send, AskInv, LineStart, readervars, linevars, Inv, TypeOK
<1>2. CASE Reply
  BY <1>0, <1>2 DEF Reply, AskInv
<1>3. CASE ServerReads
  <2>1. UNCHANGED <<slen, cpc, sent, asked, answered>>
    BY <1>3 DEF ServerReads, ReaderNext, Call, Fill, Interrupted, Fail, EndOfFile, TakeByte,
                sockvars, progvars
  <2>2. CASE Call
    BY <1>0, <2>1, <2>2 DEF Call, LineStart
  <2>3. CASE ~Call
    <3>1. rpc = "loop" /\ base' = base /\ rpc' \in {"loop", "return"}
      BY <1>3, <2>3 DEF ServerReads, ReaderNext, Fill, Interrupted, Fail, EndOfFile, TakeByte,
                        Refill, linevars
    <3>. QED  BY <2>1, <3>1 DEF LineStart
  <2>. QED  BY <2>2, <2>3
<1>4. CASE UNCHANGED <<slen, cpc, sent, rpc, consumed, base, asked, answered>>
  BY <1>4 DEF LineStart
<1>5. CASE Connect \/ Fgets \/ SendFails \/ Fputs \/ KillClient
  BY <1>5 DEF Connect, Fgets, SendFails, Fputs, KillClient, CloseClient
<1>7. CASE ClientReads
  BY <1>4, <1>7 DEF ClientReads, sockvars, readervars, linevars, progvars
<1>6. CASE Start \/ Accept \/ ReplyFails \/ ServerEnds \/ KillServer \/ Idle
  BY <1>4, <1>6 DEF Start, Accept, ReplyFails, ServerEnds, KillServer, Idle, vars,
                    sockvars, readervars, linevars, progvars, clientvars
<1>. QED  BY <1>1, <1>2, <1>3, <1>5, <1>6, <1>7 DEF Next, Client, Server

LEMMA TalkStutters == ASSUME TalkInv, UNCHANGED vars PROVE TalkInv'
<1>1. UNCHANGED <<slen, sent, cpc, asked, answered, printed, rsent, rnls, rbase, rconsumed,
                  rpc, consumed, base>>
  BY DEF vars, sockvars, readervars, linevars, rsockvars, recvvars, progvars
<1>2. UNCHANGED <<Pending, LineStart>>
  BY <1>1 DEF Pending, Mark, LineStart
<1>. QED  BY <1>1, <1>2 DEF TalkInv, AskInv, PendingInv, OwedInv

LEMMA TalkInvariance == Spec => []TalkInv
<1>1. Init /\ Inv => TalkInv
  BY TalkInit
<1>2. Inv /\ TalkInv /\ [Next]_vars => TalkInv'
  BY AskStep, PendingStep, OwedStep, TalkStutters DEF TalkInv
<1>. QED  BY <1>1, <1>2, Invariance, PTL DEF Spec

\* The two programs wait for each other only if the last chunk the client sent does
\* not end with a newline or is empty, both for want of one in fgets()'s line or
\* because of a NUL in it: for every text, every size of the four buffers and of
\* the connection's, and whoever is killed.
THEOREM MutualWaitIsPartial == Spec => []MutualWaitOnlyOnPartialLine
<1>1. ASSUME Inv, TalkInv, MutualWait, sent \in nls, slen # 0 PROVE FALSE
  <2>0. /\ rsent \in Nat /\ rnls \subseteq 1 .. rsent /\ rbase \in Nat
        /\ sent \in Nat /\ base \in 0 .. consumed /\ consumed \in 0 .. sent
        /\ asked \in Nat /\ answered \in Nat /\ printed \in Nat /\ slen \in Nat
    BY <1>1 DEF Inv, TypeOK, ReaderTypeOK, RecvTypeOK
  <2>1. rconsumed = rsent /\ \A p \in rnls : p <= rbase \/ p > rconsumed
    BY <1>1 DEF MutualWait, Inv, RecvInv, RecvTypeOK, RecvBufferInv, RecvLoopInv
  <2>2. Pending = {}
    <3>1. Mark = rbase
      BY <1>1 DEF MutualWait, Mark
    <3>2. \A p \in rnls : ~(p > rbase)
      BY <2>0, <2>1
    <3>. QED  BY <3>1, <3>2 DEF Pending
  <2>3. answered = printed
    BY <1>1, <2>0, <2>2, FS_EmptySet DEF MutualWait, TalkInv, PendingInv
  <2>4. consumed = sent /\ \A i \in 1 .. Stored : base + i \notin nls
    BY <1>1 DEF MutualWait, Inv, ReaderInv, ReaderTypeOK, BufferInv, LoopInv
  <2>5. base = sent
    <3>1. CASE base < sent
      <4>1. Stored \in 1 .. Stored /\ base + Stored = sent
        BY <2>0, <2>4, <3>1 DEF Stored
      <4>. QED  BY <1>1, <2>4, <4>1
    <3>. QED  BY <2>0, <2>4, <3>1
  <2>6. answered >= asked /\ asked = printed + 1
    BY <1>1, <2>0, <2>5 DEF MutualWait, TalkInv, OwedInv, AskInv, LineStart
  <2>. QED  BY <2>0, <2>3, <2>6
<1>2. Inv /\ TalkInv => MutualWaitOnlyOnPartialLine
  BY <1>1 DEF MutualWaitOnlyOnPartialLine
<1>. QED  BY <1>2, Invariance, TalkInvariance, PTL

\* The two programs wait for each other in send() only if the server has answered
\* more often than it was asked, i.e. some chunk was no line that fits.
BehindIfBlocked ==
    BothBlocked /\ ReplyLen(count) <= RWindow => answered > asked

LEMMA BlockedIsBehind == ASSUME Inv, TalkInv PROVE BehindIfBlocked
<1>. SUFFICES ASSUME BothBlocked, ReplyLen(count) <= RWindow PROVE answered > asked
  BY DEF BehindIfBlocked
<1>0. /\ rsent \in Nat /\ rpulled \in 0 .. rsent /\ rconsumed \in 0 .. rpulled
      /\ ReplyLen(count) \in Nat /\ RWindow \in Nat
      /\ asked \in Nat /\ answered \in Nat /\ printed \in Nat
  BY ReplyLenType, ReliableTestAssumption DEF Inv, TypeOK, RecvTypeOK
<1>1. rsent > rpulled
  BY <1>0 DEF BothBlocked
<1>2. rsent \in Pending
  BY <1>0, <1>1 DEF BothBlocked, TalkInv, PendingInv, Pending, Mark
<1>3. answered # printed
  <2>1. IsFiniteSet(Pending) /\ Pending # {}
    BY <1>2, PendingFinite DEF Inv
  <2>2. Cardinality(Pending) # 0
    BY <2>1, FS_EmptySet
  <2>. QED  BY <1>0, <2>2 DEF BothBlocked, TalkInv, PendingInv
<1>. QED  BY <1>0, <1>3 DEF BothBlocked, TalkInv, AskInv

-----------------------------------------------------------------------------
(* 5. Texts of terminated lines that fit in the server's buffer. *)

\* The texts the framed run types in.  The client's buffer (120 bytes in main(), 20
\* in main2()) is not smaller than the server's (20).
Framed ==
    /\ \A t \in Inputs : Terminated(t) /\ NoNul(t) /\ Short(t)
    /\ MaxLen <= LineBuf

\* A chunk of the client from a to z is one line that the server can return at once.
OneLine(a, z) == a < z /\ z - a <= MaxLen - 1 /\ \A p \in nls : p <= a \/ p >= z

\* fgets() returns whole lines, and strlen() all of them.
ChunkInv ==
    /\ inPos \in text.nls \cup {0}
    /\ cpc = "send" => slen \in 1 .. MaxLen - 1

\* The server has answered every line, or it has not answered the last one, which
\* is all that its readline() has not returned yet.
AnswerInv ==
    /\ answered <= asked
    /\ asked = answered => LineStart = sent /\ (rpc = "return" => rc <= 0)
    /\ asked # answered => OneLine(LineStart, sent)

SyncInv == ChunkInv /\ AnswerInv

LEMMA SyncInit == ASSUME Init PROVE SyncInv
BY DEF Init, ReaderInit, SyncInv, ChunkInv, AnswerInv, LineStart

\* fgets() stops behind the line's newline, not because its buffer is full.
LEMMA FgetsLine ==
    ASSUME Framed, Inv, inPos # text.size, NEW e \in FgetsEnd
    PROVE  e \in text.nls /\ e - inPos \in 1 .. MaxLen - 1
<1>. USE ReadlineAssumption, RecvLineAssumption, ReliableTestAssumption
<1>. DEFINE lines == text.nls
            size == text.size
<1>1. /\ inPos \in Nat /\ size \in Nat /\ e \in inPos + 1 .. size /\ lines \subseteq 1 .. size
      /\ MaxLen \in Nat /\ LineBuf \in Nat /\ MaxLen <= LineBuf /\ MaxLen >= 2
      /\ \A p \in inPos + 1 .. e - 1 : p \notin lines
      /\ e \in lines \/ e - inPos = LineBuf - 1 \/ e = size
  BY DEF Inv, TypeOK, FgetsEnd, Framed
<1>t. /\ size \in lines \cup {0}
      /\ \A p \in 1 .. size : p + MaxLen - 2 <= size =>
                \E q \in p .. p + MaxLen - 2 : q \in lines
  BY DEF Inv, TypeOK, Framed, Terminated, Short
<1>. HIDE DEF lines, size
<1>2. e - inPos <= MaxLen - 1
  <2>1. SUFFICES ASSUME e - inPos > MaxLen - 1 PROVE FALSE
    BY <1>1
  <2>2. inPos + 1 \in 1 .. size /\ inPos + 1 + MaxLen - 2 <= size
    BY <1>1, <2>1
  <2>3. PICK q \in inPos + 1 .. inPos + 1 + MaxLen - 2 : q \in lines
    BY <1>t, <2>2
  <2>. QED  BY <1>1, <2>1, <2>3
<1>3. e \in lines
  <2>1. CASE e = size
    BY <1>1, <1>t, <2>1
  <2>2. CASE e # size /\ e - inPos = LineBuf - 1
    <3>1. LineBuf = MaxLen /\ inPos + 1 \in 1 .. size /\ inPos + 1 + MaxLen - 2 = e
      BY <1>1, <1>2, <2>2
    <3>2. PICK q \in inPos + 1 .. inPos + 1 + MaxLen - 2 : q \in lines
      <4>1. inPos + 1 + MaxLen - 2 <= size
        BY <1>1, <3>1
      <4>. QED  BY <1>t, <3>1, <4>1
    <3>. QED  BY <1>1, <3>1, <3>2
  <2>. QED  BY <1>1, <2>1, <2>2
<1>4. e \in text.nls
  BY <1>3 DEF lines
<1>. QED  BY <1>1, <1>2, <1>4

LEMMA ChunkStep ==
    ASSUME Framed, Inv, SyncInv, Next
    PROVE  ChunkInv'
<1>1. UNCHANGED text
  BY DEF Next, Client, Server, Connect, Fgets, Send, SendFails, ClientReads, Fputs,
         Start, Accept, ServerReads, Reply, ReplyFails, ServerEnds, KillClient, KillServer, Idle,
         vars, progvars
<1>2. CASE Fgets /\ inPos # text.size
  <2>1. inPos' \in FgetsEnd /\ slen' \in Strlen(inPos')
    BY <1>2 DEF Fgets
  <2>2. inPos' \in text.nls /\ inPos' - inPos \in 1 .. MaxLen - 1
    BY <1>2, <2>1, FgetsLine
  <2>3. slen' = inPos' - inPos
    <3>1. text.nuls = {}
      BY DEF Framed, NoNul, Inv, TypeOK
    <3>. QED  BY <2>1, <3>1 DEF Strlen
  <2>. QED  BY <1>1, <2>2, <2>3 DEF ChunkInv
<1>3. CASE UNCHANGED inPos /\ cpc' # "send"
  BY <1>1, <1>3 DEF SyncInv, ChunkInv
<1>4. CASE UNCHANGED <<inPos, cpc, slen>>
  BY <1>1, <1>4 DEF SyncInv, ChunkInv
<1>5. CASE Connect \/ (Fgets /\ inPos = text.size) \/ Send \/ SendFails \/ Fputs \/ KillClient
  BY <1>3, <1>5 DEF Connect, Fgets, Send, SendFails, Fputs, KillClient, CloseClient
<1>6. CASE ClientReads \/ Start \/ Accept \/ ServerReads \/ Reply \/ ReplyFails
           \/ ServerEnds \/ KillServer \/ Idle
  BY <1>4, <1>6
     DEF ClientReads, Start, Accept, ServerReads, Reply, ReplyFails, ServerEnds, KillServer, Idle,
         vars, progvars, clientvars
<1>. QED  BY <1>2, <1>5, <1>6 DEF Next, Client, Server

\* What the server returns is what the client sent last.
LEMMA ReturnsTheLine ==
    ASSUME Inv, AnswerInv, rpc = "return", rc > 0
    PROVE  asked # answered /\ consumed = sent
<1>1. /\ sent \in Nat /\ base \in 0 .. consumed /\ consumed \in 0 .. sent
      /\ asked \in Nat /\ answered \in Nat /\ rc \in Int /\ nls \subseteq Nat /\ MaxLen \in Nat
  BY ReadlineAssumption DEF Inv, TypeOK, ReaderTypeOK
<1>2. asked # answered /\ OneLine(base, sent)
  BY <1>1 DEF AnswerInv, LineStart
<1>3. \/ consumed \in nls /\ rc = Stored
      \/ Stored = MaxLen - 1
      \/ consumed = sent
  BY DEF Inv, ReaderInv, OneLinePerReturn
<1>. QED  BY <1>1, <1>2, <1>3 DEF OneLine, Stored

LEMMA AnswerStep ==
    ASSUME Inv, TalkInv, SyncInv, Next
    PROVE  AnswerInv'
<1>. USE DEF SyncInv
<1>0. /\ sent \in Nat /\ base \in 0 .. consumed /\ consumed \in 0 .. pulled /\ pulled \in 0 .. sent
      /\ asked \in Nat /\ answered \in Nat /\ printed \in Nat
  BY DEF Inv, TypeOK, ReaderTypeOK
<1>1. CASE Send
  <2>1. asked = answered
    BY <1>0, <1>1 DEF Send, TalkInv, AskInv, AnswerInv
  <2>2. LineStart' = LineStart /\ LineStart = sent
    BY <1>1, <2>1 DEF Send, LineStart, readervars, linevars, AnswerInv
  <2>3. slen \in 1 .. MaxLen - 1 /\ MaxLen \in Nat /\ sent' = sent + slen
        /\ \A p \in nls' : p \in 1 .. sent \/ p = sent'
    BY <1>1, ReadlineAssumption DEF Send, ChunkInv, Inv, TypeOK
  <2>4. OneLine(LineStart, sent)'
    BY <1>0, <2>2, <2>3 DEF OneLine
  <2>5. asked' = answered + 1 /\ answered' = answered
    BY <1>1, <2>1 DEF Send
  <2>6. asked' # answered' /\ answered' <= asked'
    BY <1>0, <2>5
  <2>. QED  BY <2>4, <2>6 DEF AnswerInv
<1>2. CASE Reply
  <2>1. asked # answered /\ consumed = sent
    BY <1>2, ReturnsTheLine DEF Reply
  <2>2. asked = answered + 1
    BY <1>0, <2>1 DEF AnswerInv, TalkInv, AskInv
  <2>3. asked' = answered' /\ rpc' = "call" /\ consumed' = consumed /\ sent' = sent
        /\ answered' \in Nat
    BY <1>0, <1>2, <2>2 DEF Reply
  <2>. QED  BY <2>1, <2>3 DEF AnswerInv, LineStart
<1>3. CASE ServerReads
  <2>1. UNCHANGED <<nls, sent, asked, answered>>
    BY <1>3 DEF ServerReads, ReaderNext, Call, Fill, Interrupted, Fail, EndOfFile, TakeByte,
                sockvars, progvars
  <2>2. LineStart' = LineStart
    BY <1>3 DEF ServerReads, ReaderNext, Call, Fill, Interrupted, Fail, EndOfFile, TakeByte,
                Refill, linevars, LineStart
  <2>3. OneLine(LineStart, sent)' <=> OneLine(LineStart, sent)
    BY <2>1, <2>2 DEF OneLine
  <2>4. ASSUME asked = answered, rpc' = "return" PROVE rc' <= 0
    <3>1. LineStart = sent
      BY <2>4 DEF AnswerInv
    <3>2. rpc = "loop"
      BY <1>3, <2>4 DEF ServerReads, ReaderNext, Call, Fill, Interrupted, Fail, EndOfFile,
                        TakeByte, Refill, linevars
    <3>3. base = sent /\ consumed = sent /\ pulled = sent /\ Stored = 0
      BY <1>0, <3>1, <3>2 DEF LineStart, Stored
    <3>4. read_cnt <= 0 /\ n = 1
      BY <3>2, <3>3 DEF Inv, ReaderInv, ReaderTypeOK, BufferInv, LoopInv
    <3>. QED  BY <1>3, <2>4, <3>2, <3>4
                 DEF ServerReads, ReaderNext, Call, Fill, Interrupted, Fail, EndOfFile,
                     TakeByte, Refill, linevars, Inv, TypeOK, ReaderTypeOK
  <2>5. (asked = answered)' <=> asked = answered
    BY <2>1
  <2>6. (answered <= asked)' /\ (asked = answered => LineStart' = sent')
    BY <2>1, <2>2 DEF AnswerInv
  <2>7. asked # answered => OneLine(LineStart, sent)'
    BY <2>3 DEF AnswerInv
  <2>. QED  BY <2>4, <2>5, <2>6, <2>7 DEF AnswerInv
<1>4. CASE UNCHANGED <<nls, sent, rpc, rc, consumed, base, asked, answered>>
  BY <1>4 DEF AnswerInv, LineStart, OneLine
<1>5. CASE Connect \/ Fgets \/ SendFails \/ ClientReads \/ Fputs \/ KillClient
  BY <1>4, <1>5 DEF Connect, Fgets, SendFails, ClientReads, Fputs, KillClient,
                    sockvars, readervars, linevars, progvars
<1>6. CASE Start \/ Accept \/ ReplyFails \/ ServerEnds \/ KillServer \/ Idle
  BY <1>4, <1>6 DEF Start, Accept, ReplyFails, ServerEnds, KillServer, Idle, vars,
                    sockvars, readervars, linevars, progvars
<1>. QED  BY <1>1, <1>2, <1>3, <1>5, <1>6 DEF Next, Client, Server

LEMMA SyncStutters == ASSUME SyncInv, UNCHANGED vars PROVE SyncInv'
<1>1. UNCHANGED <<text, nls, inPos, slen, sent, cpc, asked, answered, rpc, rc, consumed, base>>
  BY DEF vars, sockvars, readervars, linevars, progvars, clientvars
<1>. QED  BY <1>1 DEF SyncInv, ChunkInv, AnswerInv, OneLine, LineStart

LEMMA SyncInvariance == ASSUME Framed PROVE Spec => []SyncInv
<1>1. Init => SyncInv
  BY SyncInit
<1>2. Inv /\ TalkInv /\ SyncInv /\ [Next]_vars => SyncInv'
  BY ChunkStep, AnswerStep, SyncStutters DEF SyncInv
<1>. QED  BY <1>1, <1>2, Invariance, TalkInvariance, PTL DEF Spec

\* On texts of terminated lines that fit in the server's buffer the two programs
\* stay in step: when the client reads its next line from the user, nothing is
\* under way in either direction.
THEOREM PairInStep == ASSUME Framed PROVE Spec => []InStep
<1>1. ASSUME Inv, TalkInv, SyncInv, cpc = "fgets"
      PROVE  consumed = sent /\ rconsumed = rsent /\ printed = answered
  <2>0. /\ sent \in Nat /\ base \in 0 .. consumed /\ consumed \in 0 .. sent
        /\ asked \in Nat /\ answered \in Nat /\ printed \in Nat
        /\ rsent \in Nat /\ rconsumed \in 0 .. rsent
    BY <1>1 DEF Inv, TypeOK, ReaderTypeOK, RecvTypeOK
  <2>1. asked = printed /\ printed = answered
    BY <1>1, <2>0 DEF TalkInv, AskInv, SyncInv, AnswerInv
  <2>2. consumed = sent
    BY <1>1, <2>0, <2>1 DEF SyncInv, AnswerInv, LineStart
  <2>3. Pending = {}
    <3>1. IsFiniteSet(Pending) /\ Cardinality(Pending) = 0
      BY <1>1, <2>0, <2>1, PendingFinite DEF TalkInv, PendingInv, Inv
    <3>. QED  BY <3>1, FS_EmptySet
  <2>4. rconsumed = rsent
    <3>1. rsent \in rnls \cup {0} /\ Mark = rconsumed
      BY <1>1 DEF TalkInv, PendingInv, Mark
    <3>. QED  BY <2>0, <2>3, <3>1 DEF Pending
  <2>. QED  BY <2>1, <2>2, <2>4
<1>2. Inv /\ TalkInv /\ SyncInv => InStep
  BY <1>1 DEF InStep
<1>. QED  BY <1>2, Invariance, TalkInvariance, SyncInvariance, PTL

\* On such texts the two programs never wait for each other in send(), if the
\* connection holds one reply of any length.
THEOREM PairNeverBlocks ==
    ASSUME Framed, \A c \in Int : ReplyLen(c) <= RWindow
    PROVE  Spec => []~BothBlocked
<1>1. ASSUME Inv, TalkInv, SyncInv PROVE ~BothBlocked
  <2>1. count \in Int /\ asked \in Nat /\ answered \in Nat
    BY <1>1 DEF Inv, TypeOK
  <2>2. BehindIfBlocked
    BY <1>1, BlockedIsBehind
  <2>3. answered <= asked
    BY <1>1 DEF SyncInv, AnswerInv
  <2>. QED  BY <2>1, <2>2, <2>3 DEF BehindIfBlocked
<1>. QED  BY <1>1, Invariance, TalkInvariance, SyncInvariance, PTL

\* The safety part of Converses: on such texts the pair takes no step that the
\* alternating conversation does not take.
THEOREM PairConverses ==
    ASSUME Framed
    PROVE  Spec => Conv!Init /\ [][Conv!Next]_(Conv!vars)
<1>1. Init => Conv!Init
  BY DEF Init, Conv!Init
<1>2. ASSUME Inv, TalkInv, SyncInv, [Next]_vars
      PROVE  [Conv!Next]_(Conv!vars)
  <2>. USE DEF Conv!Next, Conv!vars
  <2>0. asked \in Nat /\ answered \in Nat /\ printed \in Nat
    BY <1>2 DEF Inv, TypeOK
  <2>1. CASE Send
    BY <1>2, <2>1 DEF Send, TalkInv, AskInv, Conv!Ask
  <2>2. CASE Reply
    <3>1. answered < asked
      BY <1>2, <2>0, <2>2, ReturnsTheLine DEF Reply, SyncInv, AnswerInv
    <3>. QED  BY <2>2, <3>1 DEF Reply, Conv!Answer
  <2>3. CASE Fputs /\ lrc > 0
    <3>1. printed < answered
      BY <1>2, <2>3, PrintsPending DEF TalkInv
    <3>. QED  BY <2>3, <3>1 DEF Fputs, Conv!Show
  <2>4. CASE UNCHANGED <<asked, answered, printed>>
    BY <2>4
  <2>5. CASE Connect \/ Fgets \/ SendFails \/ ClientReads \/ (Fputs /\ ~(lrc > 0))
             \/ KillClient \/ KillServer \/ UNCHANGED vars
    BY <2>4, <2>5 DEF Connect, Fgets, SendFails, ClientReads, Fputs, KillClient, KillServer,
                      vars, progvars
  <2>6. CASE Start \/ Accept \/ ServerReads \/ ReplyFails \/ ServerEnds
    BY <2>4, <2>6 DEF Start, Accept, ServerReads, ReplyFails, ServerEnds, progvars
  <2>. QED  BY <1>2, <2>1, <2>2, <2>3, <2>5, <2>6 DEF Next, Client, Server, Idle
<1>. QED  BY <1>1, <1>2, Invariance, TalkInvariance, SyncInvariance, PTL DEF Spec

=============================================================================
