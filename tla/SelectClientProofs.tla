--------------------------- MODULE SelectClientProofs ---------------------------
(***************************************************************************)
(* The safety properties of SelectClient, for every input, every size of   *)
(* the buffers and every server.                                           *)
(***************************************************************************)
EXTENDS SelectClient, FiniteSetTheorems, TLAPS

LEMMA LeastIsNat ==
    ASSUME NEW a \in Nat, NEW b \in Nat
    PROVE  LeastOf(a, b) \in Nat /\ LeastOf(a, b) <= a /\ LeastOf(a, b) <= b /\ a - LeastOf(a, b) \in Nat
BY DEF LeastOf

LEMMA PullIsRead == PullEnd \subseteq pulled + 1 .. typed
BY DEF PullEnd

-----------------------------------------------------------------------------
LEMMA TypeInit == Init => SelectTypeOK
<1> SUFFICES ASSUME Init PROVE SelectTypeOK
    OBVIOUS
<1>1. nls \subseteq 1 .. Input /\ typed \in 0 .. Input /\ pulled \in 0 .. typed /\ used \in 0 .. pulled
    BY SelectAssumption DEF Init
<1>2. replied \in 0 .. Replies /\ reply \in 0 .. replied
    BY SelectAssumption DEF Init
<1>3. tty \in BOOLEAN
    BY SelectAssumption DEF Init
<1> QED BY <1>1, <1>2, <1>3 DEF Init, SelectTypeOK

LEMMA TypeNext == SelectTypeOK /\ [Next]_vars => SelectTypeOK'
<1> SUFFICES ASSUME SelectTypeOK, [Next]_vars PROVE SelectTypeOK'
    OBVIOUS
<1> USE SelectAssumption DEF SelectTypeOK, inputvars, stdiovars, servervars, Exit
<1>1. CASE UNCHANGED vars
    BY <1>1 DEF vars
<1>2. CASE Type
    BY <1>2 DEF Type
<1>12. CASE CloseInput
    BY <1>12 DEF CloseInput
<1>16. CASE ServerReads
    BY <1>16 DEF ServerReads
<1>15. CASE ServerEnds
    <2>1. srv' \in {"fin", "rst", "broken"}
        BY <1>15 DEF ServerEnds
    <2> QED BY <1>15, <2>1 DEF ServerEnds
<1>13. CASE ServerSends
    <2>1. replied' \in 0 .. Replies /\ replied' = replied + 1 /\ reply' \in 0 .. replied'
        BY <1>13 DEF ServerSends
    <2>2. rnuls' \subseteq 1 .. replied' /\ got' \subseteq 1 .. replied'
        <3>1. 1 .. replied \subseteq 1 .. replied' /\ replied' \in 1 .. replied'
            BY <2>1
        <3> QED BY <1>13, <3>1 DEF ServerSends
    <2> QED BY <1>13, <2>1, <2>2 DEF ServerSends
<1>3. CASE Connect
    BY <1>3 DEF Connect
<1>4. CASE Select
    BY <1>4 DEF Select
<1>5. CASE SelectFails
    BY <1>5 DEF SelectFails
<1>6. CASE ReadSock
    <2>1. PICK n \in Nat : n <= reply /\ reply' = reply - n /\ got' = got \cup Printed(n)
        <3>1. LeastOf(reply, MAXLINE) \in Nat /\ LeastOf(reply, MAXLINE) <= reply
            BY LeastIsNat
        <3> QED BY <1>6, <3>1, Zenon DEF ReadSock
    <2>2. Printed(n) \subseteq 1 .. replied
        BY <2>1 DEF Printed
    <2>3. reply' \in 0 .. replied
        BY <2>1
    <2> QED BY <1>6, <2>1, <2>2, <2>3 DEF ReadSock
<1>7. CASE ReadEnds \/ TestStdin
    BY <1>7 DEF ReadEnds, TestStdin
<1>8. CASE FgetsFills
    BY <1>8, PullIsRead DEF FgetsFills
<1>9. CASE FgetsMeetsEnd \/ FgetsNull
    BY <1>9 DEF FgetsMeetsEnd, FgetsNull
<1>10. CASE FgetsLine
    <2>1. PICK e \in ChunkEnd : used' = e /\ chunk' = Line(e)
        BY <1>10 DEF FgetsLine
    <2>2. e \in used + 1 .. pulled /\ e - used <= MAXLINE - 1
        BY DEF ChunkEnd
    <2>3. used' \in 0 .. pulled /\ wrote \subseteq 1 .. used'
        BY <2>1, <2>2
    <2>4. chunk' \subseteq 1 .. used' /\ \A k \in chunk' : used' - k < MAXLINE - 1
        BY <2>1, <2>2 DEF Line
    <2> QED BY <2>3, <2>4, <1>10 DEF FgetsLine
<1>11. CASE Write
    <2>1. srv' \in {"open", "fin", "rst", "broken"} /\ room' \in BOOLEAN
        BY <1>11 DEF Write
    <2> QED BY <1>11, <2>1 DEF Write
<1>14. CASE WriteFails \/ WriteKills
    BY <1>14 DEF WriteFails, WriteKills
<1> QED BY <1>1, <1>2, <1>3, <1>4, <1>5, <1>6, <1>7, <1>8, <1>9, <1>10, <1>11, <1>12, <1>13, <1>14,
           <1>15, <1>16 DEF Next, Program, Fgets, Writes

\* The variables of the program keep their types; in particular a line never
\* fills send_line so far that its terminating 0 has no room.
THEOREM SelectTypeCorrect == Spec => []SelectTypeOK
<1>1. Init => SelectTypeOK
    BY TypeInit
<1>2. SelectTypeOK /\ [Next]_vars => SelectTypeOK'
    BY TypeNext
<1> QED BY <1>1, <1>2, PTL DEF Spec

-----------------------------------------------------------------------------
\* A NUL hides what follows it in the same portion.
Hidden(k) == \E z \in rnuls : z <= k /\ k < z + MAXLINE

\* Every byte of the server is unread, printed or hidden, and none is unread at the
\* end.
PrintedOK ==
    /\ \A k \in 1 .. replied - reply : k \in got \/ Hidden(k)
    /\ why \in {"terminated", "error"} => reply = 0
    /\ why # "none" <=> pc = "exit"

\* A portion of n bytes is printed up to its first NUL.
LEMMA PortionPrinted ==
    ASSUME SelectTypeOK, NEW n \in Nat, n <= MAXLINE, n <= reply,
           NEW k \in 1 .. replied - (reply - n), k > replied - reply
    PROVE  k \in Printed(n) \/ Hidden(k)
<1> USE SelectAssumption DEF SelectTypeOK
<1> DEFINE first == replied - reply + 1
<1>1. first \in Nat /\ k \in first .. first + n - 1
    OBVIOUS
<1>2. CASE \A z \in first .. k : z \notin rnuls
    BY <1>1, <1>2 DEF Printed
<1>3. CASE \E z \in first .. k : z \in rnuls
    <2>1. PICK z \in first .. k : z \in rnuls
        BY <1>3
    <2>2. z <= k /\ k < z + MAXLINE
        BY <2>1, <1>1
    <2> QED BY <2>1, <2>2 DEF Hidden
<1> QED BY <1>2, <1>3

LEMMA PrintedNext == SelectTypeOK /\ PrintedOK /\ [Next]_vars => PrintedOK'
<1> SUFFICES ASSUME SelectTypeOK, PrintedOK, [Next]_vars PROVE PrintedOK'
    OBVIOUS
<1> USE SelectAssumption DEF inputvars, stdiovars, servervars, Exit
<1>1. ASSUME UNCHANGED <<reply, replied, rnuls, got>>,
             \/ UNCHANGED <<pc, why>>
             \/ pc # "exit" /\ pc' # "exit" /\ why' = why
      PROVE  PrintedOK'
    BY <1>1 DEF PrintedOK, Hidden
<1>2. CASE UNCHANGED vars \/ Type \/ CloseInput \/ ServerReads \/ ServerEnds
    BY <1>1, <1>2 DEF vars, Type, CloseInput, ServerReads, ServerEnds
<1>3. CASE ServerSends
    <2>1. /\ reply' = reply + 1 /\ replied' = replied + 1 /\ rnuls \subseteq rnuls'
          /\ UNCHANGED <<got, pc, why>> /\ pc # "exit"
        BY <1>3 DEF ServerSends, Connected
    <2>2. replied' - reply' = replied - reply
        BY <2>1 DEF SelectTypeOK
    <2>3. \A k : Hidden(k) => Hidden(k)'
        BY <2>1 DEF Hidden
    <2>4. why \notin {"terminated", "error"}
        BY <2>1 DEF PrintedOK
    <2> QED BY <2>1, <2>2, <2>3, <2>4 DEF PrintedOK
<1>4. CASE Select \/ TestStdin
    BY <1>1, <1>4 DEF Select, TestStdin
<1>5. CASE Connect \/ SelectFails \/ ReadEnds
    <2>1. UNCHANGED <<reply, replied, rnuls, got>>
        BY <1>5 DEF Connect, SelectFails, ReadEnds
    <2>2. /\ why' # "none" <=> pc' = "exit"
          /\ why' \in {"terminated", "error"} => reply = 0
        BY <1>5 DEF Connect, SelectFails, ReadEnds, PrintedOK
    <2> QED BY <2>1, <2>2 DEF PrintedOK, Hidden
<1>6. CASE ReadSock
    <2>1. PICK n \in Nat : n <= reply /\ n <= MAXLINE /\ reply' = reply - n /\ got' = got \cup Printed(n)
        <3>1. /\ LeastOf(reply, MAXLINE) \in Nat /\ LeastOf(reply, MAXLINE) <= reply
              /\ LeastOf(reply, MAXLINE) <= MAXLINE
            BY LeastIsNat DEF SelectTypeOK
        <3> QED BY <1>6, <3>1, Zenon DEF ReadSock
    <2>2. UNCHANGED <<replied, rnuls, why>> /\ pc = "sock" /\ pc' = "stdin"
        BY <1>6 DEF ReadSock
    <2>3. ASSUME NEW k \in 1 .. replied - (reply - n) PROVE k \in got' \/ Hidden(k)
        <3>1. CASE k > replied - reply
            BY <2>1, <2>3, <3>1, PortionPrinted
        <3>2. CASE k <= replied - reply
            BY <2>1, <2>3, <3>2 DEF PrintedOK, SelectTypeOK
        <3> QED BY <3>1, <3>2 DEF SelectTypeOK
    <2>4. why = "none"
        BY <2>2 DEF PrintedOK
    <2> QED BY <2>1, <2>2, <2>3, <2>4 DEF PrintedOK, Hidden
<1>7. CASE Fgets
    BY <1>1, <1>7 DEF Fgets, FgetsFills, FgetsMeetsEnd, FgetsLine, FgetsNull
<1>8. CASE Write \/ WriteFails
    BY <1>1, <1>8 DEF Write, WriteFails
<1>9. CASE WriteKills
    BY <1>9 DEF WriteKills, PrintedOK, Hidden
<1> QED BY <1>2, <1>3, <1>4, <1>5, <1>6, <1>7, <1>8, <1>9 DEF Next, Program, Writes

\* The program ends by read() only when every byte has been printed, or was read
\* together with a NUL in front of it.
THEOREM PrintedBeforeEnd == Spec => []AllPrinted
<1>1. Init => PrintedOK
    BY DEF Init, PrintedOK
<1>2. SelectTypeOK /\ PrintedOK => AllPrinted
    BY DEF PrintedOK, AllPrinted, Hidden, SelectTypeOK
<1> QED BY <1>1, <1>2, PrintedNext, SelectTypeCorrect, PTL DEF Spec

-----------------------------------------------------------------------------
(* What is written to the socket. *)

\* The bytes up to a that must be sent, those that may.
Must(a) == {k \in 1 .. a : k \notin nls /\ InFront(k)}
May(a)  == 1 .. a \ (nls \cup nuls)

Out == wrote \cup (IF pc = "write" THEN chunk ELSE {})

LEMMA SentIs == SentIsInput <=> (srv = "open" => Must(used) \subseteq Out /\ Out \subseteq May(used))
BY DEF SentIsInput, Must, May, Out

\* A chunk adds what must and nothing but what may be sent.
LEMMA LineIsInput ==
    ASSUME SelectTypeOK, NEW e \in ChunkEnd
    PROVE  /\ Must(e) \subseteq Must(used) \cup Line(e)
           /\ May(used) \cup Line(e) \subseteq May(e)
<1> USE SelectAssumption DEF SelectTypeOK
<1>1. used \in Nat /\ e \in Nat /\ e > used /\ \A k \in used + 1 .. e - 1 : k \notin nls
    BY DEF ChunkEnd
<1>2. ASSUME NEW k \in Must(e), k \notin Must(used) PROVE k \in Line(e)
    <2>1. k \in used + 1 .. e /\ k \notin nls /\ InFront(k)
        BY <1>1, <1>2 DEF Must
    <2>2. ASSUME NEW z \in used + 1 .. k, z \in nuls PROVE FALSE
        <3>1. PICK l \in nls : z < l /\ l < k
            BY <2>1, <2>2 DEF InFront
        <3>2. l \in used + 1 .. e - 1
            BY <1>1, <2>1, <2>2, <3>1
        <3> QED BY <1>1, <3>1, <3>2
    <2> QED BY <2>1, <2>2 DEF Line
<1>3. May(used) \subseteq May(e)
    BY <1>1 DEF May
<1>4. Line(e) \subseteq May(e)
    <2>1. ASSUME NEW k \in Line(e) PROVE k \in 1 .. e /\ k \notin nls /\ k \notin nuls
        <3>1. k \in used + 1 .. e /\ k \notin nls /\ \A z \in used + 1 .. k : z \notin nuls
            BY <2>1 DEF Line
        <3>2. k \in used + 1 .. k
            BY <1>1, <3>1
        <3> QED BY <1>1, <3>1, <3>2
    <2> QED BY <2>1 DEF May
<1> QED BY <1>2, <1>3, <1>4

LEMMA SentNext == SelectTypeOK /\ SentIsInput /\ [Next]_vars => SentIsInput'
<1> SUFFICES ASSUME SelectTypeOK, SentIsInput, [Next]_vars PROVE SentIsInput'
    OBVIOUS
<1> USE DEF inputvars, stdiovars, servervars, Exit
<1>1. ASSUME UNCHANGED <<nls, nuls, used, wrote>>, srv' = "open" => srv = "open",
             pc' = "write" <=> pc = "write", pc = "write" => chunk' = chunk
      PROVE  SentIsInput'
    BY <1>1 DEF SentIsInput, InFront
<1>2. CASE UNCHANGED vars \/ Type \/ CloseInput \/ ServerSends \/ ServerReads \/ ServerEnds
    BY <1>1, <1>2 DEF vars, Type, CloseInput, ServerSends, ServerReads, ServerEnds
<1>3. CASE Connect \/ Select \/ SelectFails \/ ReadEnds \/ TestStdin \/ ReadSock
    BY <1>1, <1>3 DEF Connect, Select, SelectFails, ReadEnds, TestStdin, ReadSock
<1>4. CASE FgetsFills \/ FgetsMeetsEnd \/ FgetsNull
    BY <1>1, <1>4 DEF FgetsFills, FgetsMeetsEnd, FgetsNull
<1>5. CASE FgetsLine
    <2>1. PICK e \in ChunkEnd : used' = e /\ chunk' = Line(e)
        BY <1>5 DEF FgetsLine
    <2>2. pc = "fgets" /\ pc' = "write" /\ UNCHANGED <<nls, nuls, srv, wrote>>
        BY <1>5 DEF FgetsLine
    <2>3. Out = wrote /\ Out' = wrote \cup Line(e)
        BY <2>1, <2>2 DEF Out
    <2>4. Must(used)' = Must(e) /\ May(used)' = May(e)
        BY <2>1, <2>2 DEF Must, May, InFront
    <2>5. srv = "open" => Must(e) \subseteq wrote \cup Line(e) /\ wrote \cup Line(e) \subseteq May(e)
        BY <2>3, LineIsInput, SentIs
    <2>6. (srv = "open" => Must(used) \subseteq Out /\ Out \subseteq May(used))'
        BY <2>2, <2>3, <2>4, <2>5
    <2> QED BY <2>6 DEF SentIsInput, Must, May, Out
<1>6. CASE Write
    <2>1. /\ pc = "write" /\ pc' = "select" /\ wrote' = wrote \cup chunk
          /\ UNCHANGED <<nls, nuls, used>> /\ (srv' = "open" => srv = "open")
        BY <1>6 DEF Write
    <2> QED BY <2>1 DEF SentIsInput, InFront
<1>7. CASE WriteFails \/ WriteKills
    BY <1>7 DEF WriteFails, WriteKills, SentIsInput
<1> QED BY <1>2, <1>3, <1>4, <1>5, <1>6, <1>7 DEF Next, Program, Fgets, Writes

\* What the server has got is the input without its newlines and without what
\* follows a NUL in its line.
THEOREM NothingCutOff == Spec => []SentIsInput
<1>1. Init => SentIsInput
    BY DEF Init, SentIsInput
<1> QED BY <1>1, SentNext, SelectTypeCorrect, PTL DEF Spec

-----------------------------------------------------------------------------
(* A terminal and lines that fit. *)

HasLine == \E e \in pulled + 1 .. typed : LineEnd(e)
AtLine  == used = pulled /\ (used = 0 \/ used \in nls)

\* In front of a line, or with exactly one line in stdio's buffer.
OneLine ==
    /\ pulled \in nls /\ used < pulled /\ pulled - used <= MAXLINE - 1
    /\ \A k \in used + 1 .. pulled - 1 : k \notin nls

TtyOK ==
    /\ feof => eof
    /\ tty /\ ShortLines /\ ~eof =>
         /\ pc \notin {"fgets", "exit"} => AtLine
         /\ pc \in {"sock", "stdin"} /\ "stdin" \in mask => HasLine
         /\ pc = "fgets" => OneLine \/ (AtLine /\ HasLine)

\* A line that follows a line is short, and a terminal gives out just that.
LEMMA PullIsLine ==
    ASSUME SelectTypeOK, tty, ShortLines, ~eof, AtLine
    PROVE  /\ \A e \in PullEnd : LineEnd(e) /\ e - pulled <= MAXLINE - 1
           /\ HasLine <=> PullEnd # {}
<1> USE SelectAssumption
<1>1. pulled \in Nat /\ typed \in Nat /\ typed <= Input /\ pulled \in 0 .. Input
    BY DEF SelectTypeOK
<1>2. pulled = 0 \/ pulled \in nls
    BY DEF AtLine
<1>3. PICK s \in pulled + 1 .. LeastOf(pulled + MAXLINE - 1, pulled + StdioSize) : s \in nls \/ s > Input
    BY <1>1, <1>2 DEF ShortLines
<1>4. s \in Nat /\ s > pulled /\ s <= pulled + MAXLINE - 1 /\ s <= pulled + StdioSize
    <2>1. pulled + MAXLINE - 1 \in Nat /\ pulled + StdioSize \in Nat
        BY <1>1
    <2>2. /\ LeastOf(pulled + MAXLINE - 1, pulled + StdioSize) \in Nat
          /\ LeastOf(pulled + MAXLINE - 1, pulled + StdioSize) <= pulled + MAXLINE - 1
          /\ LeastOf(pulled + MAXLINE - 1, pulled + StdioSize) <= pulled + StdioSize
        BY <2>1, LeastIsNat
    <2> QED BY <1>1, <1>3, <2>1, <2>2
<1>5. ASSUME NEW e \in pulled + 1 .. typed, LineEnd(e)
      PROVE  e - pulled <= MAXLINE - 1 /\ e - pulled <= StdioSize
    <2>1. e <= s
        BY <1>1, <1>3, <1>4, <1>5 DEF LineEnd
    <2> QED BY <2>1, <1>1, <1>4
<1>6. ASSUME NEW e \in PullEnd PROVE LineEnd(e)
    <2>1. e \in pulled + 1 .. typed
        BY PullIsRead
    <2>2. CASE e = pulled + StdioSize /\ \E l \in e + 1 .. typed : LineEnd(l)
        <3>1. PICK l \in e + 1 .. typed : LineEnd(l)
            BY <2>2
        <3>2. l \in pulled + 1 .. typed
            BY <2>1, <1>1
        <3>3. l - pulled <= StdioSize
            BY <3>1, <3>2, <1>5
        <3> QED BY <3>3, <2>2, <2>1, <1>1
    <2> QED BY <2>2 DEF PullEnd
<1>7. \A e \in PullEnd : e - pulled <= MAXLINE - 1
    BY <1>5, <1>6, PullIsRead
<1>8. ASSUME HasLine PROVE PullEnd # {}
    <2>1. PICK e \in pulled + 1 .. typed : LineEnd(e)
        BY <1>8 DEF HasLine
    <2>2. e \in PullEnd
        BY <2>1, <1>5 DEF PullEnd
    <2> QED BY <2>2
<1>9. ASSUME PullEnd # {} PROVE HasLine
    BY <1>9, <1>6, PullIsRead DEF HasLine
<1> QED BY <1>6, <1>7, <1>8, <1>9

LEMMA TtyNext == SelectTypeOK /\ TtyOK /\ [Next]_vars => TtyOK'
<1> SUFFICES ASSUME SelectTypeOK, TtyOK, [Next]_vars PROVE TtyOK'
    OBVIOUS
<1> USE SelectAssumption DEF inputvars, stdiovars, servervars, Exit
<1>1. nls' = nls /\ (tty' <=> tty) /\ (ShortLines' <=> ShortLines) /\ (eof => eof')
    BY DEF Next, vars, Type, CloseInput, ServerSends, ServerReads, ServerEnds, SelectFails, Program, Connect,
           Select, ReadSock, ReadEnds, TestStdin, Fgets, FgetsFills, FgetsMeetsEnd, FgetsLine,
           FgetsNull, Writes, Write, WriteFails, WriteKills, ShortLines
<1>2. CASE UNCHANGED vars
    BY <1>2 DEF vars, TtyOK, AtLine, HasLine, OneLine, LineEnd, ShortLines
<1>3. CASE Type
    <2>1. HasLine => HasLine'
        BY <1>3 DEF Type, HasLine, LineEnd, SelectTypeOK
    <2>2. (AtLine <=> AtLine') /\ (OneLine <=> OneLine')
        BY <1>3 DEF Type, AtLine, OneLine
    <2>3. UNCHANGED <<feof, eof, pc, mask>>
        BY <1>3 DEF Type
    <2> QED BY <1>1, <2>1, <2>2, <2>3 DEF TtyOK
<1>4. CASE CloseInput
    BY <1>4 DEF CloseInput, TtyOK
<1>5. ASSUME UNCHANGED <<nls, typed, eof, pulled, used>>
      PROVE  (HasLine <=> HasLine') /\ (AtLine <=> AtLine') /\ (OneLine <=> OneLine')
    BY <1>5 DEF HasLine, LineEnd, AtLine, OneLine
<1>6. CASE ServerSends \/ ServerReads \/ ServerEnds
    <2>1. UNCHANGED <<nls, typed, eof, pulled, used, feof, pc, mask>>
        BY <1>6 DEF ServerSends, ServerReads, ServerEnds
    <2> QED BY <2>1, <1>1, <1>5 DEF TtyOK
<1>7. CASE Connect \/ SelectFails \/ ReadEnds \/ ReadSock
    <2>1. UNCHANGED <<nls, typed, eof, pulled, used, feof, mask>>
        BY <1>7 DEF Connect, SelectFails, ReadEnds, ReadSock
    <2>2. \/ pc = "connect" /\ pc' \in {"select", "exit"}
          \/ pc' = "exit"
          \/ pc = "sock" /\ pc' = "stdin"
        BY <1>7 DEF Connect, SelectFails, ReadEnds, ReadSock
    <2> QED BY <2>1, <2>2, <1>1, <1>5 DEF TtyOK
<1>8. CASE Select
    <2>1. UNCHANGED <<nls, typed, eof, pulled, used, feof>> /\ pc = "select" /\ pc' \in {"sock", "stdin"}
        BY <1>8 DEF Select
    <2>2. "stdin" \in mask' => StdinReady
        BY <1>8 DEF Select
    <2>3. tty /\ ShortLines /\ ~eof /\ StdinReady => HasLine
        BY <2>1, PullIsLine DEF StdinReady, TtyOK
    <2> QED BY <2>1, <2>2, <2>3, <1>1, <1>5 DEF TtyOK
<1>9. CASE TestStdin
    <2>1. UNCHANGED <<nls, typed, eof, pulled, used, feof>> /\ pc = "stdin" /\ mask' = {}
          /\ pc' = IF "stdin" \in mask THEN "fgets" ELSE "select"
        BY <1>9 DEF TestStdin
    <2> QED BY <2>1, <1>1, <1>5 DEF TtyOK
<1>10. CASE FgetsFills
    <2>1. /\ pc = "fgets" /\ pc' = "fgets" /\ ChunkEnd = {} /\ pulled' \in PullEnd
          /\ UNCHANGED <<nls, typed, eof, used, feof>>
        BY <1>10 DEF FgetsFills
    <2>2. ASSUME tty, ShortLines, ~eof PROVE OneLine'
        <3>1. ~OneLine
            BY <2>1 DEF OneLine, ChunkEnd, SelectTypeOK
        <3>2. AtLine
            BY <3>1, <2>1, <2>2 DEF TtyOK
        <3>3. LineEnd(pulled') /\ pulled' - pulled <= MAXLINE - 1
            BY <2>1, <2>2, <3>2, PullIsLine
        <3>4. /\ used = pulled /\ pulled' \in pulled + 1 .. typed /\ pulled' \in nls
              /\ \A k \in pulled + 1 .. pulled' - 1 : k \notin nls
            BY <3>2, <3>3 DEF AtLine, LineEnd
        <3>5. used' < pulled' /\ pulled' - used' <= MAXLINE - 1
            <4>1. used' = pulled
                BY <2>1, <3>4
            <4>2. pulled \in Nat /\ typed \in Nat
                BY DEF SelectTypeOK
            <4>3. pulled' > pulled /\ pulled' \in Nat
                BY <3>4, <4>2
            <4> QED BY <4>1, <4>2, <4>3, <3>3
        <3> QED BY <2>1, <3>4, <3>5 DEF OneLine
    <2> QED BY <2>1, <2>2, <1>1 DEF TtyOK
<1>11. CASE FgetsMeetsEnd
    BY <1>11 DEF FgetsMeetsEnd, TtyOK
<1>12. CASE FgetsLine
    <2>1. PICK e \in ChunkEnd : used' = e
        BY <1>12 DEF FgetsLine
    <2>2. pc = "fgets" /\ pc' = "write" /\ UNCHANGED <<nls, typed, eof, pulled, feof>>
        BY <1>12 DEF FgetsLine
    <2>3. ASSUME tty, ShortLines, ~eof PROVE AtLine'
        <3>1. OneLine
            BY <2>2, <2>3 DEF TtyOK, AtLine, ChunkEnd, SelectTypeOK
        <3>2. ~feof
            BY <2>3 DEF TtyOK
        <3>3. e = pulled
            BY <3>1, <3>2 DEF OneLine, ChunkEnd, SelectTypeOK
        <3> QED BY <3>1, <3>3, <2>1, <2>2 DEF AtLine, OneLine
    <2> QED BY <2>2, <2>3, <1>1 DEF TtyOK
<1>13. CASE FgetsNull
    BY <1>13, <1>1 DEF FgetsNull, TtyOK
<1>14. CASE Writes
    <2>1. UNCHANGED <<nls, typed, eof, pulled, used, feof, mask>> /\ pc = "write" /\ pc' \in {"select", "exit"}
        BY <1>14 DEF Writes, Write, WriteFails, WriteKills
    <2> QED BY <2>1, <1>1, <1>5 DEF TtyOK
<1> QED BY <1>2, <1>3, <1>4, <1>6, <1>7, <1>8, <1>9, <1>10, <1>11, <1>12, <1>13, <1>14
        DEF Next, Program, Fgets

LEMMA TtyInvariance == Spec => [](SelectTypeOK /\ TtyOK)
<1>1. Init => TtyOK
    BY DEF Init, TtyOK, AtLine
<1>2. SelectTypeOK /\ TtyOK /\ [Next]_vars => TtyOK'
    BY TtyNext
<1> QED BY <1>1, <1>2, SelectTypeCorrect, PTL DEF Spec

\* On a terminal select() and stdio do not get in each other's way: no line
\* waits where select() cannot see it.
THEOREM NoLineLeftBehind == Spec => []NothingStranded
<1>1. SelectTypeOK /\ TtyOK => NothingStranded
    BY DEF TtyOK, NothingStranded, AtLine
<1> QED BY <1>1, TtyInvariance, PTL

\* On a terminal fgets() never keeps the program from the socket.
THEOREM FgetsNeverBlocks == Spec => []NeverInHalfLine
<1>1. SelectTypeOK /\ TtyOK => NeverInHalfLine
    <2> SUFFICES ASSUME SelectTypeOK, TtyOK, tty, ShortLines, InHalfLine PROVE FALSE
        BY DEF NeverInHalfLine
    <2>1. pc = "fgets" /\ ChunkEnd = {} /\ PullEnd = {} /\ ~eof
        BY DEF InHalfLine
    <2>2. ~OneLine
        BY <2>1, SelectAssumption DEF OneLine, ChunkEnd, SelectTypeOK
    <2>3. AtLine /\ HasLine
        BY <2>1, <2>2 DEF TtyOK
    <2> QED BY <2>1, <2>3, PullIsLine
<1> QED BY <1>1, TtyInvariance, PTL

=============================================================================
