------------------------------- MODULE Scanner -------------------------------
(***************************************************************************)
(* yylex(), the scanner flex made of calc.l: the compressed automaton, the *)
(* input buffer with its two end-of-buffer characters, which is refilled   *)
(* and enlarged in the middle of a token, and the end of the input.        *)
(*                                                                         *)
(* Characters are represented by one or two of each equivalence class.     *)
(* ch_buf holds the characters up to the second end-of-buffer character;   *)
(* what the array holds behind it is never read (BufferFits).  Pointers    *)
(* into the array are indices from 0.                                      *)
(***************************************************************************)
EXTENDS Integers, Sequences

CONSTANTS Texts,        \* the inputs
          YY_BUF_SIZE, YY_READ_BUF_SIZE,
          SizeT         \* yy_size_t counts modulo SizeT

ASSUME SizeAssumption ==
    /\ YY_BUF_SIZE \in Nat /\ YY_BUF_SIZE > 1
    /\ YY_READ_BUF_SIZE \in Nat /\ YY_READ_BUF_SIZE > 0
    /\ SizeT \in Nat /\ SizeT > 2 * YY_BUF_SIZE

\* A text is shorter than half of what yy_size_t can count.
ASSUME TextAssumption == \A t \in Texts : t \in Seq(STRING) /\ 2 * (Len(t) + 1) < SizeT

VARIABLES
    text, fed, tty,         \* the input, how much was read, whether it is a terminal
    ch_buf, yy_n_chars, yy_buf_size, yy_buffer_status,
    yy_c_buf_p, yy_hold_char,
    yy_bp, yy_cp, yy_current_state, last_accepting,
    pc, tok, reported,      \* the label, the token returned, the characters reported
    sawEnd, endReads        \* history, since the end was last returned: a read found
                            \* nothing but the end; how many reads met the end

inputvars == <<text, fed, tty, sawEnd, endReads>>
bufvars == <<ch_buf, yy_n_chars, yy_buf_size, yy_buffer_status>>
posvars == <<yy_c_buf_p, yy_hold_char, yy_bp>>
matchvars == <<yy_cp, yy_current_state, last_accepting>>
outvars == <<tok, reported>>
vars == <<inputvars, bufvars, posvars, matchvars, pc, outvars>>

NUL == "NUL"
NoToken == [kind |-> "none", chars |-> <<>>]
EndToken == [kind |-> "eof", chars |-> <<>>]

-----------------------------------------------------------------------------
(* The automaton. *)

At(table, i) == table[i + 1]

\* The equivalence class of a character.
yy_ec(c) ==
    CASE c = NUL -> 0
      [] c = "sp" -> 2
      [] c = "nl" -> 3
      [] c = "+" -> 4
      [] c = "1" -> 5
      [] c = "a" -> 6
      [] OTHER -> 1

yy_accept == <<0, 0, 0, 7, 5, 4, 3, 3, 2, 1, 2, 0>>
yy_meta == <<0, 1, 1, 1, 1, 2, 1>>
yy_base == <<0, 0, 0, 8, 9, 9, 9, 9, 0, 9, 0, 9, 5>>
yy_def == <<0, 11, 1, 11, 11, 11, 11, 11, 12, 11, 12, 0, 11>>
yy_nxt == <<0, 4, 5, 6, 7, 8, 9, 10, 11, 3, 11, 11, 11, 11, 11, 11>>
yy_chk == <<0, 1, 1, 1, 1, 1, 1, 12, 3, 11, 11, 11, 11, 11, 11, 11>>

JamState == 11
JamBase == 9
YY_END_OF_BUFFER == 7

\* A state and a class have the entry that yy_chk says is theirs; if there is none
\* they have that of the default state, with the class that templates (from 12 on) know.
Entry(p) == At(yy_base, p[1]) + p[2]
Owns(p) == At(yy_chk, Entry(p)) = p[1]
Default(p) ==
    LET d == At(yy_def, p[1]) IN <<d, IF d >= 12 THEN At(yy_meta, p[2]) ELSE p[2]>>

\* The loop over the default states ends after two steps at the latest.
ASSUME ChainAssumption ==
    \A p \in (1 .. 12) \X (0 .. 6) : Owns(p) \/ Owns(Default(p)) \/ Owns(Default(Default(p)))

\* One transition: the default states are followed to one that has it.
Transition ==
    [s \in 0 .. 12 |-> [c \in 0 .. 6 |->
        LET p == <<s, c>>
        IN At(yy_nxt, Entry(IF Owns(p) THEN p
                            ELSE IF Owns(Default(p)) THEN Default(p) ELSE Default(Default(p))))]]

-----------------------------------------------------------------------------
Goto(from, to) == pc = from /\ pc' = to
Accepts(s) == At(yy_accept, s) # 0
Put(buf, i, c) == [buf EXCEPT ![i + 1] = c]

\* The program calls yylex() for the first time with no buffer.
Init ==
    /\ text \in Texts /\ tty \in BOOLEAN /\ fed = 0
    /\ sawEnd = FALSE /\ endReads = 0
    /\ ch_buf = <<>> /\ yy_n_chars = 0 /\ yy_buf_size = 0 /\ yy_buffer_status = "none"
    /\ yy_c_buf_p = 0 /\ yy_hold_char = NUL /\ yy_bp = 0
    /\ yy_cp = 0 /\ yy_current_state = 0 /\ last_accepting = <<0, 0>>
    /\ pc = "idle" /\ tok = NoToken /\ reported = 0

\* An empty buffer: the two end-of-buffer characters alone.
yy_flush_buffer == ch_buf' = <<NUL, NUL>> /\ yy_n_chars' = 0 /\ yy_buffer_status' = "new"
yy_load_buffer_state == yy_c_buf_p' = 0 /\ yy_bp' = 0 /\ yy_hold_char' = NUL
yy_create_buffer(size) == yy_buf_size' = size /\ yy_flush_buffer
yyrestart == yy_flush_buffer /\ yy_load_buffer_state /\ UNCHANGED yy_buf_size

\* The first call: yy_init is 0.
FirstCall ==
    /\ yy_buffer_status = "none"
    /\ Goto("idle", "begin")
    /\ yy_create_buffer(YY_BUF_SIZE) /\ yy_load_buffer_state
    /\ UNCHANGED <<inputvars, matchvars, outvars>>

Call ==
    /\ yy_buffer_status # "none"
    /\ Goto("idle", "begin")
    /\ UNCHANGED <<inputvars, bufvars, posvars, matchvars, outvars>>

\* Mutation of Begin: the character lost to yytext's '\0' is not put back.
BeginForgets ==
    /\ Goto("begin", "match")
    /\ yy_cp' = yy_c_buf_p /\ yy_bp' = yy_c_buf_p
    /\ yy_current_state' = 1
    /\ UNCHANGED <<inputvars, bufvars, yy_c_buf_p, yy_hold_char, last_accepting, outvars>>

\* The top of the loop.
Begin ==
    /\ Goto("begin", "match")
    /\ yy_cp' = yy_c_buf_p /\ yy_bp' = yy_c_buf_p
    /\ ch_buf' = Put(ch_buf, yy_c_buf_p, yy_hold_char)
    /\ yy_current_state' = 1
    /\ UNCHANGED <<inputvars, yy_n_chars, yy_buf_size, yy_buffer_status,
                   yy_c_buf_p, yy_hold_char, last_accepting, outvars>>

\* Mutation of Match: the automaton runs on until it jams.
MatchAhead ==
    /\ pc = "match"
    /\ LET s == Transition[yy_current_state][yy_ec(At(ch_buf, yy_cp))] IN
       /\ yy_current_state' = s
       /\ pc' = IF s # JamState THEN "match" ELSE "find"
    /\ last_accepting' = IF Accepts(yy_current_state) THEN <<yy_current_state, yy_cp>>
                         ELSE last_accepting
    /\ yy_cp' = yy_cp + 1
    /\ UNCHANGED <<inputvars, bufvars, posvars, outvars>>

\* yy_match: one character.
Match ==
    /\ pc = "match"
    /\ LET s == Transition[yy_current_state][yy_ec(At(ch_buf, yy_cp))] IN
       /\ yy_current_state' = s
       /\ pc' = IF At(yy_base, s) # JamBase THEN "match" ELSE "find"
    /\ last_accepting' = IF Accepts(yy_current_state) THEN <<yy_current_state, yy_cp>>
                         ELSE last_accepting
    /\ yy_cp' = yy_cp + 1
    /\ UNCHANGED <<inputvars, bufvars, posvars, outvars>>

(* yy_find_action, with its backing up, and YY_DO_BEFORE_ACTION. *)

Found == IF Accepts(yy_current_state) THEN <<yy_current_state, yy_cp>> ELSE last_accepting
yy_act == At(yy_accept, Found[1])

\* yytext is ended by a '\0', and the scanner stands behind it.
DoBeforeAction ==
    /\ yy_c_buf_p' = Found[2]
    /\ yy_hold_char' = At(ch_buf, Found[2])
    /\ ch_buf' = Put(ch_buf, Found[2], NUL)
    /\ UNCHANGED <<yy_bp, yy_n_chars, yy_buf_size, yy_buffer_status>>

yytext == SubSeq(ch_buf, yy_bp + 1, Found[2])

\* The rules that return a token.
ReturnToken ==
    /\ yy_act \in 1 .. 3
    /\ Goto("find", "idle")
    /\ DoBeforeAction
    /\ tok' = [kind |-> CASE yy_act = 1 -> "VARIABLE"
                          [] yy_act = 2 -> "INTEGER"
                          [] OTHER -> yytext[1],
               chars |-> yytext]
    /\ UNCHANGED <<inputvars, matchvars, reported>>

\* Blanks, and yyerror("invalid input").
Drop ==
    /\ yy_act \in 4 .. 5
    /\ Goto("find", "begin")
    /\ DoBeforeAction
    /\ reported' = IF yy_act = 5 THEN reported + 1 ELSE reported
    /\ UNCHANGED <<inputvars, matchvars, tok>>

(* YY_END_OF_BUFFER.  The '\0' put there is taken back at once. *)

\* yy_get_previous_state(): the states after each of the first n characters of the
\* token, the last of them, and the last accepting state left behind.
StatesOver(buf, bp, n) ==
    LET run[k \in 0 .. n] ==
            IF k = 0 THEN 1
            ELSE LET c == At(buf, bp + k - 1)
                 IN Transition[run[k - 1]][IF c = NUL THEN 1 ELSE yy_ec(c)]
    IN run
Previous(buf, bp, n) ==
    LET run == StatesOver(buf, bp, n)
        acc == {k \in 0 .. n - 1 : Accepts(run[k])}
    IN [state |-> run[n],
        last |-> IF acc = {} THEN last_accepting
                 ELSE LET k == CHOOSE k \in acc : \A j \in acc : j <= k
                      IN <<run[k], bp + k>>]

MatchedText == Found[2] - yy_bp - 1
AtEnd == pc = "find" /\ yy_act = YY_END_OF_BUFFER
Seen == IF yy_buffer_status = "new" THEN "normal" ELSE yy_buffer_status

yy_try_NUL_trans(s) == Transition[s][1]

\* It was really a NUL in the text.
RealNul ==
    /\ AtEnd /\ Found[2] <= yy_n_chars
    /\ LET p == Previous(ch_buf, yy_bp, MatchedText)
           next == yy_try_NUL_trans(p.state)
           here == yy_bp + MatchedText
       IN /\ last_accepting' = IF Accepts(p.state) THEN <<p.state, here>> ELSE p.last
          /\ IF next # JamState
             THEN yy_current_state' = next /\ yy_c_buf_p' = here + 1 /\ pc' = "match"
             ELSE yy_current_state' = p.state /\ yy_c_buf_p' = here /\ pc' = "find"
    /\ yy_cp' = yy_c_buf_p'
    /\ yy_hold_char' = At(ch_buf, Found[2])
    /\ yy_buffer_status' = Seen
    /\ UNCHANGED <<inputvars, ch_buf, yy_n_chars, yy_buf_size, yy_bp, outvars>>

\* Mutation of Room: the unfinished token is not counted.
RoomForText(size) == (size - 1) % SizeT

\* yy_get_next_buffer() up to the read: the buffer is enlarged until it has room
\* for the unfinished token and one character more.
Room(size) == (size - MatchedText - 1) % SizeT
Twice == (2 * yy_buf_size) % SizeT
Enlarged == IF Room(yy_buf_size) # 0 THEN yy_buf_size
            ELSE IF Twice # 0 THEN Twice ELSE yy_buf_size + yy_buf_size \div 8

Refill ==
    /\ AtEnd /\ Found[2] > yy_n_chars /\ Seen # "eof_pending"
    /\ yy_c_buf_p' = Found[2] /\ yy_hold_char' = At(ch_buf, Found[2])
    /\ yy_buf_size' = Enlarged
    /\ yy_buffer_status' = Seen
    /\ pc' = "input"
    /\ UNCHANGED <<inputvars, ch_buf, yy_n_chars, yy_bp, matchvars, outvars>>

-----------------------------------------------------------------------------
(* YY_INPUT and what yy_get_next_buffer() makes of the k characters it got. *)

Least(a, b) == IF a < b THEN a ELSE b
Remaining == Len(text) - fed

\* How many characters a read may bring: of a terminal a line, as far as there is
\* room; of a file or a pipe less than there is, when a signal cuts fread() short.
Reads ==
    LET most == Least(Least(Room(yy_buf_size), YY_READ_BUF_SIZE), Remaining)
        line == {k \in 1 .. most : text[fed + k] = "nl"}
    IN IF Remaining = 0 THEN {0}
       ELSE IF ~tty THEN 1 .. most
       ELSE IF line = {} THEN {most}
       ELSE {CHOOSE k \in line : \A j \in line : k <= j}

\* A read of k characters met the end as well: it asked for more, and on a terminal
\* they were no line.  (A read of a file that a signal cut short just there counts.)
MeetsEnd(k) ==
    /\ k = Remaining /\ k < Least(Room(yy_buf_size), YY_READ_BUF_SIZE)
    /\ tty => text[fed + k] # "nl"

\* The unfinished token is moved to the start of the buffer and k characters of
\* the input follow it, and the two end-of-buffer characters.
Fill(k) ==
    /\ ch_buf' = SubSeq(ch_buf, yy_bp + 1, yy_bp + MatchedText)
                     \o SubSeq(text, fed + 1, fed + k) \o <<NUL, NUL>>
    /\ yy_n_chars' = MatchedText + k
    /\ fed' = fed + k
    /\ yy_bp' = 0
    /\ UNCHANGED <<text, tty, yy_buf_size>>

\* The state yylex() goes on in.
Resume(n) ==
    LET p == Previous(ch_buf', 0, n) IN
    /\ yy_c_buf_p' = n /\ yy_cp' = n
    /\ yy_current_state' = p.state /\ last_accepting' = p.last
    /\ UNCHANGED <<yy_hold_char, outvars>>

\* EOB_ACT_CONTINUE_SCAN.
ReadMore ==
    /\ Goto("input", "match")
    /\ \E k \in Reads \ {0} :
          /\ Fill(k)
          /\ endReads' = IF MeetsEnd(k) THEN endReads + 1 ELSE endReads
    /\ Resume(MatchedText)
    /\ UNCHANGED <<yy_buffer_status, sawEnd>>

\* There is nothing more, by a read or because a read said so before.
NoMore ==
    \/ pc = "input" /\ 0 \in Reads
    \/ AtEnd /\ Found[2] > yy_n_chars /\ Seen = "eof_pending"

EndSeen ==
    /\ sawEnd' = TRUE
    /\ endReads' = IF pc = "input" THEN endReads + 1 ELSE endReads

\* Mutation of LastMatch: that the end was met is not remembered.
LastMatchForgets ==
    /\ NoMore /\ MatchedText > 0
    /\ pc' = "find"
    /\ Fill(0)
    /\ Resume(yy_n_chars')
    /\ EndSeen
    /\ UNCHANGED yy_buffer_status

\* EOB_ACT_LAST_MATCH: a token stands before the end.
LastMatch ==
    /\ NoMore /\ MatchedText > 0
    /\ pc' = "find"
    /\ Fill(0)
    /\ Resume(yy_n_chars')
    /\ yy_buffer_status' = "eof_pending" /\ EndSeen

\* EOB_ACT_END_OF_FILE: nothing stands before the end.  yyrestart() empties the
\* buffer, yywrap() is true and yylex() returns 0.
EndOfFile ==
    /\ NoMore /\ MatchedText = 0
    /\ pc' = "idle"
    /\ yyrestart
    /\ sawEnd' = FALSE /\ endReads' = 0
    /\ tok' = EndToken
    /\ UNCHANGED <<text, fed, tty, matchvars, reported>>

\* yy_fatal_error(): reading fails, or there is no memory for the buffer.
Fatal ==
    /\ \/ pc = "input"
       \/ pc = "idle" /\ yy_buffer_status = "none"
    /\ pc' = "fatal"
    /\ UNCHANGED <<inputvars, bufvars, posvars, matchvars, outvars>>

Step == FirstCall \/ Call \/ Begin \/ Match \/ ReturnToken \/ Drop
        \/ RealNul \/ Refill \/ ReadMore \/ LastMatch \/ EndOfFile
Next == Step \/ Fatal

Spec == Init /\ [][Next]_vars /\ WF_vars(Step)

-----------------------------------------------------------------------------
(* Properties. *)

\* The scanner keeps what the rules of calc.l promise, wherever the reads cut the
\* text: neither a refill nor a NUL in the text splits, joins, loses or repeats a
\* token, and unless reading fails the text is scanned to its end.  The characters
\* dealt with are those before the token being matched.
Unread == fed - yy_n_chars
TS == INSTANCE TokenStream
          WITH pos <- Unread + (IF pc \in {"idle", "begin"} THEN yy_c_buf_p ELSE yy_bp),
               failed <- pc = "fatal"
Streams == TS!Spec

\* No character is written behind the array of yy_buf_size + 2 characters, and the
\* automaton stops at the second end-of-buffer character at the latest, however
\* often the buffer is moved, filled and enlarged.
BufferFits ==
    /\ Len(ch_buf) <= yy_buf_size + 2
    /\ pc = "match" => yy_cp <= yy_n_chars + 1
    /\ pc = "find" => Found[2] <= yy_n_chars + 1

\* A token is returned before the scanner waits for more input: it waits only for
\* what may continue a number, or behind a NUL.  (The calculator answers a line
\* before it reads the next.)
PromptRead ==
    pc = "input" => \/ \A i \in 1 .. MatchedText : ch_buf[yy_bp + i] = "1"
                    \/ MatchedText = 1 /\ ch_buf[yy_bp + 1] = NUL

\* Once a read has found nothing but the end, no other is tried before the end is
\* returned: on a terminal it would wait for the user again.  A read that met the end
\* behind characters (a last line that is not ended) keeps that to itself: the one
\* read more which finds it out is the only one.
EofReadOnce ==
    /\ pc = "input" => ~sawEnd /\ endReads <= 1
    /\ endReads <= 2

=============================================================================
