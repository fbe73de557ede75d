-------------------------- MODULE CalculatorProofs --------------------------
(***************************************************************************)
(* Proofs about yylex(): the buffer is never overrun, nothing is read that *)
(* need not be, the end of the input is read once, and the tokens are      *)
(* those the rules of calc.l promise, for every text, every size of the    *)
(* buffer and of a read, and however the reads cut the text.               *)
(*                                                                         *)
(*   1. Least elements, and the entries of flex's tables.                  *)
(*   2. yy_get_previous_state() over what may stand before the end of the  *)
(*      buffer.                                                            *)
(*   3. The inductive invariant of the scanner.                            *)
(*   4. One lemma for each step of the scanner.                            *)
(*   5. The theorems: the invariants, and the refinement of TokenStream.   *)
(*                                                                         *)
(* Proofs about yyparse(): its stacks are never overrun, and how high they *)
(* get, for every size of the stacks and every input.                      *)
(*                                                                         *)
(*   6. The entries of bison's tables.                                     *)
(*   7. The height of a stack.                                             *)
(*   8. Shifts and reductions.                                             *)
(*   9. The inductive invariant of the parser, its steps, and the theorem. *)
(*                                                                         *)
(* Proofs that yyparse() computes what the grammar says and rejects in     *)
(* time, for every input, width of an int and size of the stacks.          *)
(*                                                                         *)
(*  10. Recursive functions satisfy the equations that define them.        *)
(*  11. Expressions without recursion: which tokens may follow each other, *)
(*      and where parentheses close.                                       *)
(*  12. The lines that can become statements.                              *)
(*  13. What a program does by its last line, and what can become one.     *)
(*  14. The value of an expression by its last operator.                   *)
(*  15. The stacks stand for the input: each state for a stretch of it.    *)
(*  16. Tokens asked for, accepted and rejected.                           *)
(*  17. Tokens read and shifted.                                           *)
(*  18. Rules reduced.                                                     *)
(*  19. The inductive invariant, its steps, and the theorems.              *)
(***************************************************************************)
EXTENDS Scanner, Parser, FiniteSetTheorems, WellFoundedInduction, SequenceTheorems, TLAPS

-----------------------------------------------------------------------------
(* 1. Least elements and tables. *)

\* A nonempty set of naturals has a least element: induction in first-order form.
LEMMA LeastOf ==
    ASSUME NEW T \in SUBSET Nat, T # {}
    PROVE  \E m \in T : \A j \in T : m <= j
<1>1. PICK m \in T : \A j \in T : ~(<<j, m>> \in OpToRel(<, Nat))
  BY WFMin, NatLessThanWellFounded, Zenon
<1>2. ASSUME NEW j \in T PROVE m <= j
  <2>1. j \in Nat /\ m \in Nat
    OBVIOUS
  <2>2. CASE j < m
    BY <1>1, <2>1, <2>2 DEF OpToRel
  <2>. QED  BY <2>1, <2>2
<1>. QED  BY <1>2

\* The entries of the tables that the reachable states use.
LEMMA BaseTable ==
    /\ At(yy_base, 1) = 0 /\ At(yy_base, 3) = 8 /\ At(yy_base, 4) = 9 /\ At(yy_base, 5) = 9
    /\ At(yy_base, 6) = 9 /\ At(yy_base, 7) = 9 /\ At(yy_base, 8) = 0 /\ At(yy_base, 9) = 9
    /\ At(yy_base, 10) = 0 /\ At(yy_base, 11) = 9 /\ At(yy_base, 12) = 5
BY DEF At, yy_base

\* yy_def: the state whose row serves where a state's own has no entry.
LEMMA DefTable ==
    /\ At(yy_def, 1) = 11 /\ At(yy_def, 3) = 11 /\ At(yy_def, 4) = 11 /\ At(yy_def, 8) = 12
    /\ At(yy_def, 10) = 12 /\ At(yy_def, 12) = 11
BY DEF At, yy_def

\* yy_meta: the class that stands for a character's in the templates.
LEMMA MetaTable ==
    /\ At(yy_meta, 0) = 0 /\ At(yy_meta, 1) = 1 /\ At(yy_meta, 2) = 1 /\ At(yy_meta, 3) = 1
    /\ At(yy_meta, 4) = 1 /\ At(yy_meta, 5) = 2 /\ At(yy_meta, 6) = 1
BY DEF At, yy_meta

\* yy_chk: the state that owns an entry of yy_nxt.
LEMMA ChkTable ==
    /\ At(yy_chk, 0) = 0 /\ \A i \in 1 .. 6 : At(yy_chk, i) = 1
    /\ At(yy_chk, 7) = 12 /\ At(yy_chk, 8) = 3 /\ \A i \in 9 .. 15 : At(yy_chk, i) = 11
BY DEF At, yy_chk

\* yy_nxt: where an entry leads.
LEMMA NxtTable ==
    /\ At(yy_nxt, 0) = 0 /\ \A i \in 1 .. 8 : At(yy_nxt, i) = i + 3
    /\ At(yy_nxt, 9) = 3 /\ \A i \in 10 .. 15 : At(yy_nxt, i) = 11
BY DEF At, yy_nxt

\* yy_accept: the rule a state accepts, 0 for none.
LEMMA AcceptTable ==
    /\ At(yy_accept, 1) = 0 /\ At(yy_accept, 3) = 7 /\ At(yy_accept, 4) = 5
    /\ At(yy_accept, 5) = 4 /\ At(yy_accept, 6) = 3 /\ At(yy_accept, 7) = 3
    /\ At(yy_accept, 8) = 2 /\ At(yy_accept, 9) = 1 /\ At(yy_accept, 10) = 2
    /\ At(yy_accept, 11) = 0
BY DEF At, yy_accept

\* The automaton that the compressed tables stand for, where it is used: state 1 goes
\* to one state for each class, 8 and 10 stay in 10 over digits, a '\0' leads to 3, the
\* end of the buffer, and everything else jams.
LEMMA TransitionTable ==
    \A c \in 0 .. 6 :
        /\ Transition[1][c] = c + 3
        /\ Transition[3][c] = 11
        /\ Transition[4][c] = IF c = 0 THEN 3 ELSE 11
        /\ Transition[8][c] = IF c = 0 THEN 3 ELSE IF c = 5 THEN 10 ELSE 11
        /\ Transition[10][c] = IF c = 0 THEN 3 ELSE IF c = 5 THEN 10 ELSE 11
<1>. DEFINE Owner(p) == IF Owns(p) THEN p ELSE IF Owns(Default(p)) THEN Default(p)
                        ELSE Default(Default(p))
<1>1. ASSUME NEW s \in 0 .. 12, NEW c \in 0 .. 6
      PROVE  Transition[s][c] = At(yy_nxt, Entry(Owner(<<s, c>>)))
  BY DEF Transition
<1>2. ASSUME NEW c \in 0 .. 6 PROVE Transition[1][c] = c + 3
  BY <1>1, BaseTable, DefTable, ChkTable, NxtTable DEF Entry, Owns, Default
<1>3. ASSUME NEW c \in 0 .. 6
      PROVE  Transition[3][c] = 11 /\ Transition[4][c] = IF c = 0 THEN 3 ELSE 11
  BY <1>1, BaseTable, DefTable, ChkTable, NxtTable DEF Entry, Owns, Default
<1>4. ASSUME NEW c \in 0 .. 6, NEW s \in {8, 10}
      PROVE  Transition[s][c] = IF c = 0 THEN 3 ELSE IF c = 5 THEN 10 ELSE 11
  BY <1>1, BaseTable, DefTable, ChkTable, NxtTable, MetaTable DEF Entry, Owns, Default
<1>. QED  BY <1>2, <1>3, <1>4

\* yy_ec() tells the characters of calc.l apart.
LEMMA Classes ==
    ASSUME NEW c
    PROVE  /\ yy_ec(c) \in 0 .. 6
           /\ yy_ec(c) = 0 <=> c = NUL
           /\ yy_ec(c) = 2 <=> c = "sp"
           /\ yy_ec(c) = 3 <=> c = "nl"
           /\ yy_ec(c) = 4 <=> c = "+"
           /\ yy_ec(c) = 5 <=> c = "1"
           /\ yy_ec(c) = 6 <=> c = "a"
<1>1. /\ c = NUL => yy_ec(c) = 0
      /\ c = "sp" => yy_ec(c) = 2
      /\ c = "nl" => yy_ec(c) = 3
      /\ c = "+" => yy_ec(c) = 4
      /\ c = "1" => yy_ec(c) = 5
      /\ c = "a" => yy_ec(c) = 6
      /\ c \notin {NUL, "sp", "nl", "+", "1", "a"} => yy_ec(c) = 1
  BY Zenon DEF yy_ec, NUL
<1>. QED  BY <1>1 DEF NUL

-----------------------------------------------------------------------------
(* 2. yy_get_previous_state(). *)

\* One step of it.
StepFrom(s, c) == Transition[s][IF c = NUL THEN 1 ELSE yy_ec(c)]

\* A sequence of states that follows the steps is the one the recursion defines.
LEMMA StatesUnique ==
    ASSUME NEW buf, NEW bp \in Nat, NEW n \in Nat, NEW w \in [0 .. n -> Nat], w[0] = 1,
           \A k \in 1 .. n : w[k] = StepFrom(w[k - 1], buf[bp + k])
    PROVE  StatesOver(buf, bp, n) = w
<1>. DEFINE Body(f) == [k \in 0 .. n |-> IF k = 0 THEN 1
            ELSE LET c == At(buf, bp + k - 1)
                 IN Transition[f[k - 1]][IF c = NUL THEN 1 ELSE yy_ec(c)]]
            g == StatesOver(buf, bp, n)
<1>1. ASSUME NEW k \in 1 .. n PROVE At(buf, bp + k - 1) = buf[bp + k]
  BY DEF At
<1>2. w = Body(w)
  <2>1. ASSUME NEW k \in 0 .. n PROVE w[k] = Body(w)[k]
    <3>1. CASE k = 0
      BY <3>1
    <3>2. CASE k # 0
      <4>1. k \in 1 .. n /\ k - 1 \in 0 .. n
        BY <3>2
      <4>. QED  BY <3>2, <4>1, <1>1 DEF StepFrom
    <3>. QED  BY <3>1, <3>2
  <2>. HIDE DEF Body
  <2>2. Body(w) = [k \in 0 .. n |-> Body(w)[k]]
    BY DEF Body
  <2>. QED  BY <2>1, <2>2
<1>3. g = Body(g)
  BY <1>2, Zenon DEF StatesOver
<1>. HIDE DEF g
<1>4. ASSUME NEW k \in 0 .. n PROVE g[k] = w[k]
  <2>. DEFINE T == {j \in 0 .. n : g[j] # w[j]}
  <2>1. SUFFICES T = {}
    OBVIOUS
  <2>2. SUFFICES ASSUME T # {} PROVE FALSE
    OBVIOUS
  <2>3. PICK m \in T : \A j \in T : m <= j
    <3>1. T \in SUBSET Nat
      OBVIOUS
    <3>. HIDE DEF T
    <3>. QED  BY <2>2, <3>1, LeastOf
  <2>4. g[m] = IF m = 0 THEN 1 ELSE StepFrom(g[m - 1], At(buf, bp + m - 1))
    BY <1>3 DEF StepFrom
  <2>5. m # 0
    BY <2>3, <2>4
  <2>6. m \in 1 .. n /\ m - 1 \in 0 .. n /\ ~(m <= m - 1)
    BY <2>3, <2>5
  <2>7. m - 1 \notin T
    BY <2>3, <2>6
  <2>8. g[m - 1] = w[m - 1]
    BY <2>6, <2>7
  <2>. QED  BY <2>3, <2>4, <2>5, <2>6, <2>8, <1>1
<1>5. g = [k \in 0 .. n |-> g[k]]
  BY <1>3
<1>. QED  BY <1>4, <1>5 DEF g

\* Over digits the automaton goes from 1 to 8 and on to 10.
LEMMA OverDigits ==
    ASSUME NEW buf, NEW bp \in Nat, NEW n \in Nat, \A k \in 1 .. n : buf[bp + k] = "1"
    PROVE  Previous(buf, bp, n).state = IF n = 0 THEN 1 ELSE IF n = 1 THEN 8 ELSE 10
<1>. DEFINE w == [k \in 0 .. n |-> IF k = 0 THEN 1 ELSE IF k = 1 THEN 8 ELSE 10]
<1>1. w[0] = 1
  OBVIOUS
<1>2. ASSUME NEW k \in 1 .. n PROVE w[k] = StepFrom(w[k - 1], buf[bp + k])
  <2>1. yy_ec("1") = 5 /\ "1" # NUL
    BY Classes DEF NUL
  <2>2. /\ Transition[1][5] = 8
        /\ Transition[8][5] = 10
        /\ Transition[10][5] = 10
    BY TransitionTable
  <2>3. w[k - 1] = IF k = 1 THEN 1 ELSE IF k = 2 THEN 8 ELSE 10
    OBVIOUS
  <2>4. StepFrom(w[k - 1], buf[bp + k]) = Transition[w[k - 1]][5]
    BY <2>1 DEF StepFrom
  <2>. QED  BY <2>2, <2>3, <2>4
<1>3. w \in [0 .. n -> Nat]
  OBVIOUS
<1>. HIDE DEF w
<1>4. StatesOver(buf, bp, n) = w
  BY <1>1, <1>2, <1>3, StatesUnique
<1>5. Previous(buf, bp, n).state = w[n]
  BY <1>4 DEF Previous
<1>. QED  BY <1>5 DEF w

\* Over a NUL of the text it goes from 1 to 4.
LEMMA OverNul ==
    ASSUME NEW buf, NEW bp \in Nat, NEW n \in Nat, n = 1, buf[bp + 1] = NUL
    PROVE  Previous(buf, bp, n).state = 4
<1>. DEFINE w == [k \in 0 .. n |-> IF k = 0 THEN 1 ELSE 4]
<1>1. w[0] = 1 /\ w[1] = 4
  OBVIOUS
<1>2. ASSUME NEW k \in 1 .. n PROVE w[k] = StepFrom(w[k - 1], buf[bp + k])
  <2>1. k = 1 /\ buf[bp + k] = NUL /\ w[k - 1] = 1
    OBVIOUS
  <2>. HIDE DEF w
  <2>2. Transition[1][1] = 4
    BY TransitionTable
  <2>. QED  BY <1>1, <2>1, <2>2 DEF StepFrom
<1>3. w \in [0 .. n -> Nat]
  OBVIOUS
<1>. HIDE DEF w
<1>4. StatesOver(buf, bp, n) = w
  BY <1>1, <1>2, <1>3, StatesUnique
<1>. QED  BY <1>1, <1>4 DEF Previous

-----------------------------------------------------------------------------
(* 3. The invariant of the scanner. *)

Chars == STRING \cup {NUL}
Places == {"idle", "begin", "match", "find", "input", "fatal"}
Statuses == {"none", "new", "normal", "eof_pending"}
Between == pc \in {"idle", "begin"}

\* Types; last_accepting needs none, because it is read only where Match has set it.
TypeInv ==
    /\ text \in Texts /\ fed \in 0 .. Len(text)
    /\ ch_buf \in Seq(Chars) /\ yy_hold_char \in Chars
    /\ yy_n_chars \in Nat /\ yy_buf_size \in Nat
    /\ yy_c_buf_p \in Nat /\ yy_bp \in Nat /\ yy_cp \in Nat
    /\ yy_current_state \in 0 .. 11
    /\ yy_buffer_status \in Statuses /\ pc \in Places
    /\ reported \in Nat

\* Before the first call.
NoBuffer ==
    /\ pc \in {"idle", "fatal"} /\ ~sawEnd
    /\ fed = 0 /\ ch_buf = <<>> /\ yy_n_chars = 0 /\ yy_buf_size = 0
    /\ yy_c_buf_p = 0 /\ yy_bp = 0

\* The character at a place of the buffer, where that under the '\0' that ends yytext
\* is in yy_hold_char.
Held(i) == IF Between /\ i = yy_c_buf_p + 1 THEN yy_hold_char ELSE ch_buf[i]

\* The buffer holds the last yy_n_chars characters read and the two end-of-buffer
\* characters.
Window ==
    /\ Len(ch_buf) = yy_n_chars + 2
    /\ yy_n_chars <= fed
    /\ \A i \in 1 .. yy_n_chars : Held(i) = text[fed - yy_n_chars + i]
    /\ Held(yy_n_chars + 1) = NUL /\ Held(yy_n_chars + 2) = NUL
    /\ Between => yy_c_buf_p <= yy_n_chars

\* The buffer is larger than what it holds, and doubling never wraps around: it is
\* doubled only when a token fills it.
SizeInv ==
    /\ yy_n_chars < yy_buf_size
    /\ yy_buf_size = YY_BUF_SIZE \/ yy_buf_size <= 2 * (Len(text) + 1)

\* That a read found nothing but the end is remembered, and there is nothing to be
\* read behind it, nor behind characters that a read brought with the end.
EofInv ==
    /\ endReads \in 0 .. 2 /\ (~sawEnd => endReads <= 1)
    /\ endReads # 0 => fed = Len(text)
    /\ sawEnd => yy_buffer_status = "eof_pending"
    /\ yy_buffer_status = "eof_pending" => fed = Len(text)
    /\ pc = "input" => yy_buffer_status = "normal"

\* The characters from place a up to b are digits.
Digits(a, b) == \A i \in a + 1 .. b : ch_buf[i] = "1"

\* What the automaton may have passed when it meets a '\0' at place e: digits, or one
\* NUL of the text.
Prefix(e) ==
    /\ yy_bp <= e /\ e <= yy_n_chars
    /\ Digits(yy_bp, e) \/ (e = yy_bp + 1 /\ ch_buf[e] = NUL)

\* The states in which the automaton reads on, and what they have passed.
MatchInv ==
    \/ yy_current_state = 1 /\ yy_cp = yy_bp /\ Prefix(yy_cp)
    \/ yy_current_state \in {8, 10} /\ yy_bp < yy_cp /\ yy_cp <= yy_n_chars /\ Digits(yy_bp, yy_cp)
    \/ yy_current_state = 4 /\ yy_cp = yy_bp + 1 /\ yy_cp <= yy_n_chars /\ ch_buf[yy_cp] = NUL
    \/ yy_current_state = 3 /\ yy_cp > 0 /\ Prefix(yy_cp - 1) /\ ch_buf[yy_cp] = NUL

\* What yy_find_action may find: the end of the buffer, a number that is as long as it
\* can be, or one character of the class its state says.
FoundEnd == Found[1] = 3 /\ Found[2] \in Nat \ {0} /\ Prefix(Found[2] - 1) /\ ch_buf[Found[2]] = NUL
FoundInteger ==
    /\ Found[1] \in {8, 10}
    /\ Found[2] \in Nat /\ yy_bp < Found[2] /\ Found[2] <= yy_n_chars
    /\ Digits(yy_bp, Found[2])
    /\ Unread + Found[2] < Len(text) => text[Unread + Found[2] + 1] # "1"
FoundSingle ==
    /\ Found[2] = yy_bp + 1 /\ Found[2] <= yy_n_chars
    /\ LET c == yy_ec(ch_buf[yy_bp + 1])
       IN c # 5 /\ Found[1] = IF c = 0 THEN 4 ELSE c + 3

FindInv == FoundEnd \/ FoundInteger \/ FoundSingle
\* A read is tried at the end of the buffer, and there is room for what it brings.
InputInv == FoundEnd /\ Found[2] = yy_n_chars + 1 /\ MatchedText + 1 < yy_buf_size

Inv ==
    /\ TypeInv
    /\ IF yy_buffer_status = "none" THEN NoBuffer
       ELSE Window /\ SizeInv
    /\ EofInv
    /\ pc = "match" => MatchInv
    /\ pc = "find" => FindInv
    /\ pc = "input" => InputInv

\* A text is a sequence of characters.
LEMMA TextIsSeq == ASSUME NEW t \in Texts PROVE t \in Seq(Chars) /\ Len(t) \in Nat
BY TextAssumption, SeqMonotonic DEF Chars

-----------------------------------------------------------------------------
(* 4. The steps. *)

\* The program starts without a buffer.
LEMMA InitInv == Init => Inv
<1>. SUFFICES ASSUME Init PROVE Inv
  OBVIOUS
<1>1. TypeInv
  <2>1. ch_buf \in Seq(Chars)
    BY DEF Init
  <2>2. yy_hold_char \in Chars
    BY DEF Init, Chars
  <2>3. Len(text) \in Nat
    BY TextIsSeq DEF Init
  <2>. QED  BY <2>1, <2>2, <2>3 DEF Init, TypeInv, Places, Statuses
<1>. QED  BY <1>1 DEF Init, Inv, NoBuffer, EofInv

\* The first call makes an empty buffer.
LEMMA FirstCallInv == Inv /\ FirstCall => Inv'
<1>. SUFFICES ASSUME Inv, FirstCall PROVE Inv'
  OBVIOUS
<1>. USE DEF Inv, FirstCall, Goto, inputvars, matchvars, outvars,
             yy_create_buffer, yy_flush_buffer, yy_load_buffer_state
<1>1. NoBuffer
  BY DEF NoBuffer
<1>2. TypeInv'
  <2>1. ch_buf' \in Seq(Chars)
    BY DEF Chars
  <2>2. yy_hold_char' \in Chars
    BY DEF Chars
  <2>3. reported' \in Nat
    BY DEF TypeInv
  <2>4. text' \in Texts /\ fed' \in 0 .. Len(text')
    BY DEF TypeInv
  <2>. QED  BY <2>1, <2>2, <2>3, <2>4, SizeAssumption DEF TypeInv, Places, Statuses
<1>3. Window' /\ SizeInv'
  BY <1>1, SizeAssumption DEF TypeInv, NoBuffer, Window, SizeInv, Held, Between, NUL
<1>4. EofInv'
  BY <1>1 DEF EofInv, NoBuffer
<1>. QED  BY <1>2, <1>3, <1>4

\* A later call.
LEMMA CallInv == Inv /\ Call => Inv'
<1>. SUFFICES ASSUME Inv, Call PROVE Inv'
  OBVIOUS
<1>. USE DEF Inv, Call, Goto, inputvars, bufvars, posvars, matchvars, outvars
<1>1. TypeInv'
  BY DEF TypeInv, Places
<1>2. Window' /\ SizeInv'
  BY DEF Window, SizeInv, Held, Between
<1>3. EofInv'
  BY DEF EofInv
<1>. QED  BY <1>1, <1>2, <1>3

\* Putting yy_hold_char back restores the characters of the text.
LEMMA BeginInv == Inv /\ Begin => Inv'
<1>. SUFFICES ASSUME Inv, Begin PROVE Inv'
  OBVIOUS
<1>. USE DEF Inv, Begin, Goto, inputvars, outvars
<1>1. yy_buffer_status # "none" /\ Window /\ SizeInv /\ TypeInv /\ Between
  BY DEF NoBuffer, Between
<1>2. TypeInv'
  <2>1. ch_buf' \in Seq(Chars)
    BY <1>1, ExceptSeq DEF TypeInv, Window, Put
  <2>. QED  BY <1>1, <2>1 DEF TypeInv, Places
<1>3. /\ ch_buf' = [ch_buf EXCEPT ![yy_c_buf_p + 1] = yy_hold_char]
      /\ yy_c_buf_p + 1 \in 1 .. Len(ch_buf)
      /\ Len(ch_buf') = Len(ch_buf)
  BY <1>1 DEF TypeInv, Window, Put
<1>4. ASSUME NEW i \in 1 .. Len(ch_buf) PROVE Held(i)' = Held(i)
  BY <1>1, <1>3 DEF TypeInv, Held, Between
<1>5. Window' /\ SizeInv'
  <2>1. \A i \in 1 .. yy_n_chars + 2 : Held(i)' = Held(i)
    BY <1>1, <1>4 DEF Window
  <2>. QED  BY <1>1, <1>3, <2>1 DEF TypeInv, Window, SizeInv, Between
<1>6. EofInv'
  BY DEF EofInv
<1>7. MatchInv'
  BY <1>1 DEF TypeInv, Window, MatchInv, Prefix, Digits
<1>. QED  BY <1>1, <1>2, <1>5, <1>6, <1>7

\* One character: every state of MatchInv leads to another of them or to a find.
LEMMA MatchKeeps == Inv /\ Match => Inv'
<1>. SUFFICES ASSUME Inv, Match PROVE Inv'
  OBVIOUS
<1>. DEFINE c == ch_buf[yy_cp + 1]
            e == yy_ec(c)
<1>1. /\ yy_buffer_status # "none" /\ pc = "match"
      /\ TypeInv /\ Window /\ SizeInv /\ EofInv /\ MatchInv
  BY DEF Inv, NoBuffer, Match
<1>2. /\ yy_current_state' = Transition[yy_current_state][e]
      /\ pc' = IF At(yy_base, yy_current_state') # JamBase THEN "match" ELSE "find"
      /\ last_accepting' = IF Accepts(yy_current_state) THEN <<yy_current_state, yy_cp>>
                           ELSE last_accepting
      /\ yy_cp' = yy_cp + 1
  BY DEF Match, At
<1>3. UNCHANGED <<inputvars, bufvars, posvars, outvars>>
  BY DEF Match
<1>4. e \in 0 .. 6 /\ (e = 0 <=> c = NUL) /\ (e = 5 <=> c = "1")
  BY Classes
<1>5. yy_cp <= yy_n_chars + 1 /\ yy_cp \in Nat /\ yy_bp \in Nat /\ yy_n_chars \in Nat
  BY <1>1 DEF TypeInv, MatchInv, Prefix
<1>6. yy_cp = yy_n_chars => e = 0
  BY <1>1, <1>4, <1>5 DEF Window, Held, Between
<1>7. /\ yy_current_state' \in 0 .. 11
      /\ pc' = "match" => MatchInv'
      /\ pc' = "find" => FindInv'
  <2>. USE DEF inputvars, bufvars, posvars, JamBase, Accepts
  <2>. HIDE DEF e
  <2>1. CASE yy_current_state = 1
    <3>1. yy_current_state' = e + 3 /\ yy_cp = yy_bp /\ yy_cp <= yy_n_chars
      BY <1>1, <1>2, <1>4, <2>1, TransitionTable DEF MatchInv, Prefix
    <3>2. CASE e = 0
      BY <1>2, <1>3, <1>4, <1>5, <3>1, <3>2, BaseTable DEF MatchInv, Prefix, Digits
    <3>3. CASE e = 5
      BY <1>2, <1>3, <1>4, <1>5, <1>6, <3>1, <3>3, BaseTable DEF MatchInv, Digits
    <3>4. CASE e # 0 /\ e # 5
      <4>1. pc' = "find" /\ Found' = <<e + 3, yy_bp + 1>>
        BY <1>2, <1>4, <3>1, <3>4, BaseTable, AcceptTable DEF Found
      <4>2. yy_bp' = yy_bp /\ yy_n_chars' = yy_n_chars /\ ch_buf' = ch_buf
        BY <1>3
      <4>3. yy_ec(ch_buf'[yy_bp' + 1]) = e
        BY <3>1, <4>2 DEF e
      <4>. QED  BY <1>4, <1>5, <1>6, <3>1, <3>4, <4>1, <4>2, <4>3 DEF FindInv, FoundSingle
    <3>. QED  BY <3>2, <3>3, <3>4
  <2>2. CASE yy_current_state \in {8, 10}
    <3>1. /\ yy_current_state' = IF e = 0 THEN 3 ELSE IF e = 5 THEN 10 ELSE 11
          /\ yy_bp < yy_cp /\ yy_cp <= yy_n_chars /\ Digits(yy_bp, yy_cp)
          /\ last_accepting' = <<yy_current_state, yy_cp>>
      BY <1>1, <1>2, <1>4, <2>2, TransitionTable, AcceptTable DEF MatchInv
    <3>2. CASE e = 0
      BY <1>2, <1>3, <1>4, <1>5, <3>1, <3>2, BaseTable DEF MatchInv, Prefix, Digits
    <3>3. CASE e = 5
      BY <1>2, <1>3, <1>4, <1>5, <1>6, <3>1, <3>3, BaseTable DEF MatchInv, Digits
    <3>4. CASE e # 0 /\ e # 5
      <4>1. pc' = "find" /\ Found' = <<yy_current_state, yy_cp>>
        BY <1>2, <3>1, <3>4, BaseTable, AcceptTable DEF Found
      <4>2. yy_cp < yy_n_chars
        BY <1>5, <1>6, <3>1, <3>4
      <4>3. ch_buf[yy_cp + 1] = text[fed - yy_n_chars + (yy_cp + 1)]
        BY <1>1, <1>5, <4>2 DEF Window, Held, Between
      <4>4. fed - yy_n_chars + (yy_cp + 1) = (fed - yy_n_chars) + yy_cp + 1
        BY <1>1, <1>5 DEF TypeInv
      <4>5. text[(fed - yy_n_chars) + yy_cp + 1] # "1"
        BY <1>4, <3>4, <4>3, <4>4
      <4>. QED  BY <1>3, <1>5, <2>2, <3>1, <4>1, <4>2, <4>5
                DEF FindInv, FoundInteger, Digits, Unread
    <3>. QED  BY <3>2, <3>3, <3>4
  <2>3. CASE yy_current_state = 4
    <3>1. /\ yy_current_state' = IF e = 0 THEN 3 ELSE 11
          /\ yy_cp = yy_bp + 1 /\ yy_cp <= yy_n_chars /\ ch_buf[yy_cp] = NUL
          /\ last_accepting' = <<4, yy_cp>>
      BY <1>1, <1>2, <1>4, <2>3, TransitionTable, AcceptTable DEF MatchInv
    <3>2. CASE e = 0
      BY <1>2, <1>3, <1>4, <1>5, <3>1, <3>2, BaseTable DEF MatchInv, Prefix
    <3>3. CASE e # 0
      <4>1. pc' = "find" /\ Found' = <<4, yy_bp + 1>>
        BY <1>2, <3>1, <3>3, BaseTable, AcceptTable DEF Found
      <4>2. yy_ec(ch_buf'[yy_bp' + 1]) = 0
        BY <1>3, <3>1, Classes
      <4>. QED  BY <1>3, <1>5, <3>1, <4>1, <4>2 DEF FindInv, FoundSingle
    <3>. QED  BY <3>2, <3>3
  <2>4. CASE yy_current_state = 3
    <3>1. /\ yy_current_state' = 11
          /\ yy_cp > 0 /\ Prefix(yy_cp - 1) /\ ch_buf[yy_cp] = NUL
          /\ last_accepting' = <<3, yy_cp>>
      BY <1>1, <1>2, <1>4, <2>4, TransitionTable, AcceptTable DEF MatchInv
    <3>2. pc' = "find" /\ Found' = <<3, yy_cp>>
      BY <1>2, <3>1, BaseTable, AcceptTable DEF Found
    <3>. QED  BY <1>3, <1>5, <3>1, <3>2 DEF FindInv, FoundEnd, Prefix, Digits
  <2>. QED  BY <1>1, <2>1, <2>2, <2>3, <2>4 DEF MatchInv
<1>8. pc' \in {"match", "find"}
  BY <1>2
<1>9. TypeInv'
  BY <1>1, <1>2, <1>3, <1>5, <1>7, <1>8 DEF TypeInv, Places, inputvars, bufvars, posvars, outvars
<1>10. Window' /\ SizeInv' /\ EofInv'
  BY <1>1, <1>3, <1>8 DEF Window, Held, Between, SizeInv, EofInv, inputvars, bufvars, posvars
<1>. QED  BY <1>1, <1>3, <1>7, <1>8, <1>9, <1>10 DEF Inv, bufvars

\* Whether yy_act is YY_END_OF_BUFFER tells the three findings apart.
LEMMA FoundAct ==
    ASSUME Inv, pc = "find"
    PROVE  /\ yy_buffer_status # "none" /\ TypeInv /\ Window /\ SizeInv /\ EofInv
           /\ yy_act = YY_END_OF_BUFFER => FoundEnd
           /\ yy_act # YY_END_OF_BUFFER => FoundInteger \/ FoundSingle
<1>1. yy_buffer_status # "none" /\ TypeInv /\ Window /\ SizeInv /\ EofInv /\ FindInv
  BY DEF Inv, NoBuffer
<1>2. FoundEnd => yy_act = YY_END_OF_BUFFER
  BY AcceptTable DEF FoundEnd, yy_act, YY_END_OF_BUFFER
<1>3. FoundInteger => yy_act # YY_END_OF_BUFFER
  BY AcceptTable DEF FoundInteger, yy_act, YY_END_OF_BUFFER
<1>4. FoundSingle => yy_act # YY_END_OF_BUFFER
  <2>1. yy_ec(ch_buf[yy_bp + 1]) \in 0 .. 6
    BY Classes
  <2>. QED  BY <2>1, AcceptTable DEF FoundSingle, yy_act, YY_END_OF_BUFFER
<1>. QED  BY <1>1, <1>2, <1>3, <1>4 DEF FindInv

\* YY_DO_BEFORE_ACTION saves the character it overwrites with the '\0'.
LEMMA ActionInv ==
    ASSUME Inv, pc = "find", yy_act # YY_END_OF_BUFFER,
           DoBeforeAction, pc' \in {"idle", "begin"}, UNCHANGED <<inputvars, matchvars>>,
           reported' \in Nat
    PROVE  Inv'
<1>1. /\ yy_buffer_status # "none" /\ TypeInv /\ Window /\ SizeInv /\ EofInv
      /\ FoundInteger \/ FoundSingle
  BY FoundAct
<1>2. Found[2] \in Nat /\ Found[2] <= yy_n_chars
  BY <1>1 DEF FoundInteger, FoundSingle, TypeInv
<1>. DEFINE f == Found[2]
<1>. HIDE DEF f
<1>3. /\ ch_buf' = [ch_buf EXCEPT ![f + 1] = NUL]
      /\ yy_c_buf_p' = f /\ yy_hold_char' = ch_buf[f + 1]
      /\ UNCHANGED <<yy_bp, yy_n_chars, yy_buf_size, yy_buffer_status>>
      /\ f \in Nat /\ f <= yy_n_chars
  BY <1>2 DEF DoBeforeAction, Put, At, f
<1>4. /\ ch_buf \in Seq(Chars) /\ f + 1 \in 1 .. Len(ch_buf) /\ NUL \in Chars
      /\ Len(ch_buf) = yy_n_chars + 2 /\ yy_n_chars \in Nat
  BY <1>1, <1>3 DEF TypeInv, Window, Chars
<1>5. ch_buf' \in Seq(Chars) /\ Len(ch_buf') = Len(ch_buf) /\ yy_hold_char' \in Chars
  BY <1>3, <1>4, ExceptSeq, ElementOfSeq
<1>6. TypeInv'
  BY <1>1, <1>3, <1>5 DEF TypeInv, Places, inputvars, matchvars
<1>7. ASSUME NEW i \in 1 .. yy_n_chars + 2 PROVE Held(i)' = Held(i)
  <2>1. Held(i) = ch_buf[i]
    BY DEF Held, Between
  <2>2. Held(i)' = IF i = f + 1 THEN ch_buf[f + 1] ELSE ch_buf'[i]
    BY <1>3 DEF Held, Between
  <2>. QED  BY <1>3, <1>4, <2>1, <2>2
<1>8. Window'
  BY <1>1, <1>3, <1>4, <1>5, <1>7 DEF Window, inputvars
<1>9. SizeInv' /\ EofInv'
  BY <1>1, <1>3 DEF SizeInv, EofInv, inputvars
<1>. QED  BY <1>1, <1>3, <1>6, <1>8, <1>9 DEF Inv

\* A rule that returns a token.
LEMMA ReturnTokenInv == Inv /\ ReturnToken => Inv'
<1>. SUFFICES ASSUME Inv, ReturnToken PROVE Inv'
  OBVIOUS
<1>1. yy_act # YY_END_OF_BUFFER /\ reported' \in Nat
  BY DEF ReturnToken, YY_END_OF_BUFFER, Inv, TypeInv
<1>. QED  BY <1>1, ActionInv DEF ReturnToken, Goto

\* A rule that drops its characters.
LEMMA DropInv == Inv /\ Drop => Inv'
<1>. SUFFICES ASSUME Inv, Drop PROVE Inv'
  OBVIOUS
<1>1. yy_act # YY_END_OF_BUFFER /\ reported' \in Nat
  BY DEF Drop, YY_END_OF_BUFFER, Inv, TypeInv
<1>. QED  BY <1>1, ActionInv DEF Drop, Goto

\* Where the automaton stands behind what may precede a '\0'.
LEMMA Replayed ==
    ASSUME TypeInv, FoundEnd, NEW buf, NEW b \in Nat,
           \A i \in 1 .. MatchedText : buf[b + i] = ch_buf[yy_bp + i]
    PROVE  /\ MatchedText \in Nat
           /\ LET s == Previous(buf, b, MatchedText).state IN
              \/ s = 1 /\ MatchedText = 0
              \/ s \in {8, 10} /\ MatchedText > 0 /\ Digits(yy_bp, yy_bp + MatchedText)
              \/ s = 4 /\ MatchedText = 1 /\ ch_buf[yy_bp + 1] = NUL
<1>. DEFINE M == MatchedText
<1>1. /\ M \in Nat /\ yy_bp \in Nat /\ yy_bp + M = Found[2] - 1
      /\ Digits(yy_bp, yy_bp + M) \/ (M = 1 /\ ch_buf[yy_bp + 1] = NUL)
  <2>1. /\ Found[2] \in Nat /\ yy_bp \in Nat /\ yy_bp <= Found[2] - 1 /\ M = Found[2] - yy_bp - 1
        /\ Digits(yy_bp, Found[2] - 1) \/ (Found[2] - 1 = yy_bp + 1 /\ ch_buf[Found[2] - 1] = NUL)
    BY DEF TypeInv, FoundEnd, Prefix, MatchedText
  <2>2. M \in Nat /\ yy_bp + M = Found[2] - 1
    BY <2>1
  <2>. QED  BY <2>1, <2>2
<1>. HIDE DEF M
<1>2. CASE Digits(yy_bp, yy_bp + M)
  <2>1. \A i \in 1 .. M : buf[b + i] = "1"
    BY <1>1, <1>2 DEF Digits, M
  <2>2. Previous(buf, b, M).state = IF M = 0 THEN 1 ELSE IF M = 1 THEN 8 ELSE 10
    BY <1>1, <2>1, OverDigits
  <2>. QED  BY <1>1, <1>2, <2>2 DEF M
<1>3. CASE M = 1 /\ ch_buf[yy_bp + 1] = NUL
  <2>1. buf[b + 1] = NUL
    BY <1>1, <1>3 DEF M
  <2>2. Previous(buf, b, M).state = 4
    BY <1>1, <1>3, <2>1, OverNul
  <2>. QED  BY <1>1, <1>3, <2>2 DEF M
<1>. QED  BY <1>1, <1>2, <1>3

\* The same when what was passed stands at the start of the buffer.
LEMMA ReplayedFirst ==
    ASSUME TypeInv, FoundEnd, NEW buf,
           \A i \in 1 .. MatchedText : buf[i] = ch_buf[yy_bp + i]
    PROVE  /\ MatchedText \in Nat
           /\ LET s == Previous(buf, 0, MatchedText).state IN
              \/ s = 1 /\ MatchedText = 0
              \/ s \in {8, 10} /\ MatchedText > 0 /\ Digits(yy_bp, yy_bp + MatchedText)
              \/ s = 4 /\ MatchedText = 1 /\ ch_buf[yy_bp + 1] = NUL
<1>. DEFINE b == 0
<1>1. b \in Nat
  OBVIOUS
<1>2. \A i \in 1 .. MatchedText : b + i = i
  OBVIOUS
<1>3. b = 0
  OBVIOUS
<1>. HIDE DEF b
<1>4. \A i \in 1 .. MatchedText : buf[b + i] = ch_buf[yy_bp + i]
  BY <1>2
<1>5. /\ MatchedText \in Nat
      /\ LET s == Previous(buf, b, MatchedText).state IN
         \/ s = 1 /\ MatchedText = 0
         \/ s \in {8, 10} /\ MatchedText > 0 /\ Digits(yy_bp, yy_bp + MatchedText)
         \/ s = 4 /\ MatchedText = 1 /\ ch_buf[yy_bp + 1] = NUL
  BY <1>1, <1>4, Replayed
<1>. QED  BY <1>3, <1>5

\* A '\0' that is a NUL of the text ends the number before it or starts a token.
LEMMA RealNulInv == Inv /\ RealNul => Inv'
<1>. SUFFICES ASSUME Inv, RealNul PROVE Inv'
  OBVIOUS
<1>. DEFINE M == MatchedText
            p == Previous(ch_buf, yy_bp, M)
            s == p.state
<1>1. /\ pc = "find" /\ yy_buffer_status # "none"
      /\ TypeInv /\ Window /\ SizeInv /\ EofInv /\ FoundEnd
      /\ Found[2] <= yy_n_chars
  BY FoundAct DEF RealNul, AtEnd
<1>2. /\ Found[2] \in Nat /\ yy_bp \in Nat /\ yy_n_chars \in Nat
      /\ yy_bp + M + 1 = Found[2] /\ yy_bp + M <= yy_n_chars /\ ch_buf[yy_bp + M + 1] = NUL
  BY <1>1 DEF FoundEnd, Prefix, MatchedText, TypeInv
<1>3. /\ M \in Nat
      /\ \/ s = 1 /\ M = 0
         \/ s \in {8, 10} /\ M > 0 /\ Digits(yy_bp, yy_bp + M)
         \/ s = 4 /\ M = 1 /\ ch_buf[yy_bp + 1] = NUL
  BY <1>1, <1>2, Replayed
<1>4. /\ last_accepting' = IF Accepts(s) THEN <<s, yy_bp + M>> ELSE p.last
      /\ IF Transition[s][1] # JamState
         THEN /\ yy_current_state' = Transition[s][1]
              /\ yy_c_buf_p' = yy_bp + M + 1 /\ pc' = "match"
         ELSE yy_current_state' = s /\ yy_c_buf_p' = yy_bp + M /\ pc' = "find"
      /\ yy_cp' = yy_c_buf_p'
      /\ yy_hold_char' = ch_buf[Found[2] + 1]
  BY DEF RealNul, yy_try_NUL_trans, At
<1>5. UNCHANGED <<inputvars, ch_buf, yy_n_chars, yy_buf_size, yy_bp, outvars>>
  BY DEF RealNul
<1>6. /\ yy_buffer_status' \in Statuses \ {"none"}
      /\ yy_buffer_status' = "eof_pending" <=> yy_buffer_status = "eof_pending"
  BY <1>1 DEF RealNul, Seen, TypeInv, Statuses
<1>. HIDE DEF M, s, p
<1>7. /\ yy_current_state' \in 0 .. 11 /\ yy_cp' \in Nat /\ yy_c_buf_p' \in Nat
      /\ \/ pc' = "match" /\ MatchInv'
         \/ pc' = "find" /\ FindInv'
  <2>1. CASE s = 1
    <3>1. Transition[s][1] = 4
      BY <2>1, TransitionTable
    <3>2. /\ M = 0 /\ yy_current_state' = 4 /\ yy_c_buf_p' = yy_bp + 1 /\ pc' = "match"
          /\ yy_cp' = yy_bp + 1
      BY <1>2, <1>3, <1>4, <2>1, <3>1 DEF JamState
    <3>. QED  BY <1>1, <1>2, <1>5, <3>2 DEF MatchInv
  <2>2. CASE s \in {8, 10}
    <3>1. Transition[s][1] = 11
      BY <2>2, TransitionTable
    <3>2. /\ yy_current_state' = s /\ yy_c_buf_p' = yy_bp + M /\ pc' = "find"
          /\ yy_cp' = yy_bp + M
      BY <1>4, <3>1 DEF JamState
    <3>3. Found' = <<s, yy_bp + M>>
      BY <2>2, <3>2, AcceptTable DEF Found, Accepts
    <3>4. yy_bp + M + 1 \in 1 .. yy_n_chars
      BY <1>1, <1>2, <1>3
    <3>5. ch_buf[yy_bp + M + 1] = text[fed - yy_n_chars + (yy_bp + M + 1)]
      BY <1>1, <3>4 DEF Window, Held, Between
    <3>6. fed - yy_n_chars + (yy_bp + M + 1) = fed - yy_n_chars + (yy_bp + M) + 1
      BY <1>1, <1>2, <1>3 DEF TypeInv
    <3>7. text[fed - yy_n_chars + (yy_bp + M) + 1] # "1"
      BY <1>2, <3>5, <3>6 DEF NUL
    <3>8. M > 0 /\ Digits(yy_bp, yy_bp + M)
      BY <1>3, <2>2
    <3>9. FoundInteger'
      BY <1>2, <1>3, <1>5, <2>2, <3>3, <3>7, <3>8 DEF FoundInteger, Digits, Unread, inputvars
    <3>. QED  BY <1>2, <1>3, <2>2, <3>2, <3>9 DEF FindInv
  <2>3. CASE s = 4
    <3>1. Transition[s][1] = 11
      BY <2>3, TransitionTable
    <3>2. /\ yy_current_state' = 4 /\ yy_c_buf_p' = yy_bp + 1 /\ pc' = "find"
          /\ yy_cp' = yy_bp + 1 /\ ch_buf[yy_bp + 1] = NUL /\ M = 1
      BY <1>3, <1>4, <2>3, <3>1 DEF JamState
    <3>3. Found' = <<4, yy_bp + 1>>
      BY <3>2, AcceptTable DEF Found, Accepts
    <3>4. yy_ec(ch_buf'[yy_bp' + 1]) = 0
      BY <1>5, <3>2, Classes
    <3>. QED  BY <1>2, <1>5, <3>2, <3>3, <3>4 DEF FindInv, FoundSingle
  <2>. QED  BY <1>3, <2>1, <2>2, <2>3
<1>8. TypeInv'
  <2>1. yy_hold_char' \in Chars
    BY <1>1, <1>2, <1>4, ElementOfSeq DEF TypeInv, Window
  <2>. QED  BY <1>1, <1>5, <1>6, <1>7, <2>1 DEF TypeInv, Places, inputvars, outvars
<1>9. Window' /\ SizeInv' /\ EofInv'
  BY <1>1, <1>5, <1>6, <1>7 DEF Window, Held, Between, SizeInv, EofInv, inputvars
<1>. QED  BY <1>6, <1>7, <1>8, <1>9 DEF Inv

\* The automaton has met the end of the buffer.
EndMet ==
    /\ yy_buffer_status # "none" /\ ~Between
    /\ TypeInv /\ Window /\ SizeInv /\ EofInv
    /\ FoundEnd /\ Found[2] = yy_n_chars + 1

\* The automaton is at the end of the buffer when it found it behind yy_n_chars.
LEMMA AtEndMet == ASSUME Inv, AtEnd, Found[2] > yy_n_chars PROVE EndMet
<1>1. /\ pc = "find" /\ yy_buffer_status # "none"
      /\ TypeInv /\ Window /\ SizeInv /\ EofInv /\ FoundEnd
  BY FoundAct DEF AtEnd
<1>. QED  BY <1>1 DEF EndMet, FoundEnd, Prefix, TypeInv, Between

\* So it is while a read is tried.
LEMMA InputMet == ASSUME Inv, pc = "input" PROVE EndMet /\ MatchedText + 1 < yy_buf_size
BY DEF Inv, InputInv, EndMet, NoBuffer, Between

\* yy_size_t does not wrap around below SizeT.
LEMMA SmallMod == ASSUME NEW x \in Nat, NEW y \in Nat, x < y PROVE x % y = x
OBVIOUS

\* The room left is the size less the unfinished token and one character.
LEMMA RoomLeft ==
    ASSUME EndMet
    PROVE  /\ MatchedText \in Nat /\ MatchedText = yy_n_chars - yy_bp
           /\ MatchedText <= Len(text) /\ Len(text) \in Nat /\ 2 * (Len(text) + 1) < SizeT
           /\ MatchedText + 1 <= yy_buf_size /\ yy_buf_size < SizeT
           /\ Room(yy_buf_size) = yy_buf_size - MatchedText - 1
<1>1. Len(text) \in Nat /\ 2 * (Len(text) + 1) < SizeT
  BY TextAssumption, TextIsSeq DEF EndMet, TypeInv
<1>2. /\ MatchedText \in Nat /\ MatchedText = yy_n_chars - yy_bp
      /\ MatchedText <= Len(text) /\ MatchedText + 1 <= yy_buf_size
  BY <1>1 DEF EndMet, TypeInv, FoundEnd, Prefix, MatchedText, Window, SizeInv
<1>3. yy_buf_size \in Nat /\ yy_buf_size < SizeT /\ SizeT \in Nat
  BY <1>1, SizeAssumption DEF EndMet, TypeInv, SizeInv
<1>4. yy_buf_size - MatchedText - 1 \in Nat /\ yy_buf_size - MatchedText - 1 < SizeT
  BY <1>2, <1>3
<1>5. Room(yy_buf_size) = yy_buf_size - MatchedText - 1
  BY <1>3, <1>4, SmallMod DEF Room
<1>. QED  BY <1>1, <1>2, <1>3, <1>5

\* Refill makes room for at least one character.
LEMMA RefillInv == Inv /\ Refill => Inv'
<1>. SUFFICES ASSUME Inv, Refill PROVE Inv'
  OBVIOUS
<1>1. EndMet
  BY AtEndMet DEF Refill
<1>2. /\ yy_c_buf_p' = Found[2] /\ yy_hold_char' = ch_buf[Found[2] + 1]
      /\ yy_buf_size' = Enlarged /\ yy_buffer_status' = Seen /\ pc' = "input"
      /\ Seen # "eof_pending"
      /\ UNCHANGED <<inputvars, ch_buf, yy_n_chars, yy_bp, matchvars, outvars>>
      /\ pc = "find"
  BY DEF Refill, At, AtEnd
<1>3. Seen = "normal"
  BY <1>1, <1>2 DEF Seen, EndMet, TypeInv, Statuses
<1>4. /\ Enlarged \in Nat /\ yy_buf_size <= Enlarged /\ MatchedText + 1 < Enlarged
      /\ Enlarged = yy_buf_size \/ Enlarged <= 2 * (Len(text) + 1)
  <2>1. yy_buf_size \in Nat
    BY <1>1 DEF EndMet, TypeInv
  <2>2. CASE Room(yy_buf_size) # 0
    <3>1. Enlarged = yy_buf_size
      BY <2>2 DEF Enlarged
    <3>. QED  BY <1>1, <2>1, <2>2, <3>1, RoomLeft
  <2>3. CASE Room(yy_buf_size) = 0
    <3>1. yy_buf_size = MatchedText + 1
      BY <1>1, <2>1, <2>3, RoomLeft
    <3>2. 2 * yy_buf_size \in Nat /\ 2 * yy_buf_size < SizeT /\ SizeT \in Nat
      BY <1>1, <2>1, <3>1, RoomLeft, SizeAssumption
    <3>3. Twice = 2 * yy_buf_size
      BY <3>2, SmallMod DEF Twice
    <3>4. Twice # 0
      BY <1>1, <2>1, <3>1, <3>3, RoomLeft
    <3>5. Enlarged = Twice
      BY <2>3, <3>4 DEF Enlarged
    <3>. QED  BY <1>1, <2>1, <3>1, <3>3, <3>5, RoomLeft
  <2>. QED  BY <2>2, <2>3
<1>5. TypeInv'
  <2>1. Found[2] \in Nat /\ Found[2] + 1 \in 1 .. Len(ch_buf) /\ ch_buf \in Seq(Chars)
    BY <1>1 DEF EndMet, TypeInv, Window
  <2>2. yy_hold_char' \in Chars /\ yy_c_buf_p' \in Nat
    BY <1>2, <2>1, ElementOfSeq
  <2>. QED  BY <1>1, <1>2, <1>3, <1>4, <2>2
            DEF EndMet, TypeInv, Places, Statuses, inputvars, matchvars, outvars
<1>6. Window'
  BY <1>1, <1>2 DEF EndMet, Window, Held, Between, inputvars
<1>7. SizeInv'
  <2>1. /\ yy_n_chars \in Nat /\ yy_buf_size \in Nat /\ yy_n_chars < yy_buf_size
        /\ yy_buf_size = YY_BUF_SIZE \/ yy_buf_size <= 2 * (Len(text) + 1)
    BY <1>1 DEF EndMet, TypeInv, SizeInv
  <2>2. text' = text /\ yy_n_chars' = yy_n_chars /\ yy_buf_size' = Enlarged
    BY <1>2 DEF inputvars
  <2>. QED  BY <1>4, <2>1, <2>2 DEF SizeInv
<1>8. EofInv'
  <2>1. sawEnd => yy_buffer_status = "eof_pending"
    BY <1>1 DEF EndMet, EofInv
  <2>2. ~sawEnd
    BY <1>2, <2>1 DEF Seen
  <2>3. EofInv /\ UNCHANGED <<text, fed, sawEnd, endReads>>
    BY <1>1, <1>2 DEF EndMet, inputvars
  <2>4. (yy_buffer_status = "eof_pending")' = FALSE /\ (pc = "input" => yy_buffer_status = "normal")'
    BY <1>2, <1>3
  <2>. QED  BY <2>2, <2>3, <2>4 DEF EofInv
<1>9. InputInv'
  <2>1. Found' = Found /\ MatchedText' = MatchedText
    BY <1>2 DEF Found, MatchedText, matchvars
  <2>2. FoundEnd'
    BY <1>1, <1>2, <2>1 DEF EndMet, FoundEnd, Prefix, Digits
  <2>. QED  BY <1>1, <1>2, <1>4, <2>1, <2>2 DEF EndMet, InputInv
<1>. QED  BY <1>2, <1>3, <1>5, <1>6, <1>7, <1>8, <1>9 DEF Inv

\* A read brings no more than there is room for and than there is, and nothing only at
\* the end of the text.
LEMMA ReadsBounded ==
    ASSUME Inv, pc = "input", NEW k \in Reads
    PROVE  /\ k \in Nat /\ k <= Remaining
           /\ MatchedText + k < yy_buf_size
           /\ k = 0 => fed = Len(text)
<1>. DEFINE most == Least(Least(Room(yy_buf_size), YY_READ_BUF_SIZE), Remaining)
            line == {j \in 1 .. most : text[fed + j] = "nl"}
<1>1. EndMet /\ MatchedText + 1 < yy_buf_size
  BY InputMet
<1>2. /\ Room(yy_buf_size) = yy_buf_size - MatchedText - 1
      /\ MatchedText \in Nat /\ yy_buf_size \in Nat /\ Len(text) \in Nat
      /\ fed \in 0 .. Len(text)
  BY <1>1, RoomLeft DEF EndMet, TypeInv
<1>3. Remaining \in Nat /\ (Remaining = 0 => fed = Len(text))
  BY <1>2 DEF Remaining
<1>4. most \in Nat /\ most <= Remaining /\ most <= yy_buf_size - MatchedText - 1
      /\ (Remaining # 0 => most >= 1)
  BY <1>1, <1>2, <1>3, SizeAssumption DEF Least
<1>. HIDE DEF most
<1>5. CASE Remaining = 0
  <2>1. k = 0
    BY <1>5 DEF Reads
  <2>. QED  BY <1>1, <1>2, <1>3, <1>5, <2>1
<1>6. CASE Remaining # 0
  <2>1. k \in 1 .. most
    <3>1. CASE ~tty
      BY <1>6, <3>1 DEF Reads, most
    <3>2. CASE tty /\ line = {}
      <4>1. k = most
        BY <1>6, <3>2 DEF Reads, most
      <4>. QED  BY <1>4, <1>6, <4>1
    <3>3. CASE tty /\ line # {}
      <4>1. k = CHOOSE j \in line : \A i \in line : j <= i
        BY <1>6, <3>3 DEF Reads, most
      <4>2. line \in SUBSET Nat
        BY <1>4
      <4>3. \E j \in line : \A i \in line : j <= i
        <5>. HIDE DEF line
        <5>. QED  BY <3>3, <4>2, LeastOf
      <4>4. k \in line
        <5>. HIDE DEF line
        <5>. QED  BY <4>1, <4>3
      <4>. QED  BY <4>4
    <3>. QED  BY <3>1, <3>2, <3>3
  <2>. QED  BY <1>2, <1>3, <1>4, <2>1
<1>. QED  BY <1>5, <1>6

\* There is nothing more only when the text has been read.
LEMMA NoMoreMeans ==
    ASSUME Inv, NoMore
    PROVE  EndMet /\ fed = Len(text)
<1>1. CASE pc = "input" /\ 0 \in Reads
  BY <1>1, InputMet, ReadsBounded
<1>2. CASE AtEnd /\ Found[2] > yy_n_chars /\ Seen = "eof_pending"
  <2>1. EndMet
    BY <1>2, AtEndMet
  <2>. QED  BY <1>2, <2>1 DEF EndMet, EofInv, Seen
<1>. QED  BY <1>1, <1>2 DEF NoMore

\* The parts of a concatenation.
LEMMA Concat ==
    ASSUME NEW S, NEW u \in Seq(S), NEW v \in Seq(S)
    PROVE  /\ u \o v \in Seq(S) /\ Len(u \o v) = Len(u) + Len(v)
           /\ \A h \in 1 .. Len(u) : (u \o v)[h] = u[h]
           /\ \A h \in 1 .. Len(v) : (u \o v)[Len(u) + h] = v[h]
<1>. DEFINE w == u \o v
<1>1. w \in Seq(S) /\ Len(w) = Len(u) + Len(v)
  BY ConcatProperties
<1>2. \A i \in 1 .. Len(u) + Len(v) : w[i] = IF i <= Len(u) THEN u[i] ELSE v[i - Len(u)]
  BY ConcatProperties
<1>. HIDE DEF w
<1>3. Len(u) \in Nat /\ Len(v) \in Nat
  BY LenProperties
<1>4. ASSUME NEW h \in 1 .. Len(v) PROVE w[Len(u) + h] = v[h]
  <2>1. /\ Len(u) + h \in 1 .. Len(u) + Len(v) /\ ~(Len(u) + h <= Len(u))
        /\ (Len(u) + h) - Len(u) = h
    BY <1>3
  <2>. QED  BY <1>2, <2>1
<1>. QED  BY <1>1, <1>2, <1>3, <1>4 DEF w

\* A part of a sequence.
LEMMA Part ==
    ASSUME NEW S, NEW x \in Seq(S), NEW i \in Nat, NEW m \in Nat, i + m <= Len(x),
           NEW u, u = SubSeq(x, i + 1, i + m)
    PROVE  u \in Seq(S) /\ Len(u) = m /\ \A h \in 1 .. m : u[h] = x[i + h]
<1>1. Len(x) \in Nat
  OBVIOUS
<1>. QED  BY <1>1

\* The parts of what Fill puts together.
LEMMA Joined ==
    ASSUME NEW S, NEW u \in Seq(S), NEW v \in Seq(S), NEW z \in S
    PROVE  LET r == (u \o v) \o <<z, z>> IN
           /\ r \in Seq(S) /\ Len(r) = Len(u) + Len(v) + 2
           /\ \A h \in 1 .. Len(u) : r[h] = u[h]
           /\ \A h \in 1 .. Len(v) : r[Len(u) + h] = v[h]
           /\ r[Len(u) + Len(v) + 1] = z /\ r[Len(u) + Len(v) + 2] = z
<1>. DEFINE uv == u \o v
            e == <<z, z>>
            r == uv \o e
<1>1. e \in Seq(S) /\ Len(e) = 2 /\ e[1] = z /\ e[2] = z
  OBVIOUS
<1>2. r = uv \o e /\ uv = u \o v
  OBVIOUS
<1>. HIDE DEF uv, e
<1>3. /\ uv \in Seq(S) /\ Len(uv) = Len(u) + Len(v)
      /\ \A h \in 1 .. Len(u) : uv[h] = u[h]
      /\ \A h \in 1 .. Len(v) : uv[Len(u) + h] = v[h]
  BY <1>2, Concat
<1>4. /\ r \in Seq(S) /\ Len(r) = Len(uv) + Len(e)
      /\ \A h \in 1 .. Len(uv) : r[h] = uv[h]
      /\ \A h \in 1 .. Len(e) : r[Len(uv) + h] = e[h]
  <2>1. e \in Seq(S) /\ uv \in Seq(S)
    BY <1>1, <1>3
  <2>. QED  BY <2>1, Concat
<1>. HIDE DEF r
<1>5. Len(u) \in Nat /\ Len(v) \in Nat
  BY LenProperties
<1>6. r[Len(uv) + 1] = z /\ r[Len(uv) + 2] = z
  BY <1>1, <1>4
<1>7. ASSUME NEW h \in 1 .. Len(v) PROVE r[Len(u) + h] = v[h]
  <2>1. Len(u) + h \in 1 .. Len(uv)
    BY <1>3, <1>5
  <2>. QED  BY <1>3, <1>4, <2>1
<1>8. ASSUME NEW h \in 1 .. Len(u) PROVE r[h] = u[h]
  <2>1. h \in 1 .. Len(uv)
    BY <1>3, <1>5
  <2>. QED  BY <1>3, <1>4, <2>1
<1>. QED  BY <1>1, <1>3, <1>4, <1>6, <1>7, <1>8 DEF r, uv, e

\* The buffer after Fill holds the unfinished token and the characters read.
LEMMA Filled ==
    ASSUME EndMet, NEW k \in Nat, k <= Remaining, Fill(k)
    PROVE  /\ ch_buf' \in Seq(Chars) /\ Len(ch_buf') = yy_n_chars' + 2
           /\ yy_n_chars' = MatchedText + k /\ fed' = fed + k /\ yy_bp' = 0
           /\ UNCHANGED <<text, tty, yy_buf_size>>
           /\ fed' \in 0 .. Len(text) /\ yy_n_chars' \in Nat /\ yy_n_chars' <= fed'
           /\ fed' - yy_n_chars' = fed - yy_n_chars + yy_bp
           /\ \A i \in 1 .. MatchedText : ch_buf'[i] = ch_buf[yy_bp + i]
           /\ \A i \in 1 .. yy_n_chars' : ch_buf'[i] = text[fed' - yy_n_chars' + i]
           /\ ch_buf'[yy_n_chars' + 1] = NUL /\ ch_buf'[yy_n_chars' + 2] = NUL
<1>. DEFINE M == MatchedText
<1>1. /\ M \in Nat /\ M = yy_n_chars - yy_bp /\ Len(text) \in Nat
      /\ text \in Seq(Chars) /\ ch_buf \in Seq(Chars) /\ NUL \in Chars
      /\ yy_bp \in Nat /\ yy_n_chars \in Nat /\ fed \in 0 .. Len(text)
      /\ Len(ch_buf) = yy_n_chars + 2 /\ yy_n_chars <= fed
  BY RoomLeft, TextIsSeq DEF EndMet, TypeInv, Window, Chars
<1>2. /\ ch_buf' = SubSeq(ch_buf, yy_bp + 1, yy_bp + M)
                      \o SubSeq(text, fed + 1, fed + k) \o <<NUL, NUL>>
      /\ yy_n_chars' = M + k /\ fed' = fed + k /\ yy_bp' = 0
      /\ UNCHANGED <<text, tty, yy_buf_size>>
  BY DEF Fill
<1>3. yy_bp + M <= Len(ch_buf) /\ fed + k <= Len(text)
  BY <1>1 DEF Remaining
<1>4. \A i \in 1 .. yy_n_chars : ch_buf[i] = text[fed - yy_n_chars + i]
  BY <1>1 DEF EndMet, FoundEnd, Window, Held, Between
<1>. HIDE DEF M
<1>5. /\ ch_buf' \in Seq(Chars) /\ Len(ch_buf') = M + k + 2
      /\ \A h \in 1 .. M : ch_buf'[h] = ch_buf[yy_bp + h]
      /\ \A h \in 1 .. k : ch_buf'[M + h] = text[fed + h]
      /\ ch_buf'[M + k + 1] = NUL /\ ch_buf'[M + k + 2] = NUL
  <2>. DEFINE u == SubSeq(ch_buf, yy_bp + 1, yy_bp + M)
              v == SubSeq(text, fed + 1, fed + k)
  <2>1. ch_buf' = (u \o v) \o <<NUL, NUL>>
    BY <1>2
  <2>2. u \in Seq(Chars) /\ Len(u) = M /\ \A h \in 1 .. M : u[h] = ch_buf[yy_bp + h]
    BY <1>1, <1>3, Part
  <2>3. v \in Seq(Chars) /\ Len(v) = k /\ \A h \in 1 .. k : v[h] = text[fed + h]
    <3>1. fed \in Nat
      BY <1>1
    <3>. QED  BY <1>1, <1>3, <3>1, Part
  <2>. HIDE DEF u, v
  <2>4. /\ ch_buf' \in Seq(Chars) /\ Len(ch_buf') = Len(u) + Len(v) + 2
        /\ \A h \in 1 .. Len(u) : ch_buf'[h] = u[h]
        /\ \A h \in 1 .. Len(v) : ch_buf'[Len(u) + h] = v[h]
        /\ ch_buf'[Len(u) + Len(v) + 1] = NUL /\ ch_buf'[Len(u) + Len(v) + 2] = NUL
    <3>. DEFINE r == (u \o v) \o <<NUL, NUL>>
    <3>1. /\ r \in Seq(Chars) /\ Len(r) = Len(u) + Len(v) + 2
          /\ \A h \in 1 .. Len(u) : r[h] = u[h]
          /\ \A h \in 1 .. Len(v) : r[Len(u) + h] = v[h]
          /\ r[Len(u) + Len(v) + 1] = NUL /\ r[Len(u) + Len(v) + 2] = NUL
      <4>1. u \in Seq(Chars) /\ v \in Seq(Chars) /\ NUL \in Chars
        BY <1>1, <2>2, <2>3
      <4>. QED  BY <4>1, Joined
    <3>2. ch_buf' = r
      BY <2>1
    <3>. HIDE DEF r
    <3>. QED  BY <3>1, <3>2
  <2>. QED  BY <2>2, <2>3, <2>4
<1>6. fed' - yy_n_chars' = fed - yy_n_chars + yy_bp /\ fed' - yy_n_chars' = fed - M
  BY <1>1, <1>2
<1>7. ASSUME NEW i \in 1 .. M + k PROVE ch_buf'[i] = text[fed - M + i]
  <2>1. CASE i <= M
    <3>1. i \in 1 .. M /\ yy_bp + i \in 1 .. yy_n_chars
          /\ fed - yy_n_chars + (yy_bp + i) = fed - M + i
      BY <1>1, <2>1
    <3>. QED  BY <1>4, <1>5, <3>1
  <2>2. CASE i > M
    <3>1. i - M \in 1 .. k /\ M + (i - M) = i /\ fed + (i - M) = fed - M + i
      BY <1>1, <2>2
    <3>. QED  BY <1>5, <3>1
  <2>. QED  BY <1>1, <2>1, <2>2
<1>8. Len(ch_buf') = yy_n_chars' + 2 /\ yy_n_chars' \in Nat /\ yy_n_chars' <= fed'
      /\ fed' \in 0 .. Len(text)
  BY <1>1, <1>2, <1>3, <1>5
<1>9. \A i \in 1 .. yy_n_chars' : ch_buf'[i] = text[fed' - yy_n_chars' + i]
  BY <1>2, <1>6, <1>7
<1>10. ch_buf'[yy_n_chars' + 1] = NUL /\ ch_buf'[yy_n_chars' + 2] = NUL
  BY <1>2, <1>5
<1>. QED  BY <1>2, <1>5, <1>6, <1>8, <1>9, <1>10 DEF M

\* Scanning goes on in the state it would be in without the end of the buffer.
LEMMA ReadMoreInv == Inv /\ ReadMore => Inv'
<1>. SUFFICES ASSUME Inv, ReadMore PROVE Inv'
  OBVIOUS
<1>. DEFINE M == MatchedText
            s == Previous(ch_buf', 0, M).state
<1>1. PICK k \in Reads \ {0} :
        Fill(k) /\ endReads' = IF MeetsEnd(k) THEN endReads + 1 ELSE endReads
  BY DEF ReadMore
<1>2. /\ pc = "input" /\ pc' = "match"
      /\ yy_c_buf_p' = M /\ yy_cp' = M /\ yy_current_state' = s
      /\ UNCHANGED <<yy_buffer_status, sawEnd, yy_hold_char, reported>>
  BY DEF ReadMore, Goto, Resume, outvars
<1>3. EndMet /\ EofInv
  BY <1>2, InputMet DEF EndMet
<1>4. k \in Nat /\ k # 0 /\ k <= Remaining /\ M + k < yy_buf_size
  BY <1>1, <1>2, ReadsBounded
<1>5. /\ ch_buf' \in Seq(Chars) /\ Len(ch_buf') = yy_n_chars' + 2
      /\ yy_n_chars' = M + k /\ fed' = fed + k /\ yy_bp' = 0
      /\ UNCHANGED <<text, tty, yy_buf_size>>
      /\ fed' \in 0 .. Len(text) /\ yy_n_chars' \in Nat /\ yy_n_chars' <= fed'
      /\ \A i \in 1 .. M : ch_buf'[i] = ch_buf[yy_bp + i]
      /\ \A i \in 1 .. yy_n_chars' : ch_buf'[i] = text[fed' - yy_n_chars' + i]
      /\ ch_buf'[yy_n_chars' + 1] = NUL /\ ch_buf'[yy_n_chars' + 2] = NUL
  BY <1>1, <1>3, <1>4, Filled
<1>6. /\ M \in Nat
      /\ \/ s = 1 /\ M = 0
         \/ s \in {8, 10} /\ M > 0 /\ Digits(yy_bp, yy_bp + M)
         \/ s = 4 /\ M = 1 /\ ch_buf[yy_bp + 1] = NUL
  BY <1>3, <1>5, ReplayedFirst DEF EndMet
<1>. HIDE DEF M, s
<1>7. TypeInv'
  BY <1>2, <1>3, <1>5, <1>6 DEF EndMet, TypeInv, Places
<1>8. Window'
  BY <1>2, <1>5 DEF Window, Held, Between
<1>9. SizeInv'
  BY <1>3, <1>4, <1>5 DEF EndMet, SizeInv
<1>10. EofInv'
  <2>1. Len(text) \in Nat /\ fed \in 0 .. Len(text) /\ Remaining = Len(text) - fed
    BY <1>3 DEF EndMet, TypeInv, Remaining
  <2>2. endReads = 0 /\ ~sawEnd /\ yy_buffer_status = "normal"
    BY <1>2, <1>3, <1>4, <2>1 DEF EofInv
  <2>3. endReads' \in {0, 1} /\ (endReads' = 1 => k = Remaining)
    BY <1>1, <2>2 DEF MeetsEnd
  <2>. QED  BY <1>2, <1>5, <2>1, <2>2, <2>3 DEF EofInv
<1>11. MatchInv'
  <2>1. yy_bp \in Nat
    BY <1>3 DEF EndMet, TypeInv
  <2>2. CASE s = 1 /\ M = 0
    BY <1>2, <1>4, <1>5, <2>2 DEF MatchInv, Prefix, Digits
  <2>3. CASE s \in {8, 10} /\ M > 0 /\ Digits(yy_bp, yy_bp + M)
    <3>1. \A i \in 1 .. M : ch_buf[yy_bp + i] = "1"
      BY <1>6, <2>1, <2>3 DEF Digits
    <3>2. \A i \in 0 + 1 .. M : ch_buf'[i] = "1"
      BY <1>5, <1>6, <3>1
    <3>. QED  BY <1>2, <1>4, <1>5, <1>6, <2>3, <3>2 DEF MatchInv, Digits
  <2>4. CASE s = 4 /\ M = 1 /\ ch_buf[yy_bp + 1] = NUL
    BY <1>2, <1>4, <1>5, <2>1, <2>4 DEF MatchInv
  <2>. QED  BY <1>6, <2>2, <2>3, <2>4
<1>. QED  BY <1>2, <1>3, <1>7, <1>8, <1>9, <1>10, <1>11 DEF Inv, EndMet

\* At the end of the input the unfinished token is as long as it can be.
LEMMA LastMatchInv == Inv /\ LastMatch => Inv'
<1>. SUFFICES ASSUME Inv, LastMatch PROVE Inv'
  OBVIOUS
<1>. DEFINE M == MatchedText
            s == Previous(ch_buf', 0, M).state
<1>1. EndMet /\ fed = Len(text)
  BY NoMoreMeans DEF LastMatch
<1>2. M > 0 /\ pc' = "find" /\ yy_buffer_status' = "eof_pending"
  BY DEF LastMatch
<1>3. Fill(0)
  BY DEF LastMatch
<1>4. M \in Nat /\ M + 1 <= yy_buf_size /\ yy_bp \in Nat /\ yy_buf_size \in Nat
  BY <1>1, RoomLeft DEF EndMet, TypeInv
<1>5. 0 \in Nat /\ 0 <= Remaining
  BY <1>1, RoomLeft DEF Remaining
<1>6. yy_n_chars' = M /\ fed' = fed
  <2>1. yy_n_chars' = MatchedText + 0 /\ fed' = fed + 0
    BY <1>3 DEF Fill
  <2>2. fed \in Nat
    BY <1>1, RoomLeft DEF EndMet, TypeInv
  <2>. QED  BY <1>4, <2>1, <2>2
<1>7. /\ ch_buf' \in Seq(Chars) /\ Len(ch_buf') = yy_n_chars' + 2
      /\ yy_bp' = 0
      /\ UNCHANGED <<text, tty, yy_buf_size>>
      /\ fed' \in 0 .. Len(text) /\ yy_n_chars' \in Nat /\ yy_n_chars' <= fed'
      /\ \A i \in 1 .. M : ch_buf'[i] = ch_buf[yy_bp + i]
      /\ \A i \in 1 .. yy_n_chars' : ch_buf'[i] = text[fed' - yy_n_chars' + i]
      /\ ch_buf'[yy_n_chars' + 1] = NUL /\ ch_buf'[yy_n_chars' + 2] = NUL
  BY <1>1, <1>3, <1>5, Filled
<1>8. /\ yy_c_buf_p' = M /\ yy_cp' = M /\ yy_current_state' = s
      /\ UNCHANGED <<yy_hold_char, reported>>
  BY <1>6 DEF LastMatch, Resume, outvars
<1>9. \/ s \in {8, 10} /\ Digits(yy_bp, yy_bp + M)
      \/ s = 4 /\ M = 1 /\ ch_buf[yy_bp + 1] = NUL
  <2>1. /\ MatchedText \in Nat
        /\ \/ s = 1 /\ M = 0
           \/ s \in {8, 10} /\ M > 0 /\ Digits(yy_bp, yy_bp + M)
           \/ s = 4 /\ M = 1 /\ ch_buf[yy_bp + 1] = NUL
    BY <1>1, <1>7, ReplayedFirst DEF EndMet
  <2>. HIDE DEF s
  <2>. QED  BY <1>2, <2>1
<1>. HIDE DEF M, s
<1>10. TypeInv'
  BY <1>1, <1>2, <1>4, <1>7, <1>8, <1>9 DEF EndMet, TypeInv, Places, Statuses
<1>11. Window'
  BY <1>2, <1>7 DEF Window, Held, Between
<1>12. SizeInv'
  BY <1>1, <1>4, <1>7, <1>6 DEF EndMet, SizeInv
<1>13. EofInv'
  <2>1. EofInv /\ (pc = "input" => ~sawEnd)
    BY <1>1 DEF EndMet, EofInv, Inv
  <2>2. sawEnd' = TRUE /\ endReads' = IF pc = "input" THEN endReads + 1 ELSE endReads
    BY DEF LastMatch, EndSeen
  <2>3. endReads' \in 0 .. 2
    BY <2>1, <2>2 DEF EofInv
  <2>. QED  BY <1>1, <1>2, <1>7, <1>6, <2>2, <2>3 DEF EofInv
<1>14. FindInv'
  <2>1. CASE s \in {8, 10} /\ Digits(yy_bp, yy_bp + M)
    <3>1. Found' = <<s, M>>
      BY <1>8, <2>1, AcceptTable DEF Found, Accepts
    <3>2. \A i \in 0 + 1 .. M : ch_buf'[i] = "1"
      <4>1. \A i \in 1 .. M : ch_buf[yy_bp + i] = "1"
        BY <1>4, <2>1 DEF Digits
      <4>2. \A i \in 1 .. M : ch_buf'[i] = ch_buf[yy_bp + i]
        BY <1>7
      <4>. QED  BY <1>4, <4>1, <4>2
    <3>3. ~(Unread' + M < Len(text'))
      BY <1>1, <1>4, <1>7, <1>6 DEF Unread, EndMet, TypeInv
    <3>. QED  BY <1>2, <1>4, <1>7, <1>6, <2>1, <3>1, <3>2, <3>3 DEF FindInv, FoundInteger, Digits
  <2>2. CASE s = 4 /\ M = 1 /\ ch_buf[yy_bp + 1] = NUL
    <3>1. Found' = <<4, 1>>
      BY <1>8, <2>2, AcceptTable DEF Found, Accepts
    <3>2. yy_ec(ch_buf'[yy_bp' + 1]) = 0
      <4>1. ch_buf'[1] = ch_buf[yy_bp + 1] /\ yy_bp' = 0
        <5>1. \A i \in 1 .. M : ch_buf'[i] = ch_buf[yy_bp + i]
          BY <1>7
        <5>2. 1 \in 1 .. M
          BY <2>2
        <5>. QED  BY <1>7, <5>1, <5>2
      <4>. QED  BY <2>2, <4>1, Classes
    <3>. QED  BY <1>7, <1>6, <2>2, <3>1, <3>2 DEF FindInv, FoundSingle
  <2>. QED  BY <1>9, <2>1, <2>2
<1>. QED  BY <1>2, <1>10, <1>11, <1>12, <1>13, <1>14 DEF Inv

\* yyrestart() empties the buffer.
LEMMA EndOfFileInv == Inv /\ EndOfFile => Inv'
<1>. SUFFICES ASSUME Inv, EndOfFile PROVE Inv'
  OBVIOUS
<1>1. EndMet
  BY NoMoreMeans DEF EndOfFile
<1>. USE DEF EndOfFile, yyrestart, yy_flush_buffer, yy_load_buffer_state, matchvars
<1>2. TypeInv'
  <2>1. ch_buf' \in Seq(Chars) /\ yy_hold_char' \in Chars
    BY DEF Chars
  <2>. QED  BY <1>1, <2>1 DEF EndMet, TypeInv, Places, Statuses
<1>3. Window' /\ SizeInv'
  BY <1>1 DEF EndMet, TypeInv, Window, SizeInv, Held, Between
<1>4. EofInv'
  BY DEF EofInv
<1>. QED  BY <1>2, <1>3, <1>4 DEF Inv

\* A failure changes nothing but the label.
LEMMA FatalInv == Inv /\ Fatal => Inv'
<1>. SUFFICES ASSUME Inv, Fatal PROVE Inv'
  OBVIOUS
<1>. USE DEF Fatal, inputvars, bufvars, posvars, matchvars, outvars
<1>1. TypeInv' /\ EofInv'
  BY DEF Inv, TypeInv, EofInv, Places
<1>2. CASE pc = "input"
  BY <1>1, <1>2 DEF Inv, NoBuffer, Window, Held, Between, SizeInv
<1>3. CASE pc = "idle" /\ yy_buffer_status = "none"
  BY <1>1, <1>3 DEF Inv, NoBuffer
<1>. QED  BY <1>2, <1>3

\* Nor does a stuttering step.
LEMMA StutterInv == Inv /\ UNCHANGED vars => Inv'
<1>. SUFFICES ASSUME Inv, UNCHANGED vars PROVE Inv'
  OBVIOUS
<1>. USE DEF vars, inputvars, bufvars, posvars, matchvars, outvars
<1>1. TypeInv' /\ EofInv' /\ (NoBuffer => NoBuffer') /\ (Window => Window') /\ (SizeInv => SizeInv')
  BY DEF Inv, TypeInv, EofInv, NoBuffer, Window, SizeInv, Held, Between
<1>2. Found' = Found /\ MatchedText' = MatchedText
  BY DEF Found, MatchedText
<1>3. pc = "match" => MatchInv'
  BY DEF Inv, MatchInv, Prefix, Digits
<1>4. pc = "find" => FindInv'
  BY <1>2 DEF Inv, FindInv, FoundEnd, FoundInteger, FoundSingle, Prefix, Digits, Unread
<1>5. pc = "input" => InputInv'
  BY <1>2 DEF Inv, InputInv, FoundEnd, Prefix, Digits
<1>. QED  BY <1>1, <1>3, <1>4, <1>5 DEF Inv

-----------------------------------------------------------------------------
(* 5. The theorems. *)

\* The invariant holds of yylex() in every state.
THEOREM Invariance == Spec => []Inv
<1>1. Inv /\ [Next]_vars => Inv'
  BY FirstCallInv, CallInv, BeginInv, MatchKeeps, ReturnTokenInv, DropInv, RealNulInv, RefillInv,
     ReadMoreInv, LastMatchInv, EndOfFileInv, FatalInv, StutterInv DEF Next, Step
<1>. QED  BY <1>1, InitInv, PTL DEF Spec

\* No character is written behind the array, however often it is moved, filled and
\* enlarged, and the automaton stops at the second end-of-buffer character at the latest.
THEOREM BufferNeverOverflows == Spec => []BufferFits
<1>1. Inv => BufferFits
  <2>. SUFFICES ASSUME Inv PROVE BufferFits
    OBVIOUS
  <2>1. Len(ch_buf) <= yy_buf_size + 2
    BY DEF Inv, TypeInv, NoBuffer, Window, SizeInv
  <2>2. pc = "match" => yy_cp <= yy_n_chars + 1
    BY DEF Inv, TypeInv, MatchInv, Prefix
  <2>3. pc = "find" => Found[2] <= yy_n_chars + 1
    BY DEF Inv, TypeInv, FindInv, FoundEnd, FoundInteger, FoundSingle, Prefix
  <2>. QED  BY <2>1, <2>2, <2>3 DEF BufferFits
<1>. QED  BY <1>1, Invariance, PTL

\* yylex() reads only for what may continue a number, or behind a NUL.
THEOREM ReadsPromptly == Spec => []PromptRead
<1>1. Inv => PromptRead
  <2>. SUFFICES ASSUME Inv, pc = "input"
                PROVE  \/ \A i \in 1 .. MatchedText : ch_buf[yy_bp + i] = "1"
                       \/ MatchedText = 1 /\ ch_buf[yy_bp + 1] = NUL
    BY DEF PromptRead
  <2>1. TypeInv /\ FoundEnd
    BY DEF Inv, InputInv
  <2>2. /\ MatchedText \in Nat /\ yy_bp \in Nat /\ yy_bp + MatchedText = Found[2] - 1
        /\ \/ Digits(yy_bp, Found[2] - 1)
           \/ Found[2] - 1 = yy_bp + 1 /\ ch_buf[Found[2] - 1] = NUL
    BY <2>1 DEF TypeInv, FoundEnd, Prefix, MatchedText
  <2>3. CASE Digits(yy_bp, Found[2] - 1)
    BY <2>2, <2>3 DEF Digits
  <2>4. CASE Found[2] - 1 = yy_bp + 1 /\ ch_buf[Found[2] - 1] = NUL
    BY <2>2, <2>4
  <2>. QED  BY <2>2, <2>3, <2>4
<1>. QED  BY <1>1, Invariance, PTL

\* Once a read has found nothing but the end of the input, no other is tried before 0 is
\* returned, and at most one once a read met the end behind characters.
THEOREM EndReadOnce == Spec => []EofReadOnce
<1>1. Inv => EofReadOnce
  BY DEF Inv, EofInv, EofReadOnce
<1>. QED  BY <1>1, Invariance, PTL

\* The characters dealt with: what the refinement takes for pos.
Pos == Unread + (IF pc \in {"idle", "begin"} THEN yy_c_buf_p ELSE yy_bp)

\* The characters between the place of the scanner and the end of what was found are
\* those of the text.
LEMMA TokenTaken ==
    ASSUME Inv, pc = "find", yy_act # YY_END_OF_BUFFER,
           DoBeforeAction, pc' \in {"idle", "begin"}, UNCHANGED inputvars
    PROVE  /\ Pos \in Nat /\ Found[2] - yy_bp \in 1 .. Len(text) - Pos /\ yy_bp \in Nat
           /\ Len(text) \in Nat
           /\ Pos = Unread + yy_bp /\ Unread \in Int
           /\ Pos' = Pos + (Found[2] - yy_bp)
           /\ yytext = SubSeq(text, Pos + 1, Pos + (Found[2] - yy_bp))
           /\ yytext[1] = text[Pos + 1]
           /\ \A i \in 1 .. Found[2] - yy_bp : text[Pos + i] = ch_buf[yy_bp + i]
           /\ FoundInteger \/ FoundSingle
<1>. DEFINE f == Found[2]
            l == f - yy_bp
<1>1. /\ yy_buffer_status # "none" /\ TypeInv /\ Window
      /\ FoundInteger \/ FoundSingle
  BY FoundAct
<1>2. /\ text \in Seq(Chars) /\ Len(text) \in Nat /\ ch_buf \in Seq(Chars)
      /\ fed \in Nat /\ fed <= Len(text) /\ yy_n_chars \in Nat /\ yy_bp \in Nat
      /\ yy_n_chars <= fed /\ Len(ch_buf) = yy_n_chars + 2
  BY <1>1, TextIsSeq DEF TypeInv, Window
<1>3. f \in Nat /\ yy_bp < f /\ f <= yy_n_chars
  BY <1>1, <1>2 DEF FoundInteger, FoundSingle
<1>4. \A i \in 1 .. yy_n_chars : ch_buf[i] = text[fed - yy_n_chars + i]
  BY <1>1 DEF Window, Held, Between
<1>5. yy_c_buf_p' = f /\ yy_n_chars' = yy_n_chars /\ fed' = fed
  BY DEF DoBeforeAction, inputvars
<1>6. Pos = fed - yy_n_chars + yy_bp /\ Pos' = fed - yy_n_chars + f
  BY <1>5 DEF Pos, Unread
<1>. HIDE DEF f
<1>7. /\ Pos \in Nat /\ l \in 1 .. Len(text) - Pos /\ Pos' = Pos + l /\ Pos + l <= Len(text)
      /\ yy_bp + l = f /\ l \in Nat /\ l >= 1
  BY <1>2, <1>3, <1>6
<1>8. ASSUME NEW i \in 1 .. l PROVE text[Pos + i] = ch_buf[yy_bp + i]
  <2>1. yy_bp + i \in 1 .. yy_n_chars /\ fed - yy_n_chars + (yy_bp + i) = Pos + i
    BY <1>2, <1>3, <1>6
  <2>. QED  BY <1>4, <2>1
<1>9. yytext = SubSeq(text, Pos + 1, Pos + l) /\ yytext[1] = text[Pos + 1]
  <2>. DEFINE u == SubSeq(ch_buf, yy_bp + 1, yy_bp + l)
              v == SubSeq(text, Pos + 1, Pos + l)
  <2>1. u \in Seq(Chars) /\ Len(u) = l /\ \A h \in 1 .. l : u[h] = ch_buf[yy_bp + h]
    <3>1. yy_bp + l <= Len(ch_buf)
      BY <1>2, <1>3, <1>7
    <3>. QED  BY <1>2, <1>7, <3>1, Part
  <2>2. v \in Seq(Chars) /\ Len(v) = l /\ \A h \in 1 .. l : v[h] = text[Pos + h]
    <3>. HIDE DEF l
    <3>. QED  BY <1>2, <1>7, Part
  <2>3. u = yytext
    BY <1>7 DEF yytext, f
  <2>. HIDE DEF u, v, l
  <2>4. \A h \in 1 .. Len(u) : u[h] = v[h]
    BY <1>8, <2>1, <2>2
  <2>5. u = v
    BY <2>1, <2>2, <2>4, SeqEqual
  <2>6. 1 \in 1 .. l
    BY <1>7
  <2>. QED  BY <2>2, <2>3, <2>5, <2>6 DEF v
<1>. QED  BY <1>1, <1>2, <1>6, <1>7, <1>8, <1>9 DEF f, Unread

\* A token returned is the next one of the text.
LEMMA ReturnTokenStreams == Inv /\ ReturnToken => [TS!Next]_(TS!vars)
<1>. SUFFICES ASSUME Inv, ReturnToken PROVE TS!Next
  OBVIOUS
<1>. DEFINE l == Found[2] - yy_bp
            kind == CASE yy_act = 1 -> "VARIABLE"
                      [] yy_act = 2 -> "INTEGER"
                      [] OTHER -> yytext[1]
<1>1. /\ pc = "find" /\ pc' = "idle" /\ yy_act \in 1 .. 3
      /\ UNCHANGED <<text, reported>>
      /\ tok' = [kind |-> kind, chars |-> yytext]
  BY DEF ReturnToken, Goto, inputvars
<1>2. /\ Pos \in Nat /\ l \in 1 .. Len(text) - Pos /\ yy_bp \in Nat /\ Len(text) \in Nat
      /\ Pos = Unread + yy_bp /\ Unread \in Int /\ Pos' = Pos + l
      /\ yytext = SubSeq(text, Pos + 1, Pos + l) /\ yytext[1] = text[Pos + 1]
      /\ \A i \in 1 .. l : text[Pos + i] = ch_buf[yy_bp + i]
      /\ FoundInteger \/ FoundSingle
  <2>1. /\ yy_act # YY_END_OF_BUFFER /\ DoBeforeAction /\ pc' \in {"idle", "begin"}
        /\ UNCHANGED inputvars
    BY <1>1 DEF ReturnToken, YY_END_OF_BUFFER
  <2>. QED  BY <1>1, <2>1, TokenTaken
<1>3. /\ yy_act = 1 => kind = "VARIABLE"
      /\ yy_act = 2 => kind = "INTEGER"
      /\ yy_act = 3 => kind = yytext[1]
  <2>1. yy_act = 2 => yy_act # 1
    OBVIOUS
  <2>2. yy_act = 3 => yy_act # 1 /\ yy_act # 2
    OBVIOUS
  <2>. QED  BY <2>1, <2>2, Zenon
<1>. HIDE DEF kind, l
<1>4. (pc = "fatal") = FALSE /\ (pc' = "fatal") = FALSE
  BY <1>1
<1>5. CASE FoundInteger
  <2>1. yy_act = 2
    BY <1>5, AcceptTable DEF FoundInteger, yy_act
  <2>2. \A i \in 1 .. l : text[Pos + i] = "1"
    <3>1. \A i \in 1 .. l : ch_buf[yy_bp + i] = "1"
      BY <1>2, <1>5 DEF FoundInteger, Digits, l
    <3>. QED  BY <1>2, <3>1
  <2>3. Pos + l < Len(text) => text[Pos + l + 1] # "1"
    <3>1. Pos + l = Unread + Found[2]
      BY <1>2, <1>5 DEF FoundInteger, l
    <3>. QED  BY <1>5, <3>1 DEF FoundInteger
  <2>4. tok' = [kind |-> "INTEGER", chars |-> SubSeq(text, Pos + 1, Pos + l)]
    BY <1>1, <1>2, <1>3, <2>1
  <2>5. TS!Integer
    BY <1>1, <1>2, <1>4, <2>2, <2>3, <2>4 DEF TS!Integer, TS!Take, TS!Digit, Pos
  <2>. QED  BY <1>1, <2>5 DEF TS!Next, TS!Scan
<1>6. CASE FoundSingle
  <2>1. l = 1 /\ Pos < Len(text) /\ text[Pos + 1] = ch_buf[yy_bp + 1]
    <3>1. l = 1
      BY <1>2, <1>6 DEF FoundSingle, l
    <3>. QED  BY <1>2, <3>1
  <2>2. tok' = [kind |-> kind, chars |-> SubSeq(text, Pos + 1, Pos + 1)] /\ Pos' = Pos + 1
    BY <1>1, <1>2, <2>1
  <2>3. \/ yy_act = 1 /\ text[Pos + 1] = "a"
        \/ yy_act = 3 /\ text[Pos + 1] \in {"nl", "+"}
    <3>. DEFINE c == yy_ec(ch_buf[yy_bp + 1])
    <3>1. /\ c \in 0 .. 6 /\ (c = 3 <=> ch_buf[yy_bp + 1] = "nl")
          /\ (c = 4 <=> ch_buf[yy_bp + 1] = "+") /\ (c = 6 <=> ch_buf[yy_bp + 1] = "a")
      BY Classes
    <3>2. c # 5 /\ Found[1] = IF c = 0 THEN 4 ELSE c + 3
      BY <1>6 DEF FoundSingle
    <3>. HIDE DEF c
    <3>3. /\ c = 3 \/ c = 4 => yy_act = 3
          /\ c = 6 => yy_act = 1
          /\ c \notin {3, 4, 6} => yy_act \notin 1 .. 3
      BY <3>1, <3>2, AcceptTable DEF yy_act
    <3>. QED  BY <1>1, <2>1, <3>1, <3>3
  <2>4. CASE yy_act = 1 /\ text[Pos + 1] = "a"
    <3>1. TS!Variable
      BY <1>1, <1>3, <1>4, <2>1, <2>2, <2>4 DEF TS!Variable, TS!Take, TS!Char, TS!Letter, Pos
    <3>. QED  BY <1>1, <3>1 DEF TS!Next, TS!Scan
  <2>5. CASE yy_act = 3 /\ text[Pos + 1] \in {"nl", "+"}
    <3>1. kind = text[Pos + 1]
      BY <1>2, <1>3, <2>5
    <3>2. TS!Single
      BY <1>1, <1>4, <2>1, <2>2, <2>5, <3>1 DEF TS!Single, TS!Take, TS!Char, TS!Operator, Pos
    <3>. QED  BY <1>1, <3>2 DEF TS!Next, TS!Scan
  <2>. QED  BY <2>3, <2>4, <2>5
<1>. QED  BY <1>2, <1>5, <1>6

\* So are the blank or the invalid character dropped.
LEMMA DropStreams == Inv /\ Drop => [TS!Next]_(TS!vars)
<1>. SUFFICES ASSUME Inv, Drop PROVE TS!Next
  OBVIOUS
<1>1. /\ pc = "find" /\ pc' = "begin" /\ yy_act \in 4 .. 5
      /\ UNCHANGED <<text, tok>>
      /\ reported' = IF yy_act = 5 THEN reported + 1 ELSE reported
  BY DEF Drop, Goto, inputvars
<1>. DEFINE l == Found[2] - yy_bp
<1>2. /\ Pos \in Nat /\ l \in 1 .. Len(text) - Pos /\ yy_bp \in Nat
      /\ Len(text) \in Nat /\ Pos' = Pos + l
      /\ \A i \in 1 .. l : text[Pos + i] = ch_buf[yy_bp + i]
      /\ FoundInteger \/ FoundSingle
  <2>1. /\ yy_act # YY_END_OF_BUFFER /\ DoBeforeAction /\ pc' \in {"idle", "begin"}
        /\ UNCHANGED inputvars
    BY <1>1 DEF Drop, YY_END_OF_BUFFER
  <2>. QED  BY <1>1, <2>1, TokenTaken
<1>3. FoundSingle
  <2>1. FoundInteger => yy_act = 2
    BY AcceptTable DEF FoundInteger, yy_act
  <2>. QED  BY <1>1, <1>2, <2>1
<1>. HIDE DEF l
<1>4. Pos < Len(text) /\ Pos' = Pos + 1 /\ text[Pos + 1] = ch_buf[yy_bp + 1]
  <2>1. l = 1
    BY <1>2, <1>3 DEF FoundSingle, l
  <2>. QED  BY <1>2, <2>1
<1>. DEFINE c == yy_ec(ch_buf[yy_bp + 1])
<1>5. /\ c \in 0 .. 6 /\ (c = 2 <=> ch_buf[yy_bp + 1] = "sp")
      /\ (c = 3 <=> ch_buf[yy_bp + 1] = "nl") /\ (c = 4 <=> ch_buf[yy_bp + 1] = "+")
      /\ (c = 5 <=> ch_buf[yy_bp + 1] = "1") /\ (c = 6 <=> ch_buf[yy_bp + 1] = "a")
  BY Classes
<1>6. c # 5 /\ Found[1] = IF c = 0 THEN 4 ELSE c + 3
  BY <1>3 DEF FoundSingle
<1>. HIDE DEF c
<1>7. /\ c = 2 => yy_act = 4
      /\ c \in {0, 1} => yy_act = 5
      /\ c \in {3, 4, 6} => yy_act \notin 4 .. 5
  BY <1>5, <1>6, AcceptTable DEF yy_act
<1>8. (pc = "fatal") = FALSE /\ (pc' = "fatal") = FALSE
  BY <1>1
<1>9. CASE c = 2
  <2>1. TS!Skip
    BY <1>1, <1>4, <1>5, <1>7, <1>8, <1>9 DEF TS!Skip, TS!Char, TS!Blank, Pos
  <2>. QED  BY <1>1, <2>1 DEF TS!Next, TS!Scan
<1>10. CASE c \in {0, 1}
  <2>1. text[Pos + 1] \notin {"1"} \cup {"a"} \cup {"nl", "+"} \cup {"sp"}
    BY <1>4, <1>5, <1>10
  <2>2. TS!Invalid
    BY <1>1, <1>4, <1>7, <1>8, <1>10, <2>1
       DEF TS!Invalid, TS!Char, TS!Blank, TS!Digit, TS!Letter, TS!Operator, Pos
  <2>. QED  BY <1>1, <2>2 DEF TS!Next, TS!Scan
<1>. QED  BY <1>1, <1>5, <1>6, <1>7, <1>9, <1>10

\* The end is reported when every character has been dealt with.
LEMMA EndOfFileStreams == Inv /\ EndOfFile => [TS!Next]_(TS!vars)
<1>. SUFFICES ASSUME Inv, EndOfFile PROVE TS!Next
  OBVIOUS
<1>1. EndMet /\ fed = Len(text)
  BY NoMoreMeans DEF EndOfFile
<1>2. /\ MatchedText = 0 /\ pc' = "idle" /\ yy_c_buf_p' = 0 /\ yy_n_chars' = 0
      /\ UNCHANGED <<text, fed, reported>> /\ tok' = EndToken
  BY DEF EndOfFile, yyrestart, yy_flush_buffer, yy_load_buffer_state
<1>3. pc \in {"input", "find"}
  BY DEF EndOfFile, NoMore, AtEnd
<1>4. yy_bp = yy_n_chars /\ yy_n_chars \in Nat /\ fed \in Nat
  BY <1>1, <1>2, RoomLeft DEF EndMet, TypeInv
<1>5. Pos = Len(text) /\ Pos' = Pos
  BY <1>1, <1>2, <1>3, <1>4 DEF Pos, Unread
<1>6. (pc = "fatal") = FALSE /\ (pc' = "fatal") = FALSE
  BY <1>2, <1>3
<1>7. TS!End
  BY <1>2, <1>5, <1>6 DEF TS!End, TS!EndToken, EndToken, Pos
<1>. QED  BY <1>3, <1>7 DEF TS!Next, TS!Scan

\* A failure ends the stream.
LEMMA FatalStreams == Inv /\ Fatal => [TS!Next]_(TS!vars)
<1>. SUFFICES ASSUME Inv, Fatal PROVE TS!Next
  OBVIOUS
<1>1. pc' = "fatal" /\ UNCHANGED <<text, tok, reported>>
      /\ UNCHANGED <<fed, yy_n_chars, yy_c_buf_p, yy_bp>>
  BY DEF Fatal, inputvars, bufvars, posvars, outvars
<1>2. Pos' = Pos
  <2>1. CASE pc = "input"
    BY <1>1, <2>1 DEF Pos, Unread
  <2>2. CASE pc = "idle" /\ yy_buffer_status = "none"
    BY <1>1, <2>2 DEF Pos, Unread, Inv, NoBuffer
  <2>. QED  BY <2>1, <2>2 DEF Fatal
<1>3. (pc' = "fatal") = TRUE
  BY <1>1
<1>4. TS!Fail
  BY <1>1, <1>2, <1>3 DEF TS!Fail, Pos
<1>. QED  BY <1>4 DEF TS!Next

\* No other step deals with a character, refills included.
LEMMA QuietStreams ==
    Inv /\ (FirstCall \/ Call \/ Begin \/ Match \/ RealNul \/ Refill \/ ReadMore \/ LastMatch
            \/ UNCHANGED vars)
        => UNCHANGED TS!vars
<1>. SUFFICES ASSUME Inv, FirstCall \/ Call \/ Begin \/ Match \/ RealNul \/ Refill \/ ReadMore
                          \/ LastMatch \/ UNCHANGED vars
              PROVE  UNCHANGED <<text, tok, reported>> /\ Pos' = Pos
                     /\ (pc' = "fatal") = (pc = "fatal")
  BY DEF TS!vars, Pos
<1>. USE DEF inputvars, bufvars, posvars, matchvars, outvars, Pos, Unread, Goto
<1>1. CASE FirstCall
  BY <1>1 DEF FirstCall, Inv, NoBuffer, yy_create_buffer, yy_flush_buffer, yy_load_buffer_state
<1>2. CASE Call
  BY <1>2 DEF Call
<1>3. CASE Begin
  BY <1>3 DEF Begin
<1>4. CASE Match
  <2>1. pc = "match" /\ pc' \in {"match", "find"}
        /\ UNCHANGED <<inputvars, bufvars, posvars, outvars>>
    BY <1>4 DEF Match
  <2>. QED  BY <2>1
<1>5. CASE RealNul
  <2>1. pc = "find" /\ pc' \in {"match", "find"}
        /\ UNCHANGED <<inputvars, yy_n_chars, yy_bp, outvars>>
    BY <1>5 DEF RealNul, AtEnd
  <2>. QED  BY <2>1
<1>6. CASE Refill
  <2>1. pc = "find" /\ pc' = "input" /\ UNCHANGED <<inputvars, yy_n_chars, yy_bp, outvars>>
    BY <1>6 DEF Refill, AtEnd
  <2>. QED  BY <2>1
<1>7. CASE ReadMore
  <2>1. PICK k \in Reads \ {0} : Fill(k)
    BY <1>7 DEF ReadMore
  <2>2. /\ pc = "input" /\ pc' = "match" /\ UNCHANGED <<tok, reported>>
    BY <1>7 DEF ReadMore, Resume
  <2>3. EndMet /\ k \in Nat /\ k <= Remaining
    BY <2>1, <2>2, InputMet, ReadsBounded
  <2>4. fed' - yy_n_chars' = fed - yy_n_chars + yy_bp /\ yy_bp' = 0 /\ text' = text
    BY <2>1, <2>3, Filled
  <2>5. fed - yy_n_chars + yy_bp \in Int
    BY <2>3, RoomLeft DEF EndMet, TypeInv
  <2>. QED  BY <2>2, <2>4, <2>5
<1>8. CASE LastMatch
  <2>1. EndMet /\ fed = Len(text) /\ Fill(0)
    BY <1>8, NoMoreMeans DEF LastMatch
  <2>2. /\ pc \in {"input", "find"} /\ pc' = "find" /\ UNCHANGED <<tok, reported>>
    BY <1>8 DEF LastMatch, NoMore, AtEnd, Resume
  <2>3. 0 \in Nat /\ 0 <= Remaining
    BY <2>1, RoomLeft DEF Remaining
  <2>4. fed' - yy_n_chars' = fed - yy_n_chars + yy_bp /\ yy_bp' = 0 /\ text' = text
    BY <2>1, <2>3, Filled
  <2>5. fed - yy_n_chars + yy_bp \in Int
    BY <2>1, RoomLeft DEF EndMet, TypeInv
  <2>. QED  BY <2>2, <2>4, <2>5
<1>9. CASE UNCHANGED vars
  BY <1>9 DEF vars
<1>. QED  BY <1>1, <1>2, <1>3, <1>4, <1>5, <1>6, <1>7, <1>8, <1>9

\* Every step of yylex() is a step of TokenStream or changes nothing it sees: no refill,
\* no NUL in the text and no end of input splits, joins, loses or repeats a token.  This
\* is Streams without its fairness.
THEOREM StreamsTokens == Spec => TS!Init /\ [][TS!Next]_(TS!vars)
<1>1. Init => TS!Init
  BY DEF Init, TS!Init, NoToken, TS!NoToken, Unread
<1>2. Inv /\ [Next]_vars => [TS!Next]_(TS!vars)
  BY ReturnTokenStreams, DropStreams, EndOfFileStreams, FatalStreams, QuietStreams
     DEF Next, Step
<1>. QED  BY <1>1, <1>2, Invariance, PTL DEF Spec

-----------------------------------------------------------------------------
(* 6. The entries of bison's tables. *)

\* The tokens as columns of the table.
Codes == {0, 3, 4, 5, 6, 7, 8, 9, 10, 11, 12}

\* The columns that own the entries of yytable.
LEMMA CheckTable ==
    /\ Elem(yycheck, 0) = 0 /\ Elem(yycheck, 1) = 7
    /\ Elem(yycheck, 2) = 8 /\ Elem(yycheck, 3) = 3
    /\ Elem(yycheck, 4) = 4 /\ Elem(yycheck, 5) = 10
    /\ Elem(yycheck, 6) = 5 /\ Elem(yycheck, 7) = 9
    /\ Elem(yycheck, 8) = -1 /\ Elem(yycheck, 9) = 8
    /\ Elem(yycheck, 10) = -1 /\ Elem(yycheck, 11) = 11
    /\ Elem(yycheck, 12) = -1 /\ Elem(yycheck, 13) = 12
    /\ Elem(yycheck, 14) = 13 /\ Elem(yycheck, 15) = 14
    /\ Elem(yycheck, 16) = 15 /\ Elem(yycheck, 17) = 3
    /\ Elem(yycheck, 18) = 4 /\ Elem(yycheck, 19) = -1
    /\ Elem(yycheck, 20) = 5 /\ Elem(yycheck, 21) = 6
    /\ Elem(yycheck, 22) = 7 /\ Elem(yycheck, 23) = 8
    /\ Elem(yycheck, 24) = -1 /\ Elem(yycheck, 25) = 11
    /\ Elem(yycheck, 26) = -1 /\ Elem(yycheck, 27) = 12
    /\ Elem(yycheck, 28) = 5 /\ Elem(yycheck, 29) = 6
    /\ Elem(yycheck, 30) = 7 /\ Elem(yycheck, 31) = 8
BY DEF Elem, yycheck

\* The entries of yytable that a check lets through.
LEMMA EntryTable ==
    /\ Elem(yytable, 0) = 2 /\ Elem(yytable, 1) = 14
    /\ Elem(yytable, 2) = 15 /\ Elem(yytable, 3) = 3
    /\ Elem(yytable, 4) = 4 /\ Elem(yytable, 5) = 8
    /\ Elem(yytable, 6) = 10 /\ Elem(yytable, 7) = 11
    /\ Elem(yytable, 9) = 16 /\ Elem(yytable, 11) = 5
    /\ Elem(yytable, 13) = 18 /\ Elem(yytable, 14) = 19 /\ Elem(yytable, 15) = 20
    /\ Elem(yytable, 16) = 21 /\ Elem(yytable, 17) = 3 /\ Elem(yytable, 18) = 9
    /\ Elem(yytable, 20) = 12 /\ Elem(yytable, 21) = 13
    /\ Elem(yytable, 22) = 14 /\ Elem(yytable, 23) = 15
    /\ Elem(yytable, 25) = 5 /\ Elem(yytable, 27) = 17
    /\ Elem(yytable, 28) = 12 /\ Elem(yytable, 29) = 13
    /\ Elem(yytable, 30) = 14 /\ Elem(yytable, 31) = 15
BY DEF Elem, yytable

\* yytranslate tells the kinds of tokens apart.
LEMMA TranslateTable ==
    ASSUME NEW k \in Kinds
    PROVE  /\ yytranslate[k] \in Codes
           /\ yytranslate[k] = 0 <=> k = "eof"
           /\ yytranslate[k] = 10 <=> k = "="
           /\ yytranslate[k] = 11 <=> k = "("
           /\ yytranslate[k] = 12 <=> k = ")"
<1>1. /\ k = "eof" => yytranslate[k] = 0
      /\ k = "INTEGER" => yytranslate[k] = 3
      /\ k = "VARIABLE" => yytranslate[k] = 4
      /\ k = "+" => yytranslate[k] = 5
      /\ k = "-" => yytranslate[k] = 6
      /\ k = "*" => yytranslate[k] = 7
      /\ k = "/" => yytranslate[k] = 8
      /\ k = "nl" => yytranslate[k] = 9
      /\ k = "=" => yytranslate[k] = 10
      /\ k = "(" => yytranslate[k] = 11
      /\ k = ")" => yytranslate[k] = 12
  BY Zenon DEF yytranslate
<1>. QED  BY <1>1 DEF Kinds, Codes

\* The shifts of a state, by the offset that yypact gives it: the column and the state
\* that is pushed.
LEMMA ShiftsFrom ==
    ASSUME NEW c \in Codes
    PROVE  /\ Hit(c, c) => <<c, Elem(yytable, c)>> \in {<<0, 2>>, <<3, 3>>, <<4, 4>>, <<11, 5>>}
           /\ Hit(c - 5, c) => <<c, Elem(yytable, c - 5)>> = <<10, 8>>
           /\ Hit(14 + c, c) => <<c, Elem(yytable, 14 + c)>> \in {<<3, 3>>, <<4, 9>>, <<11, 5>>}
           /\ Hit(c - 2, c) => <<c, Elem(yytable, c - 2)>> = <<9, 11>>
           /\ Hit(23 + c, c) => <<c, Elem(yytable, 23 + c)>> \in {<<5, 12>>, <<6, 13>>, <<7, 14>>, <<8, 15>>}
           /\ Hit(15 + c, c) => <<c, Elem(yytable, 15 + c)>> \in {<<5, 12>>, <<6, 13>>, <<7, 14>>, <<8, 15>>, <<12, 17>>}
           /\ Hit(c - 6, c) => <<c, Elem(yytable, c - 6)>> \in {<<7, 14>>, <<8, 15>>}
BY CheckTable, EntryTable DEF Codes, Hit, YYLAST

-----------------------------------------------------------------------------
(* 7. Which states may follow each other on the stack, and how high it gets. *)

\* The states of the automaton.
States == 0 .. 21
\* State a may be right below state b on the stack.
Under(a, b) ==
    \/ a = 0 /\ b = 1
    \/ a = 1 /\ b \in {3, 4, 5, 6, 7}
    \/ a = 4 /\ b = 8
    \/ a = 5 /\ b = 10
    \/ a = 6 /\ b = 11
    \/ a = 8 /\ b = 16
    \/ a = 10 /\ b = 17
    \/ a \in {5, 8, 12, 13, 14, 15} /\ b \in {3, 5, 9}
    \/ a \in {7, 10, 16} /\ b \in {12, 13, 14, 15}
    \/ a \in {18, 19} /\ b \in {14, 15}
    \/ a \in {12, 13, 14, 15} /\ b = a + 6

\* A stack of states begins with 0, and each state may follow the one below.
IsStack(s) ==
    /\ s \in Seq(States) /\ Len(s) > 0 /\ s[1] = 0
    /\ \A i \in 2 .. Len(s) : Under(s[i - 1], s[i])

\* How high a state can be above the last parenthesis that is open below it, or above
\* the bottom.
Rank(s) == IF s = 0 THEN 1 ELSE IF s \in {1, 5} THEN 2 ELSE IF s \in {4, 6, 7, 10} THEN 3
           ELSE IF s \in {11, 12, 13, 17} THEN 4 ELSE IF s \in {18, 19} THEN 5
           ELSE IF s \in {14, 15} THEN 6 ELSE 7

\* The open parentheses among the first i states.
Opens(s, i) == Cardinality({j \in 1 .. i : s[j] = 5})

\* Counting one place further.
LEMMA CountNext ==
    ASSUME NEW i \in Nat, NEW A \in SUBSET (1 .. i + 1)
    PROVE  /\ Cardinality(A) \in Nat /\ Cardinality(A \cap (1 .. i)) \in Nat
           /\ Cardinality(A) = Cardinality(A \cap (1 .. i)) + IF i + 1 \in A THEN 1 ELSE 0
<1>. DEFINE B == A \cap (1 .. i)
<1>1. IsFiniteSet(1 .. i + 1)
  BY FS_Interval
<1>2. IsFiniteSet(A) /\ IsFiniteSet(B)
  <2>1. B \in SUBSET (1 .. i + 1)
    OBVIOUS
  <2>. QED  BY <1>1, <2>1, FS_Subset
<1>3. Cardinality(A) \in Nat /\ Cardinality(B) \in Nat
  BY <1>2, FS_CardinalityType
<1>0. /\ \A x \in A : x \in 1 .. i \/ x = i + 1
      /\ i + 1 \notin 1 .. i
  OBVIOUS
<1>4. CASE i + 1 \in A
  <2>1. A = B \cup {i + 1} /\ i + 1 \notin B
    BY <1>0, <1>4, Zenon
  <2>. HIDE DEF B
  <2>2. Cardinality(B \cup {i + 1}) = Cardinality(B) + 1
    BY <1>2, <2>1, FS_AddElement
  <2>. QED  BY <1>3, <1>4, <2>1, <2>2 DEF B
<1>5. CASE i + 1 \notin A
  <2>1. A = B
    BY <1>0, <1>5, Zenon
  <2>. QED  BY <1>3, <1>5, <2>1
<1>. QED  BY <1>4, <1>5

\* One state further on the stack.
LEMMA OpensNext ==
    ASSUME NEW s, NEW i \in Nat
    PROVE  /\ Opens(s, i) \in Nat /\ Opens(s, i + 1) \in Nat
           /\ Opens(s, i + 1) = Opens(s, i) + IF s[i + 1] = 5 THEN 1 ELSE 0
<1>. DEFINE A == {j \in 1 .. i + 1 : s[j] = 5}
<1>1. A \in SUBSET (1 .. i + 1) /\ A \cap (1 .. i) = {j \in 1 .. i : s[j] = 5}
  OBVIOUS
<1>2. i + 1 \in A <=> s[i + 1] = 5
  OBVIOUS
<1>3. Opens(s, i + 1) = Cardinality(A) /\ Opens(s, i) = Cardinality(A \cap (1 .. i))
  BY <1>1 DEF Opens
<1>. HIDE DEF A
<1>. QED  BY <1>1, <1>2, <1>3, CountNext

\* Opens() depends on the first i states only.
LEMMA OpensSame ==
    ASSUME NEW s, NEW t, NEW i \in Nat, \A j \in 1 .. i : s[j] = t[j]
    PROVE  Opens(s, i) = Opens(t, i)
<1>1. {j \in 1 .. i : s[j] = 5} = {j \in 1 .. i : t[j] = 5}
  OBVIOUS
<1>. QED  BY <1>1 DEF Opens

\* Nothing is open on an empty stack.
LEMMA OpensNone == ASSUME NEW s PROVE Opens(s, 0) = 0
<1>1. {j \in 1 .. 0 : s[j] = 5} = {}
  OBVIOUS
<1>. QED  BY <1>1, FS_EmptySet DEF Opens

\* One token further in the input.
LEMMA KindCount ==
    ASSUME NEW s, NEW i \in Nat, NEW k
    PROVE  /\ Count(s, i, k) \in Nat /\ Count(s, i + 1, k) \in Nat
           /\ Count(s, i + 1, k) = Count(s, i, k) + IF s[i + 1].kind = k THEN 1 ELSE 0
<1>. DEFINE A == {j \in 1 .. i + 1 : s[j].kind = k}
<1>1. A \in SUBSET (1 .. i + 1) /\ A \cap (1 .. i) = {j \in 1 .. i : s[j].kind = k}
  OBVIOUS
<1>2. i + 1 \in A <=> s[i + 1].kind = k
  OBVIOUS
<1>3. Count(s, i + 1, k) = Cardinality(A) /\ Count(s, i, k) = Cardinality(A \cap (1 .. i))
  BY <1>1 DEF Count, Kind
<1>. HIDE DEF A
<1>. QED  BY <1>1, <1>2, <1>3, CountNext

\* The nesting one token further.
LEMMA DepthNext ==
    ASSUME NEW s, NEW i \in Nat
    PROVE  /\ Depth(s, i) \in Int
           /\ Depth(s, i + 1) = Depth(s, i) + IF s[i + 1].kind = "(" THEN 1
                                              ELSE IF s[i + 1].kind = ")" THEN -1 ELSE 0
BY KindCount DEF Depth

\* Depth() depends on the first i tokens only.
LEMMA DepthSame ==
    ASSUME NEW s, NEW t, NEW i \in Nat, \A j \in 1 .. i : s[j] = t[j]
    PROVE  Depth(s, i) = Depth(t, i)
<1>1. ASSUME NEW k PROVE Count(s, i, k) = Count(t, i, k)
  <2>1. {j \in 1 .. i : s[j].kind = k} = {j \in 1 .. i : t[j].kind = k}
    OBVIOUS
  <2>. QED  BY <2>1 DEF Count, Kind
<1>. QED  BY <1>1 DEF Depth

\* The input begins outside parentheses.
LEMMA DepthNone == ASSUME NEW s PROVE Depth(s, 0) = 0
<1>1. ASSUME NEW k PROVE Count(s, 0, k) = 0
  <2>1. {j \in 1 .. 0 : s[j].kind = k} = {}
    OBVIOUS
  <2>. QED  BY <2>1, FS_EmptySet DEF Count, Kind
<1>. QED  BY <1>1 DEF Depth

\* A state is one higher than the one below, and an open parenthesis is worth five.
LEMMA RankStep ==
    ASSUME NEW a \in States, NEW b \in States, Under(a, b), a \notin {8, 16}, b \notin {8, 16}
    PROVE  Rank(a) + 1 <= Rank(b) + IF b = 5 THEN 5 ELSE 0
<1>1. CASE a \in {0, 1, 5, 6, 10}
  BY <1>1 DEF Under, Rank
<1>2. CASE a \in {4, 7, 12, 13, 14, 15, 18, 19}
  BY <1>2 DEF Under, Rank
<1>. QED  BY <1>1, <1>2 DEF Under

\* A stack without an assignment is no higher than its open parentheses allow.
LEMMA StackHeight ==
    ASSUME NEW s, IsStack(s), \A i \in 1 .. Len(s) : s[i] \notin {8, 16}
    PROVE  Len(s) <= Rank(s[Len(s)]) + 5 * Opens(s, Len(s))
<1>. DEFINE Good(i) == i <= Rank(s[i]) + 5 * Opens(s, i)
            T == {i \in 1 .. Len(s) : ~Good(i)}
<1>0. Len(s) \in Nat \ {0}
  BY DEF IsStack
<1>1. SUFFICES ASSUME T # {} PROVE FALSE
  BY <1>0
<1>2. T \in SUBSET Nat
  BY <1>0
<1>3. PICK m \in T : \A j \in T : m <= j
  <2>. HIDE DEF T
  <2>. QED  BY <1>1, <1>2, LeastOf
<1>4. m \in 1 .. Len(s) /\ ~Good(m)
  BY <1>3
<1>5. m # 1
  <2>1. Good(1)
    BY OpensNext, OpensNone DEF IsStack, Rank
  <2>. QED  BY <1>4, <2>1
<1>6. m - 1 \in 1 .. Len(s) /\ m \in 2 .. Len(s) /\ m - 1 \in Nat /\ ~(m <= m - 1)
  BY <1>0, <1>4, <1>5
<1>7. Good(m - 1)
  BY <1>3, <1>6
<1>8. /\ Opens(s, m - 1) \in Nat
      /\ Opens(s, m) = Opens(s, m - 1) + IF s[m] = 5 THEN 1 ELSE 0
  <2>1. (m - 1) + 1 = m
    BY <1>6
  <2>. QED  BY <1>6, <2>1, OpensNext
<1>9. Under(s[m - 1], s[m]) /\ s[m - 1] \notin {8, 16} /\ s[m] \notin {8, 16}
      /\ s[m - 1] \in States /\ s[m] \in States
  BY <1>6 DEF IsStack
<1>10. Rank(s[m - 1]) + 1 <= Rank(s[m]) + IF s[m] = 5 THEN 5 ELSE 0
  BY <1>9, RankStep
<1>11. Rank(s[m - 1]) \in Nat /\ Rank(s[m]) \in Nat
  BY DEF Rank
<1>. HIDE DEF T
<1>. QED  BY <1>4, <1>6, <1>7, <1>8, <1>10, <1>11

-----------------------------------------------------------------------------
(* 8. What a shift and a reduction do to the stack. *)

\* The offsets of the states; those with -7 need no token.
LEMMA PactTable ==
    /\ Elem(yypact, 1) = 0 /\ Elem(yypact, 4) = -5
    /\ Elem(yypact, 6) = -2 /\ Elem(yypact, 10) = 15
    /\ \A s \in {5, 8, 12, 13, 14, 15} : Elem(yypact, s) = 14
    /\ \A s \in {7, 16} : Elem(yypact, s) = 23
    /\ \A s \in {18, 19} : Elem(yypact, s) = -6
    /\ \A s \in {0, 2, 3, 9, 11, 17, 20, 21} : Elem(yypact, s) = -7
BY DEF Elem, yypact

\* The rule by which each state reduces, 0 for an error.
LEMMA DefactTable ==
    /\ Elem(yydefact, 0) = 3 /\ Elem(yydefact, 3) = 6
    /\ Elem(yydefact, 4) = 7 /\ Elem(yydefact, 7) = 4
    /\ Elem(yydefact, 9) = 7 /\ Elem(yydefact, 11) = 2 /\ Elem(yydefact, 16) = 5
    /\ Elem(yydefact, 17) = 12 /\ Elem(yydefact, 18) = 8 /\ Elem(yydefact, 19) = 9
    /\ Elem(yydefact, 20) = 10 /\ Elem(yydefact, 21) = 11
    /\ \A s \in {1, 5, 6, 8, 10, 12, 13, 14, 15} : Elem(yydefact, s) = 0
BY DEF Elem, yydefact

\* The length of the rules and the nonterminals on their left.
LEMMA RuleTable ==
    /\ \A r \in {2, 5} \cup 8 .. 12 : Elem(yyr2, r) = 3
    /\ \A r \in {4, 6, 7} : Elem(yyr2, r) = 1
    /\ Elem(yyr2, 3) = 0
    /\ \A r \in {2, 3} : Elem(yyr1, r) = 14
    /\ \A r \in {4, 5} : Elem(yyr1, r) = 15
    /\ \A r \in 6 .. 12 : Elem(yyr1, r) = 16
BY DEF Elem, yyr1, yyr2

\* Where a reduction leads from the states that it can uncover.
LEMMA GotoTable ==
    /\ GotoState(0, 14) = 1
    /\ GotoState(1, 15) = 6
    /\ GotoState(1, 16) = 7 /\ GotoState(5, 16) = 10 /\ GotoState(8, 16) = 16
    /\ \A s \in 12 .. 15 : GotoState(s, 16) = s + 6
<1>1. /\ Elem(yypgoto, 1) = -7 /\ Elem(yypgoto, 2) = -7 /\ Elem(yypgoto, 3) = 1
      /\ Elem(yydefgoto, 1) = 1 /\ Elem(yydefgoto, 2) = 6 /\ Elem(yydefgoto, 3) = 7
  BY DEF Elem, yypgoto, yydefgoto
<1>. QED  BY <1>1, CheckTable, EntryTable DEF GotoState, Hit, YYNTOKENS, YYLAST

\* What a shift pushes.
LEMMA ShiftGoes ==
    ASSUME NEW a \in States, NEW k \in Kinds, Elem(yypact, a) # YYPACT_NINF,
           NEW t, t = Elem(yytable, Elem(yypact, a) + yytranslate[k]),
           Hit(Elem(yypact, a) + yytranslate[k], yytranslate[k]), t # YYFINAL
    PROVE  /\ t \in States /\ Under(a, t) /\ a # 17 /\ t # 0
           /\ t = 5 <=> k = "("
           /\ t = 17 <=> k = ")"
           /\ t \in {8, 16} => k = "="
           /\ k # "eof"
<1>. DEFINE c == yytranslate[k]
<1>1. c \in Codes /\ (c = 0 <=> k = "eof") /\ (c = 10 <=> k = "=")
      /\ (c = 11 <=> k = "(") /\ (c = 12 <=> k = ")")
  BY TranslateTable
<1>. HIDE DEF c
<1>2. /\ Hit(Elem(yypact, a) + c, c) /\ t = Elem(yytable, Elem(yypact, a) + c)
  BY DEF c
<1>3. c \in Int
  BY <1>1 DEF Codes
<1>4. CASE a = 1
  BY <1>1, <1>2, <1>3, <1>4, PactTable, ShiftsFrom DEF Under, YYFINAL, States
<1>5. CASE a = 4
  BY <1>1, <1>2, <1>3, <1>5, PactTable, ShiftsFrom DEF Under, YYFINAL, States
<1>6. CASE a \in {5, 8, 12, 13, 14, 15}
  BY <1>1, <1>2, <1>3, <1>6, PactTable, ShiftsFrom DEF Under, YYFINAL, States
<1>7. CASE a = 6
  BY <1>1, <1>2, <1>3, <1>7, PactTable, ShiftsFrom DEF Under, YYFINAL, States
<1>8. CASE a \in {7, 16}
  BY <1>1, <1>2, <1>3, <1>8, PactTable, ShiftsFrom DEF Under, YYFINAL, States
<1>9. CASE a = 10
  BY <1>1, <1>2, <1>3, <1>9, PactTable, ShiftsFrom DEF Under, YYFINAL, States
<1>10. CASE a \in {18, 19}
  BY <1>1, <1>2, <1>3, <1>10, PactTable, ShiftsFrom DEF Under, YYFINAL, States
<1>11. a \in {1, 4, 5, 6, 7, 8, 10, 12, 13, 14, 15, 16, 18, 19}
  BY PactTable DEF States, YYPACT_NINF
<1>. QED  BY <1>4, <1>5, <1>6, <1>7, <1>8, <1>9, <1>10, <1>11

\* The operand of an expression is replaced by the expression.
LEMMA ExprGoes ==
    ASSUME NEW x \in {1, 5, 8, 12, 13, 14, 15}
    PROVE  LET g == GotoState(x, 16)
           IN g \in States /\ Under(x, g) /\ g \notin {0, 5, 8, 17} /\ (g = 16 => x = 8)
BY GotoTable DEF Under, States

\* What may be below each state.
LEMMA UnderTable ==
    ASSUME NEW a \in States, NEW b \in States, Under(a, b)
    PROVE  /\ b \notin {0, 2}
           /\ b = 1 <=> a = 0
           /\ b \in {3, 5} => a \in {1, 5, 8, 12, 13, 14, 15}
           /\ b = 9 => a \in {5, 8, 12, 13, 14, 15}
           /\ b \in {4, 6, 7} => a = 1
           /\ b = 8 => a = 4
           /\ b = 10 => a = 5
           /\ b = 11 => a = 6
           /\ b = 16 => a = 8
           /\ b = 17 => a = 10
           /\ b \in {12, 13} => a \in {7, 10, 16}
           /\ b \in {14, 15} => a \in {7, 10, 16, 18, 19}
           /\ b \in {18, 19, 20, 21} => a = b - 6
<1>1. b \in 0 .. 21 /\ a \in 0 .. 21
  BY DEF States
<1>2. CASE a \in 12 .. 15 /\ b = a + 6
  BY <1>1, <1>2
<1>3. CASE ~(a \in 12 .. 15 /\ b = a + 6)
  BY <1>1, <1>3 DEF Under
<1>. QED  BY <1>2, <1>3

\* What is known of a place of the stack.
LEMMA StackTop ==
    ASSUME NEW s, IsStack(s), NEW i \in 1 .. Len(s)
    PROVE  /\ s[i] \in States \ {2}
           /\ s[i] = 0 <=> i = 1
           /\ s[i] # 0 => i - 1 \in 1 .. Len(s) /\ s[i - 1] \in States /\ Under(s[i - 1], s[i])
<1>1. CASE i = 1
  BY <1>1 DEF IsStack, States
<1>2. CASE i # 1
  <2>1. /\ i - 1 \in 1 .. Len(s)
        /\ Under(s[i - 1], s[i]) /\ s[i] \in States /\ s[i - 1] \in States
    BY <1>2 DEF IsStack
  <2>2. s[i] # 0 /\ s[i] # 2
    BY <2>1, UnderTable
  <2>. QED  BY <1>2, <2>1, <2>2
<1>. QED  BY <1>1, <1>2

\* What a reduction pops and pushes: it never takes the bottom, and it takes a "(" only
\* together with its ")".
LEMMA ReduceGoes ==
    ASSUME NEW s, IsStack(s), Elem(yydefact, s[Len(s)]) # 0
    PROVE  LET L == Len(s)
               r == Elem(yydefact, s[L])
               n == Elem(yyr2, r)
               x == s[L - n]
               g == GotoState(x, Elem(yyr1, r))
           IN /\ n \in {0, 1, 3} /\ n < L
              /\ g \in States /\ Under(x, g) /\ g \notin {0, 5, 8, 17}
              /\ g = 16 => x = 8
              /\ s[L] # 17 => \A j \in L - n + 1 .. L : s[j] # 5
              /\ s[L] = 17 => n = 3 /\ s[L - 1] # 5 /\ s[L - 2] = 5
<1>. DEFINE L == Len(s)
            r == Elem(yydefact, s[L])
            n == Elem(yyr2, r)
            x == s[L - n]
            g == GotoState(x, Elem(yyr1, r))
<1>0. L \in Nat \ {0} /\ L \in 1 .. Len(s)
  BY DEF IsStack
<1>1. s[L] \in States \ {2}
  BY <1>0, StackTop
<1>2. s[L] \in {0, 3, 4, 7, 9, 11, 16, 17, 18, 19, 20, 21}
  BY <1>1, DefactTable DEF States
<1>3. CASE s[L] = 0
  <2>1. L = 1
    BY <1>0, <1>3, StackTop
  <2>2. r = 3 /\ n = 0 /\ Elem(yyr1, r) = 14
    BY <1>3, DefactTable, RuleTable
  <2>3. x = 0
    BY <1>3, <2>1, <2>2
  <2>4. g = 1
    BY <2>2, <2>3, GotoTable
  <2>. QED  BY <1>3, <2>1, <2>2, <2>3, <2>4 DEF Under, States
<1>4. ASSUME s[L] # 0 PROVE L - 1 \in 1 .. Len(s) /\ s[L - 1] \in States /\ Under(s[L - 1], s[L])
  BY <1>0, <1>4, StackTop
<1>5. CASE s[L] \in {3, 4, 9}
  <2>1. r \in {6, 7} /\ n = 1 /\ Elem(yyr1, r) = 16
    <3>1. r \in {6, 7}
      BY <1>5, DefactTable
    <3>. QED  BY <3>1, RuleTable
  <2>2. L - 1 \in 1 .. Len(s) /\ x = s[L - 1] /\ x \in {1, 5, 8, 12, 13, 14, 15}
    BY <1>4, <1>5, <2>1, <1>1, UnderTable
  <2>3. g \in States /\ Under(x, g) /\ g \notin {0, 5, 8, 17} /\ (g = 16 => x = 8)
    BY <2>1, <2>2, ExprGoes
  <2>4. s[L] # 5 /\ s[L] # 17 /\ n < L
    BY <1>0, <1>5, <2>1, <2>2
  <2>5. \A j \in L - n + 1 .. L : s[j] # 5
    <3>1. \A j \in L - n + 1 .. L : j = L
      BY <1>0, <2>1
    <3>. QED  BY <2>4, <3>1
  <2>6. n \in {0, 1, 3}
    BY <2>1
  <2>. QED  BY <2>3, <2>4, <2>5, <2>6, Zenon
<1>6. CASE s[L] = 7
  <2>1. r = 4 /\ n = 1 /\ Elem(yyr1, r) = 15
    BY <1>6, DefactTable, RuleTable
  <2>2. L - 1 \in 1 .. Len(s) /\ x = s[L - 1] /\ x = 1
    BY <1>4, <1>6, <2>1, <1>1, UnderTable
  <2>3. g = 6
    BY <2>1, <2>2, GotoTable
  <2>. QED  BY <1>0, <1>6, <2>1, <2>2, <2>3 DEF Under, States
<1>7. ASSUME s[L] \in {11, 16, 17, 18, 19, 20, 21}
      PROVE  /\ n = 3 /\ L - 1 \in 1 .. Len(s) /\ L - 2 \in 1 .. Len(s) /\ L - 3 \in 1 .. Len(s)
             /\ s[L - 1] \in States /\ s[L - 2] \in States /\ x \in States
             /\ Under(s[L - 1], s[L]) /\ Under(s[L - 2], s[L - 1]) /\ Under(x, s[L - 2])
  <2>1. n = 3
    <3>1. r \in {2, 5} \cup 8 .. 12
      BY <1>7, DefactTable
    <3>. QED  BY <3>1, RuleTable
  <2>2. L - 1 \in 1 .. Len(s) /\ s[L - 1] \in States /\ Under(s[L - 1], s[L])
    BY <1>4, <1>7
  <2>3. s[L - 1] \in {5, 6, 8, 10, 12, 13, 14, 15}
    BY <1>7, <2>2, <1>1, UnderTable
  <2>4. L - 2 \in 1 .. Len(s) /\ s[L - 2] \in States /\ Under(s[L - 2], s[L - 1])
    <3>1. (L - 1) - 1 = L - 2
      BY <1>0
    <3>. QED  BY <2>2, <2>3, <3>1, StackTop
  <2>5. s[L - 2] # 0
    BY <2>2, <2>3, <2>4, UnderTable
  <2>6. L - 3 \in 1 .. Len(s) /\ s[L - 3] \in States /\ Under(s[L - 3], s[L - 2])
    <3>1. (L - 2) - 1 = L - 3
      BY <1>0
    <3>. QED  BY <2>4, <2>5, <3>1, StackTop
  <2>. QED  BY <2>1, <2>2, <2>4, <2>6
<1>8. CASE s[L] = 11
  <2>. USE <1>8
  <2>1. Elem(yyr1, r) = 14
    BY DefactTable, RuleTable
  <2>2. /\ n = 3 /\ L - 3 \in 1 .. Len(s)
        /\ s[L - 1] \in States /\ s[L - 2] \in States /\ x \in States
        /\ Under(s[L - 1], s[L]) /\ Under(s[L - 2], s[L - 1]) /\ Under(x, s[L - 2])
    BY <1>7
  <2>3. s[L - 1] = 6
    BY <1>1, <2>2, UnderTable
  <2>4. s[L - 2] = 1
    BY <2>2, <2>3, UnderTable
  <2>5. x = 0
    BY <2>2, <2>3, <2>4, UnderTable
  <2>6. g = 1
    BY <2>1, <2>5, GotoTable
  <2>7. n \in {0, 1, 3} /\ n < L /\ \A j \in L - n + 1 .. L : j \in {L - 2, L - 1, L}
    BY <1>0, <2>2
  <2>8. Under(x, g) /\ g \in States
    BY <2>5, <2>6 DEF Under, States
  <2>9. ASSUME NEW j \in L - n + 1 .. L PROVE s[j] # 5
    <3>1. s[L] # 5 /\ s[L - 1] # 5 /\ s[L - 2] # 5
      BY <2>3, <2>4
    <3>. QED  BY <2>7, <3>1
  <2>. QED  BY <2>6, <2>7, <2>8, <2>9
<1>9. CASE s[L] = 16
  <2>. USE <1>9
  <2>1. Elem(yyr1, r) = 15
    BY DefactTable, RuleTable
  <2>2. /\ n = 3 /\ L - 3 \in 1 .. Len(s)
        /\ s[L - 1] \in States /\ s[L - 2] \in States /\ x \in States
        /\ Under(s[L - 1], s[L]) /\ Under(s[L - 2], s[L - 1]) /\ Under(x, s[L - 2])
    BY <1>7
  <2>3. s[L - 1] = 8
    BY <1>1, <2>2, UnderTable
  <2>4. s[L - 2] = 4
    BY <2>2, <2>3, UnderTable
  <2>5. x = 1
    BY <2>2, <2>3, <2>4, UnderTable
  <2>6. g = 6
    BY <2>1, <2>5, GotoTable
  <2>7. n \in {0, 1, 3} /\ n < L /\ \A j \in L - n + 1 .. L : j \in {L - 2, L - 1, L}
    BY <1>0, <2>2
  <2>8. Under(x, g) /\ g \in States
    BY <2>5, <2>6 DEF Under, States
  <2>9. ASSUME NEW j \in L - n + 1 .. L PROVE s[j] # 5
    <3>1. s[L] # 5 /\ s[L - 1] # 5 /\ s[L - 2] # 5
      BY <2>3, <2>4
    <3>. QED  BY <2>7, <3>1
  <2>. QED  BY <2>6, <2>7, <2>8, <2>9
<1>10. CASE s[L] = 17
  <2>. USE <1>10
  <2>1. Elem(yyr1, r) = 16
    BY DefactTable, RuleTable
  <2>2. /\ n = 3 /\ L - 3 \in 1 .. Len(s)
        /\ s[L - 1] \in States /\ s[L - 2] \in States /\ x \in States
        /\ Under(s[L - 1], s[L]) /\ Under(s[L - 2], s[L - 1]) /\ Under(x, s[L - 2])
    BY <1>7
  <2>3. s[L - 1] = 10
    BY <1>1, <2>2, UnderTable
  <2>4. s[L - 2] = 5
    BY <2>2, <2>3, UnderTable
  <2>5. x \in {1, 5, 8, 12, 13, 14, 15}
    BY <2>2, <2>3, <2>4, UnderTable
  <2>6. g \in States /\ Under(x, g) /\ g \notin {0, 5, 8, 17} /\ (g = 16 => x = 8)
    BY <2>1, <2>5, ExprGoes
  <2>7. n \in {0, 1, 3} /\ n < L /\ \A j \in L - n + 1 .. L : j \in {L - 2, L - 1, L}
    BY <1>0, <2>2
  <2>. QED  BY <2>2, <2>3, <2>4, <2>6, <2>7
<1>11. CASE s[L] \in {18, 19, 20, 21}
  <2>. USE <1>11
  <2>1. Elem(yyr1, r) = 16
    BY DefactTable, RuleTable
  <2>2. /\ n = 3 /\ L - 3 \in 1 .. Len(s)
        /\ s[L - 1] \in States /\ s[L - 2] \in States /\ x \in States
        /\ Under(s[L - 1], s[L]) /\ Under(s[L - 2], s[L - 1]) /\ Under(x, s[L - 2])
    BY <1>7
  <2>3. s[L - 1] \in {12, 13, 14, 15}
    BY <1>1, <2>2, UnderTable
  <2>4. s[L - 2] \in {7, 10, 16, 18, 19}
    BY <2>2, <2>3, UnderTable
  <2>5. x \in {1, 5, 8, 12, 13, 14, 15}
    <3>. HIDE DEF x
    <3>. QED  BY <2>2, <2>3, <2>4, UnderTable
  <2>6. g \in States /\ Under(x, g) /\ g \notin {0, 5, 8, 17} /\ (g = 16 => x = 8)
    BY <2>1, <2>5, ExprGoes
  <2>7. n \in {0, 1, 3} /\ n < L /\ \A j \in L - n + 1 .. L : j \in {L - 2, L - 1, L}
    BY <1>0, <2>2
  <2>8. ASSUME NEW j \in L - n + 1 .. L PROVE s[j] # 5
    <3>1. s[L] # 5 /\ s[L - 1] # 5 /\ s[L - 2] # 5
      BY <2>3, <2>4
    <3>. QED  BY <2>7, <3>1
  <2>. QED  BY <2>6, <2>7, <2>8
<1>. QED  BY <1>2, <1>3, <1>5, <1>6, <1>8, <1>9, <1>10, <1>11

\* v is a sequence of something: the values on yyvs have no common type.
IsSeq(v) == \E S : v \in Seq(S)

\* Pushing keeps a sequence a sequence.
LEMMA SeqPush ==
    ASSUME NEW v, IsSeq(v), NEW x
    PROVE  IsSeq(Append(v, x)) /\ Len(Append(v, x)) = Len(v) + 1 /\ Len(v) \in Nat
<1>1. PICK S : v \in Seq(S)
  BY DEF IsSeq
<1>2. v \in Seq(S \cup {x})
  BY <1>1
<1>3. Append(v, x) \in Seq(S \cup {x}) /\ Len(Append(v, x)) = Len(v) + 1 /\ Len(v) \in Nat
  BY <1>2
<1>. QED  BY <1>3 DEF IsSeq

\* Popping keeps a sequence a sequence.
LEMMA SeqPop ==
    ASSUME NEW v, IsSeq(v), NEW n \in 0 .. Len(v)
    PROVE  IsSeq(Pop(v, n)) /\ Len(Pop(v, n)) = Len(v) - n
<1>1. PICK S : v \in Seq(S)
  BY DEF IsSeq
<1>2. Pop(v, n) \in Seq(S) /\ Len(Pop(v, n)) = Len(v) - n
  BY <1>1 DEF Pop
<1>. QED  BY <1>2 DEF IsSeq

\* A state that may follow the top can be pushed.
LEMMA StackPush ==
    ASSUME NEW s, IsStack(s), NEW t \in States, Under(s[Len(s)], t)
    PROVE  /\ IsStack(Append(s, t)) /\ Len(Append(s, t)) = Len(s) + 1
           /\ Append(s, t)[Len(s) + 1] = t
           /\ \A i \in 1 .. Len(s) : Append(s, t)[i] = s[i]
<1>1. s \in Seq(States) /\ Len(s) \in Nat \ {0}
  BY DEF IsStack
<1>2. /\ Append(s, t) \in Seq(States) /\ Len(Append(s, t)) = Len(s) + 1
      /\ Append(s, t)[Len(s) + 1] = t
      /\ \A i \in 1 .. Len(s) : Append(s, t)[i] = s[i]
  BY <1>1
<1>3. ASSUME NEW i \in 2 .. Len(s) + 1 PROVE Under(Append(s, t)[i - 1], Append(s, t)[i])
  <2>1. CASE i = Len(s) + 1
    BY <1>1, <1>2, <2>1
  <2>2. CASE i # Len(s) + 1
    <3>1. i \in 2 .. Len(s) /\ i - 1 \in 1 .. Len(s) /\ i \in 1 .. Len(s)
      BY <1>1, <2>2
    <3>2. Under(s[i - 1], s[i])
      BY <3>1 DEF IsStack
    <3>. QED  BY <1>2, <3>1, <3>2
  <2>. QED  BY <2>1, <2>2
<1>. QED  BY <1>1, <1>2, <1>3 DEF IsStack

\* What is left below is a stack.
LEMMA StackPop ==
    ASSUME NEW s, IsStack(s), NEW n \in 0 .. Len(s) - 1
    PROVE  /\ IsStack(Pop(s, n)) /\ Len(Pop(s, n)) = Len(s) - n
           /\ \A i \in 1 .. Len(s) - n : Pop(s, n)[i] = s[i]
<1>1. s \in Seq(States) /\ Len(s) \in Nat \ {0}
  BY DEF IsStack
<1>2. /\ Pop(s, n) \in Seq(States) /\ Len(Pop(s, n)) = Len(s) - n
      /\ \A i \in 1 .. Len(s) - n : Pop(s, n)[i] = s[i]
  BY <1>1 DEF Pop
<1>3. ASSUME NEW i \in 2 .. Len(s) - n PROVE Under(Pop(s, n)[i - 1], Pop(s, n)[i])
  <2>1. i \in 2 .. Len(s) /\ i - 1 \in 1 .. Len(s) - n /\ i \in 1 .. Len(s) - n
    BY <1>1
  <2>2. Under(s[i - 1], s[i])
    BY <2>1 DEF IsStack
  <2>. QED  BY <1>2, <2>1, <2>2
<1>. QED  BY <1>1, <1>2, <1>3 DEF IsStack

-----------------------------------------------------------------------------
(* 9. The invariant of the parser and its steps. *)

\* The parser is reading or reducing.
Working == label \in {"setstate", "backup"}
\* What yylex() returns.
AnyToken == Tokens \cup {Plain(YYEOF)}

\* The stacks are well formed, equally high, and below their size when something may be
\* pushed.
HeightInv ==
    /\ IsStack(yyss) /\ IsSeq(yyvs) /\ Len(yyvs) = Len(yyss)
    /\ yystacksize \in Nat /\ Len(yyss) <= yystacksize
    /\ label = "backup" => Len(yyss) < yystacksize

\* The look-ahead is the last token read.
TokenInv ==
    /\ read \in Seq(AnyToken) /\ yychar \in Kinds \cup {YYEMPTY}
    /\ Working /\ yychar # YYEMPTY => Len(read) > 0 /\ read[Len(read)].kind = yychar

\* The open parentheses of the input are on the stack; one more is, until the expression
\* that a ")" ends is reduced.
NestInv ==
    Working => /\ Opens(yyss, Len(yyss)) = Depth(read, Taken) + IF Top = 17 THEN 1 ELSE 0
               /\ Top = 17 => Taken > 0 /\ read[Taken].kind = ")"

\* The states of an assignment are there only if a "=" was read.
EqualsInv ==
    (\E i \in 1 .. Len(yyss) : yyss[i] \in {8, 16}) => \E i \in 1 .. Len(read) : read[i].kind = "="

ParserInv == HeightInv /\ TokenInv /\ NestInv /\ EqualsInv

\* The invariant implies what the run checks.
LEMMA InvFits == ASSUME ParserInv PROVE StacksFit
<1>1. Len(yyss) \in Nat \ {0} /\ yyss \in Seq(States)
  BY DEF ParserInv, HeightInv, IsStack
<1>2. ASSUME Working, \A i \in DOMAIN read : read[i].kind # "="
      PROVE  Len(yyss) <= 7 + 5 * Nesting
  <2>1. DOMAIN read = 1 .. Len(read)
    BY DEF ParserInv, TokenInv
  <2>2. \A i \in 1 .. Len(yyss) : yyss[i] \notin {8, 16}
    BY <1>2, <2>1 DEF ParserInv, EqualsInv
  <2>3. Len(yyss) <= Rank(Top) + 5 * Opens(yyss, Len(yyss))
    BY <2>2, StackHeight DEF ParserInv, HeightInv, Top
  <2>4. Taken \in Nat
    <3>1. Len(read) \in Nat
      BY DEF ParserInv, TokenInv
    <3>. QED  BY <3>1, <1>2 DEF ParserInv, TokenInv, Taken
  <2>5. Depth(read, Taken) \in Int
    BY <2>4, DepthNext
  <2>6. Rank(Top) \in Nat /\ Rank(Top) <= 7
    BY DEF Rank
  <2>7. CASE Top = 17
    <3>1. Nesting = Depth(read, Taken) + 1
      BY <1>2, <2>7 DEF ParserInv, NestInv, Nesting
    <3>2. Opens(yyss, Len(yyss)) = Depth(read, Taken) + 1
      BY <1>2, <2>7 DEF ParserInv, NestInv
    <3>. QED  BY <1>1, <2>3, <2>5, <2>6, <3>1, <3>2
  <2>8. CASE Top # 17
    <3>1. Nesting \in {Depth(read, Taken), Depth(read, Taken) + 1}
      BY DEF Nesting
    <3>2. Opens(yyss, Len(yyss)) = Depth(read, Taken)
      BY <1>2, <2>5, <2>8 DEF ParserInv, NestInv
    <3>. QED  BY <1>1, <2>3, <2>5, <2>6, <3>1, <3>2
  <2>. QED  BY <2>7, <2>8
<1>. QED  BY <1>1, <1>2 DEF ParserInv, HeightInv, StacksFit, Working

\* The invariant holds initially.
LEMMA InvStarts == ParserInit => ParserInv
<1>. SUFFICES ASSUME ParserInit PROVE ParserInv
  OBVIOUS
<1>1. yyss = <<0>> /\ yyvs = <<"undefined">> /\ read = <<>> /\ yychar = YYEMPTY
      /\ yystacksize = YYINITDEPTH
  BY DEF ParserInit
<1>2. yyss \in Seq(States) /\ Len(yyss) = 1 /\ yyss[1] = 0
  BY <1>1 DEF States
<1>3. HeightInv
  <2>1. yyvs \in Seq({"undefined"}) /\ Len(yyvs) = 1
    BY <1>1
  <2>2. IsSeq(yyvs)
    BY <2>1 DEF IsSeq
  <2>3. IsStack(yyss)
    BY <1>2 DEF IsStack
  <2>. QED  BY <1>1, <1>2, <2>1, <2>2, <2>3, DepthAssumption DEF HeightInv
<1>4. read \in Seq(AnyToken) /\ Len(read) = 0
  BY <1>1
<1>5. TokenInv
  BY <1>1, <1>4 DEF TokenInv
<1>6. NestInv
  <2>1. Opens(yyss, 1) = 0
    <3>1. Opens(yyss, 0) = 0
      BY OpensNone
    <3>2. Opens(yyss, 0 + 1) = Opens(yyss, 0) + IF yyss[0 + 1] = 5 THEN 1 ELSE 0
      BY OpensNext
    <3>. QED  BY <1>2, <3>1, <3>2
  <2>2. Taken = 0
    BY <1>1, <1>4 DEF Taken
  <2>. QED  BY <1>2, <2>1, <2>2, DepthNone DEF NestInv, Top
<1>7. EqualsInv
  BY <1>2 DEF EqualsInv
<1>. QED  BY <1>3, <1>5, <1>6, <1>7 DEF ParserInv

\* A step that leaves the stacks and the tokens alone.
LEMMA Quiet ==
    ASSUME ParserInv, yyss' = yyss, yyvs' = yyvs, read' = read, yychar' = yychar,
           Working' => Working,
           yystacksize' \in Nat, yystacksize' >= yystacksize,
           label' = "backup" => Len(yyss) < yystacksize'
    PROVE  ParserInv'
<1>1. HeightInv'
  <2>1. Len(yyss) \in Nat
    BY DEF ParserInv, HeightInv, IsStack
  <2>2. IsStack(yyss') /\ IsSeq(yyvs') /\ Len(yyvs') = Len(yyss')
    BY DEF ParserInv, HeightInv
  <2>3. Len(yyss') <= yystacksize'
    BY <2>1 DEF ParserInv, HeightInv
  <2>. QED  BY <2>2, <2>3 DEF HeightInv
<1>2. TokenInv'
  BY DEF ParserInv, TokenInv
<1>3. NestInv'
  BY DEF ParserInv, NestInv, Top, Taken
<1>4. EqualsInv'
  BY DEF ParserInv, EqualsInv
<1>. QED  BY <1>1, <1>2, <1>3, <1>4 DEF ParserInv

\* A step that changes nothing.
LEMMA StaysIn ==
    ASSUME ParserInv, UNCHANGED parservars
    PROVE  ParserInv'
<1>1. yystacksize \in Nat /\ (label = "backup" => Len(yyss) < yystacksize)
  BY DEF ParserInv, HeightInv
<1>2. /\ yyss' = yyss /\ yyvs' = yyvs /\ read' = read /\ yychar' = yychar
      /\ yystacksize' = yystacksize /\ label' = label
  BY DEF parservars, tokenvars
<1>. QED  BY <1>1, <1>2, Quiet DEF Working

\* yysetstate, with room on the stacks.
LEMMA EnterKeeps == ASSUME ParserInv, Enter PROVE ParserInv'
<1>1. yystacksize \in Nat /\ Len(yyss) \in Nat
  BY DEF ParserInv, HeightInv, IsStack
<1>2. /\ yyss' = yyss /\ yyvs' = yyvs /\ read' = read /\ yychar' = yychar
      /\ yystacksize' = yystacksize /\ label = "setstate" /\ Len(yyss) < yystacksize
  BY <1>1 DEF Enter, tokenvars, Jump, Full
<1>. QED  BY <1>1, <1>2, Quiet DEF Working

\* The stacks never shrink.
LEMMA LargerGrows ==
    ASSUME yystacksize \in Nat, yystacksize < YYMAXDEPTH
    PROVE  Larger \in Nat /\ Larger >= yystacksize
BY DepthAssumption DEF Larger

\* yysetstate, when the stacks are extended.
LEMMA ExtendKeeps == ASSUME ParserInv, Extend PROVE ParserInv'
<1>1. yystacksize \in Nat /\ Len(yyss) \in Nat
  BY DEF ParserInv, HeightInv, IsStack
<1>2. /\ yyss' = yyss /\ yyvs' = yyvs /\ read' = read /\ yychar' = yychar
      /\ yystacksize' = Larger /\ label = "setstate" /\ yystacksize < YYMAXDEPTH
  BY DEF Extend, tokenvars
<1>3. Larger \in Nat /\ Larger >= yystacksize
  BY <1>1, <1>2, LargerGrows
<1>4. label' = "backup" => Len(yyss) < Larger
  BY <1>1, <1>3 DEF Extend, Full
<1>. QED  BY <1>2, <1>3, <1>4, Quiet DEF Working

\* yysetstate, when they cannot be.
LEMMA ExhaustedKeeps == ASSUME ParserInv, Exhausted PROVE ParserInv'
<1>1. yystacksize \in Nat /\ Len(yyss) \in Nat
  BY DEF ParserInv, HeightInv, IsStack
<1>2. /\ yyss' = yyss /\ yyvs' = yyvs /\ read' = read /\ yychar' = yychar
      /\ label = "setstate" /\ label' = "return"
      /\ yystacksize' = IF yystacksize < YYMAXDEPTH THEN Larger ELSE yystacksize
  BY DEF Exhausted, tokenvars, Jump
<1>3. yystacksize' \in Nat /\ yystacksize' >= yystacksize
  BY <1>1, <1>2, LargerGrows
<1>. QED  BY <1>2, <1>3, Quiet DEF Working

\* The end of the input in the right state, and a division that traps.
LEMMA AcceptKeeps == ASSUME ParserInv, Accept \/ Trap PROVE ParserInv'
<1>1. yystacksize \in Nat
  BY DEF ParserInv, HeightInv
<1>2. /\ yyss' = yyss /\ yyvs' = yyvs /\ read' = read /\ yychar' = yychar
      /\ yystacksize' = yystacksize /\ label = "backup" /\ label' \in {"return", "killed"}
  BY DEF Accept, Trap, tokenvars, Jump
<1>. QED  BY <1>1, <1>2, Quiet DEF Working

\* yylex() returns kinds the parser knows.
LEMMA TokenKinds == ASSUME NEW t \in AnyToken PROVE t.kind \in Kinds
BY DEF AnyToken, Tokens, Tok, Plain, Operators, Additive, Multiplicative, Kinds, YYEOF

\* A token is read ahead: nothing is pushed yet.
LEMMA YylexKeeps == ASSUME ParserInv, Yylex PROVE ParserInv'
<1>1. PICK t \in AnyToken : yychar' = t.kind /\ read' = Append(read, t)
  BY DEF Yylex, AnyToken
<1>2. /\ yyss' = yyss /\ yyvs' = yyvs /\ yystacksize' = yystacksize /\ label' = label
      /\ label = "backup" /\ yychar = YYEMPTY
  BY DEF Yylex, Asks
<1>3. /\ read \in Seq(AnyToken) /\ Len(read) \in Nat
  BY DEF ParserInv, TokenInv
<1>4. /\ read' \in Seq(AnyToken) /\ Len(read') = Len(read) + 1 /\ read'[Len(read) + 1] = t
      /\ \A i \in 1 .. Len(read) : read'[i] = read[i]
  BY <1>1, <1>3
<1>5. yychar' \in Kinds /\ yychar' # YYEMPTY
  BY <1>1, TokenKinds DEF Kinds, YYEMPTY
<1>6. Taken = Len(read) /\ Taken' = Len(read)
  BY <1>2, <1>3, <1>4, <1>5 DEF Taken
<1>7. HeightInv'
  BY <1>2 DEF ParserInv, HeightInv
<1>8. TokenInv'
  BY <1>1, <1>3, <1>4, <1>5 DEF TokenInv
<1>9. NestInv'
  <2>1. Depth(read', Len(read)) = Depth(read, Len(read))
    BY <1>3, <1>4, DepthSame
  <2>2. /\ Opens(yyss, Len(yyss)) = Depth(read, Len(read)) + IF Top = 17 THEN 1 ELSE 0
        /\ Top = 17 => Len(read) > 0 /\ read[Len(read)].kind = ")"
    BY <1>2, <1>6 DEF ParserInv, NestInv, Working
  <2>3. Top = 17 => read'[Len(read)].kind = ")"
    BY <1>3, <1>4, <2>2
  <2>4. Top' = Top /\ Opens(yyss', Len(yyss')) = Opens(yyss, Len(yyss))
    BY <1>2 DEF Top
  <2>. QED  BY <1>6, <2>1, <2>2, <2>3, <2>4 DEF NestInv
<1>10. EqualsInv'
  <2>1. SUFFICES ASSUME NEW i \in 1 .. Len(yyss), yyss[i] \in {8, 16}
                 PROVE  \E j \in 1 .. Len(read') : read'[j].kind = "="
    BY <1>2 DEF EqualsInv
  <2>2. PICK j \in 1 .. Len(read) : read[j].kind = "="
    BY <2>1 DEF ParserInv, EqualsInv
  <2>3. j \in 1 .. Len(read') /\ read'[j].kind = "="
    BY <1>3, <1>4, <2>2
  <2>. QED  BY <2>3
<1>. QED  BY <1>7, <1>8, <1>9, <1>10 DEF ParserInv

\* A token is pushed: a "(" opens a level on the stack and in the input alike.
LEMMA ShiftKeeps == ASSUME ParserInv, Shift PROVE ParserInv'
<1>. DEFINE t == Elem(yytable, TableEntry)
            L == Len(yyss)
<1>1. /\ NeedsToken /\ yychar # YYEMPTY /\ Hit(TableEntry, yytoken) /\ t # 0 /\ t # YYFINAL
      /\ label = "backup" /\ label' = "setstate" /\ yystacksize' = yystacksize /\ read' = read
      /\ yyss' = Append(yyss, t) /\ yyvs' = Append(yyvs, yylval)
      /\ yychar' = IF yychar # YYEOF THEN YYEMPTY ELSE yychar
  BY DEF Shift, HasEntry, Jump
<1>2. /\ IsStack(yyss) /\ IsSeq(yyvs) /\ Len(yyvs) = L /\ yystacksize \in Nat /\ L < yystacksize
      /\ L \in Nat \ {0}
  BY <1>1 DEF ParserInv, HeightInv, IsStack
<1>3. yychar \in Kinds
  BY <1>1 DEF ParserInv, TokenInv
<1>4. Top \in States
  BY <1>2, StackTop DEF Top
<1>5. /\ t \in States /\ Under(Top, t) /\ Top # 17
      /\ t = 5 <=> yychar = "("
      /\ t = 17 <=> yychar = ")"
      /\ t \in {8, 16} => yychar = "="
      /\ yychar # "eof"
  BY <1>1, <1>3, <1>4, ShiftGoes DEF NeedsToken, TableEntry, yytoken
<1>. HIDE DEF t
<1>6. /\ IsStack(yyss') /\ Len(yyss') = L + 1 /\ yyss'[L + 1] = t
      /\ \A i \in 1 .. L : yyss'[i] = yyss[i]
  BY <1>1, <1>2, <1>5, StackPush DEF Top
<1>7. HeightInv'
  <2>1. IsSeq(yyvs') /\ Len(yyvs') = L + 1
    BY <1>1, <1>2, SeqPush
  <2>. QED  BY <1>1, <1>2, <1>6, <2>1 DEF HeightInv
<1>8. yychar' = YYEMPTY
  BY <1>1, <1>5 DEF YYEOF
<1>9. /\ read \in Seq(AnyToken) /\ Len(read) \in Nat \ {0} /\ read[Len(read)].kind = yychar
  BY <1>1 DEF ParserInv, TokenInv, Working
<1>10. TokenInv'
  BY <1>1, <1>8, <1>9 DEF TokenInv
<1>11. NestInv'
  <2>1. Taken = Len(read) - 1 /\ Taken' = Len(read) /\ Taken \in Nat /\ Taken + 1 = Len(read)
    BY <1>1, <1>8, <1>9 DEF Taken
  <2>2. Opens(yyss, L) = Depth(read, Taken)
    <3>1. Depth(read, Taken) \in Int
      BY <2>1, DepthNext
    <3>. QED  BY <1>1, <1>5, <3>1 DEF ParserInv, NestInv, Working
  <2>3. Opens(yyss', L + 1) = Opens(yyss, L) + IF t = 5 THEN 1 ELSE 0
    <3>1. Opens(yyss', L) = Opens(yyss, L)
      BY <1>2, <1>6, OpensSame
    <3>2. /\ Opens(yyss', L) \in Nat
          /\ Opens(yyss', L + 1) = Opens(yyss', L) + IF yyss'[L + 1] = 5 THEN 1 ELSE 0
      BY <1>2, OpensNext
    <3>. QED  BY <1>6, <3>1, <3>2
  <2>4. Depth(read, Taken + 1) = Depth(read, Taken) + IF yychar = "(" THEN 1
                                                      ELSE IF yychar = ")" THEN -1 ELSE 0
    BY <1>9, <2>1, DepthNext
  <2>5. Depth(read', Taken') = Depth(read, Taken + 1)
    BY <1>1, <2>1
  <2>6. Top' = t
    BY <1>6 DEF Top
  <2>7. Opens(yyss', Len(yyss')) = Depth(read', Taken') + IF Top' = 17 THEN 1 ELSE 0
    <3>. DEFINE d == Depth(read, Taken)
                e == Depth(read', Taken')
                o == Opens(yyss', Len(yyss'))
    <3>1. d \in Int
      BY <2>1, DepthNext
    <3>2. o = d + IF t = 5 THEN 1 ELSE 0
      BY <1>6, <2>2, <2>3
    <3>3. e = d + IF yychar = "(" THEN 1 ELSE IF yychar = ")" THEN -1 ELSE 0
      BY <2>4, <2>5
    <3>4. yychar = "(" => yychar # ")"
      OBVIOUS
    <3>. HIDE DEF d, e, o
    <3>5. o = e + IF t = 17 THEN 1 ELSE 0
      BY <1>5, <3>1, <3>2, <3>3, <3>4
    <3>. QED  BY <2>6, <3>5 DEF e, o
  <2>8. Top' = 17 => Taken' > 0 /\ read'[Taken'].kind = ")"
    BY <1>1, <1>5, <1>9, <2>1, <2>6
  <2>. QED  BY <2>7, <2>8 DEF NestInv
<1>12. EqualsInv'
  <2>1. SUFFICES ASSUME NEW i \in 1 .. L + 1, yyss'[i] \in {8, 16}
                 PROVE  \E j \in 1 .. Len(read) : read[j].kind = "="
    BY <1>1, <1>6 DEF EqualsInv
  <2>2. CASE i = L + 1
    <3>1. Len(read) \in 1 .. Len(read) /\ read[Len(read)].kind = "="
      BY <1>5, <1>6, <1>9, <2>1, <2>2
    <3>. QED  BY <3>1
  <2>3. CASE i # L + 1
    <3>1. i \in 1 .. L /\ yyss[i] \in {8, 16}
      BY <1>2, <1>6, <2>1, <2>3
    <3>. QED  BY <3>1 DEF ParserInv, EqualsInv
  <2>. QED  BY <2>2, <2>3
<1>. QED  BY <1>7, <1>10, <1>11, <1>12 DEF ParserInv

\* A rule is reduced: only a closed parenthesis takes a level from the stack.
LEMMA ReduceKeeps == ASSUME ParserInv, Reduce PROVE ParserInv'
<1>. DEFINE L == Len(yyss)
            r == Elem(yydefact, Top)
            n == Elem(yyr2, r)
            below == Pop(yyss, n)
            g == GotoState(below[Len(below)], Elem(yyr1, r))
<1>1. /\ label = "backup" /\ label' = "setstate" /\ yystacksize' = yystacksize
      /\ read' = read /\ yychar' = yychar
      /\ r # 0 /\ yyss' = Append(below, g) /\ yyvs' = Append(Pop(yyvs, n), Yyval(r))
  BY DEF Reduce, Reducible, tokenvars
<1>2. /\ IsStack(yyss) /\ IsSeq(yyvs) /\ Len(yyvs) = L /\ yystacksize \in Nat /\ L < yystacksize
      /\ L \in Nat \ {0}
  BY <1>1 DEF ParserInv, HeightInv, IsStack
<1>3. /\ n \in {0, 1, 3} /\ n < L
      /\ Top # 17 => \A j \in L - n + 1 .. L : yyss[j] # 5
      /\ Top = 17 => n = 3 /\ yyss[L - 1] # 5 /\ yyss[L - 2] = 5
  BY <1>1, <1>2, ReduceGoes DEF Top
<1>4. /\ GotoState(yyss[L - n], Elem(yyr1, r)) \in States
      /\ Under(yyss[L - n], GotoState(yyss[L - n], Elem(yyr1, r)))
      /\ GotoState(yyss[L - n], Elem(yyr1, r)) \notin {0, 5, 8, 17}
      /\ GotoState(yyss[L - n], Elem(yyr1, r)) = 16 => yyss[L - n] = 8
  BY <1>1, <1>2, ReduceGoes DEF Top
<1>. HIDE DEF n, r
<1>5. n \in 0 .. Len(yyss) - 1 /\ L - n \in 1 .. L /\ L - n \in Nat
  BY <1>2, <1>3
<1>6. /\ IsStack(below) /\ Len(below) = L - n
      /\ \A i \in 1 .. L - n : below[i] = yyss[i]
  BY <1>2, <1>5, StackPop
<1>7. below[Len(below)] = yyss[L - n]
  BY <1>2, <1>5, <1>6
<1>8. g \in States /\ Under(below[Len(below)], g) /\ g \notin {0, 5, 8, 17}
      /\ (g = 16 => yyss[L - n] = 8)
  BY <1>4, <1>7
<1>. HIDE DEF below, g
<1>9. /\ IsStack(yyss') /\ Len(yyss') = L - n + 1 /\ yyss'[L - n + 1] = g
      /\ \A i \in 1 .. L - n : yyss'[i] = yyss[i]
  <2>1. /\ IsStack(yyss') /\ Len(yyss') = Len(below) + 1 /\ yyss'[Len(below) + 1] = g
        /\ \A i \in 1 .. Len(below) : yyss'[i] = below[i]
    BY <1>1, <1>6, <1>8, StackPush
  <2>. QED  BY <1>6, <2>1
<1>10. HeightInv'
  <2>1. IsSeq(Pop(yyvs, n)) /\ Len(Pop(yyvs, n)) = L - n
    <3>1. n \in 0 .. Len(yyvs)
      BY <1>2, <1>3
    <3>. QED  BY <1>2, <3>1, SeqPop
  <2>2. IsSeq(yyvs') /\ Len(yyvs') = L - n + 1
    BY <1>1, <2>1, SeqPush
  <2>. QED  BY <1>1, <1>2, <1>3, <1>9, <2>2 DEF HeightInv
<1>11. TokenInv'
  BY <1>1 DEF ParserInv, TokenInv, Working
<1>12. NestInv'
  <2>1. Taken' = Taken /\ Top' = g
    BY <1>1, <1>9 DEF Taken, Top
  <2>2. Opens(yyss', L - n + 1) = Opens(yyss, L - n) /\ Opens(yyss, L - n) \in Nat
    <3>1. Opens(yyss', L - n) = Opens(yyss, L - n)
      BY <1>5, <1>9, OpensSame
    <3>2. /\ Opens(yyss', L - n) \in Nat
          /\ Opens(yyss', L - n + 1) = Opens(yyss', L - n) + IF yyss'[L - n + 1] = 5 THEN 1 ELSE 0
      BY <1>5, OpensNext
    <3>. QED  BY <1>8, <1>9, <3>1, <3>2
  <2>3. Opens(yyss, L) = Opens(yyss, L - n) + IF Top = 17 THEN 1 ELSE 0
    <3>1. ASSUME NEW i \in 1 .. L
          PROVE  /\ Opens(yyss, i - 1) \in Nat
                 /\ Opens(yyss, i) = Opens(yyss, i - 1) + IF yyss[i] = 5 THEN 1 ELSE 0
      <4>1. i - 1 \in Nat /\ (i - 1) + 1 = i
        BY <1>2
      <4>. QED  BY <4>1, OpensNext
    <3>2. CASE n = 0
      BY <1>2, <1>3, <2>2, <3>2
    <3>3. CASE n = 1
      <4>1. L \in L - n + 1 .. L /\ L \in 1 .. L /\ Top # 17
        BY <1>2, <1>3, <3>3
      <4>. QED  BY <1>3, <2>2, <3>1, <3>3, <4>1
    <3>4. CASE n = 3
      <4>1. /\ L \in 1 .. L /\ L - 1 \in 1 .. L /\ L - 2 \in 1 .. L
            /\ (L - 1) - 1 = L - 2 /\ (L - 2) - 1 = L - 3
            /\ L \in L - n + 1 .. L /\ L - 1 \in L - n + 1 .. L /\ L - 2 \in L - n + 1 .. L
        BY <1>2, <1>3, <3>4
      <4>2. /\ Opens(yyss, L) = Opens(yyss, L - 1) + IF yyss[L] = 5 THEN 1 ELSE 0
            /\ Opens(yyss, L - 1) = Opens(yyss, L - 2) + IF yyss[L - 1] = 5 THEN 1 ELSE 0
            /\ Opens(yyss, L - 2) = Opens(yyss, L - 3) + IF yyss[L - 2] = 5 THEN 1 ELSE 0
        BY <3>1, <4>1
      <4>3. Opens(yyss, L - 3) \in Nat
        BY <2>2, <3>4
      <4>4. CASE Top = 17
        <5>1. yyss[L] # 5 /\ yyss[L - 1] # 5 /\ yyss[L - 2] = 5
          BY <1>3, <4>4 DEF Top
        <5>. QED  BY <3>4, <4>2, <4>3, <4>4, <5>1
      <4>5. CASE Top # 17
        <5>1. yyss[L] # 5 /\ yyss[L - 1] # 5 /\ yyss[L - 2] # 5
          BY <1>3, <4>1, <4>5
        <5>. QED  BY <3>4, <4>2, <4>3, <4>5, <5>1
      <4>. QED  BY <4>4, <4>5
    <3>. QED  BY <1>3, <3>2, <3>3, <3>4
  <2>4. Opens(yyss, L) = Depth(read, Taken) + IF Top = 17 THEN 1 ELSE 0
    BY <1>1 DEF ParserInv, NestInv, Working
  <2>5. Depth(read, Taken) \in Int
    <3>1. Taken \in Nat
      BY <1>1 DEF ParserInv, TokenInv, Taken, Working
    <3>. QED  BY <3>1, DepthNext
  <2>6. Opens(yyss', Len(yyss')) = Depth(read', Taken')
    BY <1>1, <1>9, <2>1, <2>2, <2>3, <2>4, <2>5
  <2>7. Depth(read', Taken') \in Int
    BY <1>1, <2>1, <2>5
  <2>. QED  BY <1>8, <2>1, <2>6, <2>7 DEF NestInv
<1>13. EqualsInv'
  <2>1. SUFFICES ASSUME NEW i \in 1 .. L - n + 1, yyss'[i] \in {8, 16}
                 PROVE  \E j \in 1 .. L : yyss[j] \in {8, 16}
    BY <1>1, <1>9 DEF ParserInv, EqualsInv
  <2>2. CASE i = L - n + 1
    <3>1. yyss[L - n] = 8
      BY <1>8, <1>9, <2>1, <2>2
    <3>. QED  BY <1>5, <3>1
  <2>3. CASE i # L - n + 1
    <3>1. i \in 1 .. L - n /\ i \in 1 .. L
      BY <1>2, <1>5, <2>3
    <3>. QED  BY <1>9, <2>1, <3>1
  <2>. QED  BY <2>2, <2>3
<1>. QED  BY <1>10, <1>11, <1>12, <1>13 DEF ParserInv

\* No state has an entry for the error token.
LEMMA NoErrorEntry == ~HandlesError
<1>1. \A i \in 0 .. 31 : Elem(yycheck, i) # 1
  BY CheckTable
<1>. QED  BY <1>1 DEF HandlesError, Hit, YYTERROR, YYLAST

\* An error is reported.
LEMMA ErrorKeeps == ASSUME ParserInv, SyntaxError PROVE ParserInv'
<1>1. /\ yyss' = yyss /\ yyvs' = yyvs /\ read' = read /\ yystacksize' = yystacksize
      /\ yychar' \in {yychar, YYEMPTY} /\ label' \in {"return", "recover"}
  BY DEF SyntaxError
<1>2. ~Working' /\ label' # "backup"
  BY <1>1 DEF Working
<1>3. HeightInv'
  BY <1>1, <1>2 DEF ParserInv, HeightInv
<1>4. TokenInv' /\ NestInv'
  BY <1>1, <1>2 DEF ParserInv, TokenInv, NestInv
<1>5. EqualsInv'
  BY <1>1 DEF ParserInv, EqualsInv
<1>. QED  BY <1>3, <1>4, <1>5 DEF ParserInv

\* A state is popped in search of one that handles the error.
LEMMA PopKeeps == ASSUME ParserInv, PopState PROVE ParserInv'
<1>1. /\ label = "recover" /\ read' = read /\ yystacksize' = yystacksize /\ yychar' = yychar
      /\ label' \in {"return", "recover"}
      /\ \/ yyss' = yyss /\ yyvs' = yyvs
         \/ yyss' = Pop(yyss, 1) /\ yyvs' = Pop(yyvs, 1) /\ Len(yyss) # 1
  BY NoErrorEntry DEF PopState, tokenvars
<1>2. ~Working' /\ label' # "backup"
  BY <1>1 DEF Working
<1>3. TokenInv' /\ NestInv'
  BY <1>1, <1>2 DEF ParserInv, TokenInv, NestInv
<1>4. /\ IsStack(yyss) /\ IsSeq(yyvs) /\ Len(yyvs) = Len(yyss) /\ yystacksize \in Nat
      /\ Len(yyss) <= yystacksize /\ Len(yyss) \in Nat \ {0}
  BY DEF ParserInv, HeightInv, IsStack
<1>5. CASE yyss' = yyss /\ yyvs' = yyvs
  <2>1. HeightInv' /\ EqualsInv'
    BY <1>1, <1>2, <1>5 DEF ParserInv, HeightInv, EqualsInv
  <2>. QED  BY <1>3, <2>1 DEF ParserInv
<1>6. CASE yyss' = Pop(yyss, 1) /\ yyvs' = Pop(yyvs, 1) /\ Len(yyss) # 1
  <2>1. 1 \in 0 .. Len(yyss) - 1 /\ 1 \in 0 .. Len(yyvs)
    BY <1>4, <1>6
  <2>2. /\ IsStack(yyss') /\ Len(yyss') = Len(yyss) - 1
        /\ \A i \in 1 .. Len(yyss) - 1 : yyss'[i] = yyss[i]
    BY <1>4, <1>6, <2>1, StackPop
  <2>3. IsSeq(yyvs') /\ Len(yyvs') = Len(yyvs) - 1
    BY <1>4, <1>6, <2>1, SeqPop
  <2>4. HeightInv'
    BY <1>1, <1>2, <1>4, <2>2, <2>3 DEF HeightInv
  <2>5. EqualsInv'
    <3>1. SUFFICES ASSUME NEW i \in 1 .. Len(yyss) - 1, yyss'[i] \in {8, 16}
                   PROVE  \E j \in 1 .. Len(yyss) : yyss[j] \in {8, 16}
      BY <1>1, <2>2 DEF ParserInv, EqualsInv
    <3>2. i \in 1 .. Len(yyss) /\ yyss[i] \in {8, 16}
      BY <1>4, <2>2, <3>1
    <3>. QED  BY <3>2
  <2>. QED  BY <1>3, <2>4, <2>5 DEF ParserInv
<1>. QED  BY <1>1, <1>5, <1>6

\* The stacks are emptied at the end.
LEMMA ReturnKeeps == ASSUME ParserInv, Return PROVE ParserInv'
<1>1. /\ label' = "exit" /\ read' = read /\ yystacksize' = yystacksize /\ yychar' = yychar
      /\ yyss' = <<0>> /\ yyvs' = Pop(yyvs, Len(yyvs) - 1)
  BY DEF Return, Jump, tokenvars
<1>2. ~Working' /\ label' # "backup"
  BY <1>1 DEF Working
<1>3. TokenInv' /\ NestInv'
  BY <1>1, <1>2 DEF ParserInv, TokenInv, NestInv
<1>4. /\ IsSeq(yyvs) /\ Len(yyvs) = Len(yyss) /\ yystacksize \in Nat
      /\ Len(yyss) <= yystacksize /\ Len(yyss) \in Nat \ {0}
  BY DEF ParserInv, HeightInv, IsStack
<1>5. yyss' \in Seq(States) /\ Len(yyss') = 1 /\ yyss'[1] = 0
  BY <1>1 DEF States
<1>6. IsStack(yyss') /\ EqualsInv'
  BY <1>5 DEF IsStack, EqualsInv
<1>7. IsSeq(yyvs') /\ Len(yyvs') = 1
  <2>1. Len(yyvs) - 1 \in 0 .. Len(yyvs) /\ Len(yyvs) - (Len(yyvs) - 1) = 1
    BY <1>4
  <2>. QED  BY <1>1, <1>4, <2>1, SeqPop
<1>8. HeightInv'
  BY <1>1, <1>2, <1>4, <1>5, <1>6, <1>7 DEF HeightInv
<1>. QED  BY <1>3, <1>6, <1>8 DEF ParserInv

\* For every initial and maximal depth and every input, yyparse() never writes behind its
\* stacks, keeps them equally high, and on lines without assignments uses no more of them
\* than the nesting of parentheses asks for, however long the lines and the input are.
THEOREM StacksAlwaysFit == ParserSpec => []StacksFit
<1>1. ParserInv /\ [ParserNext]_parservars => ParserInv'
  <2>. SUFFICES ASSUME ParserInv, [ParserNext]_parservars PROVE ParserInv'
    OBVIOUS
  <2>. QED  BY StaysIn, EnterKeeps, ExtendKeeps, ExhaustedKeeps, YylexKeeps, AcceptKeeps,
               ShiftKeeps, ReduceKeeps, ErrorKeeps, PopKeeps, ReturnKeeps DEF ParserNext
<1>2. ParserInv => StacksFit
  BY InvFits
<1>. QED  BY <1>1, <1>2, InvStarts, PTL DEF ParserSpec

-----------------------------------------------------------------------------
(* 10. Functions by recursion, and the equations of the grammar. *)

\* Eqn[d][f] is the value at d that the values f give, and depends on the values of f at
\* arguments smaller than d only.
WellFounded(D, R, len, Eqn) ==
    /\ R # {} /\ len \in [D -> Nat] /\ Eqn \in [D -> [[D -> R] -> R]]
    /\ \A d \in D : \A f, g \in [D -> R] :
          (\A e \in D : len[e] < len[d] => f[e] = g[e]) => Eqn[d][f] = Eqn[d][g]
Solved(D, R, Eqn) == \E h \in [D -> R] : \A d \in D : h[d] = Eqn[d][h]

\* Such equations define a function by recursion.
LEMMA Recursion ==
    ASSUME NEW D, NEW R, NEW len, NEW Eqn, WellFounded(D, R, len, Eqn)
    PROVE  Solved(D, R, Eqn)
<1>0. /\ R # {} /\ len \in [D -> Nat] /\ Eqn \in [D -> [[D -> R] -> R]]
      /\ \A d \in D : \A f, g \in [D -> R] :
            (\A e \in D : len[e] < len[d] => f[e] = g[e]) => Eqn[d][f] = Eqn[d][g]
  BY DEF WellFounded
<1>. USE <1>0
<1>. DEFINE Good(n, f) == \A d \in D : len[d] < n => f[d] = Eqn[d][f]
<1>1. ASSUME NEW n \in Nat PROVE \E f \in [D -> R] : Good(n, f)
  <2>. DEFINE T == {k \in Nat : ~\E f \in [D -> R] : Good(k, f)}
  <2>1. SUFFICES ASSUME T # {} PROVE FALSE
    OBVIOUS
  <2>2. PICK m \in T : \A j \in T : m <= j
    <3>1. T \in SUBSET Nat
      OBVIOUS
    <3>. HIDE DEF T
    <3>. QED  BY <2>1, <3>1, LeastOf
  <2>3. m # 0
    <3>1. PICK r \in R : TRUE
      OBVIOUS
    <3>2. [d \in D |-> r] \in [D -> R] /\ Good(0, [d \in D |-> r])
      OBVIOUS
    <3>3. 0 \notin T
      BY <3>2
    <3>. QED  BY <2>2, <3>3
  <2>4. m \in Nat /\ m - 1 \in Nat /\ m - 1 \notin T
    <3>1. m \in Nat
      BY <2>2
    <3>. HIDE DEF T
    <3>2. m - 1 \in Nat /\ ~(m <= m - 1)
      BY <2>3, <3>1
    <3>. QED  BY <2>2, <3>1, <3>2
  <2>5. PICK f \in [D -> R] : Good(m - 1, f)
    BY <2>4
  <2>. DEFINE g == [d \in D |-> Eqn[d][f]]
  <2>6. g \in [D -> R]
    OBVIOUS
  <2>7. ASSUME NEW d \in D, len[d] < m PROVE g[d] = Eqn[d][g]
    <3>1. ASSUME NEW e \in D, len[e] < len[d] PROVE f[e] = g[e]
      <4>1. len[e] < m - 1
        BY <2>4, <2>7, <3>1
      <4>. QED  BY <2>5, <4>1
    <3>2. g[d] = Eqn[d][f]
      OBVIOUS
    <3>. HIDE DEF g
    <3>3. Eqn[d][f] = Eqn[d][g]
      BY <2>6, <3>1
    <3>. QED  BY <3>2, <3>3
  <2>8. Good(m, g)
    BY <2>7
  <2>. QED  BY <2>2, <2>6, <2>8
<1>2. ASSUME NEW n \in Nat, NEW k \in Nat, NEW f \in [D -> R], NEW g \in [D -> R],
             Good(n, f), Good(k, g), NEW a \in D, len[a] < n, len[a] < k
      PROVE  f[a] = g[a]
  <2>. DEFINE B == {d \in D : len[d] < n /\ len[d] < k /\ f[d] # g[d]}
              T == {len[d] : d \in B}
  <2>1. SUFFICES ASSUME a \in B PROVE FALSE
    BY <1>2
  <2>2. T \in SUBSET Nat /\ T # {}
    <3>1. \A d \in B : len[d] \in Nat
      OBVIOUS
    <3>2. len[a] \in T
      BY <2>1
    <3>. HIDE DEF B
    <3>. QED  BY <3>1, <3>2
  <2>3. PICK m \in T : \A j \in T : m <= j
    <3>. HIDE DEF T
    <3>. QED  BY <2>2, LeastOf
  <2>4. PICK d \in B : m = len[d]
    BY <2>3
  <2>5. ASSUME NEW e \in D, len[e] < len[d] PROVE f[e] = g[e]
    <3>0. len[e] \in Nat /\ len[d] \in Nat
      BY <2>4
    <3>1. e \notin B
      <4>1. SUFFICES ASSUME e \in B PROVE FALSE
        OBVIOUS
      <4>2. len[e] \in T
        BY <4>1
      <4>. HIDE DEF T, B
      <4>. QED  BY <2>3, <2>4, <2>5, <3>0, <4>2
    <3>2. len[e] < n /\ len[e] < k
      BY <2>4, <2>5, <3>0
    <3>. QED  BY <3>1, <3>2
  <2>6. Eqn[d][f] = Eqn[d][g]
    BY <2>4, <2>5
  <2>. QED  BY <1>2, <2>4, <2>6
<1>. DEFINE F(d) == CHOOSE f \in [D -> R] : Good(len[d] + 1, f)
            h == [d \in D |-> F(d)[d]]
<1>3. ASSUME NEW d \in D PROVE F(d) \in [D -> R] /\ Good(len[d] + 1, F(d))
  <2>1. len[d] + 1 \in Nat
    OBVIOUS
  <2>2. \E f \in [D -> R] : Good(len[d] + 1, f)
    BY <1>1, <2>1
  <2>. HIDE DEF Good
  <2>. QED  BY <2>2
<1>. HIDE DEF F
<1>4. h \in [D -> R]
  BY <1>3
<1>5. ASSUME NEW d \in D PROVE h[d] = Eqn[d][h]
  <2>1. ASSUME NEW e \in D, len[e] < len[d] PROVE F(d)[e] = h[e]
    <3>0. len[e] \in Nat /\ len[d] \in Nat
      OBVIOUS
    <3>1. len[e] < len[e] + 1 /\ len[e] < len[d] + 1 /\ len[e] + 1 \in Nat /\ len[d] + 1 \in Nat
      BY <2>1, <3>0
    <3>2. F(d)[e] = F(e)[e]
      <4>1. /\ F(d) \in [D -> R] /\ Good(len[d] + 1, F(d))
            /\ F(e) \in [D -> R] /\ Good(len[e] + 1, F(e))
        BY <1>3
      <4>2. PICK n \in Nat : n = len[d] + 1
        BY <3>1
      <4>3. PICK k \in Nat : k = len[e] + 1
        BY <3>1
      <4>4. len[e] < n /\ len[e] < k /\ Good(n, F(d)) /\ Good(k, F(e))
        BY <3>1, <4>1, <4>2, <4>3
      <4>5. PICK f \in [D -> R] : f = F(d)
        BY <4>1
      <4>6. PICK g \in [D -> R] : g = F(e)
        BY <4>1
      <4>7. Good(n, f) /\ Good(k, g)
        BY <4>4, <4>5, <4>6, Zenon
      <4>8. f[e] = g[e]
        <5>. HIDE DEF Good
        <5>. HIDE <1>0
        <5>. QED  BY <1>2, <4>4, <4>7
      <4>. QED  BY <4>5, <4>6, <4>8
    <3>. QED  BY <3>2
  <2>2. F(d)[d] = Eqn[d][F(d)]
    BY <1>3
  <2>3. h[d] = F(d)[d]
    OBVIOUS
  <2>. HIDE DEF h
  <2>4. Eqn[d][F(d)] = Eqn[d][h]
    BY <1>3, <1>4, <2>1
  <2>. QED  BY <2>2, <2>3, <2>4
<1>. HIDE DEF h
<1>. QED  BY <1>4, <1>5 DEF Solved

\* What the grammar says of an expression, given what it says of shorter ones.
ExprBody(f, s) ==
    \/ Len(s) = 1 /\ Kind(s, 1) \in {"INTEGER", "VARIABLE"}
    \/ Len(s) >= 3 /\ Kind(s, 1) = "(" /\ Kind(s, Len(s)) = ")" /\ f[Inner(s)]
    \/ \E i \in 2 .. Len(s) - 1 :
          Kind(s, i) \in Operators /\ f[Upto(s, i - 1)] /\ f[From(s, i + 1)]

\* The parts of a sequence are shorter sequences.
LEMMA Parts ==
    ASSUME NEW s \in TokenSeqs, NEW a \in Nat, NEW b \in Int, 1 <= a, b <= Len(s)
    PROVE  /\ SubSeq(s, a, b) \in TokenSeqs
           /\ Len(SubSeq(s, a, b)) = IF a <= b THEN b - a + 1 ELSE 0
           /\ \A i \in 1 .. b - a + 1 : SubSeq(s, a, b)[i] = s[a - 1 + i]
<1>1. CASE a <= b
  BY <1>1 DEF TokenSeqs
<1>2. CASE a > b
  BY <1>2 DEF TokenSeqs
<1>. QED  BY <1>1, <1>2

\* The first n tokens.
LEMMA UptoIs ==
    ASSUME NEW s \in TokenSeqs, NEW n \in 0 .. Len(s)
    PROVE  /\ Upto(s, n) \in TokenSeqs /\ Len(Upto(s, n)) = n
           /\ \A i \in 1 .. n : Upto(s, n)[i] = s[i]
BY DEF TokenSeqs, Upto

\* The tokens behind the first n.
LEMMA FromIs ==
    ASSUME NEW s \in TokenSeqs, NEW n \in 0 .. Len(s)
    PROVE  /\ From(s, n + 1) \in TokenSeqs /\ Len(From(s, n + 1)) = Len(s) - n
           /\ \A i \in 1 .. Len(s) - n : From(s, n + 1)[i] = s[n + i]
BY DEF TokenSeqs, From

\* IsExpr satisfies the equation that defines it.
LEMMA ExprUnrolls ==
    ASSUME NEW s \in TokenSeqs
    PROVE  IsExpr[s] \in BOOLEAN /\ IsExpr[s] = ExprBody(IsExpr, s)
<1>. DEFINE D == TokenSeqs
            len == [d \in D |-> Len(d)]
            Eqn == [d \in D |-> [f \in [D -> BOOLEAN] |-> ExprBody(f, d)]]
<1>1. len \in [D -> Nat]
  BY DEF TokenSeqs
<1>2. Eqn \in [D -> [[D -> BOOLEAN] -> BOOLEAN]]
  BY Zenon DEF ExprBody
<1>3. ASSUME NEW d \in D, NEW f \in [D -> BOOLEAN], NEW g \in [D -> BOOLEAN],
             \A e \in D : len[e] < len[d] => f[e] = g[e]
      PROVE  ExprBody(f, d) = ExprBody(g, d)
  <2>1. Len(d) \in Nat /\ \A e \in D : Len(e) < Len(d) => f[e] = g[e]
    BY <1>3 DEF TokenSeqs
  <2>2. Len(d) >= 3 => f[Inner(d)] = g[Inner(d)]
    <3>1. Len(d) >= 3 => Inner(d) \in D /\ Len(Inner(d)) < Len(d)
      BY <2>1, Parts DEF Inner
    <3>. QED  BY <2>1, <3>1
  <2>3. ASSUME NEW i \in 2 .. Len(d) - 1
        PROVE  f[Upto(d, i - 1)] = g[Upto(d, i - 1)] /\ f[From(d, i + 1)] = g[From(d, i + 1)]
    <3>1. Upto(d, i - 1) \in D /\ Len(Upto(d, i - 1)) < Len(d)
      BY <2>1, Parts DEF Upto
    <3>2. From(d, i + 1) \in D /\ Len(From(d, i + 1)) < Len(d)
      BY <2>1, Parts DEF From
    <3>. QED  BY <2>1, <3>1, <3>2
  <2>. QED  BY <2>2, <2>3, Zenon DEF ExprBody
<1>4. PICK h \in [D -> BOOLEAN] : \A d \in D : h[d] = Eqn[d][h]
  <2>1. ASSUME NEW d \in D, NEW f \in [D -> BOOLEAN], NEW g \in [D -> BOOLEAN],
               \A e \in D : len[e] < len[d] => f[e] = g[e]
        PROVE  Eqn[d][f] = Eqn[d][g]
    <3>1. ExprBody(f, d) = ExprBody(g, d)
      BY <1>3, <2>1
    <3>. QED  BY <3>1
  <2>2. WellFounded(D, BOOLEAN, len, Eqn)
    <3>. HIDE DEF D, len, Eqn
    <3>. QED  BY <1>1, <1>2, <2>1 DEF WellFounded
  <2>3. Solved(D, BOOLEAN, Eqn)
    BY <2>2, Recursion, Zenon
  <2>. QED  BY <2>3, Zenon DEF Solved
<1>5. h = [d \in D |-> ExprBody(h, d)]
  BY <1>4
<1>6. IsExpr = [d \in D |-> ExprBody(IsExpr, d)]
  BY <1>5, Zenon DEF IsExpr, ExprBody
<1>7. ExprBody(IsExpr, s) \in BOOLEAN
  BY Zenon DEF ExprBody
<1>. QED  BY <1>6, <1>7

\* The kinds of the tokens, and their values.
LEMMA WordKinds ==
    ASSUME NEW s \in TokenSeqs, NEW i \in 1 .. Len(s)
    PROVE  /\ s[i] \in Words
           /\ Kind(s, i) = "INTEGER" => s[i].val \in Int
           /\ Kind(s, i) = "VARIABLE" => s[i].val \in Vars
<1>1. s[i] \in Words
  BY DEF TokenSeqs
<1>. QED  BY <1>1 DEF Words, Kind, Operators, Additive, Multiplicative

\* A remainder is an int of the machine.
LEMMA ComputeType ==
    ASSUME NEW op \in Operators, NEW a \in Int, NEW b \in Int, ~Traps(op, a, b)
    PROVE  Compute(op, a, b) \in Int
<1>1. ASSUME NEW x \in Int PROVE IntWrap(x) \in Int
  BY HalfAssumption DEF IntWrap
<1>2. a + b \in Int /\ a - b \in Int /\ a * b \in Int
  OBVIOUS
<1>3. IntWrap(a + b) \in Int /\ IntWrap(a - b) \in Int /\ IntWrap(a * b) \in Int
  BY <1>1, <1>2
<1>4. op = "/" => Quotient(a, b) \in Int
  <2>1. SUFFICES ASSUME op = "/" PROVE Quotient(a, b) \in Int
    OBVIOUS
  <2>2. b # 0
    BY <2>1 DEF Traps
  <2>3. Magnitude(a) \in Nat /\ Magnitude(b) \in Nat /\ Magnitude(b) > 0
    BY <2>2 DEF Magnitude
  <2>4. ASSUME NEW x \in Nat, NEW y \in Nat, y > 0 PROVE x \div y \in Int
    BY <2>4
  <2>. QED  BY <2>3, <2>4 DEF Quotient
<1>5. /\ op = "+" => Compute(op, a, b) = IntWrap(a + b)
      /\ op = "-" => Compute(op, a, b) = IntWrap(a - b)
      /\ op = "*" => Compute(op, a, b) = IntWrap(a * b)
      /\ op = "/" => Compute(op, a, b) = Quotient(a, b)
  BY Zenon DEF Compute
<1>. QED  BY <1>3, <1>4, <1>5 DEF Operators, Additive, Multiplicative

\* Results are ints.
LEMMA ResultsType ==
    ASSUME NEW op \in Operators, NEW L \in SUBSET Int, NEW R \in SUBSET Int
    PROVE  Results(op, L, R) \in SUBSET Int
<1>1. SUFFICES ASSUME NEW p \in L \X R, ~Traps(op, p[1], p[2])
               PROVE  Compute(op, p[1], p[2]) \in Int
  BY Zenon DEF Results
<1>2. p[1] \in Int /\ p[2] \in Int
  OBVIOUS
<1>. QED  BY <1>1, <1>2, ComputeType

\* The place where an expression is taken apart.
LEMMA RootPlace ==
    ASSUME NEW s \in TokenSeqs, NEW i \in Root(s)
    PROVE  /\ i \in 2 .. Len(s) - 1 /\ Kind(s, i) \in Operators /\ Depth(s, i) = 0
           /\ Root(s) = {i} /\ (CHOOSE j \in Root(s) : TRUE) = i
<1>1. i \in 2 .. Len(s) - 1 /\ Kind(s, i) \in Operators /\ Depth(s, i) = 0
  BY Zenon DEF Root, Outside, Operators
<1>2. ASSUME NEW j \in Root(s) PROVE i = j
  <2>1. \A k \in Root(s) : k \in 2 .. Len(s) - 1
    BY Zenon DEF Root, Outside
  <2>2. i <= j /\ j <= i
    BY Zenon DEF Root
  <2>3. Len(s) \in Nat
    BY DEF TokenSeqs
  <2>4. i \in Int /\ j \in Int
    BY <2>1, <2>3
  <2>. QED  BY <2>2, <2>4
<1>. QED  BY <1>1, <1>2

\* The value of an expression, given those of shorter ones.
ValueBody(mem, f, s) ==
    IF Root(s) # {}
    THEN LET i == CHOOSE i \in Root(s) : TRUE
         IN Results(Kind(s, i), f[Upto(s, i - 1)], f[From(s, i + 1)])
    ELSE IF s = <<>> THEN {}
    ELSE IF Kind(s, 1) = "INTEGER" THEN {s[1].val}
    ELSE IF Kind(s, 1) = "VARIABLE" THEN {mem[s[1].val]}
    ELSE f[Inner(s)]

\* Value() satisfies the equation that defines it.
LEMMA ValueUnrolls ==
    ASSUME NEW mem \in Memories, NEW s \in TokenSeqs
    PROVE  Value(mem)[s] \in SUBSET Int /\ Value(mem)[s] = ValueBody(mem, Value(mem), s)
<1>. DEFINE D == TokenSeqs
            R == SUBSET Int
            len == [d \in D |-> Len(d)]
            Eqn == [d \in D |-> [f \in [D -> R] |-> ValueBody(mem, f, d)]]
<1>1. len \in [D -> Nat]
  BY DEF TokenSeqs
<1>2. ASSUME NEW d \in D, NEW f, NEW g,
             \A e \in D : Len(e) < Len(d) => f[e] \in R /\ f[e] = g[e]
      PROVE  ValueBody(mem, f, d) \in R /\ ValueBody(mem, f, d) = ValueBody(mem, g, d)
  <2>0. Len(d) \in Nat
    BY DEF TokenSeqs
  <2>1. CASE Root(d) # {}
    <3>1. PICK i \in Root(d) : i = CHOOSE j \in Root(d) : TRUE
      BY <2>1
    <3>2. i \in 2 .. Len(d) - 1 /\ Kind(d, i) \in Operators
      BY RootPlace
    <3>3. Upto(d, i - 1) \in D /\ Len(Upto(d, i - 1)) < Len(d)
      BY <2>0, <3>2, Parts DEF Upto
    <3>4. From(d, i + 1) \in D /\ Len(From(d, i + 1)) < Len(d)
      BY <2>0, <3>2, Parts DEF From
    <3>5. /\ f[Upto(d, i - 1)] = g[Upto(d, i - 1)] /\ f[From(d, i + 1)] = g[From(d, i + 1)]
          /\ f[Upto(d, i - 1)] \in R /\ f[From(d, i + 1)] \in R
      BY <1>2, <3>3, <3>4
    <3>6. ValueBody(mem, f, d) = Results(Kind(d, i), f[Upto(d, i - 1)], f[From(d, i + 1)])
      BY <2>1, <3>1, Zenon DEF ValueBody
    <3>7. ValueBody(mem, g, d) = Results(Kind(d, i), g[Upto(d, i - 1)], g[From(d, i + 1)])
      BY <2>1, <3>1, Zenon DEF ValueBody
    <3>. QED  BY <3>2, <3>5, <3>6, <3>7, ResultsType
  <2>2. CASE Root(d) = {} /\ d = <<>>
    BY <2>2 DEF ValueBody
  <2>3. CASE Root(d) = {} /\ d # <<>>
    <3>1. Len(d) > 0 /\ 1 \in 1 .. Len(d)
      BY <2>0, <2>3 DEF TokenSeqs
    <3>2. Inner(d) \in D /\ Len(Inner(d)) < Len(d)
      <4>1. Len(d) - 1 \in Int /\ Len(d) - 1 <= Len(d)
        BY <2>0
      <4>. QED  BY <2>0, <3>1, <4>1, Parts DEF Inner
    <3>3. f[Inner(d)] \in R /\ f[Inner(d)] = g[Inner(d)]
      BY <1>2, <3>2
    <3>4. /\ Kind(d, 1) = "INTEGER" => {d[1].val} \in R
          /\ Kind(d, 1) = "VARIABLE" => {mem[d[1].val]} \in R
      BY <3>1, WordKinds DEF Memories
    <3>. QED  BY <2>3, <3>3, <3>4 DEF ValueBody
  <2>. QED  BY <2>1, <2>2, <2>3
<1>3. Eqn \in [D -> [[D -> R] -> R]]
  <2>1. ASSUME NEW d \in D, NEW f \in [D -> R] PROVE ValueBody(mem, f, d) \in R
    BY <1>2
  <2>. QED  BY <2>1
<1>4. PICK h \in [D -> R] : \A d \in D : h[d] = Eqn[d][h]
  <2>1. ASSUME NEW d \in D, NEW f \in [D -> R], NEW g \in [D -> R],
               \A e \in D : len[e] < len[d] => f[e] = g[e]
        PROVE  Eqn[d][f] = Eqn[d][g]
    <3>1. ValueBody(mem, f, d) = ValueBody(mem, g, d)
      BY <1>2, <2>1
    <3>. QED  BY <3>1
  <2>2. WellFounded(D, R, len, Eqn)
    <3>1. R # {}
      OBVIOUS
    <3>. HIDE DEF D, R, len, Eqn
    <3>. QED  BY <1>1, <1>3, <2>1, <3>1 DEF WellFounded
  <2>3. Solved(D, R, Eqn)
    BY <2>2, Recursion, Zenon
  <2>. QED  BY <2>3, Zenon DEF Solved
<1>5. h = [d \in D |-> ValueBody(mem, h, d)]
  BY <1>4
<1>6. Value(mem) = [d \in D |-> ValueBody(mem, Value(mem), d)]
  BY <1>5, Zenon DEF Value, ValueBody
<1>7. Value(mem) = h
  <2>. DEFINE V == Value(mem)
              B == {d \in D : V[d] # h[d]}
              T == {len[d] : d \in B}
  <2>1. SUFFICES ASSUME B # {} PROVE FALSE
    <3>1. \A d \in D : V[d] = h[d]
      BY <2>1
    <3>2. ValueBody(mem, V, s) = ValueBody(mem, V, s) /\ V = [d \in D |-> V[d]]
      BY <1>6
    <3>. QED  BY <3>1, <3>2
  <2>2. PICK d \in B : \A e \in B : Len(d) <= Len(e)
    <3>1. T \in SUBSET Nat /\ T # {}
      BY <1>1, <2>1
    <3>2. PICK m \in T : \A j \in T : m <= j
      <4>. HIDE DEF T
      <4>. QED  BY <3>1, LeastOf
    <3>. QED  BY <3>2
  <2>3. ASSUME NEW e \in D, Len(e) < Len(d) PROVE h[e] \in R /\ h[e] = V[e]
    <3>1. Len(e) \in Nat /\ Len(d) \in Nat
      BY DEF TokenSeqs
    <3>. QED  BY <2>2, <2>3, <3>1
  <2>4. ValueBody(mem, h, d) = ValueBody(mem, V, d)
    BY <1>2, <2>3
  <2>5. h[d] = ValueBody(mem, h, d) /\ V[d] = ValueBody(mem, V, d)
    BY <1>5, <1>6, Zenon
  <2>. QED  BY <2>2, <2>4, <2>5
<1>. QED  BY <1>5, <1>7

\* LastBreak() is what its name says.
LEMMA BreakPlace ==
    ASSUME NEW s, NEW n \in Nat
    PROVE  /\ LastBreak(s, n) \in 0 .. n
           /\ LastBreak(s, n) = 0 \/ Kind(s, LastBreak(s, n)) = "nl"
           /\ \A j \in LastBreak(s, n) + 1 .. n : Kind(s, j) # "nl"
<1>. DEFINE P(i) == (i = 0 \/ Kind(s, i) = "nl") /\ \A j \in i + 1 .. n : Kind(s, j) # "nl"
            T == {k \in 0 .. n : n - k = 0 \/ Kind(s, n - k) = "nl"}
<1>1. T \in SUBSET Nat /\ n \in T
  OBVIOUS
<1>2. PICK m \in T : \A k \in T : m <= k
  <2>. HIDE DEF T
  <2>. QED  BY <1>1, LeastOf
<1>3. m \in 0 .. n /\ n - m \in 0 .. n
  BY <1>2
<1>4. ASSUME NEW j \in (n - m) + 1 .. n PROVE Kind(s, j) # "nl"
  <2>1. n - j \in 0 .. n /\ n - (n - j) = j /\ ~(m <= n - j)
    BY <1>3
  <2>2. n - j \notin T
    BY <1>2, <2>1
  <2>. QED  BY <2>1, <2>2
<1>5. P(n - m)
  BY <1>2, <1>4
<1>6. LastBreak(s, n) = CHOOSE i \in 0 .. n : P(i)
  BY Zenon DEF LastBreak
<1>. HIDE DEF P
<1>7. LastBreak(s, n) \in 0 .. n /\ P(LastBreak(s, n))
  BY <1>3, <1>5, <1>6
<1>. QED  BY <1>7 DEF P

\* There is only one last newline.
LEMMA BreakIs ==
    ASSUME NEW s, NEW n \in Nat, NEW b \in 0 .. n, b = 0 \/ Kind(s, b) = "nl",
           \A j \in b + 1 .. n : Kind(s, j) # "nl"
    PROVE  LastBreak(s, n) = b
<1>. DEFINE c == LastBreak(s, n)
<1>1. /\ c \in 0 .. n /\ (c = 0 \/ Kind(s, c) = "nl")
      /\ \A j \in c + 1 .. n : Kind(s, j) # "nl"
  BY BreakPlace, Zenon
<1>. HIDE DEF c
<1>2. CASE b < c
  BY <1>1, <1>2
<1>3. CASE c < b
  BY <1>1, <1>3
<1>. QED  BY <1>1, <1>2, <1>3 DEF c

\* What a line does to a state is a state.
LEMMA DoType ==
    ASSUME NEW line \in TokenSeqs, NEW st \in Outcomes
    PROVE  Do(line, st) \in Outcomes
<1>1. CASE Executable(line) = {}
  BY <1>1 DEF Do
<1>2. CASE Executable(line) # {}
  <2>. DEFINE k == CHOOSE k \in Executable(line) : TRUE
              s == Upto(line, k)
              e == IF IsExpr[s] THEN s ELSE From(s, 3)
              v == Value(st.sym)[e]
              x == CHOOSE x \in v : TRUE
  <2>0. Len(line) \in Nat
    BY DEF TokenSeqs
  <2>1. k \in 1 .. Len(line) - 1 /\ IsStatement(s)
    <3>1. k \in Executable(line)
      BY <1>2
    <3>. HIDE DEF k
    <3>. QED  BY <3>1 DEF Executable
  <2>. HIDE DEF k
  <2>2. s \in TokenSeqs /\ Len(s) = k
    BY <2>0, <2>1, UptoIs
  <2>3. ~IsExpr[s] => Len(s) >= 3 /\ Kind(s, 1) = "VARIABLE"
    BY <2>1 DEF IsStatement, IsAssignment
  <2>. HIDE DEF s
  <2>4. e \in TokenSeqs
    <3>1. CASE IsExpr[s]
      BY <2>2, <3>1
    <3>2. CASE ~IsExpr[s]
      <4>1. From(s, 3) \in TokenSeqs
        BY <2>0, <2>1, <2>2, <2>3, <3>2, Parts DEF From
      <4>. QED  BY <3>2, <4>1
    <3>. QED  BY <3>1, <3>2
  <2>5. ~IsExpr[s] => s[1].val \in Vars
    <3>1. SUFFICES ASSUME ~IsExpr[s] PROVE s[1].val \in Vars
      OBVIOUS
    <3>2. 1 \in 1 .. Len(s) /\ Kind(s, 1) = "VARIABLE"
      BY <2>2, <2>0, <2>1, <2>3, <3>1
    <3>. QED  BY <2>2, <3>2, WordKinds
  <2>6. /\ st.printed \in Seq(Int) /\ st.sym \in Memories /\ st.trapped \in BOOLEAN
        /\ st = [printed |-> st.printed, sym |-> st.sym, trapped |-> st.trapped]
    BY DEF Outcomes
  <2>. HIDE DEF e
  <2>7. v \in SUBSET Int
    BY <2>4, <2>6, ValueUnrolls
  <2>. HIDE DEF v
  <2>8. Do(line, st) =
          IF v = {} THEN [st EXCEPT !.trapped = TRUE]
          ELSE IF IsExpr[s] THEN [st EXCEPT !.printed = Append(@, x)]
          ELSE [st EXCEPT !.sym[s[1].val] = x]
    BY <1>2, Zenon DEF Do, k, s, e, v
  <2>9. v # {} => x \in Int
    BY <2>7
  <2>. HIDE DEF x
  <2>10. CASE v = {}
    BY <2>6, <2>8, <2>10 DEF Outcomes
  <2>11. CASE v # {} /\ IsExpr[s]
    <3>1. Append(st.printed, x) \in Seq(Int)
      BY <2>6, <2>9, <2>11
    <3>. QED  BY <2>6, <2>8, <2>11, <3>1 DEF Outcomes
  <2>12. CASE v # {} /\ ~IsExpr[s]
    <3>1. [st.sym EXCEPT ![s[1].val] = x] \in Memories
      BY <2>5, <2>6, <2>9, <2>12 DEF Memories
    <3>. QED  BY <2>6, <2>8, <2>12, <3>1 DEF Outcomes
  <2>. QED  BY <2>10, <2>11, <2>12
<1>. QED  BY <1>1, <1>2

\* What the lines do, given what the lines before the last do.
Start == [printed |-> <<>>, sym |-> [v \in Vars |-> 0], trapped |-> FALSE]
ProgramBody(f, s) ==
    IF s = <<>> THEN Start
    ELSE LET b == LastBreak(s, Len(s) - 1)
             st == f[Upto(s, b)]
         IN IF st.trapped THEN st ELSE Do(From(s, b + 1), st)

\* Program satisfies the equation that defines it.
LEMMA ProgramUnrolls ==
    ASSUME NEW s \in TokenSeqs
    PROVE  Program[s] \in Outcomes /\ Program[s] = ProgramBody(Program, s)
<1>. DEFINE D == TokenSeqs
            R == Outcomes
            len == [d \in D |-> Len(d)]
            Eqn == [d \in D |-> [f \in [D -> R] |-> ProgramBody(f, d)]]
<1>1. len \in [D -> Nat]
  BY DEF TokenSeqs
<1>0. Start \in Outcomes
  <2>1. [v \in Vars |-> 0] \in Memories /\ <<>> \in Seq(Int)
    BY DEF Memories
  <2>. QED  BY <2>1 DEF Start, Outcomes
<1>2. ASSUME NEW d \in D, NEW f, NEW g,
             \A e \in D : Len(e) < Len(d) => f[e] \in R /\ f[e] = g[e]
      PROVE  ProgramBody(f, d) \in R /\ ProgramBody(f, d) = ProgramBody(g, d)
  <2>1. CASE d = <<>>
    BY <1>0, <2>1 DEF ProgramBody
  <2>2. CASE d # <<>>
    <3>. DEFINE b == LastBreak(d, Len(d) - 1)
    <3>1. Len(d) \in Nat /\ Len(d) - 1 \in Nat
      BY <2>2 DEF TokenSeqs
    <3>2. b \in 0 .. Len(d) - 1
      BY <3>1, BreakPlace, Zenon
    <3>. HIDE DEF b
    <3>3. b \in 0 .. Len(d)
      BY <3>1, <3>2
    <3>4. Upto(d, b) \in D /\ Len(Upto(d, b)) < Len(d)
      BY <3>1, <3>2, <3>3, UptoIs
    <3>5. f[Upto(d, b)] \in R /\ f[Upto(d, b)] = g[Upto(d, b)]
      BY <1>2, <3>4
    <3>6. From(d, b + 1) \in D
      BY <3>3, FromIs
    <3>7. Do(From(d, b + 1), f[Upto(d, b)]) \in Outcomes
      BY <3>5, <3>6, DoType
    <3>8. ASSUME NEW h
          PROVE  ProgramBody(h, d) = IF h[Upto(d, b)].trapped THEN h[Upto(d, b)]
                                     ELSE Do(From(d, b + 1), h[Upto(d, b)])
      BY <2>2, Zenon DEF ProgramBody, b
    <3>. QED  BY <3>5, <3>7, <3>8
  <2>. QED  BY <2>1, <2>2
<1>3. Eqn \in [D -> [[D -> R] -> R]]
  <2>1. ASSUME NEW d \in D, NEW f \in [D -> R] PROVE ProgramBody(f, d) \in R
    BY <1>2
  <2>. QED  BY <2>1
<1>4. PICK h \in [D -> R] : \A d \in D : h[d] = Eqn[d][h]
  <2>1. ASSUME NEW d \in D, NEW f \in [D -> R], NEW g \in [D -> R],
               \A e \in D : len[e] < len[d] => f[e] = g[e]
        PROVE  Eqn[d][f] = Eqn[d][g]
    <3>1. ProgramBody(f, d) = ProgramBody(g, d)
      BY <1>2, <2>1
    <3>. QED  BY <3>1
  <2>2. WellFounded(D, R, len, Eqn)
    <3>1. R # {}
      BY <1>0
    <3>. HIDE DEF D, R, len, Eqn
    <3>. QED  BY <1>1, <1>3, <2>1, <3>1 DEF WellFounded
  <2>3. Solved(D, R, Eqn)
    BY <2>2, Recursion, Zenon
  <2>. QED  BY <2>3, Zenon DEF Solved
<1>5. h = [d \in D |-> ProgramBody(h, d)]
  BY <1>4
<1>6. Program = [d \in D |-> ProgramBody(Program, d)]
  BY <1>5, Zenon DEF Program, ProgramBody, Start
<1>7. Program = h
  <2>. DEFINE B == {d \in D : Program[d] # h[d]}
              T == {len[d] : d \in B}
  <2>1. SUFFICES ASSUME B # {} PROVE FALSE
    <3>1. \A d \in D : Program[d] = h[d]
      BY <2>1
    <3>2. Program = [d \in D |-> Program[d]]
      BY <1>6
    <3>. QED  BY <3>1, <3>2
  <2>2. PICK d \in B : \A e \in B : Len(d) <= Len(e)
    <3>1. T \in SUBSET Nat /\ T # {}
      BY <1>1, <2>1
    <3>2. PICK m \in T : \A j \in T : m <= j
      <4>. HIDE DEF T
      <4>. QED  BY <3>1, LeastOf
    <3>. QED  BY <3>2
  <2>3. ASSUME NEW e \in D, Len(e) < Len(d) PROVE h[e] \in R /\ h[e] = Program[e]
    <3>1. Len(e) \in Nat /\ Len(d) \in Nat
      BY DEF TokenSeqs
    <3>. QED  BY <2>2, <2>3, <3>1
  <2>4. ProgramBody(h, d) = ProgramBody(Program, d)
    BY <1>2, <2>3
  <2>5. h[d] = ProgramBody(h, d) /\ Program[d] = ProgramBody(Program, d)
    BY <1>5, <1>6, Zenon
  <2>. QED  BY <2>2, <2>4, <2>5
<1>. QED  BY <1>5, <1>7

-----------------------------------------------------------------------------
(* 11. Expressions, whole and partial, without recursion. *)

\* The kinds an operand begins and ends with, and which may follow each other.
Begins == {"INTEGER", "VARIABLE", "("}
Ends == {"INTEGER", "VARIABLE", ")"}
Fits(a, b) ==
    \/ a \in Ends /\ b \in Operators \cup {")"}
    \/ a \in Operators \cup {"("} /\ b \in Begins

\* Expressions without recursion: what follows what, and where parentheses close.  A
\* partial one may yet become an expression.
Partial(s) ==
    /\ Len(s) > 0 => Kind(s, 1) \in Begins
    /\ \A i \in 1 .. Len(s) - 1 : Fits(Kind(s, i), Kind(s, i + 1))
    /\ \A i \in 0 .. Len(s) : Depth(s, i) >= 0
Flat(s) == Partial(s) /\ Len(s) > 0 /\ Kind(s, Len(s)) \in Ends /\ Depth(s, Len(s)) = 0

\* The first n tokens of t are those behind the first a of s.
IsPart(s, a, t, n) == \A j \in 1 .. n : t[j] = s[a + j]

\* The nesting within a part of a sequence.
LEMMA DepthPart ==
    ASSUME NEW s, NEW t, NEW a \in Nat, NEW n \in Nat, IsPart(s, a, t, n)
    PROVE  /\ Depth(t, n) = Depth(s, a + n) - Depth(s, a)
           /\ Depth(t, n) \in Int /\ Depth(s, a + n) \in Int /\ Depth(s, a) \in Int
<1>. DEFINE Good(k) == Depth(t, k) = Depth(s, a + k) - Depth(s, a)
            T == {k \in 0 .. n : ~Good(k)}
<1>0. \A k \in Nat : Depth(t, k) \in Int /\ Depth(s, k) \in Int /\ a + k \in Nat
  BY DepthNext
<1>1. SUFFICES ASSUME T # {} PROVE FALSE
  BY <1>0
<1>2. T \in SUBSET Nat
  OBVIOUS
<1>3. PICK m \in T : \A j \in T : m <= j
  <2>. HIDE DEF T
  <2>. QED  BY <1>1, <1>2, LeastOf
<1>4. m \in 0 .. n /\ ~Good(m)
  BY <1>3
<1>5. m # 0
  <2>1. a + 0 = a /\ Depth(s, a) \in Int
    BY <1>0
  <2>2. Good(0)
    BY <2>1, DepthNone
  <2>. QED  BY <1>4, <2>2
<1>6. m - 1 \in 0 .. n /\ m - 1 \in Nat /\ ~(m <= m - 1) /\ (m - 1) + 1 = m
      /\ m \in 1 .. n /\ a + (m - 1) \in Nat /\ (a + (m - 1)) + 1 = a + m
  BY <1>4, <1>5
<1>7. Good(m - 1)
  BY <1>3, <1>6
<1>8. t[m] = s[a + m]
  BY <1>6 DEF IsPart
<1>9. Depth(t, m) = Depth(t, m - 1) + IF t[m].kind = "(" THEN 1
                                      ELSE IF t[m].kind = ")" THEN -1 ELSE 0
  BY <1>6, DepthNext
<1>10. Depth(s, a + m) = Depth(s, a + (m - 1)) + IF s[a + m].kind = "(" THEN 1
                                               ELSE IF s[a + m].kind = ")" THEN -1 ELSE 0
  BY <1>6, DepthNext
<1>11. /\ Depth(t, m - 1) \in Int /\ Depth(s, a + (m - 1)) \in Int /\ Depth(s, a) \in Int
       /\ Depth(t, m) \in Int /\ Depth(s, a + m) \in Int
  BY <1>0, <1>6
<1>. HIDE DEF T
<1>. QED  BY <1>4, <1>7, <1>8, <1>9, <1>10, <1>11

\* How one token changes the nesting.
LEMMA DepthStep ==
    ASSUME NEW s, NEW i \in Nat, i > 0
    PROVE  /\ Depth(s, i) \in Int /\ Depth(s, i - 1) \in Int
           /\ Kind(s, i) = "(" => Depth(s, i) = Depth(s, i - 1) + 1
           /\ Kind(s, i) = ")" => Depth(s, i) = Depth(s, i - 1) - 1
           /\ Kind(s, i) \notin {"(", ")"} => Depth(s, i) = Depth(s, i - 1)
<1>1. i - 1 \in Nat /\ (i - 1) + 1 = i
  OBVIOUS
<1>2. /\ Depth(s, i - 1) \in Int /\ Depth(s, i) \in Int
      /\ Depth(s, i) = Depth(s, i - 1) + IF s[i].kind = "(" THEN 1
                                         ELSE IF s[i].kind = ")" THEN -1 ELSE 0
  BY <1>1, DepthNext
<1>. QED  BY <1>2 DEF Kind

\* An operand alone is flat.
LEMMA OperandFlat ==
    ASSUME NEW s \in TokenSeqs, Len(s) = 1, Kind(s, 1) \in {"INTEGER", "VARIABLE"}
    PROVE  Flat(s)
<1>1. Depth(s, 0) = 0
  BY DepthNone
<1>2. Depth(s, 1) = Depth(s, 1 - 1)
  BY DepthStep
<1>3. \A i \in 0 .. Len(s) : i = 0 \/ i = 1
  OBVIOUS
<1>4. Depth(s, 1) = 0
  BY <1>1, <1>2
<1>. QED  BY <1>1, <1>3, <1>4 DEF Flat, Partial, Begins, Ends

\* So is an expression in parentheses.
LEMMA ParenFlat ==
    ASSUME NEW s \in TokenSeqs, Len(s) >= 3, Kind(s, 1) = "(", Kind(s, Len(s)) = ")",
           Flat(Inner(s))
    PROVE  Flat(s)
<1>. DEFINE t == Inner(s)
            n == Len(s)
<1>0. n \in Nat
  BY DEF TokenSeqs
<1>1. t \in TokenSeqs /\ Len(t) = n - 2 /\ \A i \in 1 .. n - 2 : t[i] = s[1 + i]
  BY <1>0 DEF TokenSeqs, Inner
<1>2. /\ Kind(t, 1) \in Begins /\ Kind(t, n - 2) \in Ends /\ Depth(t, n - 2) = 0
      /\ \A i \in 1 .. n - 3 : Fits(Kind(t, i), Kind(t, i + 1))
      /\ \A i \in 0 .. n - 2 : Depth(t, i) >= 0
  <2>1. Len(t) - 1 = n - 3 /\ Len(t) > 0
    BY <1>0, <1>1
  <2>. HIDE DEF t, n
  <2>2. Flat(t)
    BY DEF t
  <2>. QED  BY <1>1, <2>1, <2>2 DEF Flat, Partial
<1>. HIDE DEF t
<1>3. \A i \in 1 .. n - 2 : Kind(t, i) = Kind(s, 1 + i)
  BY <1>1 DEF Kind
<1>4. Depth(s, 0) = 0 /\ Depth(s, 1) = 1
  <2>1. Depth(s, 1) = Depth(s, 1 - 1) + 1
    BY DepthStep
  <2>. QED  BY <2>1, DepthNone
<1>5. ASSUME NEW i \in 0 .. n - 2 PROVE Depth(s, 1 + i) = Depth(t, i) + 1 /\ Depth(t, i) \in Int
  <2>1. IsPart(s, 1, t, i)
    BY <1>0, <1>1 DEF IsPart
  <2>2. Depth(t, i) = Depth(s, 1 + i) - Depth(s, 1) /\ Depth(t, i) \in Int /\ Depth(s, 1 + i) \in Int
    <3>1. i \in Nat /\ 1 \in Nat
      BY <1>0
    <3>. QED  BY <2>1, <3>1, DepthPart
  <2>. QED  BY <1>4, <2>2
<1>6. Depth(s, n) = 0
  <2>1. n - 2 \in 0 .. n - 2 /\ 1 + (n - 2) = n - 1
    BY <1>0
  <2>2. Depth(s, n - 1) = 1
    BY <1>2, <1>5, <2>1
  <2>3. Depth(s, n) = Depth(s, n - 1) - 1
    BY <1>0, DepthStep
  <2>. QED  BY <2>2, <2>3
<1>7. ASSUME NEW i \in 0 .. n PROVE Depth(s, i) >= 0
  <2>1. CASE i = 0 \/ i = n
    BY <1>4, <1>6, <2>1
  <2>2. CASE i # 0 /\ i # n
    <3>1. i - 1 \in 0 .. n - 2 /\ 1 + (i - 1) = i
      BY <1>0, <2>2
    <3>2. Depth(s, 1 + (i - 1)) = Depth(t, i - 1) + 1 /\ Depth(t, i - 1) \in Int
      BY <1>5, <3>1
    <3>3. Depth(t, i - 1) >= 0
      BY <1>2, <3>1
    <3>. QED  BY <3>1, <3>2, <3>3
  <2>. QED  BY <2>1, <2>2
<1>8. ASSUME NEW i \in 1 .. n - 1 PROVE Fits(Kind(s, i), Kind(s, i + 1))
  <2>1. CASE i = 1
    <3>1. Kind(s, 2) \in Begins
      <4>1. 1 \in 1 .. n - 2 /\ 1 + 1 = 2
        BY <1>0
      <4>. QED  BY <1>2, <1>3, <4>1
    <3>. QED  BY <2>1, <3>1 DEF Fits
  <2>2. CASE i = n - 1
    <3>1. Kind(s, n - 1) \in Ends
      <4>1. n - 2 \in 1 .. n - 2 /\ 1 + (n - 2) = n - 1
        BY <1>0
      <4>. QED  BY <1>2, <1>3, <4>1
    <3>2. i + 1 = n
      BY <1>0, <2>2
    <3>. QED  BY <2>2, <3>1, <3>2 DEF Fits
  <2>3. CASE i # 1 /\ i # n - 1
    <3>1. /\ i - 1 \in 1 .. n - 3 /\ i - 1 \in 1 .. n - 2 /\ 1 + (i - 1) = i
          /\ (i - 1) + 1 \in 1 .. n - 2 /\ 1 + ((i - 1) + 1) = i + 1
      BY <1>0, <2>3
    <3>2. Fits(Kind(t, i - 1), Kind(t, (i - 1) + 1))
      BY <1>2, <3>1
    <3>3. Kind(t, i - 1) = Kind(s, i) /\ Kind(t, (i - 1) + 1) = Kind(s, i + 1)
      BY <1>3, <3>1
    <3>. QED  BY <3>2, <3>3
  <2>. QED  BY <2>1, <2>2, <2>3
<1>. QED  BY <1>0, <1>6, <1>7, <1>8 DEF Flat, Partial, Begins, Ends

\* The parts of a sequence on both sides of place i.
LEMMA Sides ==
    ASSUME NEW s \in TokenSeqs, NEW i \in 1 .. Len(s)
    PROVE  LET u == Upto(s, i - 1)
               w == From(s, i + 1)
           IN /\ Len(s) \in Nat /\ u \in TokenSeqs /\ w \in TokenSeqs
              /\ Len(u) = i - 1 /\ Len(w) = Len(s) - i
              /\ \A j \in 1 .. i - 1 : Kind(u, j) = Kind(s, j)
              /\ \A j \in 1 .. Len(s) - i : Kind(w, j) = Kind(s, i + j)
              /\ \A j \in 0 .. i - 1 : Depth(u, j) = Depth(s, j) /\ Depth(s, j) \in Int
              /\ \A j \in 0 .. Len(s) - i :
                    /\ Depth(w, j) = Depth(s, i + j) - Depth(s, i)
                    /\ Depth(w, j) \in Int /\ Depth(s, i + j) \in Int
              /\ Depth(s, i) \in Int
<1>. DEFINE u == Upto(s, i - 1)
            w == From(s, i + 1)
<1>0. Len(s) \in Nat /\ i \in Nat /\ i - 1 \in 0 .. Len(s) /\ i \in 0 .. Len(s)
  BY DEF TokenSeqs
<1>1. u \in TokenSeqs /\ Len(u) = i - 1 /\ \A j \in 1 .. i - 1 : u[j] = s[j]
  BY <1>0, UptoIs
<1>2. w \in TokenSeqs /\ Len(w) = Len(s) - i /\ \A j \in 1 .. Len(s) - i : w[j] = s[i + j]
  BY <1>0, FromIs
<1>. HIDE DEF u, w
<1>3. ASSUME NEW j \in 0 .. i - 1 PROVE Depth(u, j) = Depth(s, j) /\ Depth(s, j) \in Int
  <2>1. IsPart(s, 0, u, j)
    <3>1. ASSUME NEW k \in 1 .. j PROVE u[k] = s[0 + k]
      <4>1. k \in 1 .. i - 1 /\ 0 + k = k
        BY <1>0
      <4>. QED  BY <1>1, <4>1
    <3>. QED  BY <3>1 DEF IsPart
  <2>2. Depth(u, j) = Depth(s, 0 + j) - Depth(s, 0) /\ Depth(s, 0 + j) \in Int
    <3>1. j \in Nat /\ 0 \in Nat
      BY <1>0
    <3>. QED  BY <2>1, <3>1, DepthPart
  <2>3. 0 + j = j
    BY <1>0
  <2>. QED  BY <2>2, <2>3, DepthNone
<1>4. ASSUME NEW j \in 0 .. Len(s) - i
      PROVE  /\ Depth(w, j) = Depth(s, i + j) - Depth(s, i)
             /\ Depth(w, j) \in Int /\ Depth(s, i + j) \in Int
  <2>1. IsPart(s, i, w, j)
    BY <1>0, <1>2 DEF IsPart
  <2>2. j \in Nat
    BY <1>0
  <2>. QED  BY <1>0, <2>1, <2>2, DepthPart
<1>5. Depth(s, i) \in Int
  BY <1>0, DepthNext
<1>6. /\ \A j \in 1 .. i - 1 : Kind(u, j) = Kind(s, j)
      /\ \A j \in 1 .. Len(s) - i : Kind(w, j) = Kind(s, i + j)
  BY <1>1, <1>2 DEF Kind
<1>7. /\ Len(s) \in Nat /\ u \in TokenSeqs /\ w \in TokenSeqs
      /\ Len(u) = i - 1 /\ Len(w) = Len(s) - i
      /\ \A j \in 1 .. i - 1 : Kind(u, j) = Kind(s, j)
      /\ \A j \in 1 .. Len(s) - i : Kind(w, j) = Kind(s, i + j)
      /\ \A j \in 0 .. i - 1 : Depth(u, j) = Depth(s, j) /\ Depth(s, j) \in Int
      /\ \A j \in 0 .. Len(s) - i :
            /\ Depth(w, j) = Depth(s, i + j) - Depth(s, i)
            /\ Depth(w, j) \in Int /\ Depth(s, i + j) \in Int
      /\ Depth(s, i) \in Int
  BY <1>0, <1>1, <1>2, <1>3, <1>4, <1>5, <1>6
<1>. QED  BY <1>7, Zenon DEF u, w

\* An operator between two flat sequences.
LEMMA JoinFlat ==
    ASSUME NEW s \in TokenSeqs, NEW i \in 2 .. Len(s) - 1, Kind(s, i) \in Operators,
           Flat(Upto(s, i - 1)), Flat(From(s, i + 1))
    PROVE  Flat(s)
<1>. DEFINE u == Upto(s, i - 1)
            w == From(s, i + 1)
            n == Len(s)
<1>0. n \in Nat /\ i \in 1 .. n
  BY DEF TokenSeqs
<1>1. /\ Len(u) = i - 1 /\ Len(w) = n - i
      /\ \A j \in 1 .. i - 1 : Kind(u, j) = Kind(s, j)
      /\ \A j \in 1 .. n - i : Kind(w, j) = Kind(s, i + j)
      /\ \A j \in 0 .. i - 1 : Depth(u, j) = Depth(s, j) /\ Depth(s, j) \in Int
      /\ \A j \in 0 .. n - i :
            /\ Depth(w, j) = Depth(s, i + j) - Depth(s, i)
            /\ Depth(w, j) \in Int /\ Depth(s, i + j) \in Int
  BY <1>0, Sides
<1>2. Flat(u) /\ Flat(w)
  OBVIOUS
<1>. HIDE DEF u, w, n
<1>3. /\ Kind(u, 1) \in Begins /\ Kind(u, i - 1) \in Ends /\ Depth(u, i - 1) = 0
      /\ \A j \in 1 .. i - 2 : Fits(Kind(u, j), Kind(u, j + 1))
      /\ \A j \in 0 .. i - 1 : Depth(u, j) >= 0
  <2>1. Len(u) - 1 = i - 2 /\ Len(u) > 0
    BY <1>0, <1>1 DEF n
  <2>. QED  BY <1>1, <1>2, <2>1 DEF Flat, Partial
<1>4. /\ Kind(w, 1) \in Begins /\ Kind(w, n - i) \in Ends /\ Depth(w, n - i) = 0
      /\ \A j \in 1 .. n - i - 1 : Fits(Kind(w, j), Kind(w, j + 1))
      /\ \A j \in 0 .. n - i : Depth(w, j) >= 0
  <2>1. Len(w) - 1 = n - i - 1 /\ Len(w) > 0
    BY <1>0, <1>1 DEF n
  <2>. QED  BY <1>1, <1>2, <2>1 DEF Flat, Partial
<1>a. i \in 2 .. n - 1
  BY DEF n
<1>5. Depth(s, i) = 0
  <2>1. Depth(s, i - 1) = 0
    <3>1. i - 1 \in 0 .. i - 1
      BY <1>a
    <3>. QED  BY <1>1, <1>3, <3>1
  <2>2. Kind(s, i) \notin {"(", ")"}
    BY DEF Operators, Additive, Multiplicative
  <2>. QED  BY <1>a, <2>1, <2>2, DepthStep
<1>6. ASSUME NEW j \in 0 .. n PROVE Depth(s, j) >= 0
  <2>1. CASE j <= i - 1
    <3>1. j \in 0 .. i - 1
      BY <1>0, <1>a, <2>1
    <3>. QED  BY <1>1, <1>3, <3>1
  <2>2. CASE j >= i
    <3>1. j - i \in 0 .. n - i /\ i + (j - i) = j
      BY <1>0, <1>a, <2>2
    <3>2. Depth(w, j - i) = Depth(s, j) - 0 /\ Depth(s, j) \in Int /\ Depth(w, j - i) >= 0
      BY <1>1, <1>4, <1>5, <3>1
    <3>. QED  BY <3>2
  <2>. QED  BY <1>0, <1>a, <2>1, <2>2
<1>7. Depth(s, n) = 0 /\ Kind(s, n) \in Ends
  <2>1. n - i \in 0 .. n - i /\ i + (n - i) = n /\ n - i \in 1 .. n - i
    BY <1>0, <1>a
  <2>2. Depth(w, n - i) = Depth(s, n) - 0 /\ Depth(s, n) \in Int /\ Depth(w, n - i) = 0
    BY <1>1, <1>4, <1>5, <2>1
  <2>. QED  BY <1>1, <1>4, <2>1, <2>2
<1>8. Kind(s, 1) \in Begins
  <2>1. 1 \in 1 .. i - 1
    BY <1>a
  <2>. QED  BY <1>1, <1>3, <2>1
<1>9. ASSUME NEW j \in 1 .. n - 1 PROVE Fits(Kind(s, j), Kind(s, j + 1))
  <2>1. CASE j <= i - 2
    <3>1. j \in 1 .. i - 2 /\ j \in 1 .. i - 1 /\ j + 1 \in 1 .. i - 1
      BY <1>0, <1>a, <2>1
    <3>. QED  BY <1>1, <1>3, <3>1
  <2>2. CASE j = i - 1
    <3>1. i - 1 \in 1 .. i - 1 /\ j + 1 = i
      BY <1>a, <2>2
    <3>2. Kind(s, j) \in Ends
      BY <1>1, <1>3, <2>2, <3>1
    <3>. QED  BY <3>1, <3>2 DEF Fits
  <2>3. CASE j = i
    <3>1. 1 \in 1 .. n - i /\ i + 1 = j + 1
      BY <1>0, <1>a, <2>3
    <3>2. Kind(s, j + 1) \in Begins
      BY <1>1, <1>4, <3>1
    <3>. QED  BY <2>3, <3>2 DEF Fits
  <2>4. CASE j > i
    <3>1. /\ j - i \in 1 .. n - i - 1 /\ j - i \in 1 .. n - i /\ (j - i) + 1 \in 1 .. n - i
          /\ i + (j - i) = j /\ i + ((j - i) + 1) = j + 1
      BY <1>0, <1>a, <2>4
    <3>2. Fits(Kind(w, j - i), Kind(w, (j - i) + 1))
      BY <1>4, <3>1
    <3>3. Kind(w, j - i) = Kind(s, j) /\ Kind(w, (j - i) + 1) = Kind(s, j + 1)
      BY <1>1, <3>1
    <3>. QED  BY <3>2, <3>3
  <2>. QED  BY <1>0, <1>a, <2>1, <2>2, <2>3, <2>4
<1>. QED  BY <1>0, <1>6, <1>7, <1>8, <1>9 DEF Flat, Partial, n

\* A flat sequence can be taken apart at an operator outside parentheses.
LEMMA SplitFlat ==
    ASSUME NEW s \in TokenSeqs, Flat(s), NEW i \in 1 .. Len(s), Kind(s, i) \in Operators,
           Depth(s, i) = 0
    PROVE  i \in 2 .. Len(s) - 1 /\ Flat(Upto(s, i - 1)) /\ Flat(From(s, i + 1))
<1>. DEFINE u == Upto(s, i - 1)
            w == From(s, i + 1)
            n == Len(s)
<1>0. n \in Nat
  BY DEF TokenSeqs
<1>1. /\ Len(u) = i - 1 /\ Len(w) = n - i
      /\ \A j \in 1 .. i - 1 : Kind(u, j) = Kind(s, j)
      /\ \A j \in 1 .. n - i : Kind(w, j) = Kind(s, i + j)
      /\ \A j \in 0 .. i - 1 : Depth(u, j) = Depth(s, j) /\ Depth(s, j) \in Int
      /\ \A j \in 0 .. n - i :
            /\ Depth(w, j) = Depth(s, i + j) - Depth(s, i)
            /\ Depth(w, j) \in Int /\ Depth(s, i + j) \in Int
  BY Sides
<1>. HIDE DEF u, w
<1>2. /\ Kind(s, 1) \in Begins /\ Kind(s, n) \in Ends /\ Depth(s, n) = 0
      /\ \A j \in 1 .. n - 1 : Fits(Kind(s, j), Kind(s, j + 1))
      /\ \A j \in 0 .. n : Depth(s, j) >= 0
  BY DEF Flat, Partial
<1>3. i # 1 /\ i # n
  BY <1>2 DEF Begins, Ends, Operators, Additive, Multiplicative
<1>a. i \in 2 .. n - 1
  BY <1>0, <1>3
<1>b. i \in 1 .. n
  OBVIOUS
<1>. HIDE DEF n
<1>4. Kind(s, i - 1) \in Ends /\ Kind(s, i + 1) \in Begins
  <2>1. i - 1 \in 1 .. n - 1 /\ i \in 1 .. n - 1 /\ (i - 1) + 1 = i
    BY <1>0, <1>a
  <2>2. Fits(Kind(s, i - 1), Kind(s, i)) /\ Fits(Kind(s, i), Kind(s, i + 1))
    BY <1>2, <2>1
  <2>. QED  BY <2>2 DEF Fits, Begins, Ends, Operators, Additive, Multiplicative
<1>5. Depth(s, i - 1) = 0
  <2>1. Kind(s, i) \notin {"(", ")"}
    BY DEF Operators, Additive, Multiplicative
  <2>. QED  BY <1>a, <2>1, DepthStep
<1>6. Flat(u)
  <2>1. Len(u) > 0 /\ Kind(u, 1) \in Begins
    <3>1. 1 \in 1 .. i - 1
      BY <1>a
    <3>. QED  BY <1>1, <1>2, <1>a, <3>1
  <2>2. Kind(u, i - 1) \in Ends
    <3>1. i - 1 \in 1 .. i - 1
      BY <1>a
    <3>. QED  BY <1>1, <1>4, <3>1
  <2>3. ASSUME NEW j \in 0 .. i - 1 PROVE Depth(u, j) >= 0
    <3>1. j \in 0 .. n
      BY <1>0, <1>a
    <3>. QED  BY <1>1, <1>2, <3>1
  <2>4. Depth(u, i - 1) = 0
    <3>1. i - 1 \in 0 .. i - 1
      BY <1>a
    <3>. QED  BY <1>1, <1>5, <3>1
  <2>5. ASSUME NEW j \in 1 .. (i - 1) - 1 PROVE Fits(Kind(u, j), Kind(u, j + 1))
    <3>1. j \in 1 .. i - 1 /\ j + 1 \in 1 .. i - 1 /\ j \in 1 .. n - 1
      BY <1>0, <1>a
    <3>. QED  BY <1>1, <1>2, <3>1
  <2>. QED  BY <1>1, <2>1, <2>2, <2>3, <2>4, <2>5 DEF Flat, Partial
<1>7. Flat(w)
  <2>1. Len(w) > 0 /\ Kind(w, 1) \in Begins
    <3>1. 1 \in 1 .. n - i
      BY <1>0, <1>a
    <3>2. Kind(w, 1) = Kind(s, i + 1)
      BY <1>1, <3>1
    <3>. QED  BY <1>0, <1>1, <1>4, <1>a, <3>2
  <2>2. Kind(w, n - i) \in Ends /\ Depth(w, n - i) = 0
    <3>1. n - i \in 1 .. n - i /\ n - i \in 0 .. n - i /\ i + (n - i) = n
      BY <1>0, <1>a
    <3>2. Kind(w, n - i) = Kind(s, n)
      BY <1>1, <3>1
    <3>3. Depth(w, n - i) = Depth(s, n) - Depth(s, i)
      BY <1>1, <3>1
    <3>. QED  BY <1>2, <3>2, <3>3
  <2>3. ASSUME NEW j \in 0 .. n - i PROVE Depth(w, j) >= 0
    <3>1. i + j \in 0 .. n
      BY <1>0, <1>a
    <3>2. Depth(w, j) = Depth(s, i + j) - 0 /\ Depth(s, i + j) \in Int
      BY <1>1
    <3>. QED  BY <1>2, <3>1, <3>2
  <2>4. ASSUME NEW j \in 1 .. (n - i) - 1 PROVE Fits(Kind(w, j), Kind(w, j + 1))
    <3>1. j \in 1 .. n - i /\ j + 1 \in 1 .. n - i /\ i + j \in 1 .. n - 1 /\ i + (j + 1) = (i + j) + 1
      BY <1>0, <1>a
    <3>2. Kind(w, j) = Kind(s, i + j) /\ Kind(w, j + 1) = Kind(s, (i + j) + 1)
      BY <1>1, <3>1
    <3>. QED  BY <1>2, <3>1, <3>2
  <2>. QED  BY <1>1, <2>1, <2>2, <2>3, <2>4 DEF Flat, Partial
<1>. QED  BY <1>6, <1>7, <1>a DEF u, w, n

\* What is in the parentheses around a flat sequence is flat.
LEMMA UnparenFlat ==
    ASSUME NEW s \in TokenSeqs, Flat(s), Kind(s, 1) = "(",
           \A j \in 1 .. Len(s) - 1 : Depth(s, j) > 0
    PROVE  Len(s) >= 3 /\ Kind(s, Len(s)) = ")" /\ Flat(Inner(s))
<1>. DEFINE t == Inner(s)
            n == Len(s)
<1>0. n \in Nat
  BY DEF TokenSeqs
<1>1. /\ n > 0 /\ Kind(s, n) \in Ends /\ Depth(s, n) = 0
      /\ \A j \in 1 .. n - 1 : Fits(Kind(s, j), Kind(s, j + 1))
      /\ \A j \in 0 .. n : Depth(s, j) >= 0
  BY DEF Flat, Partial
<1>2. Depth(s, 1) = 1
  <2>1. Depth(s, 1) = Depth(s, 1 - 1) + 1
    BY DepthStep
  <2>. QED  BY <2>1, DepthNone
<1>a. \A j \in 1 .. n - 1 : Depth(s, j) > 0
  OBVIOUS
<1>. HIDE DEF n
<1>3. n \in Nat /\ n > 1
  <2>1. n > 0 /\ n # 1
    BY <1>1, <1>2
  <2>. QED  BY <1>0, <2>1
<1>4. Kind(s, 2) \in Begins
  <2>1. 1 \in 1 .. n - 1 /\ 1 + 1 = 2
    BY <1>0, <1>1, <1>3
  <2>2. Fits(Kind(s, 1), Kind(s, 2))
    BY <1>1, <2>1
  <2>. QED  BY <2>2 DEF Fits, Ends
<1>5. Kind(s, n) = ")" /\ Depth(s, n - 1) = 1
  <2>1. n - 1 \in 1 .. n - 1 /\ n \in Nat /\ n > 0
    BY <1>0, <1>1, <1>3
  <2>2. Depth(s, n - 1) > 0
    BY <1>a, <2>1
  <2>3. Depth(s, n) = 0 /\ Kind(s, n) \in {"INTEGER", "VARIABLE", ")"}
    BY <1>1 DEF Ends
  <2>4. /\ Depth(s, n - 1) \in Int
        /\ Kind(s, n) = ")" => Depth(s, n) = Depth(s, n - 1) - 1
        /\ Kind(s, n) \notin {"(", ")"} => Depth(s, n) = Depth(s, n - 1)
    BY <2>1, DepthStep
  <2>. QED  BY <2>2, <2>3, <2>4
<1>6. n # 2
  BY <1>4, <1>5 DEF Begins
<1>7. n >= 3
  BY <1>3, <1>6
<1>8. t \in TokenSeqs /\ Len(t) = n - 2 /\ \A i \in 1 .. n - 2 : t[i] = s[1 + i]
  BY <1>0, <1>7 DEF TokenSeqs, Inner, n
<1>. HIDE DEF t
<1>9. \A i \in 1 .. n - 2 : Kind(t, i) = Kind(s, 1 + i)
  BY <1>8 DEF Kind
<1>10. ASSUME NEW i \in 0 .. n - 2
       PROVE  Depth(t, i) = Depth(s, 1 + i) - 1 /\ Depth(s, 1 + i) \in Int
  <2>1. IsPart(s, 1, t, i)
    BY <1>0, <1>8 DEF IsPart
  <2>2. i \in Nat /\ 1 \in Nat
    BY <1>0
  <2>. QED  BY <1>2, <2>1, <2>2, DepthPart
<1>11. Kind(t, 1) \in Begins
  <2>1. 1 \in 1 .. n - 2 /\ 1 + 1 = 2
    BY <1>0, <1>7
  <2>. QED  BY <1>4, <1>9, <2>1
<1>12. Kind(t, n - 2) \in Ends /\ Depth(t, n - 2) = 0
  <2>1. n - 2 \in 1 .. n - 2 /\ n - 2 \in 0 .. n - 2 /\ 1 + (n - 2) = n - 1
        /\ n - 1 \in 1 .. n - 1 /\ (n - 1) + 1 = n
    BY <1>0, <1>7
  <2>2. Fits(Kind(s, n - 1), Kind(s, n))
    BY <1>1, <2>1
  <2>3. Kind(s, n - 1) \in Ends
    BY <1>5, <2>2 DEF Fits, Begins
  <2>4. Kind(t, n - 2) = Kind(s, n - 1)
    BY <1>9, <2>1
  <2>5. Depth(t, n - 2) = Depth(s, n - 1) - 1
    BY <1>10, <2>1
  <2>. QED  BY <1>5, <2>3, <2>4, <2>5
<1>13. ASSUME NEW i \in 0 .. n - 2 PROVE Depth(t, i) >= 0
  <2>1. 1 + i \in 1 .. n - 1
    BY <1>0
  <2>2. Depth(s, 1 + i) > 0
    BY <1>a, <2>1
  <2>. QED  BY <1>10, <2>2
<1>14. ASSUME NEW i \in 1 .. (n - 2) - 1 PROVE Fits(Kind(t, i), Kind(t, i + 1))
  <2>1. i \in 1 .. n - 2 /\ i + 1 \in 1 .. n - 2 /\ 1 + i \in 1 .. n - 1 /\ 1 + (i + 1) = (1 + i) + 1
    BY <1>0
  <2>2. Kind(t, i) = Kind(s, 1 + i) /\ Kind(t, i + 1) = Kind(s, (1 + i) + 1)
    BY <1>9, <2>1
  <2>. QED  BY <1>1, <2>1, <2>2
<1>15. Flat(t)
  <2>1. Len(t) > 0
    BY <1>0, <1>7, <1>8
  <2>. QED  BY <1>8, <1>11, <1>12, <1>13, <1>14, <2>1 DEF Flat, Partial
<1>. QED  BY <1>5, <1>7, <1>15 DEF t, n

\* A shortest member of a set of sequences.
LEMMA Shortest ==
    ASSUME NEW B \in SUBSET TokenSeqs, B # {}
    PROVE  \E s \in B : \A t \in B : Len(s) <= Len(t)
<1>. DEFINE T == {Len(s) : s \in B}
<1>1. T \in SUBSET Nat /\ T # {}
  <2>1. \A s \in B : Len(s) \in Nat
    BY DEF TokenSeqs
  <2>. QED  BY <2>1
<1>2. PICK m \in T : \A j \in T : m <= j
  <2>. HIDE DEF T
  <2>. QED  BY <1>1, LeastOf
<1>. QED  BY <1>2

\* The expressions of the grammar are the flat sequences.
LEMMA ExprIsFlat == ASSUME NEW s \in TokenSeqs, IsExpr[s] PROVE Flat(s)
<1>. DEFINE B == {t \in TokenSeqs : IsExpr[t] /\ ~Flat(t)}
<1>1. SUFFICES ASSUME B # {} PROVE FALSE
  OBVIOUS
<1>2. PICK t \in B : \A r \in B : Len(t) <= Len(r)
  <2>1. B \in SUBSET TokenSeqs
    OBVIOUS
  <2>. HIDE DEF B
  <2>. QED  BY <1>1, <2>1, Shortest
<1>3. t \in TokenSeqs /\ IsExpr[t] /\ ~Flat(t) /\ Len(t) \in Nat
  BY <1>2 DEF TokenSeqs
<1>4. ASSUME NEW r \in TokenSeqs, IsExpr[r], Len(r) < Len(t) PROVE Flat(r)
  <2>1. Len(r) \in Nat
    BY DEF TokenSeqs
  <2>. QED  BY <1>2, <1>3, <1>4, <2>1
<1>5. ExprBody(IsExpr, t)
  BY <1>3, ExprUnrolls
<1>6. CASE Len(t) = 1 /\ Kind(t, 1) \in {"INTEGER", "VARIABLE"}
  BY <1>3, <1>6, OperandFlat
<1>7. CASE Len(t) >= 3 /\ Kind(t, 1) = "(" /\ Kind(t, Len(t)) = ")" /\ IsExpr[Inner(t)]
  <2>1. Inner(t) \in TokenSeqs /\ Len(Inner(t)) < Len(t)
    BY <1>3, <1>7 DEF TokenSeqs, Inner
  <2>2. Flat(Inner(t))
    BY <1>4, <1>7, <2>1
  <2>. QED  BY <1>3, <1>7, <2>2, ParenFlat
<1>8. CASE \E i \in 2 .. Len(t) - 1 :
              Kind(t, i) \in Operators /\ IsExpr[Upto(t, i - 1)] /\ IsExpr[From(t, i + 1)]
  <2>1. PICK i \in 2 .. Len(t) - 1 :
              Kind(t, i) \in Operators /\ IsExpr[Upto(t, i - 1)] /\ IsExpr[From(t, i + 1)]
    BY <1>8
  <2>2. i \in 1 .. Len(t)
    BY <1>3
  <2>3. /\ Upto(t, i - 1) \in TokenSeqs /\ Len(Upto(t, i - 1)) = i - 1
        /\ From(t, i + 1) \in TokenSeqs /\ Len(From(t, i + 1)) = Len(t) - i
    BY <1>3, <2>2, Sides
  <2>4. i - 1 < Len(t) /\ Len(t) - i < Len(t)
    BY <1>3
  <2>5. Flat(Upto(t, i - 1)) /\ Flat(From(t, i + 1))
    BY <1>4, <2>1, <2>3, <2>4
  <2>. QED  BY <1>3, <2>1, <2>5, JoinFlat
<1>. QED  BY <1>5, <1>6, <1>7, <1>8 DEF ExprBody

\* And conversely.
LEMMA FlatIsExpr == ASSUME NEW s \in TokenSeqs, Flat(s) PROVE IsExpr[s]
<1>. DEFINE B == {t \in TokenSeqs : Flat(t) /\ ~IsExpr[t]}
<1>1. SUFFICES ASSUME B # {} PROVE FALSE
  OBVIOUS
<1>2. PICK t \in B : \A r \in B : Len(t) <= Len(r)
  <2>1. B \in SUBSET TokenSeqs
    OBVIOUS
  <2>. HIDE DEF B
  <2>. QED  BY <1>1, <2>1, Shortest
<1>3. t \in TokenSeqs /\ ~IsExpr[t] /\ Flat(t) /\ Len(t) \in Nat
  BY <1>2 DEF TokenSeqs
<1>4. ASSUME NEW r \in TokenSeqs, Flat(r), Len(r) < Len(t) PROVE IsExpr[r]
  <2>1. Len(r) \in Nat
    BY DEF TokenSeqs
  <2>. QED  BY <1>2, <1>3, <1>4, <2>1
<1>5. ~ExprBody(IsExpr, t)
  BY <1>3, ExprUnrolls
<1>6. ASSUME NEW i \in 1 .. Len(t), Kind(t, i) \in Operators, Depth(t, i) = 0 PROVE FALSE
  <2>1. i \in 2 .. Len(t) - 1 /\ Flat(Upto(t, i - 1)) /\ Flat(From(t, i + 1))
    BY <1>3, <1>6, SplitFlat
  <2>3. /\ Upto(t, i - 1) \in TokenSeqs /\ Len(Upto(t, i - 1)) = i - 1
        /\ From(t, i + 1) \in TokenSeqs /\ Len(From(t, i + 1)) = Len(t) - i
    BY <1>3, Sides
  <2>4. i - 1 < Len(t) /\ Len(t) - i < Len(t)
    BY <1>3
  <2>5. IsExpr[Upto(t, i - 1)] /\ IsExpr[From(t, i + 1)]
    BY <1>4, <2>1, <2>3, <2>4
  <2>. QED  BY <1>5, <1>6, <2>1, <2>5 DEF ExprBody
<1>7. /\ Len(t) > 0 /\ Kind(t, 1) \in Begins /\ Kind(t, Len(t)) \in Ends /\ Depth(t, Len(t)) = 0
      /\ \A j \in 1 .. Len(t) - 1 : Fits(Kind(t, j), Kind(t, j + 1))
      /\ \A j \in 0 .. Len(t) : Depth(t, j) >= 0
  BY <1>3 DEF Flat, Partial
\* A token that closes the nesting before the end would be followed by an operator.
<1>8. ASSUME NEW m \in 1 .. Len(t) - 1, Depth(t, m) = 0, Kind(t, m) \in Ends PROVE FALSE
  <2>1. Fits(Kind(t, m), Kind(t, m + 1)) /\ m + 1 \in 1 .. Len(t) /\ m + 1 \in Nat /\ m + 1 > 0
        /\ (m + 1) - 1 = m
    BY <1>3, <1>7
  <2>2. Kind(t, m + 1) \in Operators \cup {")"}
    BY <1>8, <2>1 DEF Fits, Ends, Operators, Additive, Multiplicative
  <2>3. Kind(t, m + 1) # ")"
    <3>1. Depth(t, m + 1) >= 0
      BY <1>3, <1>7, <2>1
    <3>2. Kind(t, m + 1) = ")" => Depth(t, m + 1) = 0 - 1
      BY <1>8, <2>1, DepthStep
    <3>. QED  BY <3>1, <3>2
  <2>4. Kind(t, m + 1) \in Operators /\ Kind(t, m + 1) \notin {"(", ")"}
    BY <2>2, <2>3 DEF Operators, Additive, Multiplicative
  <2>5. Depth(t, m + 1) = 0
    BY <1>8, <2>1, <2>4, DepthStep
  <2>. QED  BY <1>6, <2>1, <2>4, <2>5
<1>9. CASE Kind(t, 1) # "("
  <2>1. Kind(t, 1) \in {"INTEGER", "VARIABLE"}
    BY <1>7, <1>9 DEF Begins
  <2>2. Len(t) # 1
    BY <1>5, <2>1 DEF ExprBody
  <2>3. Depth(t, 1) = 0
    <3>1. Depth(t, 1) = Depth(t, 1 - 1)
      BY <2>1, DepthStep
    <3>. QED  BY <3>1, DepthNone
  <2>4. 1 \in 1 .. Len(t) - 1 /\ Kind(t, 1) \in Ends
    <3>0. PICK n \in Nat : n = Len(t)
      BY <1>3
    <3>a. n > 0 /\ n # 1
      BY <1>7, <2>2, <3>0
    <3>1. Len(t) > 1
      BY <3>0, <3>a
    <3>. QED  BY <1>3, <2>1, <3>1 DEF Ends
  <2>. QED  BY <1>8, <2>3, <2>4
<1>10. CASE Kind(t, 1) = "(" /\ \A j \in 1 .. Len(t) - 1 : Depth(t, j) > 0
  <2>1. Len(t) >= 3 /\ Kind(t, Len(t)) = ")" /\ Flat(Inner(t))
    BY <1>3, <1>10, UnparenFlat
  <2>2. Inner(t) \in TokenSeqs /\ Len(Inner(t)) < Len(t)
    BY <1>3, <2>1 DEF TokenSeqs, Inner
  <2>3. IsExpr[Inner(t)]
    BY <1>4, <2>1, <2>2
  <2>. QED  BY <1>5, <1>10, <2>1, <2>3 DEF ExprBody
<1>11. CASE Kind(t, 1) = "(" /\ \E j \in 1 .. Len(t) - 1 : ~(Depth(t, j) > 0)
  <2>. DEFINE T == {j \in 1 .. Len(t) - 1 : ~(Depth(t, j) > 0)}
  <2>1. T \in SUBSET Nat /\ T # {}
    BY <1>3, <1>11
  <2>2. PICK m \in T : \A j \in T : m <= j
    <3>. HIDE DEF T
    <3>. QED  BY <2>1, LeastOf
  <2>3. m \in 1 .. Len(t) - 1 /\ m \in 0 .. Len(t) /\ m \in Nat /\ m > 0
    BY <1>3, <2>2
  <2>4. Depth(t, m) = 0
    <3>1. Depth(t, m) >= 0 /\ ~(Depth(t, m) > 0) /\ Depth(t, m) \in Int
      BY <1>7, <2>2, <2>3, DepthNext
    <3>. QED  BY <3>1
  <2>5. Depth(t, 1) = 1
    <3>1. Depth(t, 1) = Depth(t, 1 - 1) + 1
      BY <1>11, DepthStep
    <3>. QED  BY <3>1, DepthNone
  <2>6. m # 1
    BY <2>4, <2>5
  <2>7. m - 1 \in 1 .. Len(t) - 1 /\ ~(m <= m - 1)
    BY <1>3, <2>3, <2>6
  <2>8. Depth(t, m - 1) > 0
    BY <2>2, <2>7
  <2>9. Kind(t, m) = ")"
    BY <2>3, <2>4, <2>8, DepthStep
  <2>. QED  BY <1>8, <2>3, <2>4, <2>9 DEF Ends
<1>. QED  BY <1>9, <1>10, <1>11

\* The tokens from behind place a to place b.
Cut(s, a, b) == SubSeq(s, a + 1, b)

\* What a cut consists of.
LEMMA CutIs ==
    ASSUME NEW s \in TokenSeqs, NEW b \in 0 .. Len(s), NEW a \in 0 .. b
    PROVE  /\ Cut(s, a, b) \in TokenSeqs /\ Len(Cut(s, a, b)) = b - a
           /\ \A i \in 1 .. b - a : /\ Cut(s, a, b)[i] = s[a + i]
                                    /\ Kind(Cut(s, a, b), i) = Kind(s, a + i)
           /\ \A i \in 0 .. b - a :
                 /\ Depth(Cut(s, a, b), i) = Depth(s, a + i) - Depth(s, a)
                 /\ Depth(Cut(s, a, b), i) \in Int /\ Depth(s, a + i) \in Int
           /\ Depth(s, a) \in Int
<1>. DEFINE t == Cut(s, a, b)
<1>0. a \in Nat /\ b \in Nat /\ a <= b /\ Len(s) \in Nat /\ b <= Len(s)
  BY DEF TokenSeqs
<1>1. t \in TokenSeqs /\ Len(t) = b - a /\ \A i \in 1 .. b - a : t[i] = s[a + i]
  BY <1>0 DEF TokenSeqs, Cut
<1>. HIDE DEF t
<1>2. ASSUME NEW i \in 0 .. b - a
      PROVE  Depth(t, i) = Depth(s, a + i) - Depth(s, a) /\ Depth(t, i) \in Int
             /\ Depth(s, a + i) \in Int
  <2>1. IsPart(s, a, t, i)
    BY <1>0, <1>1 DEF IsPart
  <2>2. i \in Nat
    BY <1>0
  <2>. QED  BY <1>0, <2>1, <2>2, DepthPart
<1>3. Depth(s, a) \in Int
  BY <1>0, DepthNext
<1>4. /\ t \in TokenSeqs /\ Len(t) = b - a
      /\ \A i \in 1 .. b - a : t[i] = s[a + i] /\ Kind(t, i) = Kind(s, a + i)
  BY <1>1 DEF Kind
<1>. QED  BY <1>2, <1>3, <1>4 DEF t

\* Sequences with the same tokens are the same.
LEMMA SameTokens ==
    ASSUME NEW s \in TokenSeqs, NEW t \in TokenSeqs, Len(s) = Len(t), IsPart(s, 0, t, Len(t))
    PROVE  s = t
<1>1. Len(s) \in Nat /\ Len(t) = Len(s) /\ \A i \in 1 .. Len(s) : t[i] = s[0 + i] /\ 0 + i = i
  BY DEF TokenSeqs, IsPart
<1>2. \A i \in 1 .. Len(s) : s[i] = t[i]
  BY <1>1
<1>. QED  BY <1>1, <1>2 DEF TokenSeqs

\* The names the grammar has for cuts.
LEMMA CutNames ==
    ASSUME NEW s \in TokenSeqs
    PROVE  /\ \A n \in 0 .. Len(s) : Upto(s, n) = Cut(s, 0, n)
           /\ \A n \in 0 .. Len(s) : From(s, n + 1) = Cut(s, n, Len(s))
           /\ Len(s) >= 3 => Inner(s) = Cut(s, 1, Len(s) - 1) /\ From(s, 3) = Cut(s, 2, Len(s))
           /\ Upto(s, Len(s)) = s /\ Cut(s, 0, Len(s)) = s
<1>1. \A n \in 0 .. Len(s) : Upto(s, n) = Cut(s, 0, n)
  BY DEF Upto, Cut
<1>2. \A n \in 0 .. Len(s) : From(s, n + 1) = Cut(s, n, Len(s))
  BY DEF From, Cut
<1>3. Inner(s) = Cut(s, 1, Len(s) - 1) /\ From(s, 3) = Cut(s, 2, Len(s))
  BY DEF Inner, From, Cut
<1>4. Upto(s, Len(s)) = s
  BY DEF Upto, TokenSeqs
<1>5. Cut(s, 0, Len(s)) = s
  BY <1>4 DEF Upto, Cut
<1>. QED  BY <1>1, <1>2, <1>3, <1>4, <1>5

\* A cut of a cut.
LEMMA CutCut ==
    ASSUME NEW s \in TokenSeqs, NEW b \in 0 .. Len(s), NEW a \in 0 .. b,
           NEW j \in 0 .. b - a, NEW i \in 0 .. j
    PROVE  /\ Cut(Cut(s, a, b), i, j) = Cut(s, a + i, a + j)
           /\ Cut(Cut(s, a, b), i, j) \in TokenSeqs /\ Len(Cut(Cut(s, a, b), i, j)) = j - i
<1>. DEFINE t == Cut(s, a, b)
            u == Cut(t, i, j)
            w == Cut(s, a + i, a + j)
<1>0. a \in Nat /\ b \in Nat /\ i \in Nat /\ j \in Nat /\ Len(s) \in Nat
      /\ a <= b /\ i <= j /\ j <= b - a /\ b <= Len(s)
  BY DEF TokenSeqs
<1>1. t \in TokenSeqs /\ Len(t) = b - a /\ \A k \in 1 .. b - a : t[k] = s[a + k]
  BY CutIs
<1>. HIDE DEF t
<1>2. u \in TokenSeqs /\ Len(u) = j - i /\ \A k \in 1 .. j - i : u[k] = t[i + k]
  <2>1. j \in 0 .. Len(t)
    BY <1>0, <1>1
  <2>. QED  BY <1>1, <2>1, CutIs
<1>3. w \in TokenSeqs /\ Len(w) = j - i /\ \A k \in 1 .. j - i : w[k] = s[(a + i) + k]
  <2>1. PICK q \in 0 .. Len(s) : q = a + j
    BY <1>0
  <2>2. PICK p \in 0 .. q : p = a + i
    BY <1>0, <2>1
  <2>3. q - p = j - i
    BY <1>0, <2>1, <2>2
  <2>4. /\ Cut(s, p, q) \in TokenSeqs /\ Len(Cut(s, p, q)) = q - p
        /\ \A k \in 1 .. q - p : Cut(s, p, q)[k] = s[p + k]
    BY CutIs
  <2>. QED  BY <2>1, <2>2, <2>3, <2>4
<1>. HIDE DEF u, w
<1>4. ASSUME NEW k \in 1 .. j - i PROVE u[k] = w[0 + k]
  <2>1. i + k \in 1 .. b - a /\ a + (i + k) = (a + i) + k /\ 0 + k = k
    BY <1>0
  <2>. QED  BY <1>1, <1>2, <1>3, <2>1
<1>5. IsPart(w, 0, u, Len(u))
  BY <1>2, <1>4 DEF IsPart
<1>6. u = w
  BY <1>2, <1>3, <1>5, SameTokens
<1>. QED  BY <1>2, <1>6 DEF u, w, t

\* A longer input has the same beginning.
LEMMA SameBefore ==
    ASSUME NEW s \in TokenSeqs, NEW t \in TokenSeqs, NEW n \in 0 .. Len(s), n <= Len(t),
           IsPart(s, 0, t, n)
    PROVE  /\ \A i \in 1 .. n : t[i] = s[i] /\ Kind(t, i) = Kind(s, i)
           /\ \A i \in 0 .. n : Depth(t, i) = Depth(s, i)
           /\ \A b \in 0 .. n : \A a \in 0 .. b : Cut(t, a, b) = Cut(s, a, b)
           /\ \A i \in 0 .. n : LastBreak(t, i) = LastBreak(s, i)
<1>0. n \in Nat /\ Len(s) \in Nat /\ Len(t) \in Nat /\ n <= Len(s)
  BY DEF TokenSeqs
<1>1. ASSUME NEW i \in 1 .. n PROVE t[i] = s[i] /\ Kind(t, i) = Kind(s, i)
  <2>1. t[i] = s[0 + i] /\ 0 + i = i
    BY <1>0 DEF IsPart
  <2>. QED  BY <2>1 DEF Kind
<1>2. ASSUME NEW i \in 0 .. n PROVE Depth(t, i) = Depth(s, i)
  <2>1. i \in Nat /\ \A j \in 1 .. i : t[j] = s[j]
    BY <1>0, <1>1
  <2>. QED  BY <2>1, DepthSame
<1>3. ASSUME NEW b \in 0 .. n, NEW a \in 0 .. b PROVE Cut(t, a, b) = Cut(s, a, b)
  <2>. DEFINE u == Cut(t, a, b)
              w == Cut(s, a, b)
  <2>1. b \in 0 .. Len(s) /\ b \in 0 .. Len(t) /\ a \in Nat /\ b \in Nat /\ a <= b
    BY <1>0
  <2>2. u \in TokenSeqs /\ Len(u) = b - a /\ \A k \in 1 .. b - a : u[k] = t[a + k]
    BY <2>1, CutIs
  <2>3. w \in TokenSeqs /\ Len(w) = b - a /\ \A k \in 1 .. b - a : w[k] = s[a + k]
    BY <2>1, CutIs
  <2>. HIDE DEF u, w
  <2>4. ASSUME NEW k \in 1 .. b - a PROVE u[k] = w[0 + k]
    <3>1. a + k \in 1 .. n /\ 0 + k = k
      BY <1>0, <2>1
    <3>. QED  BY <1>1, <2>2, <2>3, <3>1
  <2>5. IsPart(w, 0, u, Len(u))
    BY <2>2, <2>4 DEF IsPart
  <2>6. u = w
    BY <2>2, <2>3, <2>5, SameTokens
  <2>. QED  BY <2>6 DEF u, w
<1>4. ASSUME NEW i \in 0 .. n PROVE LastBreak(t, i) = LastBreak(s, i)
  <2>. DEFINE c == LastBreak(s, i)
  <2>0. i \in Nat
    BY <1>0
  <2>1. /\ c \in 0 .. i /\ (c = 0 \/ Kind(s, c) = "nl")
        /\ \A j \in c + 1 .. i : Kind(s, j) # "nl"
    BY <2>0, BreakPlace, Zenon
  <2>. HIDE DEF c
  <2>2. c = 0 \/ Kind(t, c) = "nl"
    BY <1>0, <1>1, <2>1
  <2>3. \A j \in c + 1 .. i : Kind(t, j) # "nl"
    BY <1>0, <1>1, <2>1
  <2>4. LastBreak(t, i) = c
    BY <2>0, <2>1, <2>2, <2>3, BreakIs
  <2>. QED  BY <2>4 DEF c
<1>. QED  BY <1>1, <1>2, <1>3, <1>4

\* A partial expression grows by a token that fits.
LEMMA PartialStep ==
    ASSUME NEW s \in TokenSeqs, NEW n \in 1 .. Len(s), NEW c \in 0 .. n - 1
    PROVE  Partial(Cut(s, c, n)) <=> /\ Partial(Cut(s, c, n - 1))
                                     /\ c = n - 1 => Kind(s, n) \in Begins
                                     /\ c < n - 1 => Fits(Kind(s, n - 1), Kind(s, n))
                                     /\ Depth(s, n) >= Depth(s, c)
<1>. DEFINE u == Cut(s, c, n - 1)
            w == Cut(s, c, n)
            m == n - c
<1>0. c \in Nat /\ n \in Nat /\ m \in Nat /\ m >= 1 /\ n <= Len(s) /\ Len(s) \in Nat /\ c + m = n
      /\ c <= n - 1 /\ n - 1 \in Nat
  BY DEF TokenSeqs
<1>1. /\ Len(w) = m
      /\ \A i \in 1 .. m : Kind(w, i) = Kind(s, c + i)
      /\ \A i \in 0 .. m : Depth(w, i) = Depth(s, c + i) - Depth(s, c) /\ Depth(s, c + i) \in Int
      /\ Depth(s, c) \in Int
  <2>1. n \in 0 .. Len(s) /\ c \in 0 .. n
    BY <1>0
  <2>. QED  BY <2>1, CutIs
<1>2. /\ Len(u) = m - 1
      /\ \A i \in 1 .. m - 1 : Kind(u, i) = Kind(s, c + i)
      /\ \A i \in 0 .. m - 1 : Depth(u, i) = Depth(s, c + i) - Depth(s, c)
  <2>1. PICK q \in 0 .. Len(s) : q = n - 1
    BY <1>0
  <2>2. c \in 0 .. q /\ q - c = m - 1
    BY <1>0, <2>1
  <2>3. /\ Len(Cut(s, c, q)) = q - c
        /\ \A i \in 1 .. q - c : Kind(Cut(s, c, q), i) = Kind(s, c + i)
        /\ \A i \in 0 .. q - c : Depth(Cut(s, c, q), i) = Depth(s, c + i) - Depth(s, c)
    BY <2>2, CutIs
  <2>. QED  BY <2>1, <2>2, <2>3
<1>. HIDE DEF u, w, m
<1>3. ASSUME Partial(w)
      PROVE  /\ Partial(u)
             /\ c = n - 1 => Kind(s, n) \in Begins
             /\ c < n - 1 => Fits(Kind(s, n - 1), Kind(s, n))
             /\ Depth(s, n) >= Depth(s, c)
  <2>1. /\ Kind(w, 1) \in Begins
        /\ \A i \in 1 .. m - 1 : Fits(Kind(w, i), Kind(w, i + 1))
        /\ \A i \in 0 .. m : Depth(w, i) >= 0
    BY <1>0, <1>1, <1>3 DEF Partial
  <2>2. Len(u) > 0 => Kind(u, 1) \in Begins
    <3>1. SUFFICES ASSUME m - 1 > 0 PROVE Kind(u, 1) \in Begins
      BY <1>0, <1>2
    <3>2. 1 \in 1 .. m - 1 /\ 1 \in 1 .. m
      BY <1>0, <3>1
    <3>. QED  BY <1>1, <1>2, <2>1, <3>2
  <2>3. ASSUME NEW i \in 1 .. (m - 1) - 1 PROVE Fits(Kind(u, i), Kind(u, i + 1))
    <3>1. i \in 1 .. m - 1 /\ i + 1 \in 1 .. m - 1 /\ i \in 1 .. m /\ i + 1 \in 1 .. m
      BY <1>0
    <3>. QED  BY <1>1, <1>2, <2>1, <3>1
  <2>4. ASSUME NEW i \in 0 .. m - 1 PROVE Depth(u, i) >= 0
    <3>1. i \in 0 .. m
      BY <1>0
    <3>. QED  BY <1>1, <1>2, <2>1, <3>1
  <2>5. c = n - 1 => Kind(s, n) \in Begins
    <3>1. SUFFICES ASSUME c = n - 1 PROVE Kind(s, n) \in Begins
      OBVIOUS
    <3>2. c + 1 = n /\ 1 \in 1 .. m
      BY <1>0, <3>1
    <3>. QED  BY <1>1, <2>1, <3>2
  <2>6. c < n - 1 => Fits(Kind(s, n - 1), Kind(s, n))
    <3>1. SUFFICES ASSUME c < n - 1 PROVE Fits(Kind(s, n - 1), Kind(s, n))
      OBVIOUS
    <3>2. m - 1 \in 1 .. m - 1 /\ m - 1 \in 1 .. m /\ (m - 1) + 1 = m /\ c + (m - 1) = n - 1
          /\ m \in 1 .. m
      BY <1>0, <3>1
    <3>3. Fits(Kind(w, m - 1), Kind(w, m))
      BY <2>1, <3>2
    <3>4. Kind(w, m - 1) = Kind(s, n - 1) /\ Kind(w, m) = Kind(s, n)
      BY <1>0, <1>1, <3>2
    <3>. QED  BY <3>3, <3>4
  <2>7. Depth(s, n) >= Depth(s, c)
    <3>1. m \in 0 .. m
      BY <1>0
    <3>2. Depth(w, m) = Depth(s, n) - Depth(s, c) /\ Depth(s, n) \in Int /\ Depth(w, m) >= 0
      BY <1>0, <1>1, <2>1, <3>1
    <3>. QED  BY <1>1, <3>2
  <2>. QED  BY <1>2, <2>2, <2>3, <2>4, <2>5, <2>6, <2>7 DEF Partial
<1>4. ASSUME Partial(u), c = n - 1 => Kind(s, n) \in Begins,
             c < n - 1 => Fits(Kind(s, n - 1), Kind(s, n)), Depth(s, n) >= Depth(s, c)
      PROVE  Partial(w)
  <2>1. /\ m - 1 > 0 => Kind(u, 1) \in Begins
        /\ \A i \in 1 .. (m - 1) - 1 : Fits(Kind(u, i), Kind(u, i + 1))
        /\ \A i \in 0 .. m - 1 : Depth(u, i) >= 0
    BY <1>2, <1>4 DEF Partial
  <2>2. Kind(w, 1) \in Begins
    <3>1. 1 \in 1 .. m
      BY <1>0
    <3>2. CASE c = n - 1
      <4>1. c + 1 = n
        BY <1>0, <3>2
      <4>. QED  BY <1>1, <1>4, <3>1, <3>2, <4>1
    <3>3. CASE c # n - 1
      <4>1. m - 1 > 0 /\ 1 \in 1 .. m - 1
        BY <1>0, <3>3
      <4>. QED  BY <1>1, <1>2, <2>1, <3>1, <4>1
    <3>. QED  BY <3>2, <3>3
  <2>3. ASSUME NEW i \in 1 .. m - 1 PROVE Fits(Kind(w, i), Kind(w, i + 1))
    <3>1. CASE i = m - 1
      <4>1. /\ c < n - 1 /\ i \in 1 .. m /\ i + 1 \in 1 .. m /\ c + i = n - 1
            /\ c + (i + 1) = n
        BY <1>0, <3>1
      <4>2. Kind(w, i) = Kind(s, n - 1) /\ Kind(w, i + 1) = Kind(s, n)
        BY <1>1, <4>1
      <4>. QED  BY <1>4, <4>1, <4>2
    <3>2. CASE i # m - 1
      <4>1. i \in 1 .. (m - 1) - 1 /\ i \in 1 .. m - 1 /\ i + 1 \in 1 .. m - 1
            /\ i \in 1 .. m /\ i + 1 \in 1 .. m
        BY <1>0, <3>2
      <4>. QED  BY <1>1, <1>2, <2>1, <4>1
    <3>. QED  BY <3>1, <3>2
  <2>4. ASSUME NEW i \in 0 .. m PROVE Depth(w, i) >= 0
    <3>1. CASE i = m
      <4>1. Depth(w, i) = Depth(s, n) - Depth(s, c) /\ Depth(s, n) \in Int
        BY <1>0, <1>1, <3>1
      <4>. QED  BY <1>1, <1>4, <4>1
    <3>2. CASE i # m
      <4>1. i \in 0 .. m - 1
        BY <1>0, <3>2
      <4>. QED  BY <1>1, <1>2, <2>1, <4>1
    <3>. QED  BY <3>1, <3>2
  <2>. QED  BY <1>0, <1>1, <2>2, <2>3, <2>4 DEF Partial
<1>. QED  BY <1>3, <1>4 DEF u, w

\* The beginning of a partial expression is partial.
LEMMA PartialBefore ==
    ASSUME NEW s \in TokenSeqs, NEW n \in 0 .. Len(s), NEW c \in 0 .. n, Partial(Cut(s, c, n)),
           NEW k \in c .. n
    PROVE  Partial(Cut(s, c, k))
<1>. DEFINE T == {j \in 0 .. n - c : ~Partial(Cut(s, c, n - j))}
<1>0. c \in Nat /\ n \in Nat /\ c <= n /\ Len(s) \in Nat /\ n <= Len(s)
  BY DEF TokenSeqs
<1>1. SUFFICES ASSUME T # {} PROVE FALSE
  <2>1. n - k \in 0 .. n - c /\ n - (n - k) = k
    BY <1>0
  <2>. QED  BY <1>1, <2>1
<1>2. T \in SUBSET Nat
  BY <1>0
<1>3. PICK m \in T : \A j \in T : m <= j
  <2>. HIDE DEF T
  <2>. QED  BY <1>1, <1>2, LeastOf
<1>4. m \in 0 .. n - c /\ ~Partial(Cut(s, c, n - m))
  BY <1>3
<1>5. m # 0
  <2>1. n - 0 = n
    BY <1>0
  <2>. QED  BY <1>4, <2>1
<1>6. m - 1 \in 0 .. n - c /\ ~(m <= m - 1) /\ n - (m - 1) = (n - m) + 1
  BY <1>0, <1>4, <1>5
<1>7. Partial(Cut(s, c, n - (m - 1)))
  BY <1>3, <1>6
<1>8. PICK q \in 1 .. Len(s) : q = n - (m - 1)
  BY <1>0, <1>4, <1>5
<1>9. c \in 0 .. q - 1 /\ q - 1 = n - m
  BY <1>0, <1>4, <1>5, <1>8
<1>10. Partial(Cut(s, c, q - 1))
  BY <1>7, <1>8, <1>9, PartialStep
<1>. QED  BY <1>4, <1>9, <1>10

-----------------------------------------------------------------------------
(* 12. Lines, and which of them can become statements. *)

\* When a part of the input is an expression.
LEMMA FlatAt ==
    ASSUME NEW s \in TokenSeqs, NEW n \in 0 .. Len(s), NEW c \in 0 .. n
    PROVE  /\ Flat(Cut(s, c, n)) <=> /\ Partial(Cut(s, c, n)) /\ c < n /\ Kind(s, n) \in Ends
                                     /\ Depth(s, n) = Depth(s, c)
           /\ IsExpr[Cut(s, c, n)] <=> Flat(Cut(s, c, n))
<1>. DEFINE w == Cut(s, c, n)
            m == n - c
<1>0. c \in Nat /\ n \in Nat /\ m \in Nat /\ c + m = n /\ (c < n <=> m > 0)
  BY DEF TokenSeqs
<1>1. /\ w \in TokenSeqs /\ Len(w) = m
      /\ \A i \in 1 .. m : Kind(w, i) = Kind(s, c + i)
      /\ \A i \in 0 .. m : Depth(w, i) = Depth(s, c + i) - Depth(s, c) /\ Depth(s, c + i) \in Int
      /\ Depth(s, c) \in Int
  BY CutIs
<1>. HIDE DEF w, m
<1>2. m > 0 => Kind(w, m) = Kind(s, n)
  <2>1. m > 0 => m \in 1 .. m
    BY <1>0
  <2>. QED  BY <1>0, <1>1, <2>1
<1>3. Depth(w, m) = Depth(s, n) - Depth(s, c) /\ Depth(s, n) \in Int
  <2>1. m \in 0 .. m
    BY <1>0
  <2>. QED  BY <1>0, <1>1, <2>1
<1>4. Depth(w, m) = 0 <=> Depth(s, n) = Depth(s, c)
  BY <1>1, <1>3
<1>5. Flat(w) <=> Partial(w) /\ c < n /\ Kind(s, n) \in Ends /\ Depth(s, n) = Depth(s, c)
  BY <1>0, <1>1, <1>2, <1>4 DEF Flat
<1>6. IsExpr[w] <=> Flat(w)
  BY <1>1, ExprIsFlat, FlatIsExpr
<1>. QED  BY <1>5, <1>6 DEF w

\* The expression of a line that begins behind b begins behind c: it is the line, or what
\* is assigned.
Starts(s, b, c) ==
    c = b \/ (c = b + 2 /\ Kind(s, b + 1) = "VARIABLE" /\ Kind(s, b + 2) = "=")

\* Lines that can become statements.
BeginsStatement(s) ==
    \/ Partial(s)
    \/ Len(s) >= 2 /\ Kind(s, 1) = "VARIABLE" /\ Kind(s, 2) = "=" /\ Partial(From(s, 3))

\* Nothing that begins like an assignment is a partial expression.
LEMMA NoEquals ==
    ASSUME NEW s \in TokenSeqs, NEW n \in 0 .. Len(s), NEW b \in 0 .. n, b + 2 <= n,
           Kind(s, b + 2) = "="
    PROVE  ~Partial(Cut(s, b, n))
<1>1. SUFFICES ASSUME Partial(Cut(s, b, n)) PROVE FALSE
  OBVIOUS
<1>0. b \in Nat /\ n \in Nat /\ Len(s) \in Nat /\ n <= Len(s)
  BY DEF TokenSeqs
<1>2. PICK k \in 1 .. Len(s) : k = b + 2
  BY <1>0
<1>3. k \in b .. n /\ b \in 0 .. k - 1 /\ b < k - 1
  BY <1>0, <1>2
<1>4. Partial(Cut(s, b, k))
  BY <1>1, <1>3, PartialBefore
<1>5. Fits(Kind(s, k - 1), Kind(s, k))
  BY <1>3, <1>4, PartialStep
<1>6. Kind(s, k) = "="
  BY <1>2
<1>. QED  BY <1>5, <1>6 DEF Fits, Operators, Additive, Multiplicative, Begins

\* The part of a line behind "VARIABLE =".
LEMMA LineParts ==
    ASSUME NEW s \in TokenSeqs, NEW n \in 0 .. Len(s), NEW b \in 0 .. n
    PROVE  LET w == Cut(s, b, n)
           IN /\ w \in TokenSeqs /\ Len(w) = n - b
              /\ b + 1 <= n => Kind(w, 1) = Kind(s, b + 1)
              /\ b + 2 <= n => Kind(w, 2) = Kind(s, b + 2) /\ From(w, 3) = Cut(s, b + 2, n)
<1>. DEFINE w == Cut(s, b, n)
<1>0. b \in Nat /\ n \in Nat /\ Len(s) \in Nat /\ n <= Len(s) /\ b <= n
  BY DEF TokenSeqs
<1>1. /\ w \in TokenSeqs /\ Len(w) = n - b
      /\ \A i \in 1 .. n - b : Kind(w, i) = Kind(s, b + i)
  BY CutIs
<1>2. b + 2 <= n => From(w, 3) = Cut(s, b + 2, n)
  <2>1. SUFFICES ASSUME b + 2 <= n PROVE From(w, 3) = Cut(s, b + 2, n)
    OBVIOUS
  <2>2. PICK j \in 0 .. n - b : j = n - b
    BY <1>0
  <2>3. 2 \in 0 .. j /\ b + j = n /\ 2 \in 0 .. Len(w) /\ 2 + 1 = 3
    BY <1>0, <1>1, <2>1, <2>2
  <2>4. Cut(Cut(s, b, n), 2, j) = Cut(s, b + 2, b + j)
    BY <2>3, CutCut
  <2>. HIDE DEF w
  <2>5. From(w, 2 + 1) = Cut(w, 2, Len(w))
    BY <1>1, <2>3, CutNames
  <2>. QED  BY <1>1, <2>2, <2>3, <2>4, <2>5 DEF w
<1>. HIDE DEF w
<1>3. b + 1 <= n => Kind(w, 1) = Kind(s, b + 1)
  BY <1>0, <1>1
<1>4. b + 2 <= n => Kind(w, 2) = Kind(s, b + 2)
  BY <1>0, <1>1
<1>. QED  BY <1>1, <1>2, <1>3, <1>4 DEF w

\* When a line is a statement, and when it can become one.
LEMMA StatementAt ==
    ASSUME NEW s \in TokenSeqs, NEW n \in 0 .. Len(s), NEW b \in 0 .. n
    PROVE  LET Assigns == b + 2 <= n /\ Kind(s, b + 1) = "VARIABLE" /\ Kind(s, b + 2) = "="
           IN /\ IsStatement(Cut(s, b, n)) <=>
                    Flat(Cut(s, b, n)) \/ (Assigns /\ Flat(Cut(s, b + 2, n)))
              /\ BeginsStatement(Cut(s, b, n)) <=>
                    Partial(Cut(s, b, n)) \/ (Assigns /\ Partial(Cut(s, b + 2, n)))
<1>. DEFINE w == Cut(s, b, n)
            A == b + 2 <= n /\ Kind(s, b + 1) = "VARIABLE" /\ Kind(s, b + 2) = "="
<1>0. b \in Nat /\ n \in Nat /\ Len(s) \in Nat /\ n <= Len(s) /\ b <= n
  BY DEF TokenSeqs
<1>1. /\ w \in TokenSeqs /\ Len(w) = n - b
      /\ b + 1 <= n => Kind(w, 1) = Kind(s, b + 1)
      /\ b + 2 <= n => Kind(w, 2) = Kind(s, b + 2) /\ From(w, 3) = Cut(s, b + 2, n)
  BY LineParts
<1>2. IsExpr[w] <=> Flat(w)
  BY FlatAt
<1>. HIDE DEF w
<1>3. ASSUME b + 2 <= n
      PROVE  /\ Flat(Cut(s, b + 2, n)) => b + 2 < n
             /\ IsExpr[Cut(s, b + 2, n)] <=> Flat(Cut(s, b + 2, n))
  <2>1. PICK c \in 0 .. n : c = b + 2
    BY <1>0, <1>3
  <2>. QED  BY <2>1, FlatAt
<1>4. Len(w) >= 3 <=> b + 2 < n
  BY <1>0, <1>1
<1>5. Len(w) >= 2 <=> b + 2 <= n
  BY <1>0, <1>1
<1>6. b + 2 <= n => b + 1 <= n
  BY <1>0
<1>7. b + 2 < n => b + 2 <= n
  BY <1>0
<1>8. IsStatement(w) <=> Flat(w) \/ (A /\ Flat(Cut(s, b + 2, n)))
  BY <1>1, <1>2, <1>3, <1>4, <1>6, <1>7 DEF IsStatement, IsAssignment
<1>9. BeginsStatement(w) <=> Partial(w) \/ (A /\ Partial(Cut(s, b + 2, n)))
  BY <1>1, <1>5, <1>6 DEF BeginsStatement
<1>. QED  BY <1>8, <1>9 DEF w

\* The same for a line whose expression is partial so far.
LEMMA LineAt ==
    ASSUME NEW s \in TokenSeqs, NEW n \in 0 .. Len(s), NEW b \in 0 .. n, NEW c \in b .. n,
           Starts(s, b, c), Partial(Cut(s, c, n))
    PROVE  /\ BeginsStatement(Cut(s, b, n))
           /\ IsStatement(Cut(s, b, n)) <=> c < n /\ Kind(s, n) \in Ends /\ Depth(s, n) = Depth(s, c)
           /\ IsExpr[Cut(s, b, n)] <=> IsStatement(Cut(s, b, n)) /\ c = b
           /\ Depth(s, c) = Depth(s, b)
<1>0. b \in Nat /\ n \in Nat /\ c \in Nat /\ Len(s) \in Nat /\ n <= Len(s) /\ b <= c /\ c <= n
      /\ c \in 0 .. n
  BY DEF TokenSeqs
<1>1. Flat(Cut(s, c, n)) <=> c < n /\ Kind(s, n) \in Ends /\ Depth(s, n) = Depth(s, c)
  BY <1>0, FlatAt
<1>2. CASE c = b
  <2>1. b + 2 <= n => Kind(s, b + 2) # "="
    BY <1>2, NoEquals
  <2>2. BeginsStatement(Cut(s, b, n)) /\ (IsStatement(Cut(s, b, n)) <=> Flat(Cut(s, b, n)))
    BY <1>2, <2>1, StatementAt
  <2>3. IsExpr[Cut(s, b, n)] <=> Flat(Cut(s, b, n))
    BY FlatAt
  <2>. QED  BY <1>1, <1>2, <2>2, <2>3
<1>3. CASE c = b + 2 /\ Kind(s, b + 1) = "VARIABLE" /\ Kind(s, b + 2) = "="
  <2>1. ~Partial(Cut(s, b, n)) /\ ~Flat(Cut(s, b, n))
    BY <1>0, <1>3, NoEquals DEF Flat
  <2>2. /\ BeginsStatement(Cut(s, b, n))
        /\ IsStatement(Cut(s, b, n)) <=> Flat(Cut(s, b + 2, n))
    BY <1>0, <1>3, <2>1, StatementAt
  <2>3. ~IsExpr[Cut(s, b, n)]
    BY <2>1, FlatAt
  <2>4. Depth(s, c) = Depth(s, b)
    <3>1. PICK k \in Nat : k = b + 1
      BY <1>0
    <3>2. k > 0 /\ k - 1 = b /\ c > 0 /\ c - 1 = k
      BY <1>0, <1>3, <3>1
    <3>3. Kind(s, k) \notin {"(", ")"} /\ Kind(s, c) \notin {"(", ")"}
      BY <1>3, <3>1
    <3>4. Depth(s, k) = Depth(s, k - 1) /\ Depth(s, c) = Depth(s, c - 1)
      BY <1>0, <3>2, <3>3, DepthStep
    <3>. QED  BY <3>2, <3>4
  <2>. QED  BY <1>0, <1>1, <1>3, <2>2, <2>3, <2>4
<1>. QED  BY <1>2, <1>3 DEF Starts

\* One token further: what may follow.
LEMMA LineNext ==
    ASSUME NEW s \in TokenSeqs, NEW n \in 0 .. Len(s) - 1, NEW b \in 0 .. n, NEW c \in b .. n,
           Starts(s, b, c), Partial(Cut(s, c, n))
    PROVE  BeginsStatement(Cut(s, b, n + 1)) <=>
              \/ /\ c = n => Kind(s, n + 1) \in Begins
                 /\ c < n => Fits(Kind(s, n), Kind(s, n + 1))
                 /\ Depth(s, n + 1) >= Depth(s, c)
              \/ c = b /\ n = b + 1 /\ Kind(s, n) = "VARIABLE" /\ Kind(s, n + 1) = "="
<1>0. b \in Nat /\ n \in Nat /\ c \in Nat /\ Len(s) \in Nat /\ n < Len(s) /\ b <= c /\ c <= n
      /\ c \in 0 .. n
  BY DEF TokenSeqs
<1>1. PICK m \in 1 .. Len(s) : m = n + 1
  BY <1>0
<1>2. m \in 0 .. Len(s) /\ b \in 0 .. m /\ c \in 0 .. m - 1 /\ m - 1 = n /\ (c = m - 1 <=> c = n)
      /\ (c < m - 1 <=> c < n) /\ m \in Nat /\ m >= 1
  BY <1>0, <1>1
<1>3. Partial(Cut(s, c, m)) <=> /\ c = n => Kind(s, m) \in Begins
                                /\ c < n => Fits(Kind(s, n), Kind(s, m))
                                /\ Depth(s, m) >= Depth(s, c)
  BY <1>2, PartialStep
<1>4. BeginsStatement(Cut(s, b, m)) <=>
         \/ Partial(Cut(s, b, m))
         \/ /\ b + 2 <= m /\ Kind(s, b + 1) = "VARIABLE" /\ Kind(s, b + 2) = "="
            /\ Partial(Cut(s, b + 2, m))
  BY <1>2, StatementAt
<1>5. CASE c = b /\ n = b + 1 /\ Kind(s, n) = "VARIABLE" /\ Kind(s, n + 1) = "="
  <2>1. b + 2 = m /\ b + 2 <= m
    BY <1>0, <1>1, <1>5
  <2>2. Len(Cut(s, m, m)) = 0
    <3>1. m \in 0 .. Len(s) /\ m \in 0 .. m /\ m - m = 0
      BY <1>1, <1>0
    <3>. QED  BY <3>1, CutIs
  <2>3. Partial(Cut(s, m, m))
    <3>1. \A i \in 0 .. 0 : i = 0
      OBVIOUS
    <3>. QED  BY <2>2, <3>1, DepthNone DEF Partial
  <2>. QED  BY <1>1, <1>4, <1>5, <2>1, <2>3
<1>6. CASE c = b /\ ~(n = b + 1 /\ Kind(s, n) = "VARIABLE" /\ Kind(s, n + 1) = "=")
  <2>1. ~(b + 2 <= m /\ Kind(s, b + 1) = "VARIABLE" /\ Kind(s, b + 2) = "=")
    <3>1. SUFFICES ASSUME b + 2 <= m, Kind(s, b + 1) = "VARIABLE", Kind(s, b + 2) = "=" PROVE FALSE
      OBVIOUS
    <3>2. CASE n = b + 1
      <4>1. b + 2 = n + 1
        BY <1>0, <3>2
      <4>. QED  BY <1>6, <3>1, <3>2, <4>1
    <3>3. CASE n # b + 1
      <4>1. b + 2 <= n /\ n \in 0 .. Len(s)
        BY <1>0, <1>1, <3>1, <3>3
      <4>. QED  BY <1>6, <3>1, <4>1, NoEquals
    <3>. QED  BY <3>2, <3>3
  <2>. QED  BY <1>1, <1>3, <1>4, <1>6, <2>1
<1>7. CASE c # b
  <2>1. c = b + 2 /\ Kind(s, b + 1) = "VARIABLE" /\ Kind(s, b + 2) = "="
    BY <1>7 DEF Starts
  <2>2. b + 2 <= m
    BY <1>0, <1>1, <2>1
  <2>3. ~Partial(Cut(s, b, m))
    BY <1>2, <2>1, <2>2, NoEquals
  <2>. QED  BY <1>1, <1>3, <1>4, <1>7, <2>1, <2>2, <2>3
<1>. QED  BY <1>5, <1>6, <1>7

\* The tokens from place m to place n are closing parentheses.
Closes(s, m, n) == \A i \in m + 1 .. n : Kind(s, i) = ")"

\* Closing parentheses end a partial expression.
LEMMA ClosePartial ==
    ASSUME NEW s \in TokenSeqs, NEW n \in 0 .. Len(s), NEW m \in 1 .. n, NEW c \in 0 .. m - 1,
           Partial(Cut(s, c, m)), Kind(s, m) \in Ends, Closes(s, m, n),
           Depth(s, m) = Depth(s, c) + (n - m)
    PROVE  Partial(Cut(s, c, n)) /\ c < n /\ Kind(s, n) \in Ends /\ Depth(s, n) = Depth(s, c)
<1>. DEFINE Fine(k) == Partial(Cut(s, c, k)) /\ Kind(s, k) \in Ends
                       /\ Depth(s, k) = Depth(s, c) + (n - k)
            B == {k \in m .. n : ~Fine(k)}
<1>0. m \in Nat /\ n \in Nat /\ c \in Nat /\ Len(s) \in Nat /\ n <= Len(s) /\ m <= n /\ c < m
  BY DEF TokenSeqs
<1>1. Depth(s, c) \in Int
  <2>1. c \in 0 .. n
    BY <1>0
  <2>. QED  BY <2>1, CutIs
<1>2. B = {}
  <2>1. SUFFICES ASSUME B # {} PROVE FALSE
    OBVIOUS
  <2>2. B \in SUBSET Nat
    BY <1>0
  <2>3. PICK k \in B : \A j \in B : k <= j
    BY <2>1, <2>2, LeastOf
  <2>4. k # m /\ k \in m .. n /\ ~Fine(k) /\ k \in Nat
    BY <1>0, <2>3
  <2>5. PICK p \in m .. n : p = k - 1
    BY <1>0, <2>4
  <2>6. p \notin B
    BY <1>0, <2>3, <2>4, <2>5
  <2>7. Partial(Cut(s, c, p)) /\ Kind(s, p) \in Ends /\ Depth(s, p) = Depth(s, c) + (n - p)
    BY <2>6
  <2>8. Kind(s, k) = ")" /\ k \in Nat /\ k > 0 /\ k \in 1 .. Len(s) /\ c \in 0 .. k - 1 /\ c < k - 1
        /\ k - 1 = p
    BY <1>0, <2>4, <2>5 DEF Closes
  <2>9. Depth(s, k) = Depth(s, k - 1) - 1
    BY <2>8, DepthStep
  <2>10. Depth(s, k) = Depth(s, c) + (n - k) /\ Depth(s, k) >= Depth(s, c)
    BY <1>0, <1>1, <2>4, <2>5, <2>7, <2>8, <2>9
  <2>11. Fits(Kind(s, k - 1), Kind(s, k))
    BY <2>7, <2>8 DEF Fits
  <2>12. Partial(Cut(s, c, k))
    BY <2>7, <2>8, <2>10, <2>11, PartialStep
  <2>13. Kind(s, k) \in Ends
    BY <2>8 DEF Ends
  <2>. QED  BY <2>4, <2>10, <2>12, <2>13
<1>3. n \notin B /\ n \in m .. n
  BY <1>0, <1>2
<1>4. Fine(n)
  BY <1>3
<1>. QED  BY <1>0, <1>1, <1>4

\* No more parentheses are open than tokens were read.
LEMMA DepthBound == ASSUME NEW s, NEW i \in Nat PROVE Depth(s, i) \in Int /\ Depth(s, i) <= i
<1>1. \A k : Count(s, i, k) \in Nat /\ Count(s, i, k) <= i
  <2>1. TAKE k
  <2>2. IsFiniteSet(1 .. i) /\ Cardinality(1 .. i) = i
    <3>1. 1 \in Int /\ i \in Int
      OBVIOUS
    <3>. QED  BY <3>1, FS_Interval
  <2>3. {j \in 1 .. i : Kind(s, j) = k} \subseteq 1 .. i
    OBVIOUS
  <2>4. /\ IsFiniteSet({j \in 1 .. i : Kind(s, j) = k})
        /\ Cardinality({j \in 1 .. i : Kind(s, j) = k}) <= Cardinality(1 .. i)
    BY <2>2, <2>3, FS_Subset
  <2>5. Cardinality({j \in 1 .. i : Kind(s, j) = k}) \in Nat
    BY <2>4, FS_CardinalityType
  <2>. QED  BY <2>2, <2>4, <2>5 DEF Count
<1>2. Count(s, i, "(") \in Nat /\ Count(s, i, "(") <= i /\ Count(s, i, ")") \in Nat
  BY <1>1
<1>. QED  BY <1>2 DEF Depth

\* What a partial expression ends with.
LEMMA LastOfPartial ==
    ASSUME NEW s \in TokenSeqs, NEW n \in 1 .. Len(s), NEW c \in 0 .. n - 1, Partial(Cut(s, c, n))
    PROVE  Kind(s, n) \in Ends \cup Operators \cup {"("}
<1>1. n \in Nat /\ c \in Nat /\ c < n /\ (c = n - 1 \/ c < n - 1)
  BY DEF TokenSeqs
<1>2. Kind(s, n) \in Begins \/ Fits(Kind(s, n - 1), Kind(s, n))
  BY <1>1, PartialStep
<1>. QED  BY <1>2 DEF Begins, Fits, Ends

\* What CanBegin() puts behind a line: an operand, or none, and closing parentheses.
Added(o) == o = <<>> \/ o = <<Plain("INTEGER")>>

\* What the completed line consists of.
LEMMA Completed ==
    ASSUME NEW s \in TokenSeqs, NEW d \in Nat, NEW o, Added(o)
    PROVE  LET t == s \o o \o Closing(d)
               m == Len(s) + Len(o)
           IN /\ t \in TokenSeqs /\ Len(t) = m + d /\ Len(s) \in Nat /\ Len(o) \in {0, 1}
              /\ IsPart(s, 0, t, Len(s)) /\ IsPart(t, 0, s, Len(s))
              /\ Closes(t, m, m + d)
              /\ Len(o) = 1 => Kind(t, m) = "INTEGER"
<1>1. o \in TokenSeqs /\ Len(o) \in {0, 1} /\ (Len(o) = 1 => o[1] = Plain("INTEGER"))
  <2>1. <<>> \in Seq(Words) /\ Len(<<>>) = 0
    OBVIOUS
  <2>2. Plain("INTEGER") \in Words
    BY DEF Words, Plain, Tok
  <2>3. ASSUME NEW w \in Words PROVE <<w>> \in Seq(Words) /\ Len(<<w>>) = 1 /\ <<w>>[1] = w
    OBVIOUS
  <2>4. CASE o = <<>>
    BY <2>1, <2>4 DEF TokenSeqs
  <2>5. CASE o = <<Plain("INTEGER")>>
    BY <2>2, <2>3, <2>5 DEF TokenSeqs
  <2>. QED  BY <2>4, <2>5 DEF Added
<1>2. Closing(d) \in TokenSeqs /\ Len(Closing(d)) = d /\ \A i \in 1 .. d : Closing(d)[i] = Plain(")")
  <2>1. Plain(")") \in Words
    BY DEF Words, Plain, Tok
  <2>. QED  BY <2>1 DEF TokenSeqs, Closing
<1>. DEFINE u == s \o o
            e == Closing(d)
            t == u \o e
            m == Len(s) + Len(o)
<1>3. /\ u \in TokenSeqs /\ Len(u) = m /\ Len(s) \in Nat /\ m \in Nat
      /\ \A i \in 1 .. Len(s) : u[i] = s[i]
      /\ Len(o) = 1 => u[m] = o[1]
  BY <1>1 DEF TokenSeqs
<1>. HIDE DEF u, m, e
<1>4. /\ t \in TokenSeqs /\ Len(t) = m + d
      /\ \A i \in 1 .. m : t[i] = u[i]
      /\ \A i \in m + 1 .. m + d : t[i] = e[i - m]
  <2>1. e \in Seq(Words) /\ Len(e) = d /\ u \in Seq(Words) /\ Len(u) = m /\ m \in Nat
    BY <1>2, <1>3 DEF TokenSeqs, e
  <2>. QED  BY <2>1 DEF TokenSeqs
<1>5. m >= Len(s) /\ (Len(o) = 1 => m \in 1 .. m)
  BY <1>1, <1>3 DEF m
<1>. HIDE DEF t
<1>6. \A j \in 1 .. Len(s) : t[j] = s[j] /\ 0 + j = j
  BY <1>3, <1>4, <1>5
<1>7. IsPart(s, 0, t, Len(s)) /\ IsPart(t, 0, s, Len(s))
  BY <1>6 DEF IsPart
<1>8. Closes(t, m, m + d)
  <2>1. \A i \in m + 1 .. m + d : i - m \in 1 .. d
    BY <1>3
  <2>2. \A i \in m + 1 .. m + d : t[i] = Plain(")")
    BY <1>2, <1>4, <2>1 DEF e
  <2>3. \A i \in m + 1 .. m + d : Kind(t, i) = ")"
    BY <2>2 DEF Kind, Plain, Tok
  <2>. QED  BY <2>3 DEF Closes
<1>9. Len(o) = 1 => Kind(t, m) = "INTEGER"
  BY <1>1, <1>3, <1>4, <1>5 DEF Kind, Plain, Tok
<1>. QED  BY <1>1, <1>3, <1>4, <1>7, <1>8, <1>9 DEF t, u, m, e

\* A line that begins like a statement can be completed.
LEMMA BeginsCan ==
    ASSUME NEW s \in TokenSeqs, NEW c \in 0 .. Len(s), Starts(s, 0, c), Partial(Cut(s, c, Len(s)))
    PROVE  CanBegin(s)
<1>. DEFINE n == Len(s)
            closed == c < n /\ Kind(s, n) \in Ends
            o == IF closed THEN <<>> ELSE <<Plain("INTEGER")>>
            d == Depth(s, n)
            t == s \o o \o Closing(d)
            m == n + Len(o)
<1>0. n \in Nat /\ c \in Nat /\ c <= n /\ n \in 0 .. Len(s) /\ 0 \in 0 .. n /\ c \in 0 .. n
  BY DEF TokenSeqs
<1>1. Depth(s, c) = 0
  BY <1>0, LineAt, DepthNone
<1>2. d \in 0 .. n
  <2>1. d \in Int /\ d <= n
    BY <1>0, DepthBound
  <2>2. d >= Depth(s, c)
    <3>1. CASE c = n
      BY <2>1, <3>1
    <3>2. CASE c # n
      <4>1. n \in 1 .. Len(s) /\ c \in 0 .. n - 1
        BY <1>0, <3>2
      <4>. QED  BY <4>1, PartialStep
    <3>. QED  BY <3>1, <3>2
  <2>. QED  BY <1>0, <1>1, <2>1, <2>2
<1>3. Added(o) /\ Len(o) = (IF closed THEN 0 ELSE 1)
  BY DEF Added
<1>. HIDE DEF closed, o, d, n
<1>4. /\ t \in TokenSeqs /\ Len(t) = m + d
      /\ IsPart(s, 0, t, n)
      /\ Closes(t, m, m + d)
      /\ ~closed => Kind(t, m) = "INTEGER"
  <2>1. d \in Nat
    BY <1>0, <1>2
  <2>. QED  BY <1>3, <2>1, Completed DEF n
<1>. HIDE DEF t
<1>5. n <= Len(t) /\ m \in Nat /\ d \in Nat /\ m >= n /\ Len(t) \in Nat
  BY <1>0, <1>2, <1>3, <1>4
<1>6. /\ \A i \in 1 .. n : Kind(t, i) = Kind(s, i)
      /\ \A i \in 0 .. n : Depth(t, i) = Depth(s, i)
      /\ \A a \in 0 .. n : Cut(t, a, n) = Cut(s, a, n)
  <2>1. /\ \A i \in 1 .. n : t[i] = s[i] /\ Kind(t, i) = Kind(s, i)
        /\ \A i \in 0 .. n : Depth(t, i) = Depth(s, i)
        /\ \A b \in 0 .. n : \A a \in 0 .. b : Cut(t, a, b) = Cut(s, a, b)
    BY <1>0, <1>4, <1>5, SameBefore
  <2>2. n \in 0 .. n
    BY <1>0
  <2>. QED  BY <2>1, <2>2
<1>7. Partial(Cut(t, c, n)) /\ Depth(t, n) = d /\ Depth(t, c) = 0
  <2>1. c \in 0 .. n /\ n \in 0 .. n
    BY <1>0
  <2>2. Cut(s, c, n) = Cut(s, c, Len(s)) /\ d = Depth(s, n)
    BY DEF n, d
  <2>. QED  BY <1>1, <1>6, <2>1, <2>2
<1>8. Partial(Cut(t, c, m)) /\ Kind(t, m) \in Ends /\ Depth(t, m) = d /\ c < m
  <2>1. CASE closed
    <3>1. m = n /\ c < n /\ Kind(s, n) \in Ends /\ n \in 1 .. n
      BY <1>0, <1>3, <2>1 DEF closed
    <3>. QED  BY <1>6, <1>7, <3>1
  <2>2. CASE ~closed
    <3>1. m = n + 1
      BY <1>0, <1>3, <2>2
    <3>. HIDE DEF m
    <3>2. m \in 1 .. Len(t) /\ m - 1 = n /\ c \in 0 .. m - 1 /\ c < m /\ m > 0 /\ m \in Nat
      BY <1>0, <1>4, <1>5, <3>1
    <3>3. Kind(t, m) = "INTEGER"
      BY <1>4, <2>2
    <3>4. Depth(t, m) = d
      <4>1. Kind(t, m) \notin {"(", ")"}
        BY <3>3
      <4>. QED  BY <1>7, <3>2, <4>1, DepthStep
    <3>5. c < n => Fits(Kind(t, n), Kind(t, m))
      <4>1. SUFFICES ASSUME c < n PROVE Fits(Kind(t, n), Kind(t, m))
        OBVIOUS
      <4>2. n \in 1 .. Len(s) /\ c \in 0 .. n - 1 /\ n \in 1 .. n /\ n = Len(s)
        BY <1>0, <4>1 DEF n
      <4>3. Kind(s, n) \in Ends \cup Operators \cup {"("}
        BY <4>2, LastOfPartial
      <4>4. Kind(s, n) \notin Ends
        BY <2>2, <4>1 DEF closed
      <4>. QED  BY <1>6, <3>3, <4>2, <4>3, <4>4 DEF Fits, Begins
    <3>6. Kind(t, m) \in Begins /\ Kind(t, m) \in Ends
      BY <3>3 DEF Begins, Ends
    <3>7. Depth(t, m) >= Depth(t, c)
      BY <1>5, <1>7, <3>4
    <3>8. Partial(Cut(t, c, m - 1)) /\ (c < m - 1 => Fits(Kind(t, m - 1), Kind(t, m)))
      BY <1>7, <3>2, <3>5
    <3>9. Partial(Cut(t, c, m))
      BY <1>4, <3>2, <3>6, <3>7, <3>8, PartialStep
    <3>. QED  BY <3>2, <3>4, <3>6, <3>9
  <2>. QED  BY <2>1, <2>2
<1>. HIDE DEF m
<1>9. PICK l \in 0 .. Len(t) : l = Len(t)
  BY <1>5
<1>10. m \in 1 .. l /\ c \in 0 .. m - 1 /\ l = m + d /\ l \in 0 .. Len(t) /\ 0 \in 0 .. l
       /\ c \in 0 .. l /\ Depth(t, m) = Depth(t, c) + (l - m)
  BY <1>0, <1>4, <1>5, <1>7, <1>8, <1>9
<1>11. Partial(Cut(t, c, l)) /\ c < l /\ Kind(t, l) \in Ends /\ Depth(t, l) = Depth(t, c)
  BY <1>4, <1>8, <1>10, ClosePartial
<1>12. Starts(t, 0, c)
  <2>1. CASE c = 0
    BY <2>1 DEF Starts
  <2>2. CASE c # 0
    <3>1. c = 0 + 2 /\ Kind(s, 0 + 1) = "VARIABLE" /\ Kind(s, 0 + 2) = "="
      BY <2>2 DEF Starts
    <3>2. 0 + 1 \in 1 .. n /\ 0 + 2 \in 1 .. n
      BY <1>0, <3>1
    <3>. QED  BY <1>6, <3>1, <3>2 DEF Starts
  <2>. QED  BY <2>1, <2>2
<1>13. IsStatement(Cut(t, 0, l))
  BY <1>4, <1>10, <1>11, <1>12, LineAt
<1>14. IsStatement(t)
  BY <1>4, <1>9, <1>13, CutNames
<1>15. o \in {<<>>, <<Plain("INTEGER")>>}
  BY <1>3, Zenon DEF Added
<1>. QED  BY <1>2, <1>14, <1>15, Zenon DEF CanBegin, t, n

\* A line that can be completed begins like a statement.
LEMMA CanBegins == ASSUME NEW s \in TokenSeqs, CanBegin(s) PROVE BeginsStatement(s)
<1>0. PICK d \in 0 .. Len(s) : \E o : Added(o) /\ IsStatement(s \o o \o Closing(d))
  BY Zenon DEF CanBegin, Added
<1>1. PICK o : Added(o) /\ IsStatement(s \o o \o Closing(d))
  BY <1>0
<1>. DEFINE n == Len(s)
            t == s \o o \o Closing(d)
            m == n + Len(o)
<1>2. n \in Nat /\ d \in Nat
  BY DEF TokenSeqs
<1>3. /\ t \in TokenSeqs /\ Len(t) = m + d /\ Len(o) \in {0, 1}
      /\ IsPart(s, 0, t, n)
      /\ Closes(t, m, m + d)
      /\ Len(o) = 1 => Kind(t, m) = "INTEGER"
  BY <1>1, <1>2, Completed
<1>4. IsStatement(t)
  BY <1>1
<1>. HIDE DEF t
<1>5. PICK l \in 0 .. Len(t) : l = Len(t)
  BY <1>2, <1>3
<1>6. n <= l /\ l \in Nat /\ n \in 0 .. l /\ 0 \in 0 .. l /\ n <= Len(t) /\ n \in 0 .. Len(s)
      /\ 0 \in 0 .. n /\ n \in 0 .. n
  BY <1>2, <1>3, <1>5
<1>7. /\ \A i \in 1 .. n : t[i] = s[i] /\ Kind(t, i) = Kind(s, i)
      /\ \A b \in 0 .. n : \A a \in 0 .. b : Cut(t, a, b) = Cut(s, a, b)
  BY <1>3, <1>6, SameBefore
<1>8. \/ Flat(Cut(t, 0, l))
      \/ /\ 0 + 2 <= l /\ Kind(t, 0 + 1) = "VARIABLE" /\ Kind(t, 0 + 2) = "="
         /\ Flat(Cut(t, 0 + 2, l))
  <2>1. IsStatement(Cut(t, 0, l))
    BY <1>3, <1>4, <1>5, CutNames
  <2>. QED  BY <1>3, <1>6, <2>1, StatementAt
<1>9. Cut(s, 0, n) = s
  BY CutNames
<1>10. CASE Flat(Cut(t, 0, l))
  <2>1. Partial(Cut(t, 0, n))
    BY <1>3, <1>6, <1>10, PartialBefore DEF Flat
  <2>2. Partial(s)
    BY <1>6, <1>7, <1>9, <2>1
  <2>. QED  BY <2>2 DEF BeginsStatement
<1>11. CASE Len(s) = 0
  <2>1. Partial(s)
    <3>1. \A i \in 0 .. 0 : i = 0
      OBVIOUS
    <3>. QED  BY <1>11, <3>1, DepthNone DEF Partial
  <2>. QED  BY <2>1 DEF BeginsStatement
<1>12. CASE Len(s) > 0 /\ 2 <= l /\ Kind(t, 1) = "VARIABLE" /\ Kind(t, 2) = "=" /\ Flat(Cut(t, 2, l))
  <2>1. Len(s) >= 2
    <3>0. SUFFICES ASSUME ~(Len(s) >= 2) PROVE FALSE
      OBVIOUS
    <3>1. n = 1
      BY <1>2, <1>12, <3>0
    <3>2. Kind(t, 2) \in {"INTEGER", ")"}
      <4>1. CASE Len(o) = 1
        BY <1>3, <3>1, <4>1
      <4>2. CASE Len(o) = 0
        <5>1. m = 1 /\ 2 \in m + 1 .. m + d
          BY <1>2, <1>3, <1>5, <1>12, <3>1, <4>2
        <5>. QED  BY <1>3, <5>1 DEF Closes
      <4>. QED  BY <1>3, <4>1, <4>2
    <3>. QED  BY <1>12, <3>2
  <2>2. 2 \in 0 .. l /\ n \in 2 .. l /\ 1 \in 1 .. n /\ 2 \in 1 .. n /\ 2 \in 0 .. n
    BY <1>6, <1>12, <2>1
  <2>3. Partial(Cut(t, 2, n))
    BY <1>3, <1>6, <1>12, <2>2, PartialBefore DEF Flat
  <2>4. From(s, 3) = Cut(s, 2, n)
    <3>1. 2 \in 0 .. Len(s) /\ 2 + 1 = 3
      BY <2>2
    <3>2. From(s, 2 + 1) = Cut(s, 2, Len(s))
      BY <3>1, CutNames
    <3>. QED  BY <3>1, <3>2
  <2>5. Partial(From(s, 3)) /\ Kind(s, 1) = "VARIABLE" /\ Kind(s, 2) = "="
    BY <1>6, <1>7, <1>12, <2>2, <2>3, <2>4
  <2>. QED  BY <2>1, <2>5 DEF BeginsStatement
<1>13. 0 + 1 = 1 /\ 0 + 2 = 2 /\ (Len(s) = 0 \/ Len(s) > 0)
  BY <1>2
<1>. QED  BY <1>8, <1>10, <1>11, <1>12, <1>13

\* CanBegin() without its search.
LEMMA CanBeginIs == ASSUME NEW s \in TokenSeqs PROVE CanBegin(s) <=> BeginsStatement(s)
<1>0. Len(s) \in Nat
  BY DEF TokenSeqs
<1>1. ASSUME Partial(s) PROVE CanBegin(s)
  <2>1. 0 \in 0 .. Len(s) /\ Starts(s, 0, 0)
    BY <1>0 DEF Starts
  <2>2. Partial(Cut(s, 0, Len(s)))
    BY <1>1, CutNames
  <2>. QED  BY <2>1, <2>2, BeginsCan
<1>2. ASSUME Len(s) >= 2, Kind(s, 1) = "VARIABLE", Kind(s, 2) = "=", Partial(From(s, 3))
      PROVE  CanBegin(s)
  <2>1. 2 \in 0 .. Len(s) /\ 2 + 1 = 3 /\ 0 + 1 = 1 /\ 0 + 2 = 2
    BY <1>0, <1>2
  <2>2. Starts(s, 0, 2)
    BY <1>2, <2>1 DEF Starts
  <2>3. From(s, 2 + 1) = Cut(s, 2, Len(s))
    BY <2>1, CutNames
  <2>4. Partial(Cut(s, 2, Len(s)))
    BY <1>2, <2>1, <2>3
  <2>. QED  BY <2>1, <2>2, <2>4, BeginsCan
<1>3. CanBegin(s) => BeginsStatement(s)
  BY CanBegins
<1>. QED  BY <1>1, <1>2, <1>3 DEF BeginsStatement

-----------------------------------------------------------------------------
(* 13. Programs: what they do, and what can become one. *)

\* Nothing within a partial expression is executed: every statement in it is continued.
LEMMA NoExec ==
    ASSUME NEW s \in TokenSeqs, NEW m \in 0 .. Len(s), NEW n \in 0 .. m, NEW b \in 0 .. n,
           NEW c \in b .. n, Starts(s, b, c), Partial(Cut(s, c, n)),
           NEW k \in Executable(Cut(s, b, m))
    PROVE  k >= n - b
<1>0. b \in Nat /\ n \in Nat /\ c \in Nat /\ m \in Nat /\ Len(s) \in Nat /\ m <= Len(s)
      /\ b <= c /\ c <= n /\ n <= m
  BY DEF TokenSeqs
<1>. DEFINE w == Cut(s, b, m)
<1>1. /\ w \in TokenSeqs /\ Len(w) = m - b
      /\ \A i \in 1 .. m - b : Kind(w, i) = Kind(s, b + i)
  <2>1. b \in 0 .. m
    BY <1>0
  <2>. QED  BY <2>1, CutIs
<1>2. /\ k \in 1 .. Len(w) - 1 /\ IsStatement(Upto(w, k)) /\ Kind(w, k + 1) \notin Operators
      /\ ~(k = 1 /\ Kind(w, 1) = "VARIABLE" /\ Kind(w, 2) = "=")
  BY DEF Executable
<1>3. SUFFICES ASSUME k < n - b PROVE FALSE
  BY <1>0, <1>1, <1>2
<1>4. PICK j \in Nat : j = b + k
  BY <1>0, <1>1, <1>2
<1>5. k \in Nat /\ k > 0 /\ k \in 0 .. m - b /\ j \in 0 .. Len(s) /\ b \in 0 .. j /\ b < j /\ j < n
  BY <1>0, <1>1, <1>2, <1>3, <1>4
<1>6. IsStatement(Cut(s, b, j))
  <2>1. Upto(w, k) = Cut(w, 0, k)
    <3>. HIDE DEF w
    <3>. QED  BY <1>1, <1>5, CutNames
  <2>2. Cut(w, 0, k) = Cut(s, b + 0, b + k)
    <3>1. b \in 0 .. m /\ 0 \in 0 .. k
      BY <1>0, <1>5
    <3>. QED  BY <1>5, <3>1, CutCut
  <2>3. b + 0 = b
    BY <1>0
  <2>. QED  BY <1>2, <1>4, <2>1, <2>2, <2>3
<1>. HIDE DEF w
<1>7. Kind(s, j + 1) \notin Operators
  <2>1. k + 1 \in 1 .. m - b /\ b + (k + 1) = j + 1
    BY <1>0, <1>1, <1>2, <1>4
  <2>. QED  BY <1>1, <1>2, <2>1
<1>8. CASE j > c
  <2>1. j \in c .. n /\ c \in 0 .. n /\ c \in b .. j /\ n \in 0 .. Len(s)
    BY <1>0, <1>5, <1>8
  <2>2. Partial(Cut(s, c, j))
    BY <2>1, PartialBefore
  <2>3. Kind(s, j) \in Ends /\ Depth(s, j) = Depth(s, c)
    BY <1>5, <1>6, <2>1, <2>2, LineAt
  <2>4. PICK q \in 1 .. Len(s) : q = j + 1
    BY <1>0, <1>5
  <2>5. q \in c .. n /\ c \in 0 .. q - 1 /\ c < q - 1 /\ q - 1 = j /\ q \in Nat /\ q > 0
    BY <1>0, <1>5, <1>8, <2>4
  <2>6. Partial(Cut(s, c, q))
    BY <2>1, <2>5, PartialBefore
  <2>7. Fits(Kind(s, j), Kind(s, q)) /\ Depth(s, q) >= Depth(s, c)
    <3>1. Fits(Kind(s, q - 1), Kind(s, q)) /\ Depth(s, q) >= Depth(s, c)
      BY <2>4, <2>5, <2>6, PartialStep
    <3>. QED  BY <2>5, <3>1
  <2>8. Kind(s, q) = ")"
    BY <1>7, <2>3, <2>4, <2>7 DEF Fits, Ends, Operators, Additive, Multiplicative
  <2>9. Depth(s, q) = Depth(s, j) - 1 /\ Depth(s, j) \in Int
    <3>1. Depth(s, q) = Depth(s, q - 1) - 1 /\ Depth(s, q - 1) \in Int
      BY <2>5, <2>8, DepthStep
    <3>. QED  BY <2>5, <3>1
  <2>. QED  BY <2>3, <2>7, <2>9
<1>9. CASE j <= c
  <2>1. c = b + 2 /\ Kind(s, b + 1) = "VARIABLE" /\ Kind(s, b + 2) = "="
    BY <1>0, <1>5, <1>9 DEF Starts
  <2>2. CASE k = 1
    <3>1. 1 \in 1 .. m - b /\ 2 \in 1 .. m - b
      BY <1>0, <2>1
    <3>. QED  BY <1>1, <1>2, <2>1, <2>2, <3>1
  <2>3. CASE k # 1
    <3>1. j = c /\ c \in c .. n /\ c \in b .. j /\ c \in 0 .. n /\ n \in 0 .. Len(s)
      BY <1>0, <1>4, <1>5, <1>9, <2>1, <2>3
    <3>2. Partial(Cut(s, c, j))
      BY <3>1, PartialBefore
    <3>3. c < j
      BY <1>5, <1>6, <3>1, <3>2, LineAt
    <3>. QED  BY <1>0, <3>1, <3>3
  <2>. QED  BY <2>2, <2>3
<1>. QED  BY <1>0, <1>5, <1>8, <1>9

\* Place b begins a line that has not ended before place n.
Line(s, b, n) == (b = 0 \/ Kind(s, b) = "nl") /\ \A j \in b + 1 .. n : Kind(s, j) # "nl"

\* What a program does, by its last line.
LEMMA ProgramAt ==
    ASSUME NEW s \in TokenSeqs, NEW b \in 0 .. Len(s) - 1, Line(s, b, Len(s) - 1),
           Program[Cut(s, 0, b)].trapped = FALSE
    PROVE  Program[s] = Do(Cut(s, b, Len(s)), Program[Cut(s, 0, b)])
<1>0. b \in Nat /\ Len(s) \in Nat /\ Len(s) > 0 /\ b \in 0 .. Len(s) /\ Len(s) - 1 \in Nat
  BY DEF TokenSeqs
<1>1. s # <<>>
  BY <1>0
<1>2. LastBreak(s, Len(s) - 1) = b
  BY <1>0, BreakIs DEF Line
<1>3. Upto(s, b) = Cut(s, 0, b) /\ From(s, b + 1) = Cut(s, b, Len(s))
  BY <1>0, CutNames
<1>4. Program[s] = ProgramBody(Program, s)
  BY ProgramUnrolls
<1>. QED  BY <1>1, <1>2, <1>3, <1>4, Zenon DEF ProgramBody

\* While a line is incomplete, it does nothing.
LEMMA ProgramQuiet ==
    ASSUME NEW s \in TokenSeqs, NEW b \in 0 .. Len(s), Line(s, b, Len(s) - 1),
           Program[Cut(s, 0, b)].trapped = FALSE,
           Executable(Cut(s, b, Len(s))) = {}
    PROVE  Program[s] = Program[Cut(s, 0, b)]
<1>0. b \in Nat /\ Len(s) \in Nat
  BY DEF TokenSeqs
<1>1. CASE b = Len(s)
  BY <1>1, CutNames
<1>2. CASE b # Len(s)
  <2>1. b \in 0 .. Len(s) - 1
    BY <1>0, <1>2
  <2>2. Program[s] = Do(Cut(s, b, Len(s)), Program[Cut(s, 0, b)])
    BY <2>1, ProgramAt
  <2>. QED  BY <2>2, Zenon DEF Do
<1>. QED  BY <1>1, <1>2

\* What the two kinds of statements do.
PrintedBy(st, v) == [st EXCEPT !.printed = Append(@, v)]
AssignedBy(st, x, v) == [st EXCEPT !.sym[x] = v]
\* The line from behind b to n assigns v to x.
Assigns(s, b, n, mem, x, v) ==
    /\ b + 2 <= n /\ x = s[b + 1].val
    /\ ~IsExpr[Cut(s, b, n)] /\ Value(mem)[Cut(s, b + 2, n)] = {v}

\* The last line of s, from behind b, is executed in state st up to n.
Runs(s, b, n, st) ==
    /\ b \in 0 .. Len(s) - 1 /\ Line(s, b, Len(s) - 1) /\ Program[Cut(s, 0, b)] = st /\ st.trapped = FALSE
    /\ n \in b + 1 .. Len(s) /\ Executable(Cut(s, b, Len(s))) = {n - b}

\* When a line is complete, it is executed.
LEMMA ProgramDoes ==
    ASSUME NEW s \in TokenSeqs, NEW b, NEW n, NEW st, Runs(s, b, n, st)
    PROVE  /\ \A v : IsExpr[Cut(s, b, n)] /\ Value(st.sym)[Cut(s, b, n)] = {v} =>
                       Program[s] = PrintedBy(st, v)
           /\ \A x, v : Assigns(s, b, n, st.sym, x, v) => Program[s] = AssignedBy(st, x, v)
<1>. USE DEF Runs
<1>0. b \in Nat /\ Len(s) \in Nat /\ n \in Nat /\ b < n /\ n <= Len(s) /\ b \in 0 .. Len(s)
  BY DEF TokenSeqs
<1>. DEFINE w == Cut(s, b, Len(s))
            u == Cut(s, b, n)
<1>1. Program[s] = Do(w, st)
  BY ProgramAt
<1>2. (CHOOSE k \in Executable(w) : TRUE) = n - b /\ Executable(w) # {}
  <2>1. \A x : (CHOOSE k \in {x} : TRUE) = x
    OBVIOUS
  <2>. QED  BY <2>1
<1>3. Upto(w, n - b) = u
  <2>1. PICK d \in Nat : d = n - b
    BY <1>0
  <2>2. d \in 0 .. Len(s) - b /\ Len(s) \in 0 .. Len(s) /\ b \in 0 .. Len(s) /\ 0 \in 0 .. d
        /\ b + 0 = b /\ b + d = n
    BY <1>0, <2>1
  <2>3. Cut(w, 0, d) = Cut(s, b + 0, b + d)
    BY <2>2, CutCut
  <2>4. w \in TokenSeqs /\ Len(w) = Len(s) - b
    BY <2>2, CutIs
  <2>. HIDE DEF w
  <2>5. Upto(w, d) = Cut(w, 0, d)
    BY <2>2, <2>4, CutNames
  <2>. QED  BY <2>1, <2>2, <2>3, <2>5
<1>4. u[1] = s[b + 1] /\ (b + 2 <= n => From(u, 3) = Cut(s, b + 2, n))
  <2>1. n \in 0 .. Len(s) /\ b \in 0 .. n /\ 1 \in 1 .. n - b
    BY <1>0
  <2>2. u[1] = s[b + 1]
    BY <2>1, CutIs
  <2>3. b + 2 <= n => From(u, 3) = Cut(s, b + 2, n)
    BY <2>1, LineParts
  <2>. QED  BY <2>2, <2>3
<1>. HIDE DEF w, u
<1>5. \A x : {x} # {} /\ (CHOOSE y \in {x} : TRUE) = x
  OBVIOUS
<1>. HIDE DEF Runs
<1>6. ASSUME NEW v, IsExpr[u], Value(st.sym)[u] = {v}
      PROVE  Program[s] = [st EXCEPT !.printed = Append(@, v)]
  BY <1>1, <1>2, <1>3, <1>5, <1>6, Zenon DEF Do
<1>7. ASSUME NEW v, ~IsExpr[u], b + 2 <= n, Value(st.sym)[Cut(s, b + 2, n)] = {v}
      PROVE  Program[s] = [st EXCEPT !.sym[s[b + 1].val] = v]
  <2>1. Value(st.sym)[From(u, 3)] = {v}
    BY <1>4, <1>7
  <2>. QED  BY <1>1, <1>2, <1>3, <1>4, <1>5, <1>7, <2>1, Zenon DEF Do
<1>. QED  BY <1>6, <1>7 DEF u, PrintedBy, AssignedBy, Assigns

\* The first n tokens are complete lines, each a statement.
EndsStatement(s, m) == IsStatement(Cut(s, LastBreak(s, m - 1), m - 1))
Complete(s, n) ==
    /\ n = 0 \/ Kind(s, n) = "nl"
    /\ Depth(s, n) = 0
    /\ \A m \in 1 .. n : Kind(s, m) = "nl" => EndsStatement(s, m)

\* When the input is the beginning of a program, if the lines before the last are complete.
LEMMA ViableIs ==
    ASSUME NEW s \in TokenSeqs, NEW b \in 0 .. Len(s), Complete(s, b), Line(s, b, Len(s))
    PROVE  Viable(s) <=> \/ b = Len(s)
                         \/ b + 1 = Len(s) /\ s[Len(s)] = Plain("eof")
                         \/ BeginsStatement(Cut(s, b, Len(s)))
<1>0. b \in Nat /\ Len(s) \in Nat /\ b <= Len(s) /\ Len(s) \in 0 .. Len(s)
  BY DEF TokenSeqs
<1>. DEFINE w == Cut(s, b, Len(s))
<1>1. LastBreak(s, Len(s)) = b
  BY <1>0, BreakIs DEF Line
<1>2. From(s, b + 1) = w /\ w \in TokenSeqs /\ Len(w) = Len(s) - b
  BY <1>0, CutNames, CutIs
<1>9. \A i \in 1 .. Len(s) - b : w[i] = s[b + i]
  BY <1>0, CutIs
<1>. HIDE DEF w
<1>3. ASSUME NEW n \in 1 .. Len(s), Kind(s, n) = "nl"
      PROVE  IsStatement(SubSeq(s, LastBreak(s, n - 1) + 1, n - 1))
  <2>1. n <= b
    BY <1>0, <1>3 DEF Line
  <2>2. n \in 1 .. b
    BY <1>0, <2>1
  <2>. QED  BY <1>3, <2>2 DEF Complete, EndsStatement, Cut
<1>4. w = <<>> <=> b = Len(s)
  <2>1. w \in Seq(Words) /\ Len(w) = Len(s) - b
    BY <1>2 DEF TokenSeqs
  <2>2. w = <<>> <=> Len(w) = 0
    BY <2>1
  <2>. QED  BY <1>0, <2>1, <2>2
<1>5. w = <<Plain("eof")>> <=> b + 1 = Len(s) /\ s[Len(s)] = Plain("eof")
  <2>1. ASSUME w = <<Plain("eof")>> PROVE b + 1 = Len(s) /\ s[Len(s)] = Plain("eof")
    <3>1. Len(w) = 1 /\ w[1] = Plain("eof")
      BY <2>1
    <3>3. Len(s) - b = 1
      BY <1>2, <3>1
    <3>2. Len(s) = b + 1 /\ 1 \in 1 .. Len(s) - b
      BY <1>0, <3>3
    <3>. QED  BY <1>0, <1>9, <3>1, <3>2
  <2>2. ASSUME b + 1 = Len(s), s[Len(s)] = Plain("eof") PROVE w = <<Plain("eof")>>
    <3>1. Len(w) = 1 /\ 1 \in 1 .. Len(s) - b
      BY <1>0, <1>2, <2>2
    <3>2. w[1] = Plain("eof")
      BY <1>0, <1>9, <2>2, <3>1
    <3>. QED  BY <1>2, <3>1, <3>2 DEF TokenSeqs
  <2>. QED  BY <2>1, <2>2
<1>6. CanBegin(w) <=> BeginsStatement(w)
  BY <1>2, CanBeginIs
<1>7. Viable(s) <=> (w \in {<<>>, <<Plain("eof")>>} \/ CanBegin(w))
  BY <1>1, <1>2, <1>3, Zenon DEF Viable
<1>8. w \in {<<>>, <<Plain("eof")>>} <=> (w = <<>> \/ w = <<Plain("eof")>>)
  BY Zenon
<1>. QED  BY <1>4, <1>5, <1>6, <1>7, <1>8, Zenon DEF w

\* A newline behind something else than a statement is an error.
LEMMA BadBreak ==
    ASSUME NEW s \in TokenSeqs, NEW b \in 0 .. Len(s) - 1, Line(s, b, Len(s) - 1),
           Kind(s, Len(s)) = "nl", ~IsStatement(Cut(s, b, Len(s) - 1))
    PROVE  ~Viable(s)
<1>0. b \in Nat /\ Len(s) \in Nat /\ Len(s) \in 1 .. Len(s) /\ Len(s) - 1 \in Nat
  BY DEF TokenSeqs
<1>1. LastBreak(s, Len(s) - 1) = b
  BY <1>0, BreakIs DEF Line
<1>. QED  BY <1>0, <1>1, Zenon DEF Viable, Cut

\* A newline behind a statement completes its line.
LEMMA GoodBreak ==
    ASSUME NEW s \in TokenSeqs, NEW n \in 1 .. Len(s), NEW b \in 0 .. n - 1, Line(s, b, n - 1),
           Complete(s, b), Kind(s, n) = "nl", IsStatement(Cut(s, b, n - 1))
    PROVE  Complete(s, n)
<1>0. b \in Nat /\ n \in Nat /\ Len(s) \in Nat /\ n - 1 \in Nat /\ n - 1 \in 0 .. Len(s) /\ n > 0
  BY DEF TokenSeqs
<1>1. LastBreak(s, n - 1) = b
  BY <1>0, BreakIs DEF Line
<1>2. Depth(s, n) = 0
  <2>1. PICK p \in 0 .. Len(s) : p = n - 1
    BY <1>0
  <2>2. b \in 0 .. p /\ p \in Nat
    BY <1>0, <2>1
  <2>3. Flat(Cut(s, b, p)) \/ (b + 2 <= p /\ Kind(s, b + 1) = "VARIABLE" /\ Kind(s, b + 2) = "=" /\ Flat(Cut(s, b + 2, p)))
    BY <2>1, <2>2, StatementAt
  <2>4. PICK c \in b .. p : Starts(s, b, c) /\ Flat(Cut(s, c, p))
    <3>1. CASE Flat(Cut(s, b, p))
      <4>1. b \in b .. p
        BY <1>0, <2>2
      <4>. QED  BY <3>1, <4>1 DEF Starts
    <3>2. CASE b + 2 <= p /\ Kind(s, b + 1) = "VARIABLE" /\ Kind(s, b + 2) = "=" /\ Flat(Cut(s, b + 2, p))
      <4>1. b + 2 \in b .. p
        BY <1>0, <2>2, <3>2
      <4>. QED  BY <3>2, <4>1 DEF Starts
    <3>. QED  BY <2>3, <3>1, <3>2
  <2>5. c \in 0 .. p
    BY <1>0, <2>2
  <2>6. Depth(s, p) = Depth(s, c)
    BY <2>4, <2>5, FlatAt
  <2>7. Depth(s, c) = Depth(s, b)
    BY <2>2, <2>4, LineAt DEF Flat
  <2>8. Depth(s, b) = 0
    BY DEF Complete
  <2>9. Depth(s, n) = Depth(s, n - 1)
    BY <1>0, DepthStep
  <2>. QED  BY <2>1, <2>6, <2>7, <2>8, <2>9
<1>3. ASSUME NEW m \in 1 .. n, Kind(s, m) = "nl" PROVE EndsStatement(s, m)
  <2>1. CASE m = n
    BY <1>1, <2>1 DEF EndsStatement
  <2>2. CASE m <= b
    <3>1. m \in 1 .. b
      BY <1>0, <2>2
    <3>. QED  BY <1>3, <3>1 DEF Complete
  <2>3. m = n \/ m <= b
    BY <1>0, <1>3 DEF Line
  <2>. QED  BY <2>1, <2>2, <2>3
<1>. QED  BY <1>2, <1>3 DEF Complete

\* Nothing: complete, and the beginning of a line.
LEMMA NothingYet == ASSUME NEW s PROVE Complete(s, 0) /\ Line(s, 0, 0)
BY DepthNone DEF Complete, Line

-----------------------------------------------------------------------------
(* 14. The values of expressions. *)

\* An operand has no operators, and its value is read off.
LEMMA OperandValue ==
    ASSUME NEW mem \in Memories, NEW s \in TokenSeqs, Len(s) = 1
    PROVE  /\ \A K : Outside(s, K) = {}
           /\ Kind(s, 1) = "INTEGER" => Value(mem)[s] = {s[1].val}
           /\ Kind(s, 1) = "VARIABLE" => Value(mem)[s] = {mem[s[1].val]}
<1>1. \A K : Outside(s, K) = {}
  BY DEF Outside
<1>2. Root(s) = {}
  BY <1>1 DEF Root
<1>3. s # <<>>
  OBVIOUS
<1>4. Value(mem)[s] = ValueBody(mem, Value(mem), s)
  BY ValueUnrolls
<1>5. Kind(s, 1) = "VARIABLE" => Kind(s, 1) # "INTEGER"
  OBVIOUS
<1>. QED  BY <1>1, <1>2, <1>3, <1>4, <1>5, Zenon DEF ValueBody

\* Parentheses hide the operators in them, and keep the value.
LEMMA ParenValue ==
    ASSUME NEW mem \in Memories, NEW s \in TokenSeqs, Len(s) >= 3, Kind(s, 1) = "(",
           Kind(s, Len(s)) = ")", Flat(Inner(s))
    PROVE  (\A K : Outside(s, K) = {}) /\ Value(mem)[s] = Value(mem)[Inner(s)]
<1>0. Len(s) \in Nat /\ 1 \in 0 .. Len(s) - 1 /\ Len(s) - 1 \in 0 .. Len(s)
  BY DEF TokenSeqs
<1>1. /\ Len(Inner(s)) = (Len(s) - 1) - 1
      /\ \A i \in 0 .. (Len(s) - 1) - 1 : Depth(Inner(s), i) = Depth(s, 1 + i) - Depth(s, 1) /\ Depth(s, 1 + i) \in Int
      /\ Depth(s, 1) \in Int
  <2>1. Inner(s) = Cut(s, 1, Len(s) - 1)
    BY CutNames
  <2>2. PICK b \in 0 .. Len(s) : b = Len(s) - 1
    BY <1>0
  <2>3. 1 \in 0 .. b
    BY <1>0, <2>2
  <2>4. /\ Len(Cut(s, 1, b)) = b - 1
        /\ \A i \in 0 .. b - 1 : Depth(Cut(s, 1, b), i) = Depth(s, 1 + i) - Depth(s, 1) /\ Depth(s, 1 + i) \in Int
        /\ Depth(s, 1) \in Int
    BY <2>3, CutIs
  <2>. QED  BY <2>1, <2>2, <2>4
<1>2. Depth(s, 1) = 1
  <2>1. 1 - 1 = 0 /\ 1 \in Nat /\ 1 > 0
    OBVIOUS
  <2>2. Depth(s, 1) = Depth(s, 1 - 1) + 1
    BY <2>1, DepthStep
  <2>. QED  BY <2>1, <2>2, DepthNone
<1>3. ASSUME NEW K, NEW j \in Outside(s, K) PROVE FALSE
  <2>1. j \in 2 .. Len(s) - 1 /\ Depth(s, j) = 0
    BY <1>3 DEF Outside
  <2>2. PICK i \in 0 .. (Len(s) - 1) - 1 : i = j - 1
    BY <1>0, <2>1
  <2>3. 1 + i = j
    BY <1>0, <2>1, <2>2
  <2>4. Depth(Inner(s), i) >= 0
    BY <1>1, <2>2 DEF Flat, Partial
  <2>. QED  BY <1>1, <1>2, <2>1, <2>2, <2>3, <2>4
<1>4. \A K : Outside(s, K) = {}
  BY <1>3
<1>5. Root(s) = {}
  BY <1>4 DEF Root
<1>6. s # <<>>
  OBVIOUS
<1>7. Value(mem)[s] = ValueBody(mem, Value(mem), s)
  BY ValueUnrolls
<1>8. Kind(s, 1) # "INTEGER" /\ Kind(s, 1) # "VARIABLE"
  OBVIOUS
<1>. QED  BY <1>4, <1>5, <1>6, <1>7, <1>8, Zenon DEF ValueBody

\* The operators outside parentheses of two expressions that an operator joins.
LEMMA OutsideJoin ==
    ASSUME NEW s \in TokenSeqs, NEW i \in 2 .. Len(s) - 1, Kind(s, i) \in Operators,
           Flat(Upto(s, i - 1)), Flat(From(s, i + 1)), NEW K \in SUBSET Operators
    PROVE  /\ Kind(s, i) \in K => i \in Outside(s, K)
           /\ \A j \in Outside(s, K) : \/ j < i /\ j \in Outside(Upto(s, i - 1), K)
                                       \/ j = i
                                       \/ j > i /\ j - i \in Outside(From(s, i + 1), K)
<1>. DEFINE u == Upto(s, i - 1)
            w == From(s, i + 1)
<1>0. i \in 1 .. Len(s) /\ i \in Nat /\ i > 0 /\ Len(s) \in Nat
  BY DEF TokenSeqs
<1>1. /\ u \in TokenSeqs /\ w \in TokenSeqs
      /\ Len(u) = i - 1 /\ Len(w) = Len(s) - i
      /\ \A j \in 1 .. i - 1 : Kind(u, j) = Kind(s, j)
      /\ \A j \in 1 .. Len(s) - i : Kind(w, j) = Kind(s, i + j)
      /\ \A j \in 0 .. i - 1 : Depth(u, j) = Depth(s, j) /\ Depth(s, j) \in Int
      /\ \A j \in 0 .. Len(s) - i :
            /\ Depth(w, j) = Depth(s, i + j) - Depth(s, i)
            /\ Depth(w, j) \in Int /\ Depth(s, i + j) \in Int
      /\ Depth(s, i) \in Int
  BY <1>0, Sides
<1>2. Flat(u) /\ Flat(w)
  OBVIOUS
<1>. HIDE DEF u, w
<1>3. Kind(u, Len(u)) \in Ends /\ Depth(u, Len(u)) = 0 /\ Kind(w, 1) \in Begins
  BY <1>2 DEF Flat, Partial
<1>4. Depth(s, i) = 0
  <2>1. Depth(s, i) = Depth(s, i - 1)
    BY <1>0, DepthStep DEF Operators, Additive, Multiplicative
  <2>2. i - 1 \in 0 .. i - 1
    BY <1>0
  <2>. QED  BY <1>1, <1>3, <2>1, <2>2
<1>5. \A k \in Operators : k \notin Ends /\ k \notin Begins
  BY DEF Operators, Additive, Multiplicative, Ends, Begins
<1>6. Kind(s, i) \in K => i \in Outside(s, K)
  BY <1>4 DEF Outside
<1>7. ASSUME NEW j \in Outside(s, K)
      PROVE  \/ j < i /\ j \in Outside(u, K)
             \/ j = i
             \/ j > i /\ j - i \in Outside(w, K)
  <2>1. j \in 2 .. Len(s) - 1 /\ Kind(s, j) \in K /\ Depth(s, j) = 0
    BY DEF Outside
  <2>2. Kind(s, j) \notin Ends /\ Kind(s, j) \notin Begins
    BY <1>5, <2>1
  <2>3. CASE j < i
    <3>1. j \in 1 .. i - 1 /\ j \in 0 .. i - 1
      BY <1>0, <2>1, <2>3
    <3>2. Kind(u, j) = Kind(s, j) /\ Depth(u, j) = 0
      BY <1>1, <2>1, <3>1
    <3>3. j # Len(u)
      BY <1>3, <2>2, <3>2
    <3>4. j \in 2 .. Len(u) - 1
      BY <1>0, <1>1, <2>1, <2>3, <3>3
    <3>. QED  BY <2>1, <2>3, <3>2, <3>4 DEF Outside
  <2>4. CASE j > i
    <3>1. PICK k \in 1 .. Len(s) - i : k = j - i
      BY <1>0, <2>1, <2>4
    <3>2. i + k = j /\ k \in 0 .. Len(s) - i
      BY <1>0, <2>1, <3>1
    <3>3. Kind(w, k) = Kind(s, j) /\ Depth(w, k) = 0
      <4>1. Kind(w, k) = Kind(s, i + k)
        BY <1>1
      <4>2. Depth(w, k) = Depth(s, i + k) - Depth(s, i)
        BY <1>1, <3>2
      <4>. QED  BY <1>4, <2>1, <3>2, <4>1, <4>2
    <3>4. k # 1
      BY <1>3, <2>2, <3>3
    <3>5. k \in 2 .. Len(w) - 1
      BY <1>0, <1>1, <2>1, <3>1, <3>4
    <3>. QED  BY <2>1, <2>4, <3>1, <3>3, <3>5 DEF Outside
  <2>. QED  BY <1>0, <2>1, <2>3, <2>4
<1>. QED  BY <1>6, <1>7 DEF u, w

\* The result for single values.
LEMMA ResultsOne ==
    ASSUME NEW op, NEW x, NEW y
    PROVE  /\ ~Traps(op, x, y) => Results(op, {x}, {y}) = {Compute(op, x, y)}
           /\ Traps(op, x, y) => Results(op, {x}, {y}) = {}
<1>. DEFINE Q == {q \in {x} \X {y} : ~Traps(op, q[1], q[2])}
<1>1. \A q \in {x} \X {y} : q[1] = x /\ q[2] = y /\ q = <<x, y>>
  OBVIOUS
<1>2. <<x, y>> \in {x} \X {y}
  OBVIOUS
<1>3. ASSUME ~Traps(op, x, y) PROVE Q = {<<x, y>>}
  BY <1>1, <1>2, <1>3
<1>4. ASSUME Traps(op, x, y) PROVE Q = {}
  BY <1>1, <1>4
<1>5. Results(op, {x}, {y}) = {Compute(op, p[1], p[2]) : p \in Q}
  BY DEF Results
<1>. HIDE DEF Q
<1>6. ASSUME ~Traps(op, x, y) PROVE Results(op, {x}, {y}) = {Compute(op, x, y)}
  <2>1. \A p \in Q : p[1] = x /\ p[2] = y
    BY <1>3, <1>6
  <2>2. <<x, y>> \in Q
    BY <1>3, <1>6
  <2>. QED  BY <1>5, <2>1, <2>2, Zenon
<1>7. ASSUME Traps(op, x, y) PROVE Results(op, {x}, {y}) = {}
  BY <1>4, <1>5, <1>7
<1>. QED  BY <1>6, <1>7

\* The greatest of a set of numbers.
LEMMA GreatestOf ==
    ASSUME NEW R \in SUBSET Int, NEW i \in R, \A j \in R : j <= i
    PROVE  {k \in R : \A j \in R : j <= k} = {i}
<1>1. ASSUME NEW k \in R, \A j \in R : j <= k PROVE k = i
  <2>1. i <= k /\ k <= i /\ i \in Int /\ k \in Int
    BY <1>1
  <2>. QED  BY <2>1
<1>. QED  BY <1>1, Zenon

\* An operator of two expressions is applied last if no other may be: %left.
LEMMA JoinValue ==
    ASSUME NEW mem \in Memories, NEW s \in TokenSeqs, NEW i \in 2 .. Len(s) - 1,
           Kind(s, i) \in Operators, Flat(Upto(s, i - 1)), Flat(From(s, i + 1)),
           Outside(From(s, i + 1), Additive) = {},
           Kind(s, i) \in Multiplicative =>
              /\ Outside(Upto(s, i - 1), Additive) = {}
              /\ Outside(From(s, i + 1), Operators) = {}
    PROVE  /\ Value(mem)[s] =
                 Results(Kind(s, i), Value(mem)[Upto(s, i - 1)], Value(mem)[From(s, i + 1)])
           /\ Kind(s, i) \in Multiplicative => Outside(s, Additive) = {}
<1>0. i \in Int /\ Additive \in SUBSET Operators /\ Multiplicative \in SUBSET Operators
      /\ Additive \cap Multiplicative = {} /\ Operators = Additive \cup Multiplicative
  BY DEF Operators, Additive, Multiplicative
<1>. DEFINE u == Upto(s, i - 1)
            w == From(s, i + 1)
<1>1. ASSUME NEW K \in SUBSET Operators
      PROVE  /\ Kind(s, i) \in K => i \in Outside(s, K)
             /\ \A j \in Outside(s, K) : \/ j < i /\ j \in Outside(u, K)
                                         \/ j = i
                                         \/ j > i /\ j - i \in Outside(w, K)
  BY OutsideJoin
<1>. HIDE DEF u, w
<1>2. \A K : \A j \in Outside(s, K) : j \in Int /\ Kind(s, j) \in K
  BY DEF Outside, TokenSeqs
<1>3. CASE Kind(s, i) \in Additive
  <2>1. i \in Outside(s, Additive) /\ \A j \in Outside(s, Additive) : j <= i
    BY <1>0, <1>1, <1>2, <1>3 DEF w
  <2>2. Root(s) = {i}
    <3>1. Root(s) = {k \in Outside(s, Additive) : \A j \in Outside(s, Additive) : j <= k}
      BY <2>1, Zenon DEF Root
    <3>. QED  BY <1>2, <2>1, <3>1, GreatestOf
  <2>3. Kind(s, i) \notin Multiplicative
    BY <1>0, <1>3
  <2>. QED  BY <2>2, <2>3, ValueUnrolls, RootPlace, Zenon DEF ValueBody
<1>4. CASE Kind(s, i) \in Multiplicative
  <2>1. Outside(w, Multiplicative) = {}
    <3>1. Outside(w, Multiplicative) \subseteq Outside(w, Operators)
      BY <1>0 DEF Outside
    <3>. QED  BY <1>4, <3>1 DEF w
  <2>2. Outside(s, Additive) = {}
    <3>1. \A j \in Outside(s, Additive) : j = i
      BY <1>0, <1>1, <1>4 DEF u, w
    <3>. QED  BY <1>0, <1>2, <1>4, <3>1
  <2>3. i \in Outside(s, Multiplicative) /\ \A j \in Outside(s, Multiplicative) : j <= i
    BY <1>0, <1>1, <1>2, <1>4, <2>1
  <2>4. Root(s) = {i}
    <3>1. Root(s) = {k \in Outside(s, Multiplicative) : \A j \in Outside(s, Multiplicative) : j <= k}
      BY <2>2, Zenon DEF Root
    <3>. QED  BY <1>2, <2>3, <3>1, GreatestOf
  <2>. QED  BY <2>2, <2>4, ValueUnrolls, RootPlace, Zenon DEF ValueBody
<1>. QED  BY <1>0, <1>3, <1>4

\* An operand of the input.
LEMMA OperandAt ==
    ASSUME NEW mem \in Memories, NEW s \in TokenSeqs, NEW hi \in 1 .. Len(s), NEW lo, lo = hi - 1,
           Kind(s, hi) \in {"INTEGER", "VARIABLE"}
    PROVE  LET w == Cut(s, lo, hi)
           IN /\ IsExpr[w] /\ \A K : Outside(w, K) = {}
              /\ Kind(s, hi) = "INTEGER" => Value(mem)[w] = {s[hi].val}
              /\ Kind(s, hi) = "VARIABLE" => Value(mem)[w] = {mem[s[hi].val]}
<1>. DEFINE w == Cut(s, lo, hi)
<1>0. hi \in Nat /\ lo \in 0 .. hi /\ hi \in 0 .. Len(s) /\ 1 \in 1 .. hi - lo /\ lo + 1 = hi /\ hi - lo = 1
  BY DEF TokenSeqs
<1>1. w \in TokenSeqs /\ Len(w) = 1 /\ w[1] = s[hi] /\ Kind(w, 1) = Kind(s, hi)
  <2>1. w \in TokenSeqs /\ Len(w) = hi - lo /\ w[1] = s[lo + 1] /\ Kind(w, 1) = Kind(s, lo + 1)
    BY <1>0, CutIs
  <2>. QED  BY <1>0, <2>1
<1>. HIDE DEF w
<1>2. Flat(w)
  BY <1>1, OperandFlat
<1>3. IsExpr[w]
  BY <1>1, <1>2, FlatIsExpr
<1>4. /\ \A K : Outside(w, K) = {}
      /\ Kind(w, 1) = "INTEGER" => Value(mem)[w] = {w[1].val}
      /\ Kind(w, 1) = "VARIABLE" => Value(mem)[w] = {mem[w[1].val]}
  BY <1>1, OperandValue
<1>. QED  BY <1>1, <1>3, <1>4 DEF w

\* An expression in parentheses: the tokens from behind place lo to place hi.
LEMMA ParenAt ==
    ASSUME NEW mem \in Memories, NEW s \in TokenSeqs, NEW hi \in 0 .. Len(s), NEW lo \in 0 .. hi,
           NEW m \in Nat, m = hi - 1, NEW p \in 0 .. m, p = lo + 1,
           Kind(s, p) = "(", Kind(s, hi) = ")", IsExpr[Cut(s, p, m)]
    PROVE  LET w == Cut(s, lo, hi)
           IN /\ IsExpr[w] /\ \A K : Outside(w, K) = {}
              /\ Value(mem)[w] = Value(mem)[Cut(s, p, m)]
<1>. DEFINE w == Cut(s, lo, hi)
            n == hi - lo
<1>0. hi \in Nat /\ lo \in Nat /\ m \in 0 .. Len(s) /\ p \in Nat /\ p <= m /\ n \in Nat /\ lo + n = hi
  BY DEF TokenSeqs
<1>1. w \in TokenSeqs /\ Len(w) = n /\ \A i \in 1 .. n : Kind(w, i) = Kind(s, lo + i)
  BY CutIs
<1>2. Flat(Cut(s, p, m)) /\ p < m
  BY <1>0, FlatAt
<1>3. n >= 3 /\ 1 \in 1 .. n /\ n \in 1 .. n /\ n - 1 \in 0 .. n /\ 1 \in 0 .. n - 1
  BY <1>0, <1>2
<1>4. Inner(w) = Cut(s, p, m)
  <2>1. Inner(w) = Cut(w, 1, Len(w) - 1)
    <3>. HIDE DEF w, n
    <3>. QED  BY <1>1, <1>3, CutNames
  <2>2. PICK j \in 0 .. n : j = n - 1
    BY <1>3
  <2>3. 1 \in 0 .. j /\ lo + 1 = p /\ lo + j = m
    BY <1>0, <1>3, <2>2
  <2>4. Cut(w, 1, j) = Cut(s, lo + 1, lo + j)
    BY <2>3, CutCut
  <2>. QED  BY <1>1, <2>1, <2>2, <2>3, <2>4
<1>. HIDE DEF w, n
<1>5. Kind(w, 1) = "(" /\ Kind(w, Len(w)) = ")" /\ Flat(Inner(w)) /\ Len(w) >= 3
  BY <1>0, <1>1, <1>2, <1>3, <1>4
<1>6. Flat(w)
  BY <1>1, <1>5, ParenFlat
<1>7. IsExpr[w]
  BY <1>1, <1>6, FlatIsExpr
<1>8. (\A K : Outside(w, K) = {}) /\ Value(mem)[w] = Value(mem)[Inner(w)]
  BY <1>1, <1>5, ParenValue
<1>. QED  BY <1>4, <1>7, <1>8 DEF w

\* Two expressions and the operator at place p between them.
LEMMA JoinAt ==
    ASSUME NEW mem \in Memories, NEW s \in TokenSeqs, NEW hi \in 0 .. Len(s), NEW lo \in 0 .. hi,
           NEW m \in lo .. hi, NEW p \in m .. hi, p = m + 1, Kind(s, p) \in Operators,
           IsExpr[Cut(s, lo, m)], IsExpr[Cut(s, p, hi)],
           Outside(Cut(s, p, hi), Additive) = {},
           Kind(s, p) \in Multiplicative =>
              Outside(Cut(s, lo, m), Additive) = {} /\ Outside(Cut(s, p, hi), Operators) = {}
    PROVE  LET w == Cut(s, lo, hi)
           IN /\ IsExpr[w]
              /\ Value(mem)[w] = Results(Kind(s, p), Value(mem)[Cut(s, lo, m)], Value(mem)[Cut(s, p, hi)])
              /\ Kind(s, p) \in Multiplicative => Outside(w, Additive) = {}
<1>. DEFINE w == Cut(s, lo, hi)
            n == hi - lo
<1>0. hi \in Nat /\ lo \in Nat /\ m \in Nat /\ p \in Nat /\ n \in Nat /\ lo + n = hi /\ lo <= m /\ p <= hi
      /\ m \in 0 .. Len(s) /\ p \in 0 .. hi /\ lo \in 0 .. m
  BY DEF TokenSeqs
<1>1. w \in TokenSeqs /\ Len(w) = n /\ \A i \in 1 .. n : Kind(w, i) = Kind(s, lo + i)
  <2>1. /\ Cut(s, lo, hi) \in TokenSeqs /\ Len(Cut(s, lo, hi)) = hi - lo
        /\ \A i \in 1 .. hi - lo : Kind(Cut(s, lo, hi), i) = Kind(s, lo + i)
    <3>. USE ONLY CutIs
    <3>. QED  BY CutIs
  <2>. QED  BY <2>1
<1>2. lo < m /\ Flat(Cut(s, lo, m))
  BY <1>0, FlatAt
<1>3. p < hi /\ Flat(Cut(s, p, hi))
  BY <1>0, FlatAt
<1>4. PICK i \in 0 .. n : i = p - lo
  BY <1>0, <1>2
<1>5. i \in 2 .. n - 1 /\ i - 1 \in 0 .. n /\ lo + i = p /\ lo + (i - 1) = m
      /\ 0 \in 0 .. i - 1 /\ i \in 1 .. n
  BY <1>0, <1>2, <1>3, <1>4
<1>6. Upto(w, i - 1) = Cut(s, lo, m)
  <2>1. PICK j \in 0 .. n : j = i - 1
    BY <1>5
  <2>2. Upto(w, j) = Cut(w, 0, j)
    <3>. HIDE DEF w, n
    <3>. QED  BY <1>1, <2>1, CutNames
  <2>3. 0 \in 0 .. j /\ lo + 0 = lo /\ lo + j = m
    BY <1>0, <1>5, <2>1
  <2>4. Cut(w, 0, j) = Cut(s, lo + 0, lo + j)
    BY <2>3, CutCut
  <2>. QED  BY <2>1, <2>2, <2>3, <2>4
<1>7. From(w, i + 1) = Cut(s, p, hi)
  <2>1. From(w, i + 1) = Cut(w, i, n)
    <3>1. From(w, i + 1) = Cut(w, i, Len(w))
      <4>. HIDE DEF w, n
      <4>. QED  BY <1>1, <1>5, CutNames
    <3>. QED  BY <1>1, <3>1
  <2>2. n \in 0 .. n /\ i \in 0 .. n
    BY <1>0
  <2>3. Cut(w, i, n) = Cut(s, lo + i, lo + n)
    BY <2>2, CutCut
  <2>. QED  BY <1>0, <1>5, <2>1, <2>3
<1>. HIDE DEF w, n
<1>8. Kind(w, i) = Kind(s, p) /\ i \in 2 .. Len(w) - 1
  BY <1>1, <1>5
<1>9. /\ Flat(Upto(w, i - 1)) /\ Flat(From(w, i + 1)) /\ Kind(w, i) \in Operators
      /\ Outside(From(w, i + 1), Additive) = {}
      /\ Kind(w, i) \in Multiplicative =>
            Outside(Upto(w, i - 1), Additive) = {} /\ Outside(From(w, i + 1), Operators) = {}
  BY <1>2, <1>3, <1>6, <1>7, <1>8
<1>10. Flat(w)
  BY <1>1, <1>8, <1>9, JoinFlat
<1>11. IsExpr[w]
  BY <1>1, <1>10, FlatIsExpr
<1>12. /\ Value(mem)[w] = Results(Kind(w, i), Value(mem)[Upto(w, i - 1)], Value(mem)[From(w, i + 1)])
       /\ Kind(w, i) \in Multiplicative => Outside(w, Additive) = {}
  BY <1>1, <1>8, <1>9, JoinValue
<1>. QED  BY <1>6, <1>7, <1>8, <1>11, <1>12 DEF w

-----------------------------------------------------------------------------
(* 15. What the stacks stand for. *)

\* The columns of the kinds of tokens.
LEMMA Columns ==
    /\ yytranslate["eof"] = 0 /\ yytranslate["INTEGER"] = 3 /\ yytranslate["VARIABLE"] = 4
    /\ yytranslate["+"] = 5 /\ yytranslate["-"] = 6 /\ yytranslate["*"] = 7
    /\ yytranslate["/"] = 8 /\ yytranslate["nl"] = 9 /\ yytranslate["="] = 10
    /\ yytranslate["("] = 11 /\ yytranslate[")"] = 12
BY Zenon DEF yytranslate, Kinds

\* The tokens for which a state has an entry, and the state that each pushes.
Entries(q) ==
    IF q = 1 THEN Begins \cup {"eof"}
    ELSE IF q \in {5, 8, 12, 13, 14, 15} THEN Begins
    ELSE IF q = 4 THEN {"="}
    ELSE IF q = 6 THEN {"nl"}
    ELSE IF q = 10 THEN Operators \cup {")"}
    ELSE IF q \in {7, 16} THEN Operators
    ELSE Multiplicative
Pushed(q, k) ==
    IF k = "INTEGER" THEN 3 ELSE IF k = "VARIABLE" THEN IF q = 1 THEN 4 ELSE 9
    ELSE IF k = "(" THEN 5 ELSE IF k = "=" THEN 8 ELSE IF k = "nl" THEN 11
    ELSE IF k = "+" THEN 12 ELSE IF k = "-" THEN 13 ELSE IF k = "*" THEN 14
    ELSE IF k = "/" THEN 15 ELSE IF k = ")" THEN 17 ELSE 2
Asking == {1, 4, 5, 6, 7, 8, 10, 12, 13, 14, 15, 16, 18, 19}

\* The parser's decisions, read off its tables.
LEMMA Decision ==
    ASSUME NEW q \in Asking, NEW k \in Kinds
    PROVE  LET i == Elem(yypact, q) + yytranslate[k]
           IN /\ Hit(i, yytranslate[k]) <=> k \in Entries(q)
              /\ k \in Entries(q) => Elem(yytable, i) = Pushed(q, k)
<1>. USE CheckTable, EntryTable, Columns DEF Hit, YYLAST, Kinds, Pushed, Operators, Additive, Multiplicative, Begins
<1>1. CASE q = 1
  <2>1. Elem(yypact, q) = 0 /\ Entries(q) = Begins \cup {"eof"}
    BY <1>1, PactTable DEF Entries
  <2>. QED  BY <1>1, <2>1
<1>2. CASE q = 4
  <2>1. Elem(yypact, q) = -5 /\ Entries(q) = {"="}
    BY <1>2, PactTable DEF Entries
  <2>. QED  BY <1>2, <2>1
<1>3. CASE q \in {5, 8, 12, 13, 14, 15}
  <2>1. Elem(yypact, q) = 14 /\ Entries(q) = Begins
    BY <1>3, PactTable DEF Entries
  <2>. QED  BY <1>3, <2>1
<1>4. CASE q = 6
  <2>1. Elem(yypact, q) = -2 /\ Entries(q) = {"nl"}
    BY <1>4, PactTable DEF Entries
  <2>. QED  BY <1>4, <2>1
<1>5. CASE q \in {7, 16}
  <2>1. Elem(yypact, q) = 23 /\ Entries(q) = Operators
    BY <1>5, PactTable DEF Entries
  <2>. QED  BY <1>5, <2>1
<1>6. CASE q = 10
  <2>1. Elem(yypact, q) = 15 /\ Entries(q) = Operators \cup {")"}
    BY <1>6, PactTable DEF Entries
  <2>. QED  BY <1>6, <2>1
<1>7. CASE q \in {18, 19}
  <2>1. Elem(yypact, q) = -6 /\ Entries(q) = Multiplicative
    BY <1>7, PactTable DEF Entries
  <2>. QED  BY <1>7, <2>1
<1>. QED  BY <1>1, <1>2, <1>3, <1>4, <1>5, <1>6, <1>7 DEF Asking

\* What is below a state of the stack.
LEMMA Below ==
    ASSUME NEW ss, IsStack(ss), NEW i \in 2 .. Len(ss), NEW j, j = i - 1
    PROVE  /\ j \in Nat /\ j \in 1 .. Len(ss) /\ ss[i] \in States \ {0, 2}
           /\ ss[j] = 0 <=> j = 1
           /\ ss[j] # 0 => j \in 2 .. Len(ss)
           /\ ss[i] \in {3, 5} => ss[j] \in {1, 5, 8, 12, 13, 14, 15}
           /\ ss[i] = 9 => ss[j] \in {5, 8, 12, 13, 14, 15}
           /\ ss[i] \in {4, 6, 7} => ss[j] = 1
           /\ ss[i] = 8 => ss[j] = 4
           /\ ss[i] = 10 => ss[j] = 5
           /\ ss[i] = 11 => ss[j] = 6
           /\ ss[i] = 16 => ss[j] = 8
           /\ ss[i] = 17 => ss[j] = 10
           /\ ss[i] \in {12, 13} => ss[j] \in {7, 10, 16}
           /\ ss[i] \in {14, 15} => ss[j] \in {7, 10, 16, 18, 19}
           /\ ss[i] \in {18, 19, 20, 21} => ss[j] = ss[i] - 6
           /\ Under(ss[j], ss[i])
<1>0. Len(ss) \in Nat
  BY DEF IsStack
<1>1. i \in 1 .. Len(ss) /\ i # 1 /\ j \in Nat /\ j \in 1 .. Len(ss)
  BY <1>0
<1>2. ss[i] \in States \ {2} /\ ss[i] # 0 /\ ss[i - 1] \in States /\ Under(ss[i - 1], ss[i])
  BY <1>1, StackTop
<1>3. ss[j] = 0 <=> j = 1
  BY <1>1, StackTop
<1>4. PICK x \in States, y \in States : x = ss[j] /\ y = ss[i] /\ Under(x, y)
  BY <1>2
<1>5. ss[j] # 0 => j \in 2 .. Len(ss)
  BY <1>0, <1>1, <1>3
<1>6. /\ y \in {3, 5} => x \in {1, 5, 8, 12, 13, 14, 15}
      /\ y = 9 => x \in {5, 8, 12, 13, 14, 15}
      /\ y \in {4, 6, 7} => x = 1
      /\ y = 8 => x = 4
      /\ y = 10 => x = 5
      /\ y = 11 => x = 6
      /\ y = 16 => x = 8
      /\ y = 17 => x = 10
      /\ y \in {12, 13} => x \in {7, 10, 16}
      /\ y \in {14, 15} => x \in {7, 10, 16, 18, 19}
      /\ y \in {18, 19, 20, 21} => x = y - 6
  <2>1. x \in States /\ y \in States /\ Under(x, y)
    BY <1>4
  <2>. USE ONLY <2>1, UnderTable
  <2>. QED  BY <2>1, UnderTable
<1>7. ss[i] \in States \ {0, 2} /\ x = ss[j] /\ y = ss[i] /\ Under(ss[j], ss[i])
  BY <1>2, <1>4
<1>. QED  BY <1>1, <1>3, <1>5, <1>6, <1>7

\* The states that stand for tokens, and for which; those that stand for expressions.
TokenStates == {3, 4, 5, 8, 9, 11, 12, 13, 14, 15, 17}
TokenOf(q) ==
    IF q = 3 THEN "INTEGER" ELSE IF q \in {4, 9} THEN "VARIABLE" ELSE IF q = 5 THEN "("
    ELSE IF q = 8 THEN "=" ELSE IF q = 11 THEN "nl" ELSE IF q = 12 THEN "+"
    ELSE IF q = 13 THEN "-" ELSE IF q = 14 THEN "*" ELSE IF q = 15 THEN "/" ELSE ")"
ExprStates == {7, 10, 16, 18, 19, 20, 21}

\* State q with value v stands for the tokens of s from behind lo to hi.
StandsFor(s, mem, q, v, lo, hi) ==
    /\ lo \in Nat /\ hi \in 0 .. Len(s) /\ lo <= hi /\ (q # 1 => lo < hi)
    /\ q = 1 => lo = 0 /\ Complete(s, hi)
    /\ q \in TokenStates => hi = lo + 1 /\ Kind(s, hi) = TokenOf(q)
    /\ q \in {3, 4, 9} => v = s[hi].val
    /\ q = 6 => IsStatement(Cut(s, lo, hi))
    /\ q \in ExprStates => IsExpr[Cut(s, lo, hi)] /\ Value(mem)[Cut(s, lo, hi)] = {v}
    /\ q \in {18, 19} => Outside(Cut(s, lo, hi), Additive) = {}
    /\ q \in {20, 21} => Outside(Cut(s, lo, hi), Operators) = {}

\* The first k states of the stack stand for the tokens up to b[k]; no sum is below a "*"
\* or a "/".
Cover(s, mem, ss, vs, b, k) ==
    /\ b \in [1 .. k -> 0 .. Len(s)] /\ b[1] = 0
    /\ \A i \in 2 .. k : StandsFor(s, mem, ss[i], vs[i], b[i - 1], b[i])
    /\ \A i \in 3 .. k : b[2] < b[i]
    /\ \A i \in 2 .. k - 1 :
          ss[i + 1] \in {14, 15} => Outside(Cut(s, b[i - 1], b[i]), Additive) = {}

\* The stacks have the same first k states and values.
Agree(ss, vs, ss2, vs2, k) == \A i \in 1 .. k : ss2[i] = ss[i] /\ vs2[i] = vs[i]

\* Fewer states are covered as well, on any stacks that have them.
LEMMA CoverBelow ==
    ASSUME NEW s \in TokenSeqs, NEW mem, NEW ss, NEW vs, NEW ss2, NEW vs2, NEW k \in Nat, NEW b,
           Cover(s, mem, ss, vs, b, k), NEW j \in 1 .. k, Agree(ss, vs, ss2, vs2, j)
    PROVE  LET e == [i \in 1 .. j |-> b[i]] IN Cover(s, mem, ss2, vs2, e, j)
<1>. DEFINE e == [i \in 1 .. j |-> b[i]]
<1>0. j \in Nat /\ j <= k /\ 1 <= j /\ \A i \in 1 .. j : i \in 1 .. k /\ e[i] = b[i] /\ e[i] \in 0 .. Len(s)
  BY DEF Cover
<1>1. e \in [1 .. j -> 0 .. Len(s)] /\ e[1] = 0
  BY <1>0 DEF Cover
<1>2. ASSUME NEW i \in 2 .. j PROVE StandsFor(s, mem, ss2[i], vs2[i], e[i - 1], e[i])
  <2>1. i \in 1 .. j /\ i - 1 \in 1 .. j /\ i \in 2 .. k
    BY <1>0
  <2>2. StandsFor(s, mem, ss[i], vs[i], b[i - 1], b[i])
    BY <2>1 DEF Cover
  <2>3. ss2[i] = ss[i] /\ vs2[i] = vs[i] /\ e[i] = b[i] /\ e[i - 1] = b[i - 1]
    BY <1>0, <2>1 DEF Agree
  <2>. QED  BY <2>2, <2>3
<1>3. ASSUME NEW i \in 3 .. j PROVE e[2] < e[i]
  <2>1. i \in 1 .. j /\ 2 \in 1 .. j /\ i \in 3 .. k
    BY <1>0
  <2>. QED  BY <1>0, <2>1 DEF Cover
<1>4. ASSUME NEW i \in 2 .. j - 1, ss2[i + 1] \in {14, 15}
      PROVE  Outside(Cut(s, e[i - 1], e[i]), Additive) = {}
  <2>1. i \in 1 .. j /\ i - 1 \in 1 .. j /\ i + 1 \in 1 .. j /\ i \in 2 .. k - 1
    BY <1>0
  <2>2. ss[i + 1] \in {14, 15} /\ e[i] = b[i] /\ e[i - 1] = b[i - 1]
    BY <1>0, <1>4, <2>1 DEF Agree
  <2>. QED  BY <2>1, <2>2 DEF Cover
<1>. HIDE DEF e
<1>5. Cover(s, mem, ss2, vs2, e, j)
  BY <1>1, <1>2, <1>3, <1>4 DEF Cover
<1>. QED  BY <1>5 DEF e

\* A state is pushed.
LEMMA CoverPush ==
    ASSUME NEW s \in TokenSeqs, NEW mem, NEW ss, NEW vs, NEW ss2, NEW vs2, NEW k \in Nat, k > 0, NEW b,
           Cover(s, mem, ss, vs, b, k), Agree(ss, vs, ss2, vs2, k),
           NEW hi \in 0 .. Len(s), k > 1 => ss2[k + 1] # 1,
           StandsFor(s, mem, ss2[k + 1], vs2[k + 1], b[k], hi),
           k > 1 /\ ss2[k + 1] \in {14, 15} => Outside(Cut(s, b[k - 1], b[k]), Additive) = {}
    PROVE  LET e == [i \in 1 .. k + 1 |-> IF i = k + 1 THEN hi ELSE b[i]]
           IN Cover(s, mem, ss2, vs2, e, k + 1)
<1>. DEFINE e == [i \in 1 .. k + 1 |-> IF i = k + 1 THEN hi ELSE b[i]]
<1>0. /\ \A i \in 1 .. k : i \in 1 .. k + 1 /\ i # k + 1 /\ e[i] = b[i] /\ b[i] \in 0 .. Len(s)
      /\ e[k + 1] = hi /\ k + 1 \in 1 .. k + 1
      /\ \A i \in 1 .. k + 1 : i \in 1 .. k \/ i = k + 1
  BY DEF Cover
<1>1. e \in [1 .. k + 1 -> 0 .. Len(s)] /\ e[1] = 0
  BY <1>0 DEF Cover
<1>. HIDE DEF e
<1>2. ASSUME NEW i \in 2 .. k + 1 PROVE StandsFor(s, mem, ss2[i], vs2[i], e[i - 1], e[i])
  <2>1. CASE i = k + 1
    <3>1. i - 1 = k /\ k \in 1 .. k
      BY <2>1
    <3>. QED  BY <1>0, <2>1, <3>1
  <2>2. CASE i # k + 1
    <3>1. i \in 2 .. k /\ i \in 1 .. k /\ i - 1 \in 1 .. k
      BY <2>2
    <3>2. ss2[i] = ss[i] /\ vs2[i] = vs[i] /\ e[i] = b[i] /\ e[i - 1] = b[i - 1]
      BY <1>0, <3>1 DEF Agree
    <3>. QED  BY <3>1, <3>2 DEF Cover
  <2>. QED  BY <2>1, <2>2
<1>3. ASSUME NEW i \in 3 .. k + 1 PROVE e[2] < e[i]
  <2>0. 2 \in 1 .. k /\ e[2] = b[2] /\ b[2] \in Nat /\ k > 1
    BY <1>0
  <2>1. CASE i = k + 1
    <3>1. b[k] < hi /\ b[k] \in Nat /\ hi \in Nat
      BY <2>0 DEF StandsFor
    <3>2. b[2] <= b[k]
      <4>1. k = 2 \/ k \in 3 .. k
        BY <2>0
      <4>. QED  BY <2>0, <3>1, <4>1 DEF Cover
    <3>. QED  BY <1>0, <2>0, <2>1, <3>1, <3>2
  <2>2. CASE i # k + 1
    <3>1. i \in 3 .. k /\ i \in 1 .. k
      BY <2>2
    <3>. QED  BY <1>0, <2>0, <3>1 DEF Cover
  <2>. QED  BY <2>1, <2>2
<1>4. ASSUME NEW i \in 2 .. (k + 1) - 1, ss2[i + 1] \in {14, 15}
      PROVE  Outside(Cut(s, e[i - 1], e[i]), Additive) = {}
  <2>0. i \in 1 .. k /\ i - 1 \in 1 .. k /\ k > 1
    OBVIOUS
  <2>1. e[i] = b[i] /\ e[i - 1] = b[i - 1]
    BY <1>0, <2>0
  <2>2. CASE i = k
    BY <1>4, <2>0, <2>1, <2>2
  <2>3. CASE i # k
    <3>1. i \in 2 .. k - 1 /\ i + 1 \in 1 .. k
      BY <2>3
    <3>2. ss[i + 1] \in {14, 15}
      BY <1>4, <3>1 DEF Agree
    <3>. QED  BY <2>1, <3>1, <3>2 DEF Cover
  <2>. QED  BY <2>2, <2>3
<1>5. Cover(s, mem, ss2, vs2, e, k + 1)
  BY <1>1, <1>2, <1>3, <1>4 DEF Cover
<1>. QED  BY <1>5 DEF e

\* What s2 has in common with s when it begins with s.
Longer(s, s2) == Len(s) <= Len(s2) /\ IsPart(s, 0, s2, Len(s))

\* What was said of s holds of s2.
LEMMA LongerSame ==
    ASSUME NEW s \in TokenSeqs, NEW s2 \in TokenSeqs, Longer(s, s2)
    PROVE  /\ \A i \in 1 .. Len(s) : s2[i] = s[i] /\ Kind(s2, i) = Kind(s, i)
           /\ \A i \in 0 .. Len(s) : Depth(s2, i) = Depth(s, i)
           /\ \A b \in 0 .. Len(s) : \A a \in 0 .. b : Cut(s2, a, b) = Cut(s, a, b)
           /\ \A n \in 0 .. Len(s) : Complete(s, n) => Complete(s2, n)
           /\ \A n \in 0 .. Len(s) : \A b \in 0 .. Len(s) : Line(s, b, n) => Line(s2, b, n)
           /\ \A b \in 0 .. Len(s) : \A c \in b .. Len(s) : Starts(s, b, c) => Starts(s2, b, c)
<1>0. Len(s) \in Nat /\ Len(s2) \in Nat /\ Len(s) \in 0 .. Len(s) /\ Len(s) <= Len(s2)
  BY DEF TokenSeqs, Longer
<1>1. /\ \A i \in 1 .. Len(s) : s2[i] = s[i] /\ Kind(s2, i) = Kind(s, i)
      /\ \A i \in 0 .. Len(s) : Depth(s2, i) = Depth(s, i)
      /\ \A b \in 0 .. Len(s) : \A a \in 0 .. b : Cut(s2, a, b) = Cut(s, a, b)
      /\ \A i \in 0 .. Len(s) : LastBreak(s2, i) = LastBreak(s, i)
  BY <1>0, SameBefore DEF Longer
<1>2. ASSUME NEW n \in 0 .. Len(s), Complete(s, n) PROVE Complete(s2, n)
  <2>1. n = 0 \/ Kind(s2, n) = "nl"
    <3>1. n = 0 \/ n \in 1 .. Len(s)
      BY <1>0
    <3>. QED  BY <1>1, <1>2, <3>1 DEF Complete
  <2>2. Depth(s2, n) = 0
    BY <1>1, <1>2 DEF Complete
  <2>3. ASSUME NEW m \in 1 .. n, Kind(s2, m) = "nl" PROVE EndsStatement(s2, m)
    <3>1. m \in 1 .. Len(s) /\ m - 1 \in 0 .. Len(s) /\ m - 1 \in Nat
      BY <1>0
    <3>2. EndsStatement(s, m)
      BY <1>1, <1>2, <2>3, <3>1 DEF Complete
    <3>3. LastBreak(s, m - 1) \in 0 .. m - 1 /\ LastBreak(s2, m - 1) = LastBreak(s, m - 1)
      BY <1>1, <3>1, BreakPlace
    <3>4. Cut(s2, LastBreak(s, m - 1), m - 1) = Cut(s, LastBreak(s, m - 1), m - 1)
      BY <1>1, <3>1, <3>3
    <3>. QED  BY <3>2, <3>3, <3>4 DEF EndsStatement
  <2>. QED  BY <2>1, <2>2, <2>3 DEF Complete
<1>3. ASSUME NEW n \in 0 .. Len(s), NEW b \in 0 .. Len(s), Line(s, b, n) PROVE Line(s2, b, n)
  <2>1. b = 0 \/ b \in 1 .. Len(s)
    BY <1>0
  <2>2. \A j \in b + 1 .. n : j \in 1 .. Len(s)
    BY <1>0
  <2>. QED  BY <1>1, <1>3, <2>1, <2>2 DEF Line
<1>4. ASSUME NEW b \in 0 .. Len(s), NEW c \in b .. Len(s), Starts(s, b, c) PROVE Starts(s2, b, c)
  <2>1. c = b + 2 => b + 1 \in 1 .. Len(s) /\ b + 2 \in 1 .. Len(s)
    BY <1>0
  <2>. QED  BY <1>1, <1>4, <2>1 DEF Starts
<1>. QED  BY <1>1, <1>2, <1>3, <1>4

\* An entry of the stack stays what it is when a token is read.
LEMMA EntryLonger ==
    ASSUME NEW s \in TokenSeqs, NEW s2 \in TokenSeqs, Longer(s, s2),
           NEW mem, NEW q, NEW v, NEW lo, NEW hi, StandsFor(s, mem, q, v, lo, hi)
    PROVE  StandsFor(s2, mem, q, v, lo, hi)
<1>0. lo \in Nat /\ hi \in 0 .. Len(s) /\ lo <= hi /\ (q # 1 => lo < hi) /\ Len(s) \in Nat
      /\ Len(s2) \in Nat /\ Len(s) <= Len(s2)
  BY DEF StandsFor, TokenSeqs, Longer
<1>1. hi \in 0 .. Len(s2) /\ lo \in 0 .. hi /\ (q # 1 => hi \in 1 .. Len(s))
  BY <1>0
<1>2. Cut(s2, lo, hi) = Cut(s, lo, hi)
  BY <1>0, <1>1, LongerSame
<1>3. q # 1 => s2[hi] = s[hi] /\ Kind(s2, hi) = Kind(s, hi)
  BY <1>1, LongerSame
<1>4. q = 1 => Complete(s2, hi)
  BY <1>0, LongerSame DEF StandsFor
<1>5. 1 \notin TokenStates /\ 1 \notin {3, 4, 9}
  BY DEF TokenStates
<1>6. q \in TokenStates => hi = lo + 1 /\ Kind(s2, hi) = TokenOf(q)
  BY <1>3, <1>5 DEF StandsFor
<1>7. q \in {3, 4, 9} => v = s2[hi].val
  BY <1>3, <1>5 DEF StandsFor
<1>. QED  BY <1>0, <1>1, <1>2, <1>4, <1>6, <1>7 DEF StandsFor

\* And so does the whole stack.
LEMMA CoverLonger ==
    ASSUME NEW s \in TokenSeqs, NEW s2 \in TokenSeqs, Longer(s, s2),
           NEW mem, NEW ss, NEW vs, NEW b, NEW k \in Nat, k > 0, Cover(s, mem, ss, vs, b, k)
    PROVE  Cover(s2, mem, ss, vs, b, k)
<1>0. Len(s) \in Nat /\ Len(s2) \in Nat /\ Len(s) <= Len(s2)
  BY DEF TokenSeqs, Longer
<1>1. b \in [1 .. k -> 0 .. Len(s2)] /\ b[1] = 0
  BY <1>0 DEF Cover
<1>2. ASSUME NEW i \in 2 .. k PROVE StandsFor(s2, mem, ss[i], vs[i], b[i - 1], b[i])
  BY EntryLonger DEF Cover
<1>3. ASSUME NEW i \in 2 .. k - 1, ss[i + 1] \in {14, 15}
      PROVE  Outside(Cut(s2, b[i - 1], b[i]), Additive) = {}
  <2>1. StandsFor(s, mem, ss[i], vs[i], b[i - 1], b[i])
    BY DEF Cover
  <2>2. b[i] \in 0 .. Len(s) /\ b[i - 1] \in 0 .. b[i]
    BY <2>1 DEF StandsFor
  <2>3. Cut(s2, b[i - 1], b[i]) = Cut(s, b[i - 1], b[i])
    BY <2>2, LongerSame
  <2>. QED  BY <1>3, <2>3 DEF Cover
<1>. QED  BY <1>1, <1>2, <1>3 DEF Cover

\* The tokens that have left the look-ahead.
TakenOf(ch, s) == IF ch = YYEMPTY THEN Len(s) ELSE Len(s) - 1

\* The line that the parser is in begins behind b, its expression behind c; q is the
\* state on top, n the number of tokens taken, st what was printed and the memory.
InLine(q, ch, s, st, b, c, n) ==
    /\ q \notin {6, 11} => /\ c \in b .. n /\ Starts(s, b, c) /\ Partial(Cut(s, c, n))
                           /\ Line(s, b, n) /\ st = Program[Cut(s, 0, b)]
    /\ q = 6 => Line(s, b, n) /\ st = Program[s] /\ ch \notin Operators \cup {YYEMPTY}
    /\ q = 11 => Line(s, b, n - 1) /\ st = Program[s] /\ ch = YYEMPTY
    /\ q \in {6, 7} /\ n = b + 1 /\ Kind(s, n) = "VARIABLE" => ch \notin {YYEMPTY, "="}

\* A sum on top is not what a "*" or "/" is about to apply to.
Tight(q, ch, s, lo, hi) ==
    q \in {7, 10, 16} /\ ch \in Multiplicative \cup {YYEMPTY} => Outside(Cut(s, lo, hi), Additive) = {}

\* The stacks stand for the input.
Stands(ss, vs, ch, s, st, b, c) ==
    LET L == Len(ss)
        n == TakenOf(ch, s)
    IN /\ Cover(s, st.sym, ss, vs, b, L) /\ b[L] = n
       /\ InLine(ss[L], ch, s, st, b[2], c, n)
       /\ Tight(ss[L], ch, s, b[L - 1], b[L])
Positions(ss, s) == [1 .. Len(ss) -> 0 .. Len(s)]
Parses(ss, vs, ch, s, st) ==
    /\ \A i \in 1 .. TakenOf(ch, s) : Kind(s, i) # "eof"
    /\ IF Len(ss) = 1 THEN s = <<>> /\ ch = YYEMPTY /\ st = Program[<<>>]
       ELSE \E b \in Positions(ss, s), c \in Nat : Stands(ss, vs, ch, s, st, b, c)

\* What the parser's other invariants say of the same.
Setting(ss, vs, ch, s, st) ==
    /\ IsStack(ss) /\ IsSeq(vs) /\ Len(vs) = Len(ss) /\ s \in TokenSeqs
    /\ ch \in Kinds \cup {YYEMPTY}
    /\ ch # YYEMPTY => Len(s) > 0 /\ Kind(s, Len(s)) = ch
    /\ Opens(ss, Len(ss)) = Depth(s, TakenOf(ch, s)) + IF ss[Len(ss)] = 17 THEN 1 ELSE 0
    /\ st.trapped = FALSE

\* What follows directly.
LEMMA Situation ==
    ASSUME NEW ss, NEW vs, NEW ch, NEW s, NEW st, Setting(ss, vs, ch, s, st),
           NEW b, NEW c, Len(ss) # 1, Stands(ss, vs, ch, s, st, b, c)
    PROVE  LET L == Len(ss)
               n == TakenOf(ch, s)
           IN /\ L \in Nat /\ L >= 2 /\ n \in 0 .. Len(s) /\ Len(s) \in Nat
              /\ n = Len(s) <=> ch = YYEMPTY
              /\ n # Len(s) => n = Len(s) - 1
              /\ ss[2] = 1 /\ ss[L] \in States \ {0, 2} /\ (ss[L] = 1 <=> L = 2)
              /\ b[2] \in 0 .. n /\ Complete(s, b[2]) /\ (L > 2 => b[2] < n)
              /\ StandsFor(s, st.sym, ss[L], vs[L], b[L - 1], n)
              /\ st \in Outcomes /\ st.sym \in Memories
<1>. DEFINE L == Len(ss)
            n == TakenOf(ch, s)
<1>0. /\ IsStack(ss) /\ s \in TokenSeqs /\ (ch # YYEMPTY => Len(s) > 0)
      /\ Cover(s, st.sym, ss, vs, b, L) /\ b[L] = n
  BY DEF Setting, Stands
<1>1. L \in Nat /\ L >= 2
  <2>1. L \in Nat /\ L > 0
    BY <1>0 DEF IsStack
  <2>2. L # 1
    OBVIOUS
  <2>. HIDE DEF L
  <2>. QED  BY <2>1, <2>2
<1>2. n \in 0 .. Len(s) /\ Len(s) \in Nat /\ (n = Len(s) <=> ch = YYEMPTY) /\ (n # Len(s) => n = Len(s) - 1)
  BY <1>0 DEF TakenOf, TokenSeqs
<1>3. ss[2] = 1 /\ ss[1] = 0 /\ ss[L] \in States \ {0, 2}
  <2>1. 1 \in 1 .. Len(ss) /\ 2 \in 1 .. Len(ss) /\ L \in 1 .. Len(ss) /\ 2 - 1 = 1 /\ L # 1 /\ 2 # 1
    BY <1>1
  <2>2. ss[1] = 0 /\ ss[2] # 0 /\ ss[L] # 0 /\ ss[L] \in States \ {2} /\ ss[2] \in States \ {2}
    BY <1>0, <2>1, StackTop
  <2>3. Under(ss[1], ss[2]) /\ ss[1] \in States
    BY <1>0, <2>1, <2>2, StackTop
  <2>. QED  BY <2>2, <2>3 DEF Under
<1>4. ss[L] = 1 <=> L = 2
  <2>1. ASSUME ss[L] = 1, L # 2 PROVE FALSE
    <3>1. L \in 1 .. Len(ss) /\ L - 1 \in 1 .. Len(ss) /\ L - 1 # 1
      BY <1>1, <2>1
    <3>2. Under(ss[L - 1], ss[L]) /\ ss[L - 1] # 0
      BY <1>0, <1>3, <3>1, StackTop
    <3>. QED  BY <2>1, <3>2 DEF Under
  <2>. QED  BY <1>3, <2>1
<1>. HIDE DEF n, L
<1>5. StandsFor(s, st.sym, 1, vs[2], b[1], b[2]) /\ StandsFor(s, st.sym, ss[L], vs[L], b[L - 1], n)
  <2>1. 2 \in 2 .. L /\ L \in 2 .. L /\ 2 - 1 = 1
    BY <1>1
  <2>. QED  BY <1>0, <1>3, <2>1 DEF Cover
<1>6. b[2] \in Nat /\ Complete(s, b[2])
  BY <1>5 DEF StandsFor
<1>7. b[2] \in 0 .. n /\ (L > 2 => b[2] < n)
  <2>1. CASE L = 2
    BY <1>0, <1>2, <1>6, <2>1
  <2>2. CASE L # 2
    <3>1. L \in 3 .. L
      BY <1>1, <2>2
    <3>2. b[2] < b[L]
      BY <1>0, <3>1 DEF Cover
    <3>. QED  BY <1>0, <1>2, <1>6, <3>2
  <2>. QED  BY <2>1, <2>2
<1>8. st \in Outcomes
  <2>1. InLine(ss[L], ch, s, st, b[2], c, n)
    BY DEF Stands, n, L
  <2>2. b[2] \in 0 .. Len(s) /\ 0 \in 0 .. b[2]
    BY <1>2, <1>6, <1>7
  <2>3. Cut(s, 0, b[2]) \in TokenSeqs
    BY <1>0, <2>2, CutIs
  <2>4. st = Program[Cut(s, 0, b[2])] \/ st = Program[s]
    BY <2>1 DEF InLine
  <2>. QED  BY <1>0, <2>3, <2>4, ProgramUnrolls
<1>9. st.sym \in Memories
  BY <1>8 DEF Outcomes
<1>. QED  BY <1>1, <1>2, <1>3, <1>4, <1>5, <1>6, <1>7, <1>8, <1>9 DEF L, n

-----------------------------------------------------------------------------
(* 16. Tokens that are asked for, accepted and rejected. *)

\* Of a partial expression and a token behind it, only the whole expression can be executed.
LEMMA ExecIs ==
    ASSUME NEW s \in TokenSeqs, NEW n \in 0 .. Len(s), n + 1 = Len(s), NEW b \in 0 .. n,
           NEW c \in b .. n, Starts(s, b, c), Partial(Cut(s, c, n))
    PROVE  LET X == Executable(Cut(s, b, Len(s)))
           IN /\ X = {} \/ X = {n - b}
              /\ n - b \in X <=>
                    /\ b < n /\ IsStatement(Cut(s, b, n)) /\ Kind(s, Len(s)) \notin Operators
                    /\ ~(n = b + 1 /\ Kind(s, n) = "VARIABLE" /\ Kind(s, Len(s)) = "=")
<1>0. b \in Nat /\ n \in Nat /\ c \in Nat /\ Len(s) \in Nat /\ b <= n /\ Len(s) \in 0 .. Len(s)
      /\ n \in 0 .. Len(s) /\ b \in 0 .. Len(s)
  BY DEF TokenSeqs
<1>. DEFINE w == Cut(s, b, Len(s))
<1>1. /\ w \in TokenSeqs /\ Len(w) = Len(s) - b
      /\ \A i \in 1 .. Len(s) - b : Kind(w, i) = Kind(s, b + i)
  BY <1>0, CutIs
<1>2. \A k \in Executable(w) : k >= n - b
  BY <1>0, NoExec
<1>3. Upto(w, n - b) = Cut(s, b, n)
  <2>1. PICK d \in 0 .. Len(s) - b : d = n - b
    BY <1>0
  <2>2. 0 \in 0 .. d /\ b + 0 = b /\ b + d = n
    BY <1>0, <2>1
  <2>3. Cut(w, 0, d) = Cut(s, b + 0, b + d)
    BY <1>0, <2>2, CutCut
  <2>. HIDE DEF w
  <2>4. Upto(w, d) = Cut(w, 0, d)
    BY <1>1, <2>1, CutNames
  <2>. QED  BY <2>1, <2>2, <2>3, <2>4
<1>. HIDE DEF w
<1>4. \A k \in Executable(w) : k = n - b
  <2>1. SUFFICES ASSUME NEW k \in Executable(w) PROVE k = n - b
    OBVIOUS
  <2>2. k \in 1 .. (Len(s) - b) - 1 /\ k >= n - b
    BY <1>1, <1>2 DEF Executable
  <2>. QED  BY <1>0, <2>2
<1>5. Executable(w) = {} \/ Executable(w) = {n - b}
  BY <1>4, Zenon
<1>6. n - b \in 1 .. Len(w) - 1 <=> b < n
  BY <1>0, <1>1
<1>7. Kind(w, (n - b) + 1) = Kind(s, Len(s))
  <2>1. PICK d \in Nat : d = (n - b) + 1
    BY <1>0
  <2>2. d \in 1 .. Len(s) - b /\ b + d = Len(s)
    BY <1>0, <2>1
  <2>. QED  BY <1>1, <2>1, <2>2
<1>8. n - b = 1 <=> n = b + 1
  BY <1>0
<1>9. n = b + 1 => Kind(w, 1) = Kind(s, n) /\ Kind(w, 2) = Kind(s, Len(s))
  <2>1. SUFFICES ASSUME n = b + 1 PROVE Kind(w, 1) = Kind(s, n) /\ Kind(w, 2) = Kind(s, Len(s))
    OBVIOUS
  <2>2. 1 \in 1 .. Len(s) - b /\ 2 \in 1 .. Len(s) - b /\ b + 1 = n /\ b + 2 = Len(s)
    BY <1>0, <2>1
  <2>. QED  BY <1>1, <2>2
<1>10. n - b \in Executable(w) <=>
          /\ n - b \in 1 .. Len(w) - 1
          /\ IsStatement(Upto(w, n - b))
          /\ Kind(w, (n - b) + 1) \notin Operators
          /\ ~(n - b = 1 /\ Kind(w, 1) = "VARIABLE" /\ Kind(w, 2) = "=")
  BY DEF Executable
<1>11. n - b \in Executable(w) <=>
          /\ b < n /\ IsStatement(Cut(s, b, n)) /\ Kind(s, Len(s)) \notin Operators
          /\ ~(n = b + 1 /\ Kind(s, n) = "VARIABLE" /\ Kind(s, Len(s)) = "=")
  BY <1>3, <1>6, <1>7, <1>8, <1>9, <1>10, Zenon
<1>. QED  BY <1>5, <1>11 DEF w

\* A line that is not complete has done nothing.
LEMMA QuietLine ==
    ASSUME NEW s \in TokenSeqs, NEW n \in 0 .. Len(s), n = Len(s) \/ n + 1 = Len(s),
           NEW b \in 0 .. n, NEW c \in b .. n, Starts(s, b, c), Partial(Cut(s, c, n)),
           Line(s, b, n), NEW st, st = Program[Cut(s, 0, b)], st.trapped = FALSE,
           n # Len(s) => ~IsStatement(Cut(s, b, n))
    PROVE  st = Program[s]
<1>0. b \in Nat /\ n \in Nat /\ c \in Nat /\ Len(s) \in Nat /\ b <= n /\ Len(s) \in 0 .. Len(s)
      /\ b \in 0 .. Len(s)
  BY DEF TokenSeqs
<1>1. Executable(Cut(s, b, Len(s))) = {}
  <2>1. CASE n = Len(s)
    <3>1. Len(Cut(s, b, Len(s))) = Len(s) - b
      BY <1>0, CutIs
    <3>2. ASSUME NEW k \in Executable(Cut(s, b, Len(s))) PROVE FALSE
      <4>1. k \in 1 .. (Len(s) - b) - 1
        BY <3>1 DEF Executable
      <4>2. k >= n - b
        BY <1>0, NoExec
      <4>. QED  BY <1>0, <2>1, <4>1, <4>2
    <3>. QED  BY <3>2
  <2>2. CASE n # Len(s)
    <3>1. n + 1 = Len(s)
      BY <2>2
    <3>2. /\ Executable(Cut(s, b, Len(s))) = {} \/ Executable(Cut(s, b, Len(s))) = {n - b}
          /\ n - b \notin Executable(Cut(s, b, Len(s)))
      BY <2>2, <3>1, ExecIs
    <3>. QED  BY <3>2
  <2>. QED  BY <2>1, <2>2
<1>2. Line(s, b, Len(s) - 1)
  <2>1. \A j \in b + 1 .. Len(s) - 1 : j \in b + 1 .. n
    BY <1>0
  <2>. QED  BY <2>1 DEF Line
<1>. QED  BY <1>0, <1>1, <1>2, ProgramQuiet

\* When the parser asks for a token, the input can go on, and has done what it does so far.
LEMMA AskFine ==
    ASSUME NEW ss, NEW vs, NEW ch, NEW s, NEW st, Setting(ss, vs, ch, s, st),
           NEW b, NEW c, Len(ss) # 1, Stands(ss, vs, ch, s, st, b, c),
           ch = YYEMPTY, ss[Len(ss)] \in Asking
    PROVE  Viable(s) /\ st = Program[s]
<1>. DEFINE q == ss[Len(ss)]
            n == TakenOf(ch, s)
            B == b[2]
<1>1. /\ s \in TokenSeqs /\ st.trapped = FALSE /\ n = Len(s) /\ Len(s) \in Nat /\ B \in 0 .. n
      /\ Complete(s, B)
  <2>1. s \in TokenSeqs /\ st.trapped = FALSE
    BY DEF Setting
  <2>2. n = Len(s)
    BY DEF TakenOf
  <2>3. Len(s) \in Nat /\ B \in 0 .. n /\ Complete(s, B)
    <3>1. /\ Setting(ss, vs, ch, s, st) /\ Len(ss) # 1 /\ Stands(ss, vs, ch, s, st, b, c)
      OBVIOUS
    <3>. HIDE DEF n
    <3>2. PICK m : m = TakenOf(ch, s)
      OBVIOUS
    <3>3. Len(s) \in Nat /\ b[2] \in 0 .. m /\ Complete(s, b[2])
      <4>. USE ONLY <3>1, <3>2, Situation
      <4>. QED  BY <3>1, <3>2, Situation
    <3>. QED  BY <3>2, <3>3 DEF n
  <2>. QED  BY <2>1, <2>2, <2>3
<1>2. InLine(q, ch, s, st, B, c, n)
  BY DEF Stands
<1>. HIDE DEF q, n, B
<1>3. q \notin {6, 11}
  <2>1. q \in Asking
    BY DEF q
  <2>. QED  BY <1>2, <2>1 DEF InLine, Asking
<1>4. /\ c \in B .. n /\ Starts(s, B, c) /\ Partial(Cut(s, c, n))
      /\ Line(s, B, n) /\ st = Program[Cut(s, 0, B)]
  BY <1>2, <1>3 DEF InLine
<1>5. n \in 0 .. Len(s) /\ B \in 0 .. Len(s)
  BY <1>1
<1>6. BeginsStatement(Cut(s, B, n))
  BY <1>1, <1>4, <1>5, LineAt
<1>7. Viable(s)
  BY <1>1, <1>4, <1>5, <1>6, ViableIs
<1>8. st = Program[s]
  BY <1>1, <1>4, <1>5, QuietLine
<1>. QED  BY <1>7, <1>8

\* The end of the input in the state between two lines: the input was a program.
LEMMA AcceptFine ==
    ASSUME NEW ss, NEW vs, NEW ch, NEW s, NEW st, Setting(ss, vs, ch, s, st),
           NEW b, NEW c, Len(ss) # 1, Stands(ss, vs, ch, s, st, b, c),
           ch = "eof", ss[Len(ss)] = 1
    PROVE  Viable(s) /\ st = Program[s] /\ s[Len(s)] = Plain("eof")
<1>. DEFINE q == ss[Len(ss)]
            n == TakenOf(ch, s)
            B == b[2]
<1>0. ch # YYEMPTY
  BY DEF YYEMPTY
<1>1. /\ s \in TokenSeqs /\ st.trapped = FALSE /\ n + 1 = Len(s) /\ Len(s) \in Nat /\ B \in 0 .. n
      /\ Complete(s, B) /\ Kind(s, Len(s)) = "eof" /\ Len(ss) = 2 /\ n \in 0 .. Len(s)
  <2>1. /\ n \in 0 .. Len(s) /\ Len(s) \in Nat /\ n # Len(s) /\ n = Len(s) - 1
        /\ B \in 0 .. n /\ Complete(s, B) /\ Len(ss) = 2
    BY <1>0, Situation
  <2>2. s \in TokenSeqs /\ st.trapped = FALSE /\ Kind(s, Len(s)) = "eof"
    BY <1>0 DEF Setting
  <2>. HIDE DEF n, B
  <2>. QED  BY <2>1, <2>2
<1>2. InLine(q, ch, s, st, B, c, n) /\ B = n
  BY <1>1 DEF Stands
<1>3. q = 1
  OBVIOUS
<1>. HIDE DEF q, n, B
<1>4. /\ c \in B .. n /\ Starts(s, B, c) /\ Partial(Cut(s, c, n))
      /\ Line(s, B, n) /\ st = Program[Cut(s, 0, B)]
  BY <1>2, <1>3 DEF InLine
<1>5. n \in 0 .. Len(s) /\ B \in 0 .. Len(s) /\ n \in Nat /\ c = n
  BY <1>1, <1>2, <1>4
<1>6. s[Len(s)] = Plain("eof")
  <2>1. Len(s) \in 1 .. Len(s)
    BY <1>1, <1>5
  <2>2. s[Len(s)] \in Words /\ s[Len(s)].kind = "eof"
    BY <1>1, <2>1, WordKinds DEF Kind
  <2>. QED  BY <2>2 DEF Words, Plain, Tok
<1>7. Line(s, B, Len(s))
  <2>1. \A j \in B + 1 .. Len(s) : j = Len(s)
    BY <1>1, <1>2, <1>5
  <2>. QED  BY <1>1, <1>4, <2>1 DEF Line
<1>8. Viable(s)
  <2>1. B + 1 = Len(s)
    BY <1>1, <1>2
  <2>. QED  BY <1>1, <1>5, <1>6, <1>7, <2>1, ViableIs
<1>9. ~IsStatement(Cut(s, B, n))
  <2>1. ~(c < n)
    BY <1>5
  <2>. QED  BY <1>1, <1>4, <1>5, <2>1, LineAt
<1>10. st = Program[s]
  BY <1>1, <1>4, <1>5, <1>9, QuietLine
<1>. QED  BY <1>6, <1>8, <1>10

\* A statement is its expression, or what it assigns.
LEMMA StatementStarts ==
    ASSUME NEW s \in TokenSeqs, NEW n \in 0 .. Len(s), NEW b \in 0 .. n, IsStatement(Cut(s, b, n))
    PROVE  \E c \in b .. n : /\ Starts(s, b, c) /\ Partial(Cut(s, c, n)) /\ c < n
                             /\ Kind(s, n) \in Ends /\ Depth(s, n) = Depth(s, c)
<1>0. b \in Nat /\ n \in Nat /\ Len(s) \in Nat /\ b <= n
  BY DEF TokenSeqs
<1>1. \/ Flat(Cut(s, b, n))
      \/ b + 2 <= n /\ Kind(s, b + 1) = "VARIABLE" /\ Kind(s, b + 2) = "=" /\ Flat(Cut(s, b + 2, n))
  BY StatementAt
<1>2. PICK c \in b .. n : Starts(s, b, c) /\ Flat(Cut(s, c, n))
  <2>1. b \in b .. n /\ (b + 2 <= n => b + 2 \in b .. n)
    BY <1>0
  <2>. QED  BY <1>1, <2>1 DEF Starts
<1>3. c \in 0 .. n
  BY <1>0
<1>. QED  BY <1>2, <1>3, FlatAt

\* The place before the last.
LEMMA OneBefore ==
    ASSUME NEW b \in Nat, NEW n \in Nat, NEW l \in Nat, n + 1 = l
    PROVE  (b + 1 = l => b = n) /\ \A j \in b + 1 .. l : j \in b + 1 .. n \/ j = l
OBVIOUS

\* The input ends with a token that no program has there.
LEMMA RejectAt ==
    ASSUME NEW s \in TokenSeqs, NEW n \in 0 .. Len(s), n = Len(s) - 1, NEW b \in 0 .. n,
           Complete(s, b), Line(s, b, n),
           Kind(s, Len(s)) = "nl" => ~IsStatement(Cut(s, b, n)),
           b = n => Kind(s, Len(s)) # "eof",
           ~BeginsStatement(Cut(s, b, Len(s)))
    PROVE  ~Viable(s)
<1>0. b \in Nat /\ n \in Nat /\ Len(s) \in Nat /\ b <= n /\ n = Len(s) - 1 /\ b \in 0 .. Len(s)
      /\ b \in 0 .. Len(s) - 1 /\ b # Len(s)
  BY DEF TokenSeqs
<1>1. CASE Kind(s, Len(s)) = "nl"
  BY <1>0, <1>1, BadBreak
<1>2. CASE Kind(s, Len(s)) # "nl"
  <2>1. Line(s, b, Len(s))
    <3>1. \A j \in b + 1 .. Len(s) : j \in b + 1 .. n \/ j = Len(s)
      <4>1. n + 1 = Len(s)
        BY <1>0
      <4>. QED  BY <1>0, <4>1, OneBefore
    <3>. QED  BY <1>2, <3>1 DEF Line
  <2>2. ~(b + 1 = Len(s) /\ s[Len(s)] = Plain("eof"))
    <3>1. SUFFICES ASSUME b + 1 = Len(s), s[Len(s)] = Plain("eof") PROVE FALSE
      OBVIOUS
    <3>2. b = n
      BY <1>0, <3>1
    <3>3. Kind(s, Len(s)) = "eof"
      BY <3>1 DEF Kind, Plain, Tok
    <3>. QED  BY <3>2, <3>3
  <2>. QED  BY <1>0, <2>1, <2>2, ViableIs
<1>. QED  BY <1>1, <1>2

\* An open parenthesis below the top.
LEMMA OpenBelow ==
    ASSUME NEW ss, IsStack(ss), ss[Len(ss)] = 10
    PROVE  Opens(ss, Len(ss)) \in Nat /\ Opens(ss, Len(ss)) >= 1
<1>1. Len(ss) \in Nat /\ Len(ss) \in 1 .. Len(ss)
  BY DEF IsStack
<1>2. Len(ss) - 1 \in 1 .. Len(ss) /\ ss[Len(ss) - 1] \in States /\ Under(ss[Len(ss) - 1], ss[Len(ss)])
  BY <1>1, StackTop
<1>3. ss[Len(ss) - 1] = 5
  BY <1>2 DEF Under
<1>4. PICK m \in Nat : m + 2 = Len(ss)
  <2>1. Len(ss) - 1 # 1
    <3>1. 1 \in 1 .. Len(ss) /\ ss[1] = 0
      BY <1>1 DEF IsStack
    <3>. QED  BY <1>3, <3>1
  <2>2. Len(ss) - 2 \in Nat
    BY <1>1, <1>2, <2>1
  <2>. QED  BY <1>1, <2>2
<1>5. m + 1 \in Nat /\ (m + 1) + 1 = Len(ss) /\ Len(ss) - 1 = m + 1
  BY <1>4
<1>6. Opens(ss, m) \in Nat /\ Opens(ss, m + 1) = Opens(ss, m) + IF ss[m + 1] = 5 THEN 1 ELSE 0
  BY OpensNext
<1>7. Opens(ss, (m + 1) + 1) = Opens(ss, m + 1) + IF ss[(m + 1) + 1] = 5 THEN 1 ELSE 0
  BY <1>5, OpensNext
<1>. QED  BY <1>3, <1>5, <1>6, <1>7

\* The states in which a token can be an error.
ErrorStates == {1, 5, 6, 8, 10, 12, 13, 14, 15}

\* The look-ahead behind a statement.
LEMMA ErrorBehind ==
    ASSUME NEW ss, NEW vs, NEW ch, NEW s, NEW st, Setting(ss, vs, ch, s, st),
           NEW b, NEW c, Len(ss) # 1, Stands(ss, vs, ch, s, st, b, c),
           ch # YYEMPTY, ss[Len(ss)] = 6, ch \notin Entries(ss[Len(ss)])
    PROVE  ~Viable(s) /\ st = Program[s]
<1>. DEFINE L == Len(ss)
            n == TakenOf(ch, s)
            B == b[2]
<1>1. /\ L \in Nat /\ L >= 2 /\ n \in 0 .. Len(s) /\ Len(s) \in Nat /\ n # Len(s) /\ n = Len(s) - 1
      /\ B \in 0 .. n /\ Complete(s, B) /\ L # 2 /\ (L > 2 => B < n)
      /\ StandsFor(s, st.sym, ss[L], vs[L], b[L - 1], n)
  BY Situation
<1>2. s \in TokenSeqs /\ Kind(s, Len(s)) = ch /\ IsStack(ss)
  BY DEF Setting
<1>3. InLine(ss[L], ch, s, st, B, c, n)
  BY DEF Stands
<1>4. L = 3
  <2>1. L \in 1 .. Len(ss)
    BY <1>1
  <2>2. L - 1 \in 1 .. Len(ss) /\ Under(ss[L - 1], ss[L]) /\ ss[L] = 6
    BY <1>2, <2>1, StackTop
  <2>3. ss[L - 1] = 1
    BY <2>2 DEF Under
  <2>4. ss[L - 1] # 0 /\ L - 2 \in 1 .. Len(ss) /\ Under(ss[L - 2], ss[L - 1])
    <3>1. (L - 1) - 1 = L - 2
      BY <1>1
    <3>. QED  BY <1>2, <2>2, <2>3, <3>1, StackTop
  <2>5. ss[L - 2] = 0
    BY <2>3, <2>4 DEF Under
  <2>6. L - 2 = 1
    BY <1>2, <2>4, <2>5, StackTop
  <2>. QED  BY <1>1, <2>6
<1>5. IsStatement(Cut(s, B, n))
  BY <1>1, <1>4 DEF StandsFor
<1>6. /\ Line(s, B, n) /\ st = Program[s] /\ ch \notin Operators
      /\ n = B + 1 /\ Kind(s, n) = "VARIABLE" => ch # "="
  BY <1>3 DEF InLine
<1>7. ch # "nl"
  BY DEF Entries
<1>. HIDE DEF L, n, B
<1>8. PICK d \in B .. n : /\ Starts(s, B, d) /\ Partial(Cut(s, d, n)) /\ d < n
                          /\ Kind(s, n) \in Ends /\ Depth(s, n) = Depth(s, d)
  BY <1>1, <1>2, <1>5, StatementStarts
<1>9. n \in 0 .. Len(s) - 1 /\ n + 1 = Len(s) /\ B < n /\ n \in Nat /\ Len(s) > 0
  BY <1>1, <1>4
<1>10. Depth(s, Len(s)) \in Int /\ Depth(s, n) \in Int /\ (ch = ")" => Depth(s, Len(s)) = Depth(s, n) - 1)
  <2>1. Len(s) - 1 = n
    BY <1>9
  <2>. QED  BY <1>1, <1>2, <1>9, <2>1, DepthStep
<1>11. ~BeginsStatement(Cut(s, B, n + 1))
  <2>1. Kind(s, n + 1) = ch
    BY <1>2, <1>9
  <2>2. ~(Fits(Kind(s, n), ch) /\ Depth(s, n + 1) >= Depth(s, d))
    <3>1. Fits(Kind(s, n), ch) => ch = ")"
      BY <1>6, <1>8 DEF Fits, Ends, Operators, Additive, Multiplicative
    <3>. QED  BY <1>8, <1>9, <1>10, <3>1
  <2>3. ~(n = B + 1 /\ Kind(s, n) = "VARIABLE" /\ ch = "=")
    BY <1>6
  <2>. QED  BY <1>2, <1>1, <1>8, <1>9, <2>1, <2>2, <2>3, LineNext
<1>12. ~Viable(s)
  <2>1. B # n /\ Kind(s, Len(s)) # "nl" /\ ~BeginsStatement(Cut(s, B, Len(s)))
    BY <1>1, <1>2, <1>7, <1>9, <1>11
  <2>. QED  BY <1>1, <1>2, <1>6, <1>9, <2>1, RejectAt
<1>. QED  BY <1>6, <1>12

\* The look-ahead within an expression, or where one should begin.
LEMMA ErrorWithin ==
    ASSUME NEW ss, NEW vs, NEW ch, NEW s, NEW st, Setting(ss, vs, ch, s, st),
           NEW b, NEW c, Len(ss) # 1, Stands(ss, vs, ch, s, st, b, c),
           ch # YYEMPTY, ss[Len(ss)] \in ErrorStates \ {6}, ch \notin Entries(ss[Len(ss)])
    PROVE  ~Viable(s) /\ st = Program[s]
<1>. DEFINE L == Len(ss)
            q == ss[L]
            n == TakenOf(ch, s)
            B == b[2]
<1>1. /\ L \in Nat /\ L >= 2 /\ n \in 0 .. Len(s) /\ Len(s) \in Nat /\ n # Len(s) /\ n = Len(s) - 1
      /\ B \in 0 .. n /\ Complete(s, B) /\ (q = 1 <=> L = 2) /\ (L > 2 => B < n)
      /\ StandsFor(s, st.sym, q, vs[L], b[L - 1], n)
  BY Situation
<1>2. /\ s \in TokenSeqs /\ Kind(s, Len(s)) = ch /\ IsStack(ss) /\ st.trapped = FALSE
      /\ q = 10 => Opens(ss, L) = Depth(s, n)
  <2>1. /\ s \in TokenSeqs /\ Kind(s, Len(s)) = ch /\ IsStack(ss) /\ st.trapped = FALSE
        /\ Opens(ss, L) = Depth(s, n) + IF q = 17 THEN 1 ELSE 0
    BY DEF Setting
  <2>2. Depth(s, n) \in Int
    <3>1. n \in Nat
      BY <1>1
    <3>. QED  BY <3>1, DepthBound
  <2>. QED  BY <2>1, <2>2
<1>3. InLine(q, ch, s, st, B, c, n) /\ b[L] = n
  BY DEF Stands
<1>4. q \in {1, 5, 8, 10, 12, 13, 14, 15} /\ ch \notin Entries(q)
  BY DEF ErrorStates
<1>5. q = 10 => Depth(s, n) >= 1 /\ Depth(s, n) \in Int
  BY <1>2, OpenBelow
<1>6. q = 1 => B = n
  BY <1>1, <1>3
<1>. HIDE DEF L, q, n, B
<1>7. /\ c \in B .. n /\ Starts(s, B, c) /\ Partial(Cut(s, c, n))
      /\ Line(s, B, n) /\ st = Program[Cut(s, 0, B)]
  BY <1>3, <1>4 DEF InLine
<1>8. n \in 0 .. Len(s) - 1 /\ n + 1 = Len(s) /\ n \in Nat /\ B \in Nat /\ c \in Nat /\ B <= c /\ c <= n
  BY <1>1, <1>7
<1>9. /\ IsStatement(Cut(s, B, n)) <=> c < n /\ Kind(s, n) \in Ends /\ Depth(s, n) = Depth(s, c)
      /\ Depth(s, c) = 0
  <2>1. Depth(s, B) = 0
    BY <1>1 DEF Complete
  <2>. QED  BY <1>1, <1>2, <1>7, <2>1, LineAt
<1>10. CASE q = 10
  <2>1. IsExpr[Cut(s, b[L - 1], n)] /\ b[L - 1] \in 0 .. n
    BY <1>1, <1>10 DEF StandsFor, ExprStates
  <2>2. Kind(s, n) \in Ends
    BY <1>1, <1>2, <2>1, FlatAt
  <2>3. ~IsStatement(Cut(s, B, n))
    BY <1>5, <1>9, <1>10
  <2>4. ch \notin Operators /\ ch # ")"
    BY <1>4, <1>10 DEF Entries
  <2>5. B < n
    BY <1>1, <1>10
  <2>6. c < n
    <3>1. SUFFICES ASSUME c = n PROVE FALSE
      BY <1>8
    <3>2. Kind(s, n) = "="
      BY <1>7, <1>8, <2>5, <3>1 DEF Starts
    <3>. QED  BY <2>2, <3>2 DEF Ends
  <2>7. ~(n = B + 1 /\ Kind(s, n) = "VARIABLE")
    <3>1. SUFFICES ASSUME n = B + 1, Kind(s, n) = "VARIABLE" PROVE FALSE
      OBVIOUS
    <3>2. n > 0 /\ n - 1 = B
      BY <1>8, <3>1
    <3>3. Depth(s, n) = Depth(s, B)
      BY <1>8, <3>1, <3>2, DepthStep
    <3>. QED  BY <1>1, <1>5, <1>10, <3>3 DEF Complete
  <2>8. ~Fits(Kind(s, n), ch)
    BY <2>2, <2>4 DEF Fits, Ends, Operators, Additive, Multiplicative
  <2>9. ~BeginsStatement(Cut(s, B, n + 1))
    <3>1. Kind(s, n + 1) = ch
      BY <1>2, <1>8
    <3>. QED  BY <1>1, <1>2, <1>7, <1>8, <2>6, <2>7, <2>8, <3>1, LineNext
  <2>10. ~Viable(s)
    <3>1. B # n /\ ~BeginsStatement(Cut(s, B, Len(s)))
      BY <1>8, <2>5, <2>9
    <3>. QED  BY <1>1, <1>2, <1>7, <1>8, <2>3, <3>1, RejectAt
  <2>11. st = Program[s]
    BY <1>1, <1>2, <1>7, <1>8, <2>3, QuietLine
  <2>. QED  BY <2>10, <2>11
<1>11. CASE q # 10
  <2>1. ch \notin Begins /\ (q = 1 => ch # "eof")
    BY <1>4, <1>11 DEF Entries
  <2>2. q = 1 \/ Kind(s, n) \in {"(", "=", "+", "-", "*", "/"}
    <3>1. q # 1 => q \in TokenStates /\ TokenOf(q) \in {"(", "=", "+", "-", "*", "/"}
      BY <1>4, <1>11 DEF TokenStates, TokenOf
    <3>. QED  BY <1>1, <3>1 DEF StandsFor
  <2>3. q = 1 => c = n /\ n # B + 1
    BY <1>6, <1>8
  <2>4. ~IsStatement(Cut(s, B, n))
    <3>1. c < n => Kind(s, n) \notin Ends
      BY <1>8, <2>2, <2>3 DEF Ends
    <3>. QED  BY <1>9, <3>1
  <2>5. ~(n = B + 1 /\ Kind(s, n) = "VARIABLE")
    BY <2>2, <2>3
  <2>6. c < n => ~Fits(Kind(s, n), ch)
    <3>1. SUFFICES ASSUME c < n PROVE ~Fits(Kind(s, n), ch)
      OBVIOUS
    <3>2. q # 1
      BY <1>8, <2>3, <3>1
    <3>. QED  BY <2>1, <2>2, <3>2 DEF Fits, Ends, Begins
  <2>7. ~BeginsStatement(Cut(s, B, n + 1))
    <3>1. Kind(s, n + 1) = ch
      BY <1>2, <1>8
    <3>2. c = n \/ c < n
      BY <1>8
    <3>. QED  BY <1>1, <1>2, <1>7, <1>8, <2>1, <2>5, <2>6, <3>1, <3>2, LineNext
  <2>8. B = n => q = 1
    BY <1>1
  <2>9. ~Viable(s)
    <3>1. (B = n => Kind(s, Len(s)) # "eof") /\ ~BeginsStatement(Cut(s, B, Len(s)))
      BY <1>2, <1>8, <2>1, <2>7, <2>8
    <3>. QED  BY <1>1, <1>2, <1>7, <1>8, <2>4, <3>1, RejectAt
  <2>10. st = Program[s]
    BY <1>1, <1>2, <1>7, <1>8, <2>4, QuietLine
  <2>. QED  BY <2>9, <2>10
<1>. QED  BY <1>10, <1>11

-----------------------------------------------------------------------------
(* 17. Tokens that are read and shifted. *)

\* A token is read ahead.
LEMMA ReadsOn ==
    ASSUME NEW ss, NEW vs, NEW ch, NEW s, NEW st, Setting(ss, vs, ch, s, st), Parses(ss, vs, ch, s, st),
           ch = YYEMPTY, ss[Len(ss)] \in Asking, NEW t \in Words, t.kind # YYEMPTY
    PROVE  Parses(ss, vs, t.kind, Append(s, t), st)
<1>. DEFINE L == Len(ss)
            q == ss[L]
            n == TakenOf(ch, s)
            s2 == Append(s, t)
            ch2 == t.kind
<1>0. /\ IsStack(ss) /\ s \in TokenSeqs
  BY DEF Setting
<1>1. L # 1
  BY <1>0 DEF IsStack, Asking
<1>2. PICK b \in Positions(ss, s), c \in Nat : Stands(ss, vs, ch, s, st, b, c)
  BY <1>1 DEF Parses
<1>. DEFINE B == b[2]
<1>3. /\ L \in Nat /\ L >= 2 /\ n = Len(s) /\ Len(s) \in Nat /\ B \in 0 .. n
      /\ StandsFor(s, st.sym, q, vs[L], b[L - 1], n)
  BY <1>1, <1>2, Situation
<1>4. /\ Cover(s, st.sym, ss, vs, b, L) /\ b[L] = n
      /\ InLine(q, ch, s, st, B, c, n)
      /\ Tight(q, ch, s, b[L - 1], b[L])
  BY <1>2 DEF Stands
<1>5. /\ s2 \in TokenSeqs /\ Len(s2) = Len(s) + 1 /\ \A i \in 1 .. Len(s) : s2[i] = s[i] /\ 0 + i = i
  BY <1>0 DEF TokenSeqs
<1>. HIDE DEF s2
<1>6. Longer(s, s2)
  BY <1>3, <1>5 DEF Longer, IsPart
<1>7. TakenOf(ch2, s2) = n
  <2>1. TakenOf(ch2, s2) = Len(s2) - 1
    BY DEF TakenOf
  <2>. QED  BY <1>3, <1>5, <2>1
<1>8. /\ \A i \in 1 .. n : Kind(s2, i) = Kind(s, i)
      /\ \A e \in 0 .. n : \A a \in 0 .. e : Cut(s2, a, e) = Cut(s, a, e)
      /\ \A e \in 0 .. n : Line(s, e, n) => Line(s2, e, n)
      /\ \A e \in 0 .. n : \A a \in e .. n : Starts(s, e, a) => Starts(s2, e, a)
  <2>1. n \in 0 .. Len(s) /\ n = Len(s)
    BY <1>3
  <2>. HIDE DEF n
  <2>. QED  BY <1>0, <1>5, <1>6, <2>1, LongerSame
<1>9. \A i \in 1 .. n : Kind(s2, i) # "eof"
  BY <1>8 DEF Parses
<1>10. Cover(s2, st.sym, ss, vs, b, L)
  BY <1>0, <1>3, <1>4, <1>5, <1>6, CoverLonger
<1>. HIDE DEF L, q, n, B
<1>11. InLine(q, ch2, s2, st, B, c, n)
  <2>1. q \notin {6, 11}
    BY <1>4 DEF InLine, Asking, q, L
  <2>2. /\ c \in B .. n /\ Starts(s, B, c) /\ Partial(Cut(s, c, n))
        /\ Line(s, B, n) /\ st = Program[Cut(s, 0, B)]
    BY <1>4, <2>1 DEF InLine
  <2>3. n \in 0 .. n /\ c \in 0 .. n /\ 0 \in 0 .. B /\ B \in 0 .. n
    BY <1>3, <2>2
  <2>4. /\ Starts(s2, B, c) /\ Cut(s2, c, n) = Cut(s, c, n) /\ Cut(s2, 0, B) = Cut(s, 0, B)
        /\ Line(s2, B, n)
    BY <1>8, <2>2, <2>3
  <2>5. n = B + 1 => n \in 1 .. n
    BY <1>3
  <2>6. q \in {6, 7} /\ n = B + 1 /\ Kind(s2, n) = "VARIABLE" => ch2 \notin {YYEMPTY, "="}
    BY <1>4, <1>8, <2>5 DEF InLine
  <2>. HIDE DEF ch2
  <2>. QED  BY <2>1, <2>2, <2>4, <2>6 DEF InLine
<1>12. Tight(q, ch2, s2, b[L - 1], b[L])
  <2>1. b[L - 1] \in 0 .. b[L] /\ b[L] \in 0 .. n
    BY <1>3, <1>4 DEF StandsFor
  <2>2. Cut(s2, b[L - 1], b[L]) = Cut(s, b[L - 1], b[L])
    BY <1>8, <2>1
  <2>. QED  BY <1>4, <2>2 DEF Tight
<1>13. Stands(ss, vs, ch2, s2, st, b, c)
  BY <1>4, <1>7, <1>10, <1>11, <1>12 DEF Stands, L, q, n, B
<1>14. b \in Positions(ss, s2)
  BY <1>10 DEF Cover, Positions, L
<1>15. Parses(ss, vs, ch2, s2, st)
  BY <1>1, <1>7, <1>9, <1>13, <1>14 DEF Parses, L
<1>. QED  BY <1>15 DEF s2

\* What a state says of the last token taken.
LEMMA LastTaken ==
    ASSUME NEW ss, NEW vs, NEW ch, NEW s, NEW st, Setting(ss, vs, ch, s, st),
           NEW b, NEW c, Len(ss) # 1, Stands(ss, vs, ch, s, st, b, c)
    PROVE  LET q == ss[Len(ss)]
               n == TakenOf(ch, s)
           IN /\ q \in TokenStates => Kind(s, n) = TokenOf(q)
              /\ q \in ExprStates => Kind(s, n) \in Ends
              /\ q = 1 => n = b[2]
              /\ q \notin {6, 11} => Depth(s, n) \in Int /\ Depth(s, c) = 0 /\ Depth(s, n) >= 0
              /\ q = 10 => Depth(s, n) >= 1
              /\ q \in ExprStates \cup {5, 12, 13, 14, 15} => c < n
              /\ q \in {1, 8} => c = n
<1>. DEFINE L == Len(ss)
            q == ss[L]
            n == TakenOf(ch, s)
            B == b[2]
<1>1. /\ L \in Nat /\ L >= 2 /\ n \in 0 .. Len(s) /\ Len(s) \in Nat
      /\ B \in 0 .. n /\ Complete(s, B) /\ (q = 1 <=> L = 2) /\ (L > 2 => B < n)
      /\ StandsFor(s, st.sym, q, vs[L], b[L - 1], n)
  BY Situation
<1>2. /\ s \in TokenSeqs /\ IsStack(ss)
      /\ Opens(ss, L) = Depth(s, n) + IF q = 17 THEN 1 ELSE 0
  BY DEF Setting
<1>3. InLine(q, ch, s, st, B, c, n) /\ b[L] = n
  BY DEF Stands
<1>4. q = 10 => Opens(ss, L) \in Nat /\ Opens(ss, L) >= 1
  BY <1>2, OpenBelow
<1>. HIDE DEF L, q, n, B
<1>5. q \in TokenStates => Kind(s, n) = TokenOf(q)
  BY <1>1 DEF StandsFor
<1>6. q \in ExprStates => Kind(s, n) \in Ends
  <2>1. q \in ExprStates => IsExpr[Cut(s, b[L - 1], n)] /\ b[L - 1] \in 0 .. n
    BY <1>1 DEF StandsFor
  <2>. QED  BY <1>1, <1>2, <2>1, FlatAt
<1>7. q = 1 => n = B
  BY <1>1, <1>3 DEF B
<1>8. n \in Nat /\ Depth(s, n) \in Int
  BY <1>1, DepthBound
<1>9. q = 10 => Depth(s, n) >= 1
  BY <1>2, <1>4, <1>8
<1>10. ASSUME q \notin {6, 11}
       PROVE  /\ c \in B .. n /\ Starts(s, B, c) /\ Partial(Cut(s, c, n)) /\ c \in Nat /\ c <= n
              /\ Depth(s, c) = 0 /\ Depth(s, n) >= 0
  <2>1. c \in B .. n /\ Starts(s, B, c) /\ Partial(Cut(s, c, n))
    BY <1>3, <1>10 DEF InLine
  <2>2. c \in Nat /\ c <= n
    BY <1>1, <2>1
  <2>3. Depth(s, c) = Depth(s, B) /\ Depth(s, B) = 0
    BY <1>1, <1>2, <2>1, LineAt DEF Complete
  <2>4. Depth(s, n) >= Depth(s, c)
    <3>1. CASE c = n
      BY <1>8, <3>1
    <3>2. CASE c # n
      <4>1. n \in 1 .. Len(s) /\ c \in 0 .. n - 1
        BY <1>1, <1>8, <2>2, <3>2
      <4>. QED  BY <1>2, <2>1, <4>1, PartialStep
    <3>. QED  BY <3>1, <3>2
  <2>. QED  BY <1>8, <2>1, <2>2, <2>3, <2>4
<1>11. ASSUME q \in ExprStates \cup {5, 12, 13, 14, 15} PROVE c < n
  <2>1. q \notin {1, 6, 11} /\ (q \notin ExprStates => q \in TokenStates /\ TokenOf(q) \in {"(", "+", "-", "*", "/"})
    BY <1>11 DEF ExprStates, TokenStates, TokenOf
  <2>2. Kind(s, n) # "="
    BY <1>5, <1>6, <2>1 DEF Ends
  <2>3. c \in Nat /\ c <= n /\ Starts(s, B, c) /\ B < n
    BY <1>1, <1>10, <2>1
  <2>4. c # n
    BY <1>1, <2>2, <2>3 DEF Starts
  <2>. QED  BY <1>8, <2>3, <2>4
<1>12. ASSUME q \in {1, 8} PROVE c = n
  <2>1. c \in Nat /\ c <= n /\ c \in B .. n /\ Partial(Cut(s, c, n))
    BY <1>10, <1>12
  <2>2. CASE q = 1
    BY <1>1, <1>7, <2>1, <2>2
  <2>3. CASE q = 8
    <3>1. Kind(s, n) = "="
      BY <1>5, <2>3 DEF TokenStates, TokenOf
    <3>2. SUFFICES ASSUME c # n PROVE FALSE
      OBVIOUS
    <3>3. n \in 1 .. Len(s) /\ c \in 0 .. n - 1
      BY <1>1, <1>8, <2>1, <3>2
    <3>4. Kind(s, n) \in Ends \cup Operators \cup {"("}
      BY <1>2, <2>1, <3>3, LastOfPartial
    <3>. QED  BY <3>1, <3>4 DEF Ends, Operators, Additive, Multiplicative
  <2>. QED  BY <1>12, <2>2, <2>3
<1>. QED  BY <1>5, <1>6, <1>7, <1>8, <1>9, <1>10, <1>11, <1>12 DEF L, q, n, B

\* What is pushed, and by what.
LEMMA PushedIs ==
    ASSUME NEW q \in Asking, NEW k \in Entries(q), k # "eof"
    PROVE  LET g == Pushed(q, k)
           IN /\ g \in TokenStates /\ TokenOf(g) = k /\ g # 1
              /\ g \in {3, 4, 9} <=> k \in {"INTEGER", "VARIABLE"}
              /\ g \in {14, 15} <=> k \in Multiplicative
              /\ g = 11 <=> k = "nl"
              /\ g = 11 <=> q = 6
              /\ g = 8 <=> q = 4
BY DEF Asking, Entries, Pushed, TokenStates, TokenOf, Begins, Operators, Additive, Multiplicative

\* A partial expression goes on with a token that the table has an entry for.
LEMMA ShiftFits ==
    ASSUME NEW ss, NEW vs, NEW ch, NEW s, NEW st, Setting(ss, vs, ch, s, st),
           NEW b, NEW c, Len(ss) # 1, Stands(ss, vs, ch, s, st, b, c),
           ch # YYEMPTY, ch # "eof", ss[Len(ss)] \in Asking \ {4, 6}, ch \in Entries(ss[Len(ss)])
    PROVE  Partial(Cut(s, c, Len(s)))
<1>. DEFINE q == ss[Len(ss)]
            n == TakenOf(ch, s)
            B == b[2]
            N == Len(s)
<1>1. /\ n \in 0 .. N /\ N \in Nat /\ n # N /\ n = N - 1 /\ B \in 0 .. n
  BY Situation
<1>2. s \in TokenSeqs /\ Kind(s, N) = ch
  BY DEF Setting
<1>3. InLine(q, ch, s, st, B, c, n)
  BY DEF Stands
<1>4. /\ q \in TokenStates => Kind(s, n) = TokenOf(q)
      /\ q \in ExprStates => Kind(s, n) \in Ends
      /\ q \notin {6, 11} => Depth(s, n) \in Int /\ Depth(s, c) = 0 /\ Depth(s, n) >= 0
      /\ q = 10 => Depth(s, n) >= 1
      /\ q \in ExprStates \cup {5, 12, 13, 14, 15} => c < n
      /\ q \in {1, 8} => c = n
  BY LastTaken
<1>5. q \in Asking \ {4, 6} /\ ch \in Entries(q)
  OBVIOUS
<1>6. q \in {1, 5, 8, 12, 13, 14, 15} \/ q \in {7, 10, 16, 18, 19}
  BY <1>5 DEF Asking
<1>. HIDE DEF q, n, B, N
<1>7. c \in B .. n /\ Partial(Cut(s, c, n)) /\ Depth(s, n) \in Int /\ Depth(s, c) = 0 /\ Depth(s, n) >= 0
  BY <1>3, <1>4, <1>6 DEF InLine
<1>8. N \in 1 .. Len(s) /\ c \in 0 .. N - 1 /\ N - 1 = n /\ N \in Nat /\ N > 0
  BY <1>1, <1>7 DEF N
<1>9. /\ Depth(s, N) \in Int
      /\ Kind(s, N) = "(" => Depth(s, N) = Depth(s, n) + 1
      /\ Kind(s, N) = ")" => Depth(s, N) = Depth(s, n) - 1
      /\ Kind(s, N) \notin {"(", ")"} => Depth(s, N) = Depth(s, n)
  BY <1>8, DepthStep
<1>10. CASE q \in {1, 5, 8, 12, 13, 14, 15}
  <2>1. ch \in Begins
    BY <1>5, <1>10 DEF Entries
  <2>2. Depth(s, N) >= Depth(s, c)
    BY <1>2, <1>7, <1>9, <2>1 DEF Begins
  <2>3. c < n => Fits(Kind(s, n), ch)
    <3>1. SUFFICES ASSUME c < n PROVE Fits(Kind(s, n), ch)
      OBVIOUS
    <3>2. q \in {5, 12, 13, 14, 15}
      BY <1>1, <1>4, <1>10, <3>1
    <3>3. q \in TokenStates /\ TokenOf(q) \in Operators \cup {"("}
      BY <3>2 DEF TokenStates, TokenOf, Operators, Additive, Multiplicative
    <3>. QED  BY <1>4, <2>1, <3>3 DEF Fits
  <2>. QED  BY <1>2, <1>7, <1>8, <2>1, <2>2, <2>3, PartialStep DEF N
<1>11. CASE q \in {7, 10, 16, 18, 19}
  <2>1. ch \in Operators \/ (ch = ")" /\ q = 10)
    BY <1>5, <1>11 DEF Entries, Operators
  <2>2. q \in ExprStates
    BY <1>11 DEF ExprStates
  <2>3. Fits(Kind(s, n), ch) /\ c < n
    BY <1>4, <2>1, <2>2 DEF Fits
  <2>4. Depth(s, N) >= Depth(s, c)
    <3>1. CASE ch \in Operators
      <4>1. Kind(s, N) \notin {"(", ")"}
        BY <1>2, <3>1 DEF Operators, Additive, Multiplicative
      <4>. QED  BY <1>7, <1>9, <4>1
    <3>2. CASE ch = ")" /\ q = 10
      BY <1>2, <1>4, <1>7, <1>9, <3>2
    <3>. QED  BY <2>1, <3>1, <3>2
  <2>5. c # N - 1 /\ Fits(Kind(s, N - 1), Kind(s, N))
    BY <1>1, <1>2, <1>7, <1>8, <2>3
  <2>6. Partial(Cut(s, c, N - 1))
    BY <1>7, <1>8
  <2>. QED  BY <1>2, <1>8, <2>4, <2>5, <2>6, PartialStep DEF N
<1>. QED  BY <1>6, <1>10, <1>11

\* Nothing is a partial expression.
LEMMA PartialNone == ASSUME NEW s \in TokenSeqs, NEW m \in 0 .. Len(s) PROVE Partial(Cut(s, m, m))
<1>0. m \in Nat /\ Len(s) \in Nat
  BY DEF TokenSeqs
<1>1. m \in 0 .. m /\ m - m = 0
  BY <1>0
<1>2. Len(Cut(s, m, m)) = 0
  BY <1>1, CutIs
<1>3. \A i \in 0 .. 0 : i = 0
  OBVIOUS
<1>. QED  BY <1>2, <1>3, DepthNone DEF Partial

\* The first two states of an assignment.
LEMMA AssignedAt ==
    ASSUME NEW ss, IsStack(ss), NEW i \in 1 .. Len(ss), ss[i] \in {4, 6, 7}
    PROVE  i = 3
<1>0. Len(ss) \in Nat /\ ss[1] = 0
  BY DEF IsStack
<1>1. PICK j : j = i - 1
  OBVIOUS
<1>2. PICK k : k = j - 1
  OBVIOUS
<1>3. i \in 2 .. Len(ss)
  <2>1. i # 1
    BY <1>0
  <2>. QED  BY <1>0, <2>1
<1>4. ss[j] = 1 /\ j \in 2 .. Len(ss)
  <2>1. ss[i] \in {4, 6, 7} /\ IsStack(ss)
    OBVIOUS
  <2>2. (ss[i] \in {4, 6, 7} => ss[j] = 1) /\ (ss[j] # 0 => j \in 2 .. Len(ss))
    <3>. USE ONLY <1>1, <1>3, <2>1, Below
    <3>. QED  BY <1>1, <1>3, <2>1, Below
  <2>. QED  BY <2>1, <2>2
<1>5. k = 1
  <2>1. IsStack(ss)
    OBVIOUS
  <2>2. Under(ss[k], ss[j]) /\ (ss[k] = 0 <=> k = 1)
    <3>. USE ONLY <1>2, <1>4, <2>1, Below
    <3>. QED  BY <1>2, <1>4, <2>1, Below
  <2>. QED  BY <1>4, <2>2 DEF Under
<1>. QED  BY <1>0, <1>1, <1>2, <1>5

\* A token is shifted.
LEMMA Shifts ==
    ASSUME NEW ss, NEW vs, NEW ch, NEW s, NEW st, Setting(ss, vs, ch, s, st), Parses(ss, vs, ch, s, st),
           ch # YYEMPTY, ch # "eof", ss[Len(ss)] \in Asking, ch \in Entries(ss[Len(ss)]),
           NEW v, ch \in {"INTEGER", "VARIABLE"} => v = s[Len(s)].val,
           NEW ss2, ss2 = Append(ss, Pushed(ss[Len(ss)], ch)), NEW vs2, vs2 = Append(vs, v)
    PROVE  Parses(ss2, vs2, YYEMPTY, s, st)
<1>. DEFINE L == Len(ss)
            q == ss[L]
            g == Pushed(q, ch)
            n == TakenOf(ch, s)
            N == Len(s)
<1>0. /\ IsStack(ss) /\ s \in TokenSeqs /\ Kind(s, N) = ch /\ IsSeq(vs) /\ Len(vs) = L
  BY DEF Setting
<1>1. L # 1
  BY <1>0 DEF IsStack, Asking
<1>2. PICK b \in Positions(ss, s), c \in Nat : Stands(ss, vs, ch, s, st, b, c)
  BY <1>1 DEF Parses
<1>. DEFINE B == b[2]
<1>3. /\ L \in Nat /\ L >= 2 /\ n \in 0 .. N /\ N \in Nat /\ n # N /\ n = N - 1
      /\ B \in 0 .. n /\ StandsFor(s, st.sym, q, vs[L], b[L - 1], n)
  BY <1>1, <1>2, Situation
<1>4. /\ Cover(s, st.sym, ss, vs, b, L) /\ b[L] = n
      /\ InLine(q, ch, s, st, B, c, n)
      /\ Tight(q, ch, s, b[L - 1], b[L])
  BY <1>2 DEF Stands
<1>5. q \in Asking /\ ch \in Entries(q)
  OBVIOUS
<1>6. /\ g \in TokenStates /\ TokenOf(g) = ch /\ g # 1
      /\ g \in {3, 4, 9} <=> ch \in {"INTEGER", "VARIABLE"}
      /\ g \in {14, 15} <=> ch \in Multiplicative
      /\ g = 11 <=> ch = "nl"
      /\ g = 11 <=> q = 6
      /\ g = 8 <=> q = 4
  BY PushedIs
<1>7. /\ Len(ss2) = L + 1 /\ ss2[L + 1] = g /\ \A i \in 1 .. L : ss2[i] = ss[i]
  BY <1>0 DEF IsStack
<1>8. vs2[L + 1] = v /\ \A i \in 1 .. L : vs2[i] = vs[i]
  <2>1. PICK S : vs \in Seq(S)
    BY <1>0 DEF IsSeq
  <2>. QED  BY <1>0, <2>1
<1>9. Agree(ss, vs, ss2, vs2, L)
  BY <1>7, <1>8 DEF Agree
<1>10. PICK M \in Nat : M = N
  BY <1>3
<1>. HIDE DEF L, q, g, n, N, B
<1>11. M \in 0 .. Len(s) /\ M = n + 1 /\ n \in Nat /\ B \in Nat /\ M = Len(s)
  BY <1>3, <1>10 DEF N
<1>12. StandsFor(s, st.sym, g, v, n, M)
  <2>1. g \notin {1, 6} /\ g \notin ExprStates /\ g \notin {18, 19} /\ g \notin {20, 21}
    BY <1>6 DEF TokenStates, ExprStates
  <2>2. g \in {3, 4, 9} => v = s[M].val
    BY <1>6, <1>11
  <2>3. Kind(s, M) = TokenOf(g)
    BY <1>0, <1>6, <1>10 DEF N
  <2>. QED  BY <1>11, <2>1, <2>2, <2>3 DEF StandsFor
<1>13. g \in {14, 15} => Outside(Cut(s, b[L - 1], b[L]), Additive) = {}
  <2>1. SUFFICES ASSUME g \in {14, 15} PROVE Outside(Cut(s, b[L - 1], b[L]), Additive) = {}
    OBVIOUS
  <2>2. ch \in Multiplicative
    BY <1>6, <2>1
  <2>3. q \in {7, 10, 16} \/ q \in {18, 19}
    BY <1>5, <2>2 DEF Asking, Entries, Begins, Multiplicative
  <2>. QED  BY <1>3, <1>4, <2>2, <2>3 DEF Tight, StandsFor
<1>. DEFINE e == [i \in 1 .. L + 1 |-> IF i = L + 1 THEN M ELSE b[i]]
<1>14. Cover(s, st.sym, ss2, vs2, e, L + 1)
  <2>1. StandsFor(s, st.sym, ss2[L + 1], vs2[L + 1], b[L], M)
    BY <1>4, <1>7, <1>8, <1>12
  <2>2. ss2[L + 1] # 1 /\ L > 0
    BY <1>3, <1>6, <1>7
  <2>3. ss2[L + 1] \in {14, 15} => Outside(Cut(s, b[L - 1], b[L]), Additive) = {}
    BY <1>7, <1>13
  <2>4. L \in Nat /\ L > 0 /\ s \in TokenSeqs /\ M \in 0 .. Len(s) /\ Cover(s, st.sym, ss, vs, b, L)
    BY <1>0, <1>3, <1>4, <1>11
  <2>5. PICK mem : mem = st.sym
    OBVIOUS
  <2>6. Cover(s, mem, ss, vs, b, L) /\ StandsFor(s, mem, ss2[L + 1], vs2[L + 1], b[L], M)
    BY <2>1, <2>4, <2>5
  <2>7. PICK f : f = [i \in 1 .. L + 1 |-> IF i = L + 1 THEN M ELSE b[i]]
    OBVIOUS
  <2>8. Cover(s, mem, ss2, vs2, f, L + 1)
    <3>. USE ONLY <1>9, <2>2, <2>3, <2>4, <2>6, <2>7, CoverPush
    <3>. QED  BY <1>9, <2>2, <2>3, <2>4, <2>6, <2>7, CoverPush
  <2>. QED  BY <2>5, <2>7, <2>8
<1>15. e[L + 1] = M /\ e[L] = n /\ e[2] = B
  BY <1>3, <1>4 DEF B
<1>16. e \in Positions(ss2, s)
  BY <1>7, <1>14 DEF Cover, Positions
<1>. HIDE DEF e
<1>17. \A i \in 1 .. M : Kind(s, i) # "eof"
  <2>1. \A i \in 1 .. M : i \in 1 .. n \/ i = M
    BY <1>11
  <2>2. \A i \in 1 .. n : Kind(s, i) # "eof"
    BY DEF Parses, n
  <2>3. Kind(s, M) # "eof"
    BY <1>0, <1>10 DEF N
  <2>. QED  BY <2>1, <2>2, <2>3
<1>18. PICK d \in Nat : InLine(g, YYEMPTY, s, st, B, d, M)
  <2>0. g \notin {6, 7}
    BY <1>6 DEF TokenStates
  <2>1. CASE q = 6
    <3>1. M - 1 = n /\ g = 11
      BY <1>6, <1>11, <2>1
    <3>2. Line(s, B, n) /\ st = Program[s]
      BY <1>4, <2>1 DEF InLine
    <3>3. InLine(g, YYEMPTY, s, st, B, 0, M)
      BY <3>1, <3>2 DEF InLine
    <3>. QED  BY <3>3
  <2>2. ASSUME q # 6
        PROVE  /\ g \notin {6, 11} /\ Line(s, B, M) /\ st = Program[Cut(s, 0, B)]
               /\ c \in B .. n /\ Starts(s, B, c)
    <3>1. q # 11 /\ g # 11 /\ ch # "nl"
      BY <1>5, <1>6, <2>2 DEF Asking
    <3>2. Line(s, B, n) /\ st = Program[Cut(s, 0, B)] /\ c \in B .. n /\ Starts(s, B, c)
      BY <1>4, <2>2, <3>1 DEF InLine
    <3>3. \A j \in B + 1 .. M : j \in B + 1 .. n \/ j = M
      BY <1>11
    <3>4. Kind(s, M) # "nl"
      BY <1>0, <1>10, <3>1 DEF N
    <3>5. Line(s, B, M)
      BY <3>2, <3>3, <3>4 DEF Line
    <3>. QED  BY <2>0, <3>1, <3>2, <3>5
  <2>3. CASE q = 4
    <3>1. L = 3
      <4>1. L \in 1 .. Len(ss) /\ ss[L] \in {4, 6, 7}
        BY <1>3, <2>3 DEF L, q
      <4>. QED  BY <1>0, <4>1, AssignedAt
    <3>2. n = B + 1 /\ Kind(s, n) = "VARIABLE"
      BY <1>3, <2>3, <3>1 DEF StandsFor, TokenStates, TokenOf, B
    <3>3. M = B + 2 /\ Kind(s, B + 1) = "VARIABLE" /\ Kind(s, B + 2) = "="
      <4>1. ch = "="
        BY <1>5, <2>3 DEF Entries
      <4>2. M = B + 2
        BY <1>11, <3>2
      <4>. QED  BY <1>0, <1>10, <3>2, <4>1, <4>2 DEF N
    <3>4. Starts(s, B, M) /\ M \in B .. M
      BY <1>11, <3>3 DEF Starts
    <3>5. Partial(Cut(s, M, M))
      BY <1>0, <1>11, PartialNone
    <3>6. InLine(g, YYEMPTY, s, st, B, M, M)
      BY <2>0, <2>2, <2>3, <3>4, <3>5 DEF InLine
    <3>. QED  BY <3>6
  <2>4. CASE q \notin {4, 6}
    <3>1. Partial(Cut(s, c, M))
      <4>1. ss[Len(ss)] \in Asking \ {4, 6}
        BY <2>4 DEF q, L
      <4>2. Partial(Cut(s, c, Len(s)))
        BY <1>1, <1>2, <4>1, ShiftFits DEF L
      <4>. QED  BY <1>11, <4>2
    <3>2. c \in B .. M
      BY <1>11, <2>2, <2>4
    <3>3. InLine(g, YYEMPTY, s, st, B, c, M)
      BY <2>0, <2>2, <2>4, <3>1, <3>2 DEF InLine
    <3>. QED  BY <3>3
  <2>. QED  BY <2>1, <2>3, <2>4
<1>19. TakenOf(YYEMPTY, s) = M
  BY <1>11 DEF TakenOf
<1>20. Tight(g, YYEMPTY, s, e[L], e[L + 1])
  BY <1>6 DEF Tight, TokenStates
<1>21. Stands(ss2, vs2, YYEMPTY, s, st, e, d)
  <2>1. (L + 1) - 1 = L
    BY <1>3
  <2>. QED  BY <1>7, <1>14, <1>15, <1>18, <1>19, <1>20, <2>1 DEF Stands
<1>22. Len(ss2) # 1
  BY <1>3, <1>7
<1>. QED  BY <1>16, <1>17, <1>19, <1>21, <1>22 DEF Parses

-----------------------------------------------------------------------------
(* 18. Rules that are reduced. *)

\* The stacks after a reduction that leaves k states and pushes g with value v.
Reduced(ss, vs, ss2, vs2, k, g, v) ==
    Len(ss2) = k + 1 /\ ss2[k + 1] = g /\ vs2[k + 1] = v /\ Agree(ss, vs, ss2, vs2, k)

\* The memory does not matter for the state between two lines.
LEMMA CoverAny ==
    ASSUME NEW s, NEW mem, NEW mem2, NEW ss, NEW vs, NEW b, ss[2] = 1, Cover(s, mem, ss, vs, b, 2)
    PROVE  Cover(s, mem2, ss, vs, b, 2)
<1>1. \A i \in 2 .. 2 : i = 2
  OBVIOUS
<1>2. 1 \notin TokenStates /\ 1 \notin ExprStates
  BY DEF TokenStates, ExprStates
<1>3. StandsFor(s, mem, 1, vs[2], b[2 - 1], b[2])
  BY <1>1 DEF Cover
<1>4. StandsFor(s, mem2, 1, vs[2], b[2 - 1], b[2])
  BY <1>2, <1>3 DEF StandsFor
<1>. QED  BY <1>1, <1>4 DEF Cover

\* What a reduction replaces stands for the same tokens.
LEMMA Replaces ==
    ASSUME NEW s \in TokenSeqs, NEW mem, NEW ss, NEW vs, NEW b, NEW j \in Nat, Cover(s, mem, ss, vs, b, j),
           NEW k \in 1 .. j, NEW ss2, NEW vs2, NEW g, NEW v, Reduced(ss, vs, ss2, vs2, k, g, v),
           k > 1 => g # 1, g \notin {14, 15}, NEW n, StandsFor(s, mem, g, v, b[k], n)
    PROVE  \E e \in Positions(ss2, s) :
              /\ Cover(s, mem, ss2, vs2, e, k + 1) /\ e[k + 1] = n
              /\ \A i \in 1 .. k : e[i] = b[i]
<1>. DEFINE f == [i \in 1 .. k |-> b[i]]
            e == [i \in 1 .. k + 1 |-> IF i = k + 1 THEN n ELSE f[i]]
<1>0. k \in Nat /\ k > 0 /\ k \in 1 .. k /\ n \in 0 .. Len(s)
  BY DEF StandsFor
<1>1. Cover(s, mem, ss2, vs2, f, k)
  BY CoverBelow DEF Reduced
<1>2. f[k] = b[k] /\ \A i \in 1 .. k : f[i] = b[i]
  BY <1>0
<1>. HIDE DEF f
<1>3. StandsFor(s, mem, ss2[k + 1], vs2[k + 1], f[k], n)
  BY <1>2 DEF Reduced
<1>4. Agree(ss2, vs2, ss2, vs2, k)
  BY DEF Agree
<1>5. ss2[k + 1] = g
  BY DEF Reduced
<1>6. PICK h : h = [i \in 1 .. k + 1 |-> IF i = k + 1 THEN n ELSE f[i]]
  OBVIOUS
<1>7. Cover(s, mem, ss2, vs2, h, k + 1)
  BY <1>0, <1>1, <1>3, <1>4, <1>5, <1>6, CoverPush
<1>8. h[k + 1] = n /\ \A i \in 1 .. k : h[i] = b[i]
  BY <1>0, <1>2, <1>6
<1>9. h \in Positions(ss2, s)
  BY <1>7 DEF Cover, Positions, Reduced
<1>. QED  BY <1>7, <1>8, <1>9

\* The end of the stack is an expression, and is reduced to one.
LEMMA ReducesTo ==
    ASSUME NEW ss, NEW vs, NEW ch, NEW s, NEW st, Setting(ss, vs, ch, s, st), Parses(ss, vs, ch, s, st),
           NEW b, NEW c, Len(ss) # 1, Stands(ss, vs, ch, s, st, b, c), c \in Nat,
           ss[Len(ss)] \notin {6, 11}, NEW k \in 2 .. Len(ss), NEW g \in ExprStates, NEW v,
           NEW n, n = TakenOf(ch, s), NEW lo, lo = b[k], lo < n,
           IsExpr[Cut(s, lo, n)], Value(st.sym)[Cut(s, lo, n)] = {v},
           g \in {18, 19} => Outside(Cut(s, lo, n), Additive) = {},
           g \in {20, 21} => Outside(Cut(s, lo, n), Operators) = {},
           g = 7 /\ n = b[2] + 1 /\ Kind(s, n) = "VARIABLE" => ch \notin {YYEMPTY, "="},
           Tight(g, ch, s, lo, n),
           NEW ss2, NEW vs2, Reduced(ss, vs, ss2, vs2, k, g, v)
    PROVE  Parses(ss2, vs2, ch, s, st)
<1>. DEFINE L == Len(ss)
            B == b[2]
<1>1. /\ s \in TokenSeqs /\ L \in Nat /\ L >= 2 /\ n \in 0 .. Len(s) /\ Len(s) \in Nat /\ B \in 0 .. n
  BY Situation DEF Setting
<1>2. Cover(s, st.sym, ss, vs, b, L) /\ InLine(ss[L], ch, s, st, B, c, n)
  BY DEF Stands
<1>3. /\ c \in B .. n /\ Starts(s, B, c) /\ Partial(Cut(s, c, n))
      /\ Line(s, B, n) /\ st = Program[Cut(s, 0, B)]
  BY <1>2 DEF InLine
<1>4. g \notin TokenStates /\ g \notin {1, 6, 11} /\ g \notin {3, 4, 9} /\ g \notin {14, 15}
  BY DEF ExprStates, TokenStates
<1>5. lo \in Nat
  <2>1. k \in 1 .. L
    BY <1>1
  <2>2. b \in [1 .. L -> 0 .. Len(s)]
    BY <1>2 DEF Cover
  <2>. HIDE DEF L
  <2>3. b[k] \in 0 .. Len(s)
    BY <2>1, <2>2
  <2>. QED  BY <1>1, <2>3
<1>6. StandsFor(s, st.sym, g, v, lo, n)
  <2>1. lo \in Nat /\ n \in 0 .. Len(s) /\ lo <= n /\ lo < n
    BY <1>1, <1>5
  <2>2. g # 1 /\ g # 6 /\ g \notin TokenStates /\ g \notin {3, 4, 9}
    BY <1>4
  <2>. QED  BY <2>1, <2>2, Zenon DEF StandsFor
<1>7. k \in 1 .. L /\ k \in Nat /\ 2 \in 1 .. k /\ k \in 1 .. k /\ k + 1 # 1 /\ (k + 1) - 1 = k
  BY <1>1
<1>. HIDE DEF L, B
<1>8. PICK e \in Positions(ss2, s) :
              /\ Cover(s, st.sym, ss2, vs2, e, k + 1) /\ e[k + 1] = n
              /\ \A i \in 1 .. k : e[i] = b[i]
  <2>1. PICK mem : mem = st.sym
    OBVIOUS
  <2>2. Cover(s, mem, ss, vs, b, L) /\ StandsFor(s, mem, g, v, b[k], n)
    BY <1>2, <1>6, <2>1
  <2>3. \E e \in Positions(ss2, s) :
              /\ Cover(s, mem, ss2, vs2, e, k + 1) /\ e[k + 1] = n
              /\ \A i \in 1 .. k : e[i] = b[i]
    <3>1. (k > 1 => g # 1) /\ g \notin {14, 15} /\ s \in TokenSeqs /\ L \in Nat /\ k \in 1 .. L
      BY <1>1, <1>4, <1>7
    <3>2. Reduced(ss, vs, ss2, vs2, k, g, v)
      OBVIOUS
    <3>. USE ONLY <2>2, <3>1, <3>2, Replaces
    <3>. QED  BY <2>2, <3>1, <3>2, Replaces
  <2>. QED  BY <2>1, <2>3
<1>9. InLine(g, ch, s, st, B, c, n)
  BY <1>3, <1>4 DEF InLine, B
<1>10. Len(ss2) = k + 1 /\ ss2[k + 1] = g
  BY DEF Reduced
<1>11. e[2] = B /\ e[k] = lo
  BY <1>7, <1>8 DEF B
<1>12. Tight(g, ch, s, e[k], e[k + 1])
  BY <1>8, <1>11
<1>13. Stands(ss2, vs2, ch, s, st, e, c)
  BY <1>7, <1>8, <1>9, <1>10, <1>11, <1>12 DEF Stands
<1>14. \A i \in 1 .. TakenOf(ch, s) : Kind(s, i) # "eof"
  BY DEF Parses
<1>. QED  BY <1>7, <1>10, <1>13, <1>14 DEF Parses

\* What an expression becomes on top of state x.
LEMMA ExprOver ==
    ASSUME NEW x \in {1, 5, 8, 12, 13, 14, 15}, NEW g, g = GotoState(x, 16)
    PROVE  /\ g \in ExprStates /\ Under(x, g)
           /\ g = 7 <=> x = 1
           /\ g \in {18, 19} <=> x \in {12, 13}
           /\ g \in {20, 21} <=> x \in {14, 15}
           /\ \A y \in ExprStates : Under(x, y) => y = g
<1>1. CASE x \in {1, 5, 8}
  BY <1>1, GotoTable DEF ExprStates, Under
<1>2. CASE x \in {12, 13, 14, 15}
  BY <1>2, GotoTable DEF ExprStates, Under
<1>. QED  BY <1>1, <1>2

\* An operand becomes an expression.
LEMMA OperandReduced ==
    ASSUME NEW ss, NEW vs, NEW ch, NEW s, NEW st, Setting(ss, vs, ch, s, st), Parses(ss, vs, ch, s, st),
           Len(ss) # 1, ss[Len(ss)] \in {3, 4, 9}, ss[Len(ss)] = 4 => ch \notin {YYEMPTY, "="},
           NEW k, k = Len(ss) - 1, NEW g, g = GotoState(ss[k], 16),
           NEW v, v = IF ss[Len(ss)] = 3 THEN vs[Len(ss)] ELSE st.sym[vs[Len(ss)]],
           NEW ss2, NEW vs2, Reduced(ss, vs, ss2, vs2, k, g, v)
    PROVE  Parses(ss2, vs2, ch, s, st)
<1>. DEFINE L == Len(ss)
            q == ss[L]
<1>0. /\ s \in TokenSeqs /\ IsStack(ss)
  BY DEF Setting
<1>1. PICK b \in Positions(ss, s), c \in Nat : Stands(ss, vs, ch, s, st, b, c)
  BY DEF Parses
<1>2. PICK n : n = TakenOf(ch, s)
  OBVIOUS
<1>3. /\ L \in Nat /\ L >= 2 /\ n \in 0 .. Len(s) /\ Len(s) \in Nat
      /\ StandsFor(s, st.sym, q, vs[L], b[L - 1], n) /\ st.sym \in Memories
  BY <1>1, <1>2, Situation
<1>4. L \in 2 .. Len(ss)
  BY <1>3
<1>5. q \in {3, 4, 9}
  OBVIOUS
<1>6. ss[k] \in {1, 5, 8, 12, 13, 14, 15} /\ (q = 9 => ss[k] # 1) /\ k \in 2 .. Len(ss)
  <2>1. PICK l \in 2 .. Len(ss) : l = L /\ k = l - 1
    BY <1>4
  <2>2. /\ ss[l] \in {3, 5} => ss[k] \in {1, 5, 8, 12, 13, 14, 15}
        /\ ss[l] = 9 => ss[k] \in {5, 8, 12, 13, 14, 15}
        /\ ss[l] \in {4, 6, 7} => ss[k] = 1
        /\ ss[k] # 0 => k \in 2 .. Len(ss)
    <3>. USE ONLY <1>0, <2>1, Below
    <3>. QED  BY <1>0, <2>1, Below
  <2>. QED  BY <1>5, <2>1, <2>2
<1>7. k \in 2 .. L /\ k >= 2
  BY <1>6
<1>8. PICK lo \in Nat : lo = b[k]
  BY <1>3 DEF StandsFor
<1>9. lo = n - 1 /\ n \in 1 .. Len(s) /\ lo < n /\ n \in Nat /\ Kind(s, n) = TokenOf(q) /\ vs[L] = s[n].val
  <2>1. q \in TokenStates
    BY <1>5 DEF TokenStates
  <2>2. k = L - 1 /\ b[L - 1] = lo
    BY <1>8
  <2>3. lo < n /\ n = lo + 1 /\ Kind(s, n) = TokenOf(q) /\ vs[L] = s[n].val
    BY <1>3, <1>5, <2>1, <2>2 DEF StandsFor, TokenStates
  <2>. QED  BY <1>3, <2>3
<1>10. /\ Kind(s, n) \in {"INTEGER", "VARIABLE"}
       /\ q = 3 <=> Kind(s, n) = "INTEGER"
       /\ q # 3 <=> Kind(s, n) = "VARIABLE"
  BY <1>5, <1>9 DEF TokenOf
<1>. HIDE DEF L, q
<1>11. /\ IsExpr[Cut(s, lo, n)] /\ \A K : Outside(Cut(s, lo, n), K) = {}
       /\ Kind(s, n) = "INTEGER" => Value(st.sym)[Cut(s, lo, n)] = {s[n].val}
       /\ Kind(s, n) = "VARIABLE" => Value(st.sym)[Cut(s, lo, n)] = {st.sym[s[n].val]}
  <2>1. PICK mem \in Memories : mem = st.sym
    BY <1>3
  <2>2. /\ IsExpr[Cut(s, lo, n)] /\ \A K : Outside(Cut(s, lo, n), K) = {}
        /\ Kind(s, n) = "INTEGER" => Value(mem)[Cut(s, lo, n)] = {s[n].val}
        /\ Kind(s, n) = "VARIABLE" => Value(mem)[Cut(s, lo, n)] = {mem[s[n].val]}
    BY <1>0, <1>9, <1>10, OperandAt
  <2>. QED  BY <2>1, <2>2
<1>12. Value(st.sym)[Cut(s, lo, n)] = {v}
  <2>1. v = IF q = 3 THEN vs[L] ELSE st.sym[vs[L]]
    BY DEF q, L
  <2>. QED  BY <1>9, <1>10, <1>11, <2>1
<1>13. g \in ExprStates /\ (g = 7 <=> ss[k] = 1)
  BY <1>6, ExprOver
<1>14. g = 7 /\ n = b[2] + 1 /\ Kind(s, n) = "VARIABLE" => ch \notin {YYEMPTY, "="}
  <2>1. q = 4 => ch \notin {YYEMPTY, "="}
    BY DEF q, L
  <2>. QED  BY <1>5, <1>6, <1>10, <1>13, <2>1
<1>15. Tight(g, ch, s, lo, n)
  BY <1>11 DEF Tight
<1>16. ss[Len(ss)] \notin {6, 11} /\ k \in 2 .. Len(ss)
  BY <1>5, <1>7 DEF q, L
<1>17. /\ g \in {18, 19} => Outside(Cut(s, lo, n), Additive) = {}
       /\ g \in {20, 21} => Outside(Cut(s, lo, n), Operators) = {}
       /\ IsExpr[Cut(s, lo, n)]
  BY <1>11
<1>18. /\ Setting(ss, vs, ch, s, st) /\ Parses(ss, vs, ch, s, st) /\ Len(ss) # 1
       /\ Reduced(ss, vs, ss2, vs2, k, g, v) /\ lo < n
  BY <1>9
<1>. USE ONLY <1>1, <1>2, <1>8, <1>12, <1>13, <1>14, <1>15, <1>16, <1>17, <1>18, ReducesTo
<1>. QED  BY <1>1, <1>2, <1>8, <1>12, <1>13, <1>14, <1>15, <1>16, <1>17, <1>18, ReducesTo

\* An expression in parentheses becomes an expression.
LEMMA ParenReduced ==
    ASSUME NEW ss, NEW vs, NEW ch, NEW s, NEW st, Setting(ss, vs, ch, s, st), Parses(ss, vs, ch, s, st),
           Len(ss) # 1, ss[Len(ss)] = 17,
           NEW k, k = Len(ss) - 3, NEW g, g = GotoState(ss[k], 16),
           NEW v, v = vs[Len(ss) - 1],
           NEW ss2, NEW vs2, Reduced(ss, vs, ss2, vs2, k, g, v)
    PROVE  Parses(ss2, vs2, ch, s, st)
<1>. DEFINE L == Len(ss)
<1>0. /\ s \in TokenSeqs /\ IsStack(ss)
  BY DEF Setting
<1>1. PICK b \in Positions(ss, s), c \in Nat : Stands(ss, vs, ch, s, st, b, c)
  BY DEF Parses
<1>2. PICK n : n = TakenOf(ch, s)
  OBVIOUS
<1>3. /\ L \in Nat /\ L >= 2 /\ n \in 0 .. Len(s) /\ Len(s) \in Nat
      /\ StandsFor(s, st.sym, 17, vs[L], b[L - 1], n) /\ st.sym \in Memories
      /\ b[2] \in 0 .. n
  BY <1>1, <1>2, Situation
<1>4. Cover(s, st.sym, ss, vs, b, L) /\ b[L] = n
  BY <1>1, <1>2 DEF Stands
<1>5. ss[L] = 17
  OBVIOUS
<1>6. PICK i : i = L - 1
  OBVIOUS
<1>7. PICK j : j = i - 1
  OBVIOUS
<1>8. ss[i] = 10 /\ i \in 2 .. Len(ss)
  <2>1. PICK l \in 2 .. Len(ss) : l = L /\ i = l - 1
    BY <1>3, <1>6
  <2>2. (ss[l] = 17 => ss[i] = 10) /\ (ss[i] # 0 => i \in 2 .. Len(ss))
    <3>. USE ONLY <1>0, <2>1, Below
    <3>. QED  BY <1>0, <2>1, Below
  <2>. QED  BY <1>5, <2>1, <2>2
<1>9. ss[j] = 5 /\ j \in 2 .. Len(ss)
  <2>1. (ss[i] = 10 => ss[j] = 5) /\ (ss[j] # 0 => j \in 2 .. Len(ss))
    <3>. USE ONLY <1>0, <1>7, <1>8, Below
    <3>. QED  BY <1>0, <1>7, <1>8, Below
  <2>. QED  BY <1>8, <2>1
<1>11. k = j - 1
  BY <1>3, <1>6, <1>7
<1>10. ss[k] \in {1, 5, 8, 12, 13, 14, 15} /\ k \in 2 .. Len(ss)
  <2>1. /\ ss[j] \in {3, 5} => ss[k] \in {1, 5, 8, 12, 13, 14, 15}
        /\ ss[k] # 0 => k \in 2 .. Len(ss)
    <3>. USE ONLY <1>0, <1>9, <1>11, Below
    <3>. QED  BY <1>0, <1>9, <1>11, Below
  <2>. QED  BY <1>9, <2>1
<1>. HIDE DEF L
<1>13. /\ j \in 2 .. L /\ i \in 2 .. L /\ L \in 2 .. L /\ k \in 2 .. L /\ L - 1 = i
  BY <1>3, <1>6, <1>8, <1>9, <1>10 DEF L
<1>14. /\ StandsFor(s, st.sym, 5, vs[j], b[k], b[j]) /\ StandsFor(s, st.sym, 10, vs[i], b[j], b[i])
       /\ StandsFor(s, st.sym, 17, vs[L], b[i], n)
  BY <1>3, <1>4, <1>7, <1>8, <1>9, <1>11, <1>13 DEF Cover
<1>15. PICK lo \in Nat : lo = b[k]
  BY <1>14 DEF StandsFor
<1>16. PICK p \in Nat : p = b[j]
  BY <1>14 DEF StandsFor
<1>17. PICK m \in Nat : m = b[i]
  BY <1>14 DEF StandsFor
<1>18. /\ p = lo + 1 /\ m = n - 1 /\ p < m /\ n \in Nat /\ lo < n /\ lo \in 0 .. n /\ p \in 0 .. m /\ n # b[2] + 1
       /\ Kind(s, p) = "(" /\ Kind(s, n) = ")"
       /\ IsExpr[Cut(s, p, m)] /\ Value(st.sym)[Cut(s, p, m)] = {vs[i]}
  <2>0. 5 \in TokenStates /\ 17 \in TokenStates /\ TokenOf(5) = "(" /\ TokenOf(17) = ")"
    BY DEF TokenStates, TokenOf
  <2>1. p = lo + 1 /\ Kind(s, p) = "("
    <3>1. StandsFor(s, st.sym, 5, vs[j], lo, p)
      BY <1>14, <1>15, <1>16
    <3>. QED  BY <2>0, <3>1 DEF StandsFor
  <2>2. n = m + 1 /\ Kind(s, n) = ")"
    <3>1. StandsFor(s, st.sym, 17, vs[L], m, n)
      BY <1>14, <1>17
    <3>. QED  BY <2>0, <3>1 DEF StandsFor
  <2>3. p < m /\ IsExpr[Cut(s, p, m)] /\ Value(st.sym)[Cut(s, p, m)] = {vs[i]}
    <3>1. StandsFor(s, st.sym, 10, vs[i], p, m) /\ 10 \in ExprStates
      BY <1>14, <1>16, <1>17 DEF ExprStates
    <3>. QED  BY <3>1 DEF StandsFor
  <2>4. b[2] <= p
    <3>1. j \in 3 .. L
      BY <1>3, <1>11, <1>13
    <3>. QED  BY <1>3, <1>4, <1>16, <3>1 DEF Cover
  <2>. QED  BY <1>3, <2>1, <2>2, <2>3, <2>4
<1>19. /\ IsExpr[Cut(s, lo, n)] /\ \A K : Outside(Cut(s, lo, n), K) = {}
       /\ Value(st.sym)[Cut(s, lo, n)] = {v}
  <2>1. PICK mem \in Memories : mem = st.sym
    BY <1>3
  <2>2. /\ IsExpr[Cut(s, lo, n)] /\ \A K : Outside(Cut(s, lo, n), K) = {}
        /\ Value(mem)[Cut(s, lo, n)] = Value(mem)[Cut(s, p, m)]
    <3>1. s \in TokenSeqs /\ n \in 0 .. Len(s) /\ lo \in 0 .. n /\ m = n - 1 /\ p \in 0 .. m /\ p = lo + 1
          /\ Kind(s, p) = "(" /\ Kind(s, n) = ")" /\ IsExpr[Cut(s, p, m)] /\ m \in Nat
      BY <1>0, <1>3, <1>18
    <3>. USE ONLY <3>1, ParenAt
    <3>. QED  BY <3>1, ParenAt
  <2>3. v = vs[i]
    BY <1>6 DEF L
  <2>. QED  BY <1>18, <2>1, <2>2, <2>3
<1>20. g \in ExprStates
  BY <1>10, ExprOver
<1>21. Tight(g, ch, s, lo, n)
  BY <1>19 DEF Tight
<1>22. ss[Len(ss)] \notin {6, 11}
  BY <1>5 DEF L
<1>. QED  BY <1>1, <1>2, <1>10, <1>15, <1>18, <1>19, <1>20, <1>21, <1>22, ReducesTo

\* Without operators outside parentheses there are no additive ones.
LEMMA FewerOutside == ASSUME NEW s, Outside(s, Operators) = {} PROVE Outside(s, Additive) = {}
BY DEF Outside, Operators

\* n tokens are taken; the places of the left operand and of the state below it, and the
\* operator of the state below the top.
Layout(ss, ch, s, n, j, k, op) ==
    n = TakenOf(ch, s) /\ j = Len(ss) - 2 /\ k = Len(ss) - 3 /\ op = TokenOf(ss[Len(ss) - 1])

\* What a stack with two expressions and an operator on top stands for.
BinaryAt(ss, vs, s, mem, b, n, j, k, op) ==
    LET q == ss[Len(ss)]
        w == Cut(s, b[k], n)
    IN /\ k \in 2 .. Len(ss) /\ b[k] \in Nat /\ b[k] < n /\ n # b[2] + 1
       /\ ss[k] \in {1, 5, 8, 12, 13, 14, 15} /\ ss[j] \in {7, 10, 16, 18, 19} /\ Under(ss[k], ss[j])
       /\ q \in {18, 19} => ss[j] \in {7, 10, 16}
       /\ q = 21 => op = "/"
       /\ IsExpr[w] /\ Value(mem)[w] = Results(op, {vs[j]}, {vs[Len(ss)]})
       /\ q \in {20, 21} => Outside(w, Additive) = {}

\* Two expressions and an operator on the stack: their places and values, and those of
\* the whole, with or without a result.
LEMMA BinaryTop ==
    ASSUME NEW ss, NEW vs, NEW ch, NEW s, NEW st, Setting(ss, vs, ch, s, st),
           NEW b, NEW c, Len(ss) # 1, Stands(ss, vs, ch, s, st, b, c),
           ss[Len(ss)] \in {18, 19, 20, 21},
           NEW n, NEW j, NEW k, NEW op, Layout(ss, ch, s, n, j, k, op)
    PROVE  BinaryAt(ss, vs, s, st.sym, b, n, j, k, op)
<1>. USE DEF Layout
<1>. DEFINE L == Len(ss)
            q == ss[L]
<1>0. /\ s \in TokenSeqs /\ IsStack(ss)
  BY DEF Setting
<1>1. /\ L \in Nat /\ L >= 2 /\ n \in 0 .. Len(s) /\ Len(s) \in Nat
      /\ StandsFor(s, st.sym, q, vs[L], b[L - 1], n) /\ st.sym \in Memories
      /\ b[2] \in 0 .. n
  BY Situation
<1>2. Cover(s, st.sym, ss, vs, b, L) /\ b[L] = n
  BY DEF Stands
<1>3. q \in {18, 19, 20, 21}
  OBVIOUS
<1>. HIDE DEF L, q
<1>. DEFINE i == L - 1
<1>4. i = L - 1 /\ j = i - 1 /\ k = j - 1 /\ op = TokenOf(ss[i]) /\ L \in 2 .. Len(ss) /\ q = ss[L]
  BY <1>1 DEF L, q
<1>. HIDE DEF i, Layout
<1>5. ss[i] = q - 6 /\ i \in 2 .. Len(ss)
  <2>1. (ss[L] \in {18, 19, 20, 21} => ss[i] = ss[L] - 6) /\ (ss[i] # 0 => i \in 2 .. Len(ss))
    <3>. USE ONLY <1>0, <1>4, Below
    <3>. QED  BY <1>0, <1>4, Below
  <2>. QED  BY <1>3, <1>4, <2>1
<1>6. ss[j] \in {7, 10, 16, 18, 19} /\ (q \in {18, 19} => ss[j] \in {7, 10, 16}) /\ j \in 2 .. Len(ss)
  <2>1. /\ ss[i] \in {12, 13} => ss[j] \in {7, 10, 16}
        /\ ss[i] \in {14, 15} => ss[j] \in {7, 10, 16, 18, 19}
        /\ ss[j] # 0 => j \in 2 .. Len(ss)
    <3>. USE ONLY <1>0, <1>4, <1>5, Below
    <3>. QED  BY <1>0, <1>4, <1>5, Below
  <2>. QED  BY <1>3, <1>5, <2>1
<1>7. ss[k] \in {1, 5, 8, 12, 13, 14, 15} /\ Under(ss[k], ss[j]) /\ k \in 2 .. Len(ss)
  <2>1. /\ ss[j] \in {4, 6, 7} => ss[k] = 1
        /\ ss[j] = 10 => ss[k] = 5
        /\ ss[j] = 16 => ss[k] = 8
        /\ ss[j] \in {18, 19, 20, 21} => ss[k] = ss[j] - 6
        /\ Under(ss[k], ss[j]) /\ (ss[k] # 0 => k \in 2 .. Len(ss))
    <3>. USE ONLY <1>0, <1>4, <1>6, Below
    <3>. QED  BY <1>0, <1>4, <1>6, Below
  <2>2. PICK x, y : x = ss[k] /\ y = ss[j]
    OBVIOUS
  <2>3. /\ y \in {7, 10, 16, 18, 19} /\ (y = 7 => x = 1) /\ (y = 10 => x = 5) /\ (y = 16 => x = 8)
        /\ (y = 18 => x = 12) /\ (y = 19 => x = 13)
    BY <1>6, <2>1, <2>2
  <2>4. x \in {1, 5, 8, 12, 13}
    <3>. USE ONLY <2>3
    <3>. QED  BY <2>3
  <2>. QED  BY <2>1, <2>2, <2>4
<1>8. /\ q = 18 => op = "+"
      /\ q = 19 => op = "-"
      /\ q = 20 => op = "*"
      /\ q = 21 => op = "/"
  <2>1. PICK x : x = ss[i]
    OBVIOUS
  <2>2. x = q - 6 /\ op = TokenOf(x)
    BY <1>4, <1>5, <2>1
  <2>. USE ONLY <1>3, <2>2 DEF TokenOf
  <2>3. CASE q = 18
    BY <2>2, <2>3 DEF TokenOf
  <2>4. CASE q = 19
    BY <2>2, <2>4 DEF TokenOf
  <2>5. CASE q = 20
    BY <2>2, <2>5 DEF TokenOf
  <2>6. CASE q = 21
    BY <2>2, <2>6 DEF TokenOf
  <2>. QED  BY <1>3, <2>3, <2>4, <2>5, <2>6
<1>9. /\ j \in 2 .. L /\ i \in 2 .. L /\ L \in 2 .. L /\ k \in 2 .. L
  BY <1>1, <1>4, <1>5, <1>6, <1>7 DEF L
<1>10. /\ StandsFor(s, st.sym, ss[j], vs[j], b[k], b[j]) /\ StandsFor(s, st.sym, ss[i], vs[i], b[j], b[i])
       /\ StandsFor(s, st.sym, q, vs[L], b[i], n)
  BY <1>1, <1>2, <1>4, <1>9 DEF Cover
<1>11. PICK lo \in Nat : lo = b[k]
  BY <1>10 DEF StandsFor
<1>12. PICK m \in Nat : m = b[j]
  BY <1>10 DEF StandsFor
<1>13. PICK p \in Nat : p = b[i]
  BY <1>10 DEF StandsFor
<1>14. lo < m /\ IsExpr[Cut(s, lo, m)] /\ Value(st.sym)[Cut(s, lo, m)] = {vs[j]}
  <2>1. ss[j] \in ExprStates /\ ss[j] # 1
    BY <1>6 DEF ExprStates
  <2>2. StandsFor(s, st.sym, ss[j], vs[j], lo, m)
    BY <1>10, <1>11, <1>12
  <2>. QED  BY <2>1, <2>2 DEF StandsFor
<1>15. p = m + 1 /\ Kind(s, p) = op
  <2>1. ss[i] \in TokenStates
    BY <1>3, <1>5 DEF TokenStates
  <2>. QED  BY <1>4, <1>10, <1>12, <1>13, <2>1 DEF StandsFor
<1>16. /\ p < n /\ IsExpr[Cut(s, p, n)] /\ Value(st.sym)[Cut(s, p, n)] = {vs[L]}
       /\ q \in {18, 19} => Outside(Cut(s, p, n), Additive) = {}
       /\ q \in {20, 21} => Outside(Cut(s, p, n), Operators) = {}
  <2>1. q \in ExprStates /\ q # 1
    BY <1>3 DEF ExprStates
  <2>. QED  BY <1>10, <1>13, <2>1 DEF StandsFor
<1>17. q \in {20, 21} => Outside(Cut(s, lo, m), Additive) = {}
  <2>1. q \in {20, 21} => ss[j + 1] \in {14, 15}
    BY <1>4, <1>5, <1>9
  <2>2. j \in 2 .. L - 1
    BY <1>1, <1>4, <1>9
  <2>3. b[j - 1] = lo /\ b[j] = m
    BY <1>4, <1>11, <1>12
  <2>. QED  BY <1>2, <2>1, <2>2, <2>3 DEF Cover
<1>18. b[2] <= lo
  <2>1. k = 2 \/ k \in 3 .. L
    BY <1>1, <1>9
  <2>2. k \in 3 .. L => b[2] < b[k]
    BY <1>2 DEF Cover
  <2>3. PICK x \in Nat : x = b[2]
    BY <1>1
  <2>4. x <= lo
    <3>1. CASE k = 2
      <4>1. lo = x
        BY <1>11, <2>3, <3>1
      <4>. QED  BY <4>1
    <3>2. CASE k \in 3 .. L
      <4>1. x < lo
        BY <1>11, <2>2, <2>3, <3>2
      <4>. QED  BY <4>1
    <3>. QED  BY <2>1, <3>1, <3>2
  <2>. QED  BY <2>3, <2>4
<1>19. n \in Nat /\ lo \in 0 .. n /\ m \in lo .. n /\ p \in m .. n /\ lo < n /\ n # b[2] + 1
  <2>1. n \in Nat /\ lo < m /\ p = m + 1 /\ p < n
    BY <1>1, <1>14, <1>15, <1>16
  <2>2. PICK x \in Nat : x = b[2] /\ x <= lo
    BY <1>1, <1>18
  <2>. QED  BY <2>1, <2>2
<1>20. op \in Operators /\ (op \in Multiplicative <=> q \in {20, 21})
  BY <1>3, <1>8 DEF Operators, Additive, Multiplicative
<1>21. /\ IsExpr[Cut(s, lo, n)]
       /\ Value(st.sym)[Cut(s, lo, n)] = Results(op, {vs[j]}, {vs[L]})
       /\ op \in Multiplicative => Outside(Cut(s, lo, n), Additive) = {}
  <2>1. PICK mem \in Memories : mem = st.sym
    BY <1>1
  <2>2. Outside(Cut(s, p, n), Additive) = {}
    BY <1>3, <1>16, FewerOutside
  <2>3. /\ s \in TokenSeqs /\ n \in 0 .. Len(s) /\ lo \in 0 .. n /\ m \in lo .. n /\ p \in m .. n /\ p = m + 1
        /\ Kind(s, p) \in Operators /\ IsExpr[Cut(s, lo, m)] /\ IsExpr[Cut(s, p, n)]
        /\ Kind(s, p) \in Multiplicative =>
              Outside(Cut(s, lo, m), Additive) = {} /\ Outside(Cut(s, p, n), Operators) = {}
    BY <1>0, <1>1, <1>14, <1>15, <1>16, <1>17, <1>19, <1>20
  <2>4. /\ IsExpr[Cut(s, lo, n)]
        /\ Value(mem)[Cut(s, lo, n)] = Results(Kind(s, p), Value(mem)[Cut(s, lo, m)], Value(mem)[Cut(s, p, n)])
        /\ Kind(s, p) \in Multiplicative => Outside(Cut(s, lo, n), Additive) = {}
    <3>. USE ONLY <2>2, <2>3, JoinAt
    <3>. QED  BY <2>2, <2>3, JoinAt
  <2>. QED  BY <1>14, <1>15, <1>16, <2>1, <2>4
<1>. QED  BY <1>4, <1>6, <1>7, <1>8, <1>11, <1>19, <1>20, <1>21 DEF L, q, BinaryAt

\* Two expressions and an operator become one.
LEMMA BinaryReduced ==
    ASSUME NEW ss, NEW vs, NEW ch, NEW s, NEW st, Setting(ss, vs, ch, s, st), Parses(ss, vs, ch, s, st),
           Len(ss) # 1, ss[Len(ss)] \in {18, 19, 20, 21},
           ss[Len(ss)] \in {18, 19} => ch \notin Multiplicative \cup {YYEMPTY},
           NEW k, k = Len(ss) - 3, NEW g, g = GotoState(ss[k], 16),
           NEW op, op = TokenOf(ss[Len(ss) - 1]), ~Traps(op, vs[Len(ss) - 2], vs[Len(ss)]),
           NEW v, v = Compute(op, vs[Len(ss) - 2], vs[Len(ss)]),
           NEW ss2, NEW vs2, Reduced(ss, vs, ss2, vs2, k, g, v)
    PROVE  Parses(ss2, vs2, ch, s, st)
<1>1. PICK b \in Positions(ss, s), c \in Nat : Stands(ss, vs, ch, s, st, b, c)
  BY DEF Parses
<1>2. PICK n : n = TakenOf(ch, s)
  OBVIOUS
<1>3. PICK j : j = Len(ss) - 2
  OBVIOUS
<1>4. PICK q : q = ss[Len(ss)]
  OBVIOUS
<1>5. /\ k \in 2 .. Len(ss) /\ b[k] \in Nat /\ b[k] < n /\ n # b[2] + 1
      /\ ss[k] \in {1, 5, 8, 12, 13, 14, 15} /\ ss[j] \in {7, 10, 16, 18, 19} /\ Under(ss[k], ss[j])
      /\ q \in {18, 19} => ss[j] \in {7, 10, 16}
      /\ IsExpr[Cut(s, b[k], n)]
      /\ Value(st.sym)[Cut(s, b[k], n)] = Results(op, {vs[j]}, {vs[Len(ss)]})
      /\ q \in {20, 21} => Outside(Cut(s, b[k], n), Additive) = {}
  <2>1. /\ Setting(ss, vs, ch, s, st) /\ Len(ss) # 1 /\ ss[Len(ss)] \in {18, 19, 20, 21}
        /\ Layout(ss, ch, s, n, j, k, op)
    BY <1>2, <1>3 DEF Layout
  <2>2. BinaryAt(ss, vs, s, st.sym, b, n, j, k, op)
    BY <1>1, <2>1, BinaryTop
  <2>. QED  BY <1>4, <2>2 DEF BinaryAt
<1>6. PICK lo : lo = b[k]
  OBVIOUS
<1>7. Value(st.sym)[Cut(s, lo, n)] = {v}
  BY <1>3, <1>5, <1>6, ResultsOne
<1>8. g = ss[j] /\ g \in ExprStates
  <2>1. ss[j] \in ExprStates
    BY <1>5 DEF ExprStates
  <2>2. g = GotoState(ss[k], 16) /\ ss[k] \in {1, 5, 8, 12, 13, 14, 15} /\ Under(ss[k], ss[j])
    BY <1>5
  <2>. USE ONLY <2>1, <2>2, ExprOver
  <2>. QED  BY <2>1, <2>2, ExprOver
<1>9. q \in {18, 19} \/ q \in {20, 21}
  BY <1>4
<1>10. /\ g \in {18, 19} => Outside(Cut(s, lo, n), Additive) = {}
       /\ g \in {20, 21} => Outside(Cut(s, lo, n), Operators) = {}
  <2>0. g \in {7, 10, 16, 18, 19} /\ (q \in {18, 19} => g \in {7, 10, 16})
    BY <1>5, <1>8
  <2>1. g \notin {20, 21} /\ (g \in {18, 19} => q \in {20, 21})
    <3>. USE ONLY <1>9, <2>0
    <3>. QED  BY <1>9, <2>0
  <2>. QED  BY <1>5, <1>6, <2>1
<1>11. Tight(g, ch, s, lo, n)
  BY <1>4, <1>5, <1>6, <1>9 DEF Tight
<1>12. g = 7 /\ n = b[2] + 1 /\ Kind(s, n) = "VARIABLE" => ch \notin {YYEMPTY, "="}
  BY <1>5
<1>13. /\ Setting(ss, vs, ch, s, st) /\ Parses(ss, vs, ch, s, st) /\ Len(ss) # 1
       /\ Reduced(ss, vs, ss2, vs2, k, g, v) /\ lo < n /\ IsExpr[Cut(s, lo, n)]
       /\ ss[Len(ss)] \notin {6, 11} /\ k \in 2 .. Len(ss)
  <2>1. ss[Len(ss)] \notin {6, 11}
    BY <1>4, <1>9
  <2>. QED  BY <1>5, <1>6, <2>1
<1>. USE ONLY <1>1, <1>2, <1>6, <1>7, <1>8, <1>10, <1>11, <1>12, <1>13, ReducesTo
<1>. QED  BY <1>1, <1>2, <1>6, <1>7, <1>8, <1>10, <1>11, <1>12, <1>13, ReducesTo

\* A division without a result was written.
LEMMA TrapFine ==
    ASSUME NEW ss, NEW vs, NEW ch, NEW s, NEW st, Setting(ss, vs, ch, s, st), Parses(ss, vs, ch, s, st),
           Len(ss) # 1, ss[Len(ss)] = 21, Traps("/", vs[Len(ss) - 2], vs[Len(ss)])
    PROVE  \E i \in 1 .. Len(s), j \in 1 .. Len(s) :
              IsExpr[SubSeq(s, i, j)] /\ Value(st.sym)[SubSeq(s, i, j)] = {}
<1>1. PICK b \in Positions(ss, s), c \in Nat : Stands(ss, vs, ch, s, st, b, c)
  BY DEF Parses
<1>2. PICK n : n = TakenOf(ch, s)
  OBVIOUS
<1>3. PICK j : j = Len(ss) - 2
  OBVIOUS
<1>4. PICK k : k = Len(ss) - 3
  OBVIOUS
<1>5. PICK op : op = TokenOf(ss[Len(ss) - 1])
  OBVIOUS
<1>6. /\ b[k] \in Nat /\ b[k] < n
      /\ op = "/"
      /\ IsExpr[Cut(s, b[k], n)]
      /\ Value(st.sym)[Cut(s, b[k], n)] = Results(op, {vs[j]}, {vs[Len(ss)]})
  <2>1. /\ Setting(ss, vs, ch, s, st) /\ Len(ss) # 1 /\ ss[Len(ss)] \in {18, 19, 20, 21}
        /\ ss[Len(ss)] = 21 /\ Layout(ss, ch, s, n, j, k, op)
    BY <1>2, <1>3, <1>4, <1>5 DEF Layout
  <2>2. BinaryAt(ss, vs, s, st.sym, b, n, j, k, op)
    BY <1>1, <2>1, BinaryTop
  <2>. QED  BY <2>1, <2>2 DEF BinaryAt
<1>7. Value(st.sym)[Cut(s, b[k], n)] = {}
  BY <1>3, <1>6, ResultsOne
<1>8. n \in 0 .. Len(s) /\ Len(s) \in Nat
  BY <1>1, <1>2, Situation
<1>9. PICK m \in 1 .. Len(s) : m = b[k] + 1
  BY <1>6, <1>8
<1>10. n \in 1 .. Len(s) /\ Cut(s, b[k], n) = SubSeq(s, m, n)
  BY <1>6, <1>8, <1>9 DEF Cut
<1>. QED  BY <1>6, <1>7, <1>10

\* The first reduction: an empty program.
LEMMA FirstReduced ==
    ASSUME NEW ss, NEW vs, NEW ch, NEW s, NEW st, Setting(ss, vs, ch, s, st), Parses(ss, vs, ch, s, st),
           Len(ss) = 1, NEW v, NEW ss2, NEW vs2, Reduced(ss, vs, ss2, vs2, 1, 1, v)
    PROVE  Parses(ss2, vs2, ch, s, st)
<1>1. s = <<>> /\ ch = YYEMPTY /\ st = Program[<<>>] /\ s \in TokenSeqs
  BY DEF Parses, Setting
<1>2. Len(s) = 0 /\ TakenOf(ch, s) = 0
  BY <1>1 DEF TakenOf
<1>3. Len(ss2) = 2 /\ ss2[2] = 1
  BY DEF Reduced
<1>4. Cut(s, 0, 0) = s
  BY <1>1, <1>2, CutNames
<1>. DEFINE e == [i \in 1 .. 2 |-> 0]
<1>5. e \in [1 .. 2 -> 0 .. Len(s)] /\ e[1] = 0 /\ e[2] = 0
  BY <1>2
<1>. HIDE DEF e
<1>6. Complete(s, 0) /\ Line(s, 0, 0)
  BY NothingYet
<1>7. StandsFor(s, st.sym, 1, vs2[2], 0, 0)
  BY <1>2, <1>6 DEF StandsFor, TokenStates, ExprStates
<1>8. Cover(s, st.sym, ss2, vs2, e, 2)
  <2>1. \A i \in 2 .. 2 : i = 2 /\ i - 1 = 1
    OBVIOUS
  <2>2. \A i \in 2 .. 2 : StandsFor(s, st.sym, ss2[i], vs2[i], e[i - 1], e[i])
    BY <1>3, <1>5, <1>7, <2>1
  <2>. QED  BY <1>5, <2>2 DEF Cover
<1>9. Partial(Cut(s, 0, 0))
  BY <1>1, <1>2, PartialNone
<1>10. InLine(1, ch, s, st, 0, 0, 0)
  BY <1>1, <1>4, <1>6, <1>9 DEF InLine, Starts
<1>11. Stands(ss2, vs2, ch, s, st, e, 0)
  BY <1>2, <1>3, <1>5, <1>8, <1>10 DEF Stands, Tight
<1>12. e \in Positions(ss2, s)
  BY <1>3, <1>5 DEF Positions
<1>13. \A i \in 1 .. TakenOf(ch, s) : Kind(s, i) # "eof"
  BY <1>2
<1>. QED  BY <1>3, <1>11, <1>12, <1>13 DEF Parses

\* A line becomes a statement, and is executed.
LEMMA StatementReduced ==
    ASSUME NEW ss, NEW vs, NEW ch, NEW s, NEW st, Setting(ss, vs, ch, s, st), Parses(ss, vs, ch, s, st),
           NEW b, NEW c, Len(ss) # 1, Stands(ss, vs, ch, s, st, b, c),
           NEW n, n = TakenOf(ch, s), NEW B, B = b[2], B < n,
           IsStatement(Cut(s, B, n)), Line(s, B, n), ch \notin Operators \cup {YYEMPTY},
           n = B + 1 /\ Kind(s, n) = "VARIABLE" => ch \notin {YYEMPTY, "="},
           NEW st2, st2 = Program[s],
           NEW v, NEW ss2, NEW vs2, Reduced(ss, vs, ss2, vs2, 2, 6, v)
    PROVE  Parses(ss2, vs2, ch, s, st2)
<1>. DEFINE L == Len(ss)
<1>1. /\ s \in TokenSeqs /\ L \in Nat /\ L >= 2 /\ n \in 0 .. Len(s) /\ Len(s) \in Nat /\ B \in 0 .. n
      /\ ss[2] = 1
  BY Situation DEF Setting
<1>2. Cover(s, st.sym, ss, vs, b, L)
  BY DEF Stands
<1>3. PICK mem : mem = st.sym
  OBVIOUS
<1>4. PICK mem2 : mem2 = st2.sym
  OBVIOUS
<1>5. PICK f : f = [i \in 1 .. 2 |-> b[i]]
  OBVIOUS
<1>6. f[2] = B
  BY <1>5
<1>7. Cover(s, mem, ss, vs, f, 2)
  <2>1. 2 \in 1 .. L /\ Agree(ss, vs, ss, vs, 2)
    BY <1>1 DEF Agree
  <2>2. Cover(s, mem, ss, vs, b, L)
    BY <1>2, <1>3
  <2>. HIDE DEF L
  <2>. QED  BY <1>1, <1>5, <2>1, <2>2, CoverBelow
<1>8. Cover(s, mem2, ss, vs, f, 2)
  BY <1>1, <1>7, CoverAny
<1>9. StandsFor(s, mem2, 6, v, f[2], n)
  BY <1>1, <1>6 DEF StandsFor, TokenStates, ExprStates
<1>10. PICK e \in Positions(ss2, s) :
              /\ Cover(s, mem2, ss2, vs2, e, 2 + 1) /\ e[2 + 1] = n
              /\ \A i \in 1 .. 2 : e[i] = f[i]
  <2>1. PICK k \in Nat, g \in Nat : k = 2 /\ g = 6
    OBVIOUS
  <2>2. /\ Cover(s, mem2, ss, vs, f, k) /\ StandsFor(s, mem2, g, v, f[k], n) /\ Reduced(ss, vs, ss2, vs2, k, g, v)
        /\ k \in 1 .. k /\ (k > 1 => g # 1) /\ g \notin {14, 15} /\ s \in TokenSeqs
    BY <1>1, <1>8, <1>9, <2>1
  <2>3. \E e \in Positions(ss2, s) :
              /\ Cover(s, mem2, ss2, vs2, e, k + 1) /\ e[k + 1] = n
              /\ \A i \in 1 .. k : e[i] = f[i]
    <3>. USE ONLY <2>2, Replaces
    <3>. QED  BY <2>2, Replaces
  <2>. QED  BY <2>1, <2>3
<1>11. Len(ss2) = 3 /\ ss2[3] = 6
  BY DEF Reduced
<1>12. InLine(6, ch, s, st2, B, 0, n)
  BY DEF InLine
<1>13. Cover(s, st2.sym, ss2, vs2, e, 3) /\ e[3] = n /\ e[2] = B
  BY <1>4, <1>6, <1>10
<1>14. Stands(ss2, vs2, ch, s, st2, e, 0)
  BY <1>11, <1>12, <1>13 DEF Stands, Tight
<1>15. \A i \in 1 .. TakenOf(ch, s) : Kind(s, i) # "eof"
  BY DEF Parses
<1>. QED  BY <1>10, <1>11, <1>14, <1>15 DEF Parses

\* An expression is printed.
LEMMA PrintReduced ==
    ASSUME NEW ss, NEW vs, NEW ch, NEW s, NEW st, Setting(ss, vs, ch, s, st), Parses(ss, vs, ch, s, st),
           Len(ss) # 1, ss[Len(ss)] = 7, ch \notin Operators \cup {YYEMPTY},
           NEW st2, st2 = PrintedBy(st, vs[Len(ss)]),
           NEW v, NEW ss2, NEW vs2, Reduced(ss, vs, ss2, vs2, 2, 6, v)
    PROVE  Len(ss) = 3 /\ Parses(ss2, vs2, ch, s, st2)
<1>. DEFINE L == Len(ss)
<1>1. PICK b \in Positions(ss, s), c \in Nat : Stands(ss, vs, ch, s, st, b, c)
  BY DEF Parses
<1>2. PICK n : n = TakenOf(ch, s)
  OBVIOUS
<1>3. PICK B : B = b[2]
  OBVIOUS
<1>4. /\ L \in Nat /\ L >= 2 /\ n \in 0 .. Len(s) /\ Len(s) \in Nat /\ n = Len(s) - 1
      /\ B \in 0 .. n /\ StandsFor(s, st.sym, 7, vs[L], b[L - 1], n)
  BY <1>1, <1>2, <1>3, Situation
<1>5. s \in TokenSeqs /\ Kind(s, Len(s)) = ch /\ IsStack(ss) /\ st.trapped = FALSE
  BY DEF Setting
<1>6. L = 3
  <2>1. L \in 1 .. Len(ss) /\ ss[L] \in {4, 6, 7}
    BY <1>4
  <2>. QED  BY <1>5, <2>1, AssignedAt
<1>7. B < n /\ IsExpr[Cut(s, B, n)] /\ Value(st.sym)[Cut(s, B, n)] = {vs[L]}
  BY <1>3, <1>4, <1>6 DEF StandsFor, ExprStates
<1>8. InLine(7, ch, s, st, B, c, n)
  BY <1>1, <1>2, <1>3 DEF Stands
<1>9. /\ c \in B .. n /\ Starts(s, B, c) /\ Partial(Cut(s, c, n)) /\ Line(s, B, n) /\ st = Program[Cut(s, 0, B)]
      /\ n = B + 1 /\ Kind(s, n) = "VARIABLE" => ch \notin {YYEMPTY, "="}
  BY <1>8 DEF InLine
<1>10. IsStatement(Cut(s, B, n))
  BY <1>7 DEF IsStatement
<1>11. n + 1 = Len(s) /\ Len(s) - 1 = n /\ n \in B + 1 .. Len(s) /\ B \in 0 .. Len(s) - 1
  BY <1>4, <1>7
<1>12. Executable(Cut(s, B, Len(s))) = {n - B}
  <2>1. /\ s \in TokenSeqs /\ n \in 0 .. Len(s) /\ n + 1 = Len(s) /\ B \in 0 .. n /\ c \in B .. n
        /\ Starts(s, B, c) /\ Partial(Cut(s, c, n))
    BY <1>4, <1>5, <1>9, <1>11
  <2>2. /\ \/ Executable(Cut(s, B, Len(s))) = {}
           \/ Executable(Cut(s, B, Len(s))) = {n - B}
        /\ n - B \in Executable(Cut(s, B, Len(s))) <=>
              /\ B < n /\ IsStatement(Cut(s, B, n)) /\ Kind(s, Len(s)) \notin Operators
              /\ ~(n = B + 1 /\ Kind(s, n) = "VARIABLE" /\ Kind(s, Len(s)) = "=")
    BY <2>1, ExecIs
  <2>3. n - B \in Executable(Cut(s, B, Len(s)))
    BY <1>5, <1>7, <1>9, <1>10, <2>2
  <2>. QED  BY <2>2, <2>3
<1>. HIDE DEF L
<1>13. Program[s] = PrintedBy(st, vs[L])
  <2>1. PICK x : x = vs[L]
    OBVIOUS
  <2>2. s \in TokenSeqs /\ Runs(s, B, n, st)
    BY <1>5, <1>9, <1>11, <1>12 DEF Runs
  <2>4. IsExpr[Cut(s, B, n)] /\ Value(st.sym)[Cut(s, B, n)] = {x}
    BY <1>7, <2>1
  <2>3. Program[s] = PrintedBy(st, x)
    BY <2>2, <2>4, ProgramDoes
  <2>. QED  BY <2>1, <2>3
<1>14. st2 = Program[s]
  BY <1>13 DEF L
<1>15. Parses(ss2, vs2, ch, s, st2)
  BY <1>1, <1>2, <1>3, <1>7, <1>9, <1>10, <1>14, StatementReduced
<1>. QED  BY <1>6, <1>15 DEF L

\* The states of an assignment are where its tokens are.
LEMMA AssignTop ==
    ASSUME NEW ss, IsStack(ss), NEW i \in 1 .. Len(ss), ss[i] = 16
    PROVE  i = 5 /\ ss[4] = 8 /\ ss[3] = 4
<1>0. Len(ss) \in Nat
  BY DEF IsStack
<1>1. PICK j : j = i - 1
  OBVIOUS
<1>2. PICK k : k = j - 1
  OBVIOUS
<1>3. i # 1
  BY StackTop
<1>4. i \in 2 .. Len(ss)
  BY <1>0, <1>3
<1>5. ss[j] = 8 /\ j \in 2 .. Len(ss)
  <2>1. (ss[i] = 16 => ss[j] = 8) /\ (ss[j] # 0 => j \in 2 .. Len(ss))
    BY <1>1, <1>4, Below
  <2>. QED  BY <2>1
<1>6. ss[k] = 4 /\ k \in 2 .. Len(ss)
  <2>1. (ss[j] = 8 => ss[k] = 4) /\ (ss[k] # 0 => k \in 2 .. Len(ss))
    BY <1>2, <1>5, Below
  <2>. QED  BY <1>5, <2>1
<1>7. k = 3
  <2>1. k \in 1 .. Len(ss) /\ ss[k] \in {4, 6, 7}
    BY <1>0, <1>6
  <2>. QED  BY <2>1, AssignedAt
<1>8. j = 4 /\ i = 5
  BY <1>0, <1>1, <1>2, <1>4, <1>5, <1>7
<1>. QED  BY <1>5, <1>6, <1>7, <1>8

\* A variable is assigned.
LEMMA AssignReduced ==
    ASSUME NEW ss, NEW vs, NEW ch, NEW s, NEW st, Setting(ss, vs, ch, s, st), Parses(ss, vs, ch, s, st),
           Len(ss) # 1, ss[Len(ss)] = 16, ch \notin Operators \cup {YYEMPTY},
           NEW st2, st2 = AssignedBy(st, vs[3], vs[5]),
           NEW v, NEW ss2, NEW vs2, Reduced(ss, vs, ss2, vs2, 2, 6, v)
    PROVE  Len(ss) = 5 /\ Parses(ss2, vs2, ch, s, st2)
<1>. DEFINE L == Len(ss)
<1>1. PICK b \in Positions(ss, s), c \in Nat : Stands(ss, vs, ch, s, st, b, c)
  BY DEF Parses
<1>2. PICK n : n = TakenOf(ch, s)
  OBVIOUS
<1>3. PICK B : B = b[2]
  OBVIOUS
<1>4. /\ L \in Nat /\ L >= 2 /\ n \in 0 .. Len(s) /\ Len(s) \in Nat /\ n = Len(s) - 1
      /\ B \in 0 .. n
  BY <1>1, <1>2, <1>3, Situation
<1>5. s \in TokenSeqs /\ Kind(s, Len(s)) = ch /\ IsStack(ss) /\ st.trapped = FALSE
  BY DEF Setting
<1>6. L = 5 /\ ss[4] = 8 /\ ss[3] = 4 /\ ss[5] = 16
  <2>1. L \in 1 .. Len(ss) /\ ss[L] = 16
    BY <1>4
  <2>. QED  BY <1>5, <2>1, AssignTop
<1>7. Cover(s, st.sym, ss, vs, b, 5) /\ b[5] = n /\ InLine(16, ch, s, st, B, c, n)
  BY <1>1, <1>2, <1>3, <1>6 DEF Stands
<1>. HIDE DEF L
<1>8. /\ StandsFor(s, st.sym, 4, vs[3], B, b[3]) /\ StandsFor(s, st.sym, 8, vs[4], b[3], b[4])
      /\ StandsFor(s, st.sym, 16, vs[5], b[4], n)
  <2>1. 3 \in 2 .. 5 /\ 4 \in 2 .. 5 /\ 5 \in 2 .. 5 /\ 3 - 1 = 2 /\ 4 - 1 = 3 /\ 5 - 1 = 4
    OBVIOUS
  <2>. QED  BY <1>3, <1>6, <1>7, <2>1 DEF Cover
<1>9. /\ b[3] = B + 1 /\ Kind(s, B + 1) = "VARIABLE" /\ vs[3] = s[B + 1].val
  BY <1>8 DEF StandsFor, TokenStates, TokenOf
<1>10. /\ b[4] = B + 2 /\ Kind(s, B + 2) = "="
  <2>1. b[4] = b[3] + 1 /\ Kind(s, b[4]) = "="
    BY <1>8 DEF StandsFor, TokenStates, TokenOf
  <2>2. (B + 1) + 1 = B + 2
    BY <1>4
  <2>. QED  BY <1>9, <2>1, <2>2
<1>11. PICK a \in Nat : a = B + 2
  BY <1>4
<1>12. a < n /\ IsExpr[Cut(s, a, n)] /\ Value(st.sym)[Cut(s, a, n)] = {vs[5]}
  BY <1>8, <1>10, <1>11 DEF StandsFor, ExprStates
<1>13. /\ a \in 0 .. n /\ B + 2 <= n /\ B < n /\ n # B + 1 /\ n + 1 = Len(s) /\ Len(s) - 1 = n
       /\ n \in B + 1 .. Len(s) /\ B \in 0 .. Len(s) - 1
  BY <1>4, <1>11, <1>12
<1>14. /\ c \in B .. n /\ Starts(s, B, c) /\ Partial(Cut(s, c, n)) /\ Line(s, B, n) /\ st = Program[Cut(s, 0, B)]
  BY <1>7 DEF InLine
<1>15. Flat(Cut(s, a, n))
  BY <1>4, <1>5, <1>12, <1>13, FlatAt
<1>16. IsStatement(Cut(s, B, n))
  BY <1>4, <1>5, <1>9, <1>10, <1>11, <1>13, <1>15, StatementAt
<1>17. ~IsExpr[Cut(s, B, n)]
  <2>1. ~Partial(Cut(s, B, n))
    BY <1>4, <1>5, <1>10, <1>13, NoEquals
  <2>. QED  BY <1>4, <1>5, <2>1, FlatAt
<1>18. Executable(Cut(s, B, Len(s))) = {n - B}
  <2>1. /\ s \in TokenSeqs /\ n \in 0 .. Len(s) /\ n + 1 = Len(s) /\ B \in 0 .. n /\ c \in B .. n
        /\ Starts(s, B, c) /\ Partial(Cut(s, c, n))
    BY <1>4, <1>5, <1>13, <1>14
  <2>2. /\ \/ Executable(Cut(s, B, Len(s))) = {}
           \/ Executable(Cut(s, B, Len(s))) = {n - B}
        /\ n - B \in Executable(Cut(s, B, Len(s))) <=>
              /\ B < n /\ IsStatement(Cut(s, B, n)) /\ Kind(s, Len(s)) \notin Operators
              /\ ~(n = B + 1 /\ Kind(s, n) = "VARIABLE" /\ Kind(s, Len(s)) = "=")
    BY <2>1, ExecIs
  <2>3. n - B \in Executable(Cut(s, B, Len(s)))
    BY <1>5, <1>13, <1>16, <2>2
  <2>. QED  BY <2>2, <2>3
<1>19. Program[s] = AssignedBy(st, vs[3], vs[5])
  <2>1. PICK x, y : x = vs[5] /\ y = vs[3]
    OBVIOUS
  <2>2. s \in TokenSeqs /\ Runs(s, B, n, st)
    BY <1>5, <1>13, <1>14, <1>18 DEF Runs
  <2>4. Assigns(s, B, n, st.sym, y, x)
    BY <1>9, <1>11, <1>12, <1>13, <1>17, <2>1 DEF Assigns
  <2>3. Program[s] = AssignedBy(st, y, x)
    BY <2>2, <2>4, ProgramDoes
  <2>. QED  BY <2>1, <2>3
<1>20. st2 = Program[s]
  BY <1>19
<1>21. Parses(ss2, vs2, ch, s, st2)
  BY <1>1, <1>2, <1>3, <1>13, <1>14, <1>16, <1>20, StatementReduced
<1>. QED  BY <1>6, <1>21 DEF L

\* A newline completes a statement's line.
LEMMA BreakReduced ==
    ASSUME NEW ss, NEW vs, NEW ch, NEW s, NEW st, Setting(ss, vs, ch, s, st), Parses(ss, vs, ch, s, st),
           Len(ss) # 1, ss[Len(ss)] = 11,
           NEW v, NEW ss2, NEW vs2, Reduced(ss, vs, ss2, vs2, 1, 1, v)
    PROVE  Len(ss) = 4 /\ Parses(ss2, vs2, ch, s, st)
<1>. DEFINE L == Len(ss)
<1>1. PICK b \in Positions(ss, s), c \in Nat : Stands(ss, vs, ch, s, st, b, c)
  BY DEF Parses
<1>2. PICK n : n = TakenOf(ch, s)
  OBVIOUS
<1>3. PICK B : B = b[2]
  OBVIOUS
<1>4. /\ L \in Nat /\ L >= 2 /\ n \in 0 .. Len(s) /\ Len(s) \in Nat
      /\ B \in 0 .. n /\ Complete(s, B) /\ (n = Len(s) <=> ch = YYEMPTY)
  BY <1>1, <1>2, <1>3, Situation
<1>5. s \in TokenSeqs /\ IsStack(ss)
  BY DEF Setting
<1>6. L = 4 /\ ss[3] = 6 /\ ss[4] = 11
  <2>1. L \in 2 .. Len(ss) /\ ss[L] = 11
    BY <1>4
  <2>2. PICK j : j = L - 1
    OBVIOUS
  <2>. HIDE DEF L
  <2>3. (ss[L] = 11 => ss[j] = 6) /\ (ss[j] # 0 => j \in 2 .. Len(ss))
    BY <1>5, <2>1, <2>2, Below
  <2>4. ss[j] = 6 /\ j \in 1 .. Len(ss) /\ ss[j] \in {4, 6, 7}
    BY <2>1, <2>3
  <2>5. j = 3
    BY <1>5, <2>4, AssignedAt
  <2>. QED  BY <1>4, <2>1, <2>2, <2>4, <2>5
<1>7. Cover(s, st.sym, ss, vs, b, 4) /\ b[4] = n /\ InLine(11, ch, s, st, B, c, n)
  BY <1>1, <1>2, <1>3, <1>6 DEF Stands
<1>8. StandsFor(s, st.sym, 6, vs[3], B, b[3]) /\ StandsFor(s, st.sym, 11, vs[4], b[3], n)
  <2>1. 3 \in 2 .. 4 /\ 4 \in 2 .. 4 /\ 3 - 1 = 2 /\ 4 - 1 = 3
    OBVIOUS
  <2>. QED  BY <1>3, <1>6, <1>7, <2>1 DEF Cover
<1>9. PICK m \in Nat : m = b[3]
  BY <1>8 DEF StandsFor
<1>10. n = m + 1 /\ Kind(s, n) = "nl" /\ B < m /\ IsStatement(Cut(s, B, m))
  BY <1>8, <1>9 DEF StandsFor, TokenStates, TokenOf
<1>11. Line(s, B, n - 1) /\ st = Program[s] /\ ch = YYEMPTY
  BY <1>7 DEF InLine
<1>12. n \in 1 .. Len(s) /\ B \in 0 .. n - 1 /\ n - 1 = m /\ n = Len(s) /\ n \in Nat
  BY <1>4, <1>10, <1>11
<1>13. Complete(s, n)
  BY <1>4, <1>5, <1>10, <1>11, <1>12, GoodBreak
<1>14. StandsFor(s, st.sym, 1, v, 0, n)
  BY <1>4, <1>12, <1>13 DEF StandsFor, TokenStates, ExprStates
<1>15. b[1] = 0
  BY <1>7 DEF Cover
<1>16. PICK e \in Positions(ss2, s) :
              /\ Cover(s, st.sym, ss2, vs2, e, 2) /\ e[2] = n
              /\ \A i \in 1 .. 1 : e[i] = b[i]
  <2>1. PICK k \in Nat, g \in Nat, j \in Nat, mem \in {st.sym} : k = 1 /\ g = 1 /\ j = 4 /\ mem = st.sym
    OBVIOUS
  <2>2. /\ Cover(s, mem, ss, vs, b, j) /\ StandsFor(s, mem, g, v, b[k], n) /\ Reduced(ss, vs, ss2, vs2, k, g, v)
        /\ k \in 1 .. j /\ (k > 1 => g # 1) /\ g \notin {14, 15} /\ s \in TokenSeqs
    BY <1>5, <1>7, <1>14, <1>15, <2>1
  <2>3. \E e \in Positions(ss2, s) :
              /\ Cover(s, mem, ss2, vs2, e, k + 1) /\ e[k + 1] = n
              /\ \A i \in 1 .. k : e[i] = b[i]
    <3>. USE ONLY <2>2, Replaces
    <3>. QED  BY <2>2, Replaces
  <2>. QED  BY <2>1, <2>3
<1>17. Len(ss2) = 2 /\ ss2[2] = 1
  BY DEF Reduced
<1>18. Partial(Cut(s, n, n)) /\ Cut(s, 0, n) = s
  BY <1>4, <1>5, <1>12, PartialNone, CutNames
<1>19. Line(s, n, n)
  <2>1. \A i \in n + 1 .. n : FALSE
    BY <1>12
  <2>. QED  BY <1>10, <2>1 DEF Line
<1>20. InLine(1, ch, s, st, n, n, n)
  BY <1>11, <1>12, <1>18, <1>19 DEF InLine, Starts
<1>21. Stands(ss2, vs2, ch, s, st, e, n)
  BY <1>2, <1>16, <1>17, <1>20 DEF Stands, Tight
<1>22. \A i \in 1 .. TakenOf(ch, s) : Kind(s, i) # "eof"
  BY DEF Parses
<1>23. Parses(ss2, vs2, ch, s, st)
  BY <1>12, <1>16, <1>17, <1>21, <1>22 DEF Parses
<1>. QED  BY <1>6, <1>23

-----------------------------------------------------------------------------
(* 19. The invariant of what is computed, its steps, and the theorems. *)

\* What has been printed and the memory, as Program describes them.
Outcome == [printed |-> printed, sym |-> sym, trapped |-> FALSE]

\* While the parser works, the stacks stand for the input.
WorkInv == Working => yyresult = -1 /\ Parses(yyss, yyvs, yychar, read, Outcome)
\* yylval is the value of the look-ahead.
LookInv == Working /\ yychar \in {"INTEGER", "VARIABLE"} => yylval = read[Len(read)].val
\* When the parse has ended, or has failed and unwinds its stacks.
RestInv ==
    /\ label \in {"recover", "return", "exit"} /\ yyresult # 2 =>
          /\ Outcome = Program[read]
          /\ yyresult \in {-1, 1} => ~Viable(read)
          /\ yyresult = 0 => Viable(read) /\ read[Len(read)] = Plain(YYEOF)
          /\ label # "recover" => yyresult # -1
    /\ label \in {"recover", "killed"} => yyresult = -1
\* When a division has ended the program.
KillInv ==
    label = "killed" =>
        \E i \in 1 .. Len(read), j \in 1 .. Len(read) :
            IsExpr[SubSeq(read, i, j)] /\ Value(sym)[SubSeq(read, i, j)] = {}
Labels == {"setstate", "backup", "recover", "return", "exit", "killed"}

MeaningInv == WorkInv /\ LookInv /\ RestInv /\ KillInv /\ label \in Labels /\ yyresult \in {-1, 0, 1, 2}

\* What yylex() returns are words of the grammar.
LEMMA TokensAreWords == AnyToken \subseteq Words
<1>1. Numbers \subseteq Int
  BY NumbersAssumption, HalfAssumption
<1>2. ASSUME NEW t \in Tokens PROVE t \in Words
  <2>1. CASE t \in {Tok("INTEGER", n) : n \in Numbers}
    BY <1>1, <2>1 DEF Words, Tok
  <2>2. CASE t \in {Tok("VARIABLE", v) : v \in Vars}
    BY <2>2 DEF Words, Tok
  <2>3. CASE t \in {Plain(k) : k \in Operators \cup {"=", "(", ")", "nl"}}
    BY <2>3 DEF Words, Tok, Plain
  <2>. QED  BY <2>1, <2>2, <2>3 DEF Tokens
<1>3. Plain(YYEOF) \in Words
  BY DEF Words, Plain, Tok, YYEOF
<1>. QED  BY <1>2, <1>3 DEF AnyToken

\* The setting of the lemmas above.
LEMMA SettingNow ==
    ASSUME ParserInv, Working
    PROVE  /\ Setting(yyss, yyvs, yychar, read, Outcome)
           /\ Outcome.sym = sym /\ Outcome.printed = printed /\ Outcome.trapped = FALSE
           /\ Top = yyss[Len(yyss)] /\ Taken = TakenOf(yychar, read)
           /\ Top \in States \ {2} /\ Len(yyss) \in Nat /\ Len(yyss) > 0
           /\ Len(yyss) = 1 <=> Top = 0
<1>1. Top = yyss[Len(yyss)] /\ Taken = TakenOf(yychar, read)
  BY DEF Top, Taken, TakenOf
<1>2. Outcome.sym = sym /\ Outcome.printed = printed /\ Outcome.trapped = FALSE
  BY DEF Outcome
<1>3. read \in TokenSeqs
  BY TokensAreWords DEF ParserInv, TokenInv, TokenSeqs
<1>4. IsStack(yyss) /\ IsSeq(yyvs) /\ Len(yyvs) = Len(yyss)
  BY DEF ParserInv, HeightInv
<1>5. /\ yychar \in Kinds \cup {YYEMPTY}
      /\ yychar # YYEMPTY => Len(read) > 0 /\ Kind(read, Len(read)) = yychar
  BY DEF ParserInv, TokenInv, Kind
<1>6. Opens(yyss, Len(yyss)) = Depth(read, TakenOf(yychar, read)) + IF yyss[Len(yyss)] = 17 THEN 1 ELSE 0
  BY <1>1 DEF ParserInv, NestInv
<1>7. Setting(yyss, yyvs, yychar, read, Outcome)
  BY <1>2, <1>3, <1>4, <1>5, <1>6 DEF Setting
<1>8. Len(yyss) \in Nat /\ Len(yyss) > 0 /\ Len(yyss) \in 1 .. Len(yyss)
  BY <1>4 DEF IsStack
<1>9. Top \in States \ {2} /\ (Len(yyss) = 1 <=> Top = 0)
  BY <1>1, <1>4, <1>8, StackTop
<1>. QED  BY <1>1, <1>2, <1>7, <1>8, <1>9

\* What the parser decides in the state on top.
LEMMA Decides ==
    ASSUME ParserInv, Working
    PROVE  /\ NeedsToken <=> Top \in Asking
           /\ HasEntry <=> Top \in Asking /\ yychar # YYEMPTY /\ yychar \in Entries(Top)
           /\ HasEntry => Elem(yytable, TableEntry) = Pushed(Top, yychar)
<1>1. Top \in States \ {2}
  BY SettingNow
<1>2. Top \in Asking \/ Top \in {0, 3, 9, 11, 17, 20, 21}
  BY <1>1 DEF States, Asking
<1>3. NeedsToken <=> Top \in Asking
  <2>1. CASE Top \in Asking
    BY <2>1, PactTable DEF Asking, NeedsToken, YYPACT_NINF
  <2>2. CASE Top \in {0, 3, 9, 11, 17, 20, 21}
    BY <2>2, PactTable DEF Asking, NeedsToken, YYPACT_NINF
  <2>. QED  BY <1>2, <2>1, <2>2
<1>4. ASSUME Top \in Asking, yychar # YYEMPTY
      PROVE  /\ HasEntry <=> yychar \in Entries(Top)
             /\ HasEntry => Elem(yytable, TableEntry) = Pushed(Top, yychar)
  <2>1. yychar \in Kinds
    BY <1>4 DEF ParserInv, TokenInv
  <2>2. /\ Hit(TableEntry, yytoken) <=> yychar \in Entries(Top)
        /\ yychar \in Entries(Top) => Elem(yytable, TableEntry) = Pushed(Top, yychar)
    BY <1>4, <2>1, Decision DEF TableEntry, yytoken
  <2>. QED  BY <1>3, <1>4, <2>2 DEF HasEntry
<1>5. HasEntry => Top \in Asking /\ yychar # YYEMPTY
  BY <1>3 DEF HasEntry
<1>. QED  BY <1>3, <1>4, <1>5

\* What a reduction does to the stacks.
LEMMA ReducedNow ==
    ASSUME ParserInv, Reduce, NEW r, r = Elem(yydefact, Top), NEW k, k = Len(yyss) - Elem(yyr2, r)
    PROVE  /\ Reduced(yyss, yyvs, yyss', yyvs', k, GotoState(yyss[k], Elem(yyr1, r)), Yyval(r))
           /\ k \in 1 .. Len(yyss)
<1>. DEFINE L == Len(yyss)
            n == Elem(yyr2, r)
            below == Pop(yyss, n)
            g == GotoState(below[Len(below)], Elem(yyr1, r))
<1>1. /\ label = "backup"
      /\ r # 0 /\ yyss' = Append(below, g) /\ yyvs' = Append(Pop(yyvs, n), Yyval(r))
  BY DEF Reduce, Reducible
<1>2. /\ IsStack(yyss) /\ IsSeq(yyvs) /\ Len(yyvs) = L /\ L \in Nat \ {0}
  BY <1>1 DEF ParserInv, HeightInv, IsStack
<1>3. n \in {0, 1, 3} /\ n < L
  BY <1>1, <1>2, ReduceGoes DEF Top
<1>4. /\ GotoState(yyss[L - n], Elem(yyr1, r)) \in States
      /\ Under(yyss[L - n], GotoState(yyss[L - n], Elem(yyr1, r)))
  BY <1>1, <1>2, ReduceGoes DEF Top
<1>. HIDE DEF n
<1>5. n \in 0 .. Len(yyss) - 1 /\ k = L - n /\ k \in 1 .. L /\ k \in Nat /\ n \in 0 .. Len(yyvs)
  BY <1>2, <1>3 DEF n
<1>6. /\ IsStack(below) /\ Len(below) = k
      /\ \A i \in 1 .. k : below[i] = yyss[i]
  BY <1>2, <1>5, StackPop
<1>7. below[Len(below)] = yyss[k]
  BY <1>5, <1>6
<1>8. g \in States /\ Under(below[Len(below)], g) /\ g = GotoState(yyss[k], Elem(yyr1, r))
  BY <1>4, <1>5, <1>7
<1>. HIDE DEF below, g
<1>9. /\ Len(yyss') = k + 1 /\ yyss'[k + 1] = g
      /\ \A i \in 1 .. k : yyss'[i] = yyss[i]
  <2>1. /\ Len(yyss') = Len(below) + 1 /\ yyss'[Len(below) + 1] = g
        /\ \A i \in 1 .. Len(below) : yyss'[i] = below[i]
    BY <1>1, <1>6, <1>8, StackPush
  <2>. QED  BY <1>6, <2>1
<1>10. /\ yyvs'[k + 1] = Yyval(r) /\ \A i \in 1 .. k : yyvs'[i] = yyvs[i]
  <2>1. PICK S : yyvs \in Seq(S)
    BY <1>2 DEF IsSeq
  <2>2. Pop(yyvs, n) = SubSeq(yyvs, 1, k)
    BY <1>2, <1>5 DEF Pop
  <2>3. SubSeq(yyvs, 1, k) \in Seq(S) /\ Len(SubSeq(yyvs, 1, k)) = k /\ \A i \in 1 .. k : SubSeq(yyvs, 1, k)[i] = yyvs[i]
    BY <1>2, <1>5, <2>1
  <2>4. PICK T : T = S \cup {Yyval(r)}
    OBVIOUS
  <2>5. SubSeq(yyvs, 1, k) \in Seq(T) /\ Yyval(r) \in T
    BY <2>3, <2>4
  <2>6. PICK w \in Seq(T) : w = SubSeq(yyvs, 1, k)
    BY <2>5
  <2>7. yyvs' = Append(w, Yyval(r)) /\ Len(w) = k
    BY <1>1, <2>2, <2>3, <2>6
  <2>8. yyvs'[k + 1] = Yyval(r) /\ \A i \in 1 .. k : yyvs'[i] = w[i]
    BY <1>5, <2>5, <2>7
  <2>. QED  BY <2>3, <2>6, <2>8
<1>. QED  BY <1>5, <1>8, <1>9, <1>10 DEF Reduced, Agree

\* $$ of the rules for expressions.
LEMMA YyvalIs ==
    /\ Yyval(6) = Arg(1, 1)
    /\ Yyval(7) = sym[Arg(1, 1)]
    /\ \A r \in 8 .. 11 : Yyval(r) = Compute(Op(r), Arg(3, 1), Arg(3, 3))
    /\ Yyval(12) = Arg(3, 2)
<1>1. Yyval(6) = Arg(1, 1)
  <2>1. Yyval(6) = Arg(Elem(yyr2, 6), 1)
    BY DEF Yyval
  <2>. QED  BY <2>1, RuleTable
<1>2. Yyval(7) = sym[Arg(1, 1)]
  BY DEF Yyval
<1>3. Yyval(12) = Arg(3, 2)
  BY DEF Yyval
<1>4. ASSUME NEW r \in 8 .. 11 PROVE Yyval(r) = Compute(Op(r), Arg(3, 1), Arg(3, 3))
  BY DEF Yyval
<1>. QED  BY <1>1, <1>2, <1>3, <1>4

\* The operators of the rules.
LEMMA OpIs == Op(8) = "+" /\ Op(9) = "-" /\ Op(10) = "*" /\ Op(11) = "/"
BY DEF Op

\* Where the operands of a rule are.
LEMMA ArgIs ==
    ASSUME ParserInv
    PROVE  /\ Arg(1, 1) = yyvs[Len(yyss)]
           /\ Arg(3, 1) = yyvs[Len(yyss) - 2]
           /\ Arg(3, 2) = yyvs[Len(yyss) - 1]
           /\ Arg(3, 3) = yyvs[Len(yyss)]
<1>1. Len(yyvs) = Len(yyss) /\ Len(yyss) \in Nat
  BY DEF ParserInv, HeightInv, IsStack
<1>2. PICK n \in Nat : n = Len(yyss)
  BY <1>1
<1>3. n - 1 + 1 = n /\ n - 3 + 1 = n - 2 /\ n - 3 + 2 = n - 1 /\ n - 3 + 3 = n
  OBVIOUS
<1>. QED  BY <1>1, <1>2, <1>3 DEF Arg

\* The state that a reduction of an expression begins in.
LEMMA ReduceExpr ==
    ASSUME ParserInv, WorkInv, Reduce, Top \in {3, 4, 9, 17, 18, 19, 20, 21}
    PROVE  Parses(yyss', yyvs', yychar, read, Outcome')
<1>0. label = "backup" /\ Working /\ yychar' = yychar /\ read' = read
  BY DEF Reduce, Working, tokenvars
<1>1. PICK r : r = Elem(yydefact, Top)
  OBVIOUS
<1>2. r \in 6 .. 12 /\ printed' = printed /\ sym' = sym
  <2>1. r \in 6 .. 12
    BY <1>1, DefactTable
  <2>. QED  BY <1>1, <2>1 DEF Reduce
<1>3. Outcome' = Outcome
  BY <1>2 DEF Outcome
<1>4. /\ Setting(yyss, yyvs, yychar, read, Outcome) /\ Outcome.sym = sym /\ Top = yyss[Len(yyss)]
      /\ Len(yyss) # 1 /\ Parses(yyss, yyvs, yychar, read, Outcome)
  BY <1>0, SettingNow DEF WorkInv
<1>5. Top \in Asking => yychar # YYEMPTY /\ yychar \notin Entries(Top)
  BY <1>0, Decides DEF Reduce, Reducible, Decided
<1>6. PICK k : k = Len(yyss) - Elem(yyr2, r)
  OBVIOUS
<1>7. PICK g, v : g = GotoState(yyss[k], 16) /\ v = Yyval(r)
  OBVIOUS
<1>8. Reduced(yyss, yyvs, yyss', yyvs', k, g, v)
  BY <1>1, <1>2, <1>6, <1>7, ReducedNow, RuleTable
<1>. HIDE DEF Outcome
<1>9. CASE Top \in {3, 4, 9}
  <2>1. k = Len(yyss) - 1 /\ (Top = 3 => r = 6) /\ (Top # 3 => r = 7)
    BY <1>1, <1>6, <1>9, DefactTable, RuleTable
  <2>2. v = IF Top = 3 THEN yyvs[Len(yyss)] ELSE Outcome.sym[yyvs[Len(yyss)]]
    BY <1>4, <1>7, <2>1, YyvalIs, ArgIs
  <2>3. Top = 4 => yychar \notin {YYEMPTY, "="}
    BY <1>5 DEF Asking, Entries
  <2>4. yyss[Len(yyss)] \in {3, 4, 9} /\ (yyss[Len(yyss)] = 4 => yychar \notin {YYEMPTY, "="})
    BY <1>4, <1>9, <2>3
  <2>5. v = IF yyss[Len(yyss)] = 3 THEN yyvs[Len(yyss)] ELSE Outcome.sym[yyvs[Len(yyss)]]
    BY <1>4, <2>2
  <2>6. Parses(yyss', yyvs', yychar, read, Outcome)
    BY <1>4, <1>7, <1>8, <2>1, <2>4, <2>5, OperandReduced
  <2>. QED  BY <1>3, <2>6
<1>10. CASE Top = 17
  <2>1. k = Len(yyss) - 3 /\ r = 12
    BY <1>1, <1>6, <1>10, DefactTable, RuleTable
  <2>2. v = yyvs[Len(yyss) - 1]
    BY <1>7, <2>1, YyvalIs, ArgIs
  <2>3. yyss[Len(yyss)] = 17
    BY <1>4, <1>10
  <2>4. Parses(yyss', yyvs', yychar, read, Outcome)
    BY <1>4, <1>7, <1>8, <2>1, <2>2, <2>3, ParenReduced
  <2>. QED  BY <1>3, <2>4
<1>11. CASE Top \in {18, 19, 20, 21}
  <2>1. k = Len(yyss) - 3 /\ r = Top - 10 /\ r \in 8 .. 11
    <3>1. r \in 8 .. 11 /\ r = Top - 10
      <4>1. CASE Top = 18
        BY <1>1, <4>1, DefactTable
      <4>2. CASE Top = 19
        BY <1>1, <4>2, DefactTable
      <4>3. CASE Top = 20
        BY <1>1, <4>3, DefactTable
      <4>4. CASE Top = 21
        BY <1>1, <4>4, DefactTable
      <4>. QED  BY <1>11, <4>1, <4>2, <4>3, <4>4
    <3>2. Elem(yyr2, r) = 3
      BY <3>1, RuleTable
    <3>. QED  BY <1>6, <3>1, <3>2
  <2>2. PICK op : op = TokenOf(yyss[Len(yyss) - 1])
    OBVIOUS
  <2>3. op = Op(r)
    <3>1. PICK i, j : i = Len(yyss) /\ j = i - 1
      OBVIOUS
    <3>2. IsStack(yyss) /\ i \in 2 .. Len(yyss)
      BY <1>4, <3>1 DEF Setting, IsStack
    <3>3. yyss[i] \in {18, 19, 20, 21} => yyss[j] = yyss[i] - 6
      <4>1. j = i - 1
        BY <3>1
      <4>. USE ONLY <3>2, <4>1, Below
      <4>. QED  BY <3>2, <4>1, Below
    <3>4. PICK x : x = yyss[j]
      OBVIOUS
    <3>5. x = Top - 6 /\ op = TokenOf(x)
      BY <1>4, <1>11, <2>2, <3>1, <3>3, <3>4
    <3>6. CASE Top = 18
      BY <2>1, <3>5, <3>6, OpIs DEF TokenOf
    <3>7. CASE Top = 19
      BY <2>1, <3>5, <3>7, OpIs DEF TokenOf
    <3>8. CASE Top = 20
      BY <2>1, <3>5, <3>8, OpIs DEF TokenOf
    <3>9. CASE Top = 21
      BY <2>1, <3>5, <3>9, OpIs DEF TokenOf
    <3>. QED  BY <1>11, <3>6, <3>7, <3>8, <3>9
  <2>4. v = Compute(op, yyvs[Len(yyss) - 2], yyvs[Len(yyss)])
    BY <1>7, <2>1, <2>3, YyvalIs, ArgIs
  <2>5. ~Traps(op, yyvs[Len(yyss) - 2], yyvs[Len(yyss)])
    <3>1. ~TrapsNow(r)
      BY <1>1 DEF Reduce
    <3>2. CASE r = 11
      BY <2>3, <3>1, <3>2, OpIs, ArgIs DEF TrapsNow
    <3>3. CASE r # 11
      <4>1. op # "/"
        BY <2>1, <2>3, <3>3, OpIs
      <4>. QED  BY <4>1 DEF Traps
    <3>. QED  BY <3>2, <3>3
  <2>6. yyss[Len(yyss)] \in {18, 19} => yychar \notin Multiplicative \cup {YYEMPTY}
    BY <1>4, <1>5 DEF Asking, Entries
  <2>7. yyss[Len(yyss)] \in {18, 19, 20, 21}
    BY <1>4, <1>11
  <2>8. Parses(yyss', yyvs', yychar, read, Outcome)
    BY <1>4, <1>7, <1>8, <2>1, <2>2, <2>4, <2>5, <2>6, <2>7, BinaryReduced
  <2>. QED  BY <1>3, <2>8
<1>. QED  BY <1>9, <1>10, <1>11

\* What printing and assigning change.
LEMMA PrintedIs ==
    ASSUME NEW p, NEW q, NEW v
    PROVE  PrintedBy([printed |-> p, sym |-> q, trapped |-> FALSE], v)
              = [printed |-> Append(p, v), sym |-> q, trapped |-> FALSE]
<1>1. PICK r : r = [printed |-> p, sym |-> q, trapped |-> FALSE]
  OBVIOUS
<1>2. r \in [printed : {p}, sym : {q}, trapped : {FALSE}]
  BY <1>1
<1>3. r.printed = p
  BY <1>1
<1>4. PrintedBy(r, v) \in [printed : {Append(p, v)}, sym : {q}, trapped : {FALSE}]
  BY <1>2, <1>3 DEF PrintedBy
<1>. QED  BY <1>1, <1>4

\* The same for an assignment.
LEMMA AssignedIs ==
    ASSUME NEW p, NEW q, NEW x, NEW v
    PROVE  AssignedBy([printed |-> p, sym |-> q, trapped |-> FALSE], x, v)
              = [printed |-> p, sym |-> [q EXCEPT ![x] = v], trapped |-> FALSE]
<1>1. PICK r : r = [printed |-> p, sym |-> q, trapped |-> FALSE]
  OBVIOUS
<1>2. r \in [printed : {p}, sym : {q}, trapped : {FALSE}]
  BY <1>1
<1>3. r.sym = q
  BY <1>1
<1>4. AssignedBy(r, x, v) \in [printed : {p}, sym : {[q EXCEPT ![x] = v]}, trapped : {FALSE}]
  BY <1>2, <1>3 DEF AssignedBy
<1>. QED  BY <1>1, <1>4

\* A reduction of the empty program, of a statement or of a line.
LEMMA ReduceLine ==
    ASSUME ParserInv, WorkInv, Reduce, Top \in {0, 7, 11, 16}
    PROVE  Parses(yyss', yyvs', yychar, read, Outcome')
<1>0. label = "backup" /\ Working
  BY DEF Reduce, Working
<1>1. PICK r : r = Elem(yydefact, Top)
  OBVIOUS
<1>2. PICK k : k = Len(yyss) - Elem(yyr2, r)
  OBVIOUS
<1>3. PICK g, v : g = GotoState(yyss[k], Elem(yyr1, r)) /\ v = Yyval(r)
  OBVIOUS
<1>4. Reduced(yyss, yyvs, yyss', yyvs', k, g, v)
  BY <1>1, <1>2, <1>3, ReducedNow
<1>5. /\ Setting(yyss, yyvs, yychar, read, Outcome) /\ Outcome.sym = sym /\ Outcome.printed = printed
      /\ Top = yyss[Len(yyss)] /\ Parses(yyss, yyvs, yychar, read, Outcome)
      /\ Len(yyss) = 1 <=> Top = 0
      /\ IsStack(yyss) /\ Len(yyss) \in Nat /\ Len(yyss) \in 1 .. Len(yyss)
  <2>1. Setting(yyss, yyvs, yychar, read, Outcome) /\ Outcome.sym = sym /\ Outcome.printed = printed
    BY <1>0, SettingNow
  <2>2. Top = yyss[Len(yyss)] /\ (Len(yyss) = 1 <=> Top = 0) /\ Len(yyss) \in Nat /\ Len(yyss) > 0
    BY <1>0, SettingNow
  <2>3. Parses(yyss, yyvs, yychar, read, Outcome)
    BY <1>0 DEF WorkInv
  <2>4. IsStack(yyss)
    BY DEF ParserInv, HeightInv
  <2>. QED  BY <2>1, <2>2, <2>3, <2>4
<1>6. Top \in {7, 16} => yychar \notin Operators \cup {YYEMPTY}
  <2>1. Top \in Asking => yychar # YYEMPTY /\ yychar \notin Entries(Top)
    BY <1>0, Decides DEF Reduce, Reducible, Decided
  <2>. QED  BY <2>1 DEF Asking, Entries
<1>7. /\ printed' = IF r = 4 THEN Append(printed, Arg(1, 1)) ELSE printed
      /\ sym' = IF r = 5 THEN [sym EXCEPT ![Arg(3, 1)] = Arg(3, 3)] ELSE sym
  BY <1>1 DEF Reduce
<1>8. CASE Top = 0
  <2>1. r = 3 /\ Elem(yyr2, r) = 0 /\ Elem(yyr1, r) = 14 /\ Len(yyss) = 1
    BY <1>1, <1>5, <1>8, DefactTable, RuleTable
  <2>2. k = 1 /\ g = 1
    <3>1. k = 1
      BY <1>2, <2>1
    <3>2. yyss[1] = 0
      BY <1>5 DEF IsStack
    <3>. QED  BY <1>3, <2>1, <3>1, <3>2, GotoTable
  <2>3. Outcome' = Outcome
    BY <1>7, <2>1 DEF Outcome
  <2>. HIDE DEF Outcome
  <2>4. Parses(yyss', yyvs', yychar, read, Outcome)
    BY <1>4, <1>5, <2>1, <2>2, FirstReduced
  <2>. QED  BY <2>3, <2>4
<1>9. CASE Top = 7
  <2>1. r = 4 /\ Elem(yyr2, r) = 1 /\ Elem(yyr1, r) = 15
    BY <1>1, <1>9, DefactTable, RuleTable
  <2>2. Len(yyss) = 3
    <3>1. PICK i \in 1 .. Len(yyss) : i = Len(yyss)
      BY <1>5
    <3>2. yyss[i] \in {4, 6, 7}
      BY <1>5, <1>9, <3>1
    <3>. QED  BY <1>5, <3>1, <3>2, AssignedAt
  <2>3. k = 2
    BY <1>2, <2>1, <2>2
  <2>4. g = 6
    <3>1. PICK i, j : i = 3 /\ j = 2
      OBVIOUS
    <3>2. j = i - 1 /\ i \in 2 .. Len(yyss) /\ yyss[i] = 7
      <4>1. i = Len(yyss) /\ Top = yyss[Len(yyss)]
        BY <1>5, <2>2, <3>1
      <4>2. yyss[i] = 7
        BY <1>9, <4>1
      <4>. QED  BY <2>2, <3>1, <4>2
    <3>3. yyss[i] \in {4, 6, 7} => yyss[j] = 1
      BY <1>5, <3>2, Below
    <3>4. yyss[2] = 1
      BY <3>1, <3>2, <3>3
    <3>. QED  BY <1>3, <2>1, <2>3, <3>4, GotoTable
  <2>5. Outcome' = PrintedBy(Outcome, yyvs[Len(yyss)])
    <3>1. printed' = Append(printed, yyvs[Len(yyss)]) /\ sym' = sym
      BY <1>7, <2>1, ArgIs
    <3>2. Outcome' = [printed |-> printed', sym |-> sym', trapped |-> FALSE]
      BY DEF Outcome
    <3>. QED  BY <3>1, <3>2, PrintedIs DEF Outcome
  <2>6. PICK st2 : st2 = PrintedBy(Outcome, yyvs[Len(yyss)])
    OBVIOUS
  <2>. HIDE DEF Outcome
  <2>7. Len(yyss) # 1 /\ yyss[Len(yyss)] = 7 /\ yychar \notin Operators \cup {YYEMPTY}
    BY <1>5, <1>6, <1>9
  <2>8. Parses(yyss', yyvs', yychar, read, st2)
    BY <1>4, <1>5, <2>3, <2>4, <2>6, <2>7, PrintReduced
  <2>. QED  BY <2>5, <2>6, <2>8
<1>10. CASE Top = 16
  <2>1. r = 5 /\ Elem(yyr2, r) = 3 /\ Elem(yyr1, r) = 15
    BY <1>1, <1>10, DefactTable, RuleTable
  <2>2. Len(yyss) = 5 /\ yyss[3] = 4
    <3>1. PICK i \in 1 .. Len(yyss) : i = Len(yyss)
      BY <1>5
    <3>2. yyss[i] = 16
      BY <1>5, <1>10, <3>1
    <3>3. i = 5 /\ yyss[3] = 4
      BY <1>5, <3>2, AssignTop
    <3>. QED  BY <3>1, <3>3
  <2>3. k = 2
    BY <1>2, <2>1, <2>2
  <2>4. g = 6
    <3>1. PICK i, j : i = 3 /\ j = 2
      OBVIOUS
    <3>2. j = i - 1 /\ i \in 2 .. Len(yyss) /\ yyss[i] = 4
      BY <2>2, <3>1
    <3>3. yyss[i] \in {4, 6, 7} => yyss[j] = 1
      BY <1>5, <3>2, Below
    <3>4. yyss[2] = 1
      BY <3>1, <3>2, <3>3
    <3>. QED  BY <1>3, <2>1, <2>3, <3>4, GotoTable
  <2>5. Outcome' = AssignedBy(Outcome, yyvs[3], yyvs[5])
    <3>1. Arg(3, 1) = yyvs[3] /\ Arg(3, 3) = yyvs[5]
      BY <2>2, ArgIs
    <3>2. printed' = printed /\ sym' = [sym EXCEPT ![yyvs[3]] = yyvs[5]]
      <4>1. r = 5 /\ r # 4
        BY <2>1
      <4>2. printed' = printed
        BY <1>7, <4>1
      <4>3. sym' = [sym EXCEPT ![Arg(3, 1)] = Arg(3, 3)]
        BY <1>7, <4>1
      <4>. QED  BY <3>1, <4>2, <4>3
    <3>3. Outcome' = [printed |-> printed', sym |-> sym', trapped |-> FALSE]
      BY DEF Outcome
    <3>. QED  BY <3>2, <3>3, AssignedIs DEF Outcome
  <2>6. PICK st2 : st2 = AssignedBy(Outcome, yyvs[3], yyvs[5])
    OBVIOUS
  <2>. HIDE DEF Outcome
  <2>7. Len(yyss) # 1 /\ yyss[Len(yyss)] = 16 /\ yychar \notin Operators \cup {YYEMPTY}
    BY <1>5, <1>6, <1>10
  <2>8. Parses(yyss', yyvs', yychar, read, st2)
    BY <1>4, <1>5, <2>3, <2>4, <2>6, <2>7, AssignReduced
  <2>. QED  BY <2>5, <2>6, <2>8
<1>11. CASE Top = 11
  <2>1. r = 2 /\ Elem(yyr2, r) = 3 /\ Elem(yyr1, r) = 14
    BY <1>1, <1>11, DefactTable, RuleTable
  <2>2. Len(yyss) = 4
    <3>1. PICK i, j : i = Len(yyss) /\ j = i - 1
      OBVIOUS
    <3>2. i \in 2 .. Len(yyss) /\ j = i - 1
      BY <1>5, <1>11, <3>1
    <3>3. (yyss[i] = 11 => yyss[j] = 6) /\ (yyss[j] # 0 => j \in 2 .. Len(yyss))
      <4>1. IsStack(yyss)
        BY <1>5
      <4>. USE ONLY <3>2, <4>1, Below
      <4>. QED  BY <3>2, <4>1, Below
    <3>4. yyss[i] = 11
      <4>1. Top = yyss[Len(yyss)]
        BY <1>5
      <4>. QED  BY <1>11, <3>1, <4>1
    <3>5. yyss[j] = 6 /\ j \in 2 .. Len(yyss)
      BY <3>3, <3>4
    <3>6. j \in 1 .. Len(yyss) /\ IsStack(yyss)
      BY <1>5, <3>5
    <3>7. j = 3
      BY <3>5, <3>6, AssignedAt
    <3>8. PICK n \in Nat : n = Len(yyss)
      BY <1>5
    <3>9. n - 1 = 3 => n = 4
      OBVIOUS
    <3>. QED  BY <3>1, <3>7, <3>8, <3>9
  <2>3. k = 1 /\ g = 1
    <3>1. k = 1
      BY <1>2, <2>1, <2>2
    <3>2. yyss[1] = 0
      BY <1>5 DEF IsStack
    <3>. QED  BY <1>3, <2>1, <3>1, <3>2, GotoTable
  <2>4. Outcome' = Outcome
    BY <1>7, <2>1 DEF Outcome
  <2>. HIDE DEF Outcome
  <2>5. Len(yyss) # 1 /\ yyss[Len(yyss)] = 11
    BY <1>5, <1>11
  <2>6. Parses(yyss', yyvs', yychar, read, Outcome)
    BY <1>4, <1>5, <2>3, <2>5, BreakReduced
  <2>. QED  BY <2>4, <2>6
<1>. QED  BY <1>8, <1>9, <1>10, <1>11

\* What the invariant says while the parser works.
LEMMA WorkingNow ==
    ASSUME MeaningInv, Working
    PROVE  yyresult = -1 /\ Parses(yyss, yyvs, yychar, read, Outcome)
BY DEF MeaningInv, WorkInv

\* A step after which the parser works.
LEMMA WorksOn ==
    ASSUME MeaningInv, Working, Working', yyresult' = yyresult,
           Parses(yyss', yyvs', yychar', read', Outcome'), LookInv'
    PROVE  MeaningInv'
<1>1. yyresult' = -1
  BY WorkingNow
<1>2. label' \in {"setstate", "backup"}
  BY DEF Working
<1>3. WorkInv'
  BY <1>1 DEF WorkInv
<1>4. RestInv'
  BY <1>2 DEF RestInv
<1>5. KillInv'
  BY <1>2 DEF KillInv
<1>6. label' \in Labels /\ yyresult' \in {-1, 0, 1, 2}
  BY <1>1, <1>2 DEF Labels
<1>. QED  BY <1>3, <1>4, <1>5, <1>6 DEF MeaningInv

\* A step after which the parser has ended with an exhausted stack.
LEMMA GivesUp ==
    ASSUME label' = "return", yyresult' = 2
    PROVE  MeaningInv'
<1>1. WorkInv' /\ LookInv'
  BY DEF WorkInv, LookInv, Working
<1>2. RestInv' /\ KillInv'
  BY DEF RestInv, KillInv
<1>3. label' \in Labels /\ yyresult' \in {-1, 0, 1, 2}
  BY DEF Labels
<1>. QED  BY <1>1, <1>2, <1>3 DEF MeaningInv

\* A step after which the input is known to be no program, or to be one.
LEMMA ComesToRest ==
    ASSUME label' \in {"recover", "return", "exit"}, Outcome' = Program[read'],
           \/ yyresult' = -1 /\ label' = "recover" /\ ~Viable(read')
           \/ yyresult' = 1 /\ label' # "recover" /\ ~Viable(read')
           \/ yyresult' = 0 /\ label' # "recover" /\ Viable(read') /\ read'[Len(read')] = Plain(YYEOF)
    PROVE  MeaningInv'
<1>1. WorkInv' /\ LookInv'
  BY DEF WorkInv, LookInv, Working
<1>2. KillInv'
  BY DEF KillInv
<1>. HIDE DEF Outcome
<1>3. RestInv'
  BY DEF RestInv
<1>4. label' \in Labels /\ yyresult' \in {-1, 0, 1, 2}
  BY DEF Labels
<1>. QED  BY <1>1, <1>2, <1>3, <1>4 DEF MeaningInv

\* What was printed and stored does not change with other variables.
LEMMA SameOutcome == ASSUME UNCHANGED effectvars PROVE Outcome' = Outcome
BY DEF Outcome, effectvars

\* Nothing that the parse is about changes.
LEMMA SameLook ==
    ASSUME LookInv, Working, yychar' = yychar, yylval' = yylval, read' = read
    PROVE  LookInv'
BY DEF LookInv

\* yysetstate, with room on the stacks.
LEMMA EnterMeans == ASSUME ParserInv, MeaningInv, Enter PROVE MeaningInv'
<1>1. /\ Working /\ Working' /\ yyresult' = yyresult /\ yyss' = yyss /\ yyvs' = yyvs
      /\ yychar' = yychar /\ yylval' = yylval /\ read' = read /\ UNCHANGED effectvars
  BY DEF Enter, Jump, Working, tokenvars
<1>2. LookInv'
  BY <1>1, SameLook DEF MeaningInv
<1>3. Parses(yyss', yyvs', yychar', read', Outcome')
  BY <1>1, WorkingNow, SameOutcome
<1>. QED  BY <1>1, <1>2, <1>3, WorksOn

\* yysetstate, when the stacks are extended: they then have room.
LEMMA ExtendMeans == ASSUME ParserInv, MeaningInv, Extend PROVE MeaningInv'
<1>1. /\ Working /\ yyss' = yyss /\ yyvs' = yyvs
      /\ yychar' = yychar /\ yylval' = yylval /\ read' = read /\ UNCHANGED effectvars
  BY DEF Extend, Working, tokenvars
<1>2. ~Full(Larger)
  <2>1. yystacksize \in Nat /\ Len(yyss) <= yystacksize /\ Len(yyss) \in Nat /\ Len(yyss) > 0 /\ yystacksize < YYMAXDEPTH
    BY DEF ParserInv, HeightInv, IsStack, Extend
  <2>2. Larger > yystacksize
    BY <2>1, DepthAssumption DEF Larger
  <2>3. Larger \in Nat
    BY <2>1, DepthAssumption DEF Larger
  <2>. QED  BY <2>1, <2>2, <2>3 DEF Full
<1>3. Working' /\ yyresult' = yyresult
  BY <1>2 DEF Extend, Working
<1>4. LookInv'
  BY <1>1, SameLook DEF MeaningInv
<1>5. Parses(yyss', yyvs', yychar', read', Outcome')
  BY <1>1, WorkingNow, SameOutcome
<1>. QED  BY <1>1, <1>3, <1>4, <1>5, WorksOn

\* yysetstate, when they cannot be.
LEMMA ExhaustedMeans == ASSUME Exhausted PROVE MeaningInv'
BY GivesUp DEF Exhausted, Jump

\* A token is read.
LEMMA YylexMeans == ASSUME ParserInv, MeaningInv, Yylex PROVE MeaningInv'
<1>1. /\ Working /\ Working' /\ yyresult' = yyresult /\ yyss' = yyss /\ yyvs' = yyvs
      /\ yychar = YYEMPTY /\ NeedsToken /\ UNCHANGED effectvars
  BY DEF Yylex, Asks, Working
<1>2. PICK t \in AnyToken :
         /\ yychar' = t.kind /\ read' = Append(read, t)
         /\ yylval' = IF t.kind \in {"INTEGER", "VARIABLE"} THEN t.val ELSE yylval
  BY DEF Yylex, AnyToken
<1>3. t \in Words /\ t.kind # YYEMPTY /\ read \in Seq(AnyToken)
  BY TokensAreWords, TokenKinds DEF Kinds, YYEMPTY, ParserInv, TokenInv
<1>4. Setting(yyss, yyvs, yychar, read, Outcome) /\ yyss[Len(yyss)] \in Asking
  BY <1>1, SettingNow, Decides
<1>5. Outcome' = Outcome
  BY <1>1, SameOutcome
<1>6. Parses(yyss, yyvs, yychar, read, Outcome)
  BY <1>1, WorkingNow
<1>. HIDE DEF Outcome
<1>7. Parses(yyss, yyvs, t.kind, Append(read, t), Outcome)
  BY <1>1, <1>3, <1>4, <1>6, ReadsOn
<1>8. Parses(yyss', yyvs', yychar', read', Outcome')
  BY <1>1, <1>2, <1>5, <1>7
<1>9. LookInv'
  <2>1. read'[Len(read')] = t
    BY <1>2, <1>3
  <2>. QED  BY <1>2, <2>1 DEF LookInv
<1>. QED  BY <1>1, <1>8, <1>9, WorksOn

\* The end of the input, in the state behind a whole line.
LEMMA AcceptMeans == ASSUME ParserInv, MeaningInv, Accept PROVE MeaningInv'
<1>1. /\ Working /\ label' = "return" /\ yyresult' = 0 /\ yyss' = yyss /\ yyvs' = yyvs
      /\ HasEntry /\ Elem(yytable, TableEntry) = 2 /\ read' = read /\ UNCHANGED effectvars
  BY DEF Accept, Jump, Working, tokenvars, YYFINAL
<1>2. Top \in Asking /\ yychar # YYEMPTY /\ yychar \in Entries(Top) /\ Pushed(Top, yychar) = 2
  BY <1>1, Decides
<1>3. Setting(yyss, yyvs, yychar, read, Outcome) /\ Top = yyss[Len(yyss)] /\ (Len(yyss) = 1 <=> Top = 0)
  BY <1>1, SettingNow
<1>4. yychar = "eof"
  <2>1. yychar \in Kinds
    BY <1>2 DEF ParserInv, TokenInv
  <2>. QED  BY <1>2, <2>1 DEF Kinds, Pushed, Operators, Additive, Multiplicative
<1>5. Top = 1 /\ Len(yyss) # 1
  BY <1>2, <1>3, <1>4 DEF Entries, Asking, Begins, Operators, Additive, Multiplicative
<1>6. PICK b, c : Stands(yyss, yyvs, yychar, read, Outcome, b, c)
  BY <1>1, <1>5, WorkingNow DEF Parses
<1>7. Outcome' = Outcome
  BY <1>1, SameOutcome
<1>. HIDE DEF Outcome
<1>8. Viable(read) /\ Outcome = Program[read] /\ read[Len(read)] = Plain("eof")
  BY <1>3, <1>4, <1>5, <1>6, AcceptFine
<1>. QED  BY <1>1, <1>7, <1>8, ComesToRest DEF YYEOF

\* A token is pushed.
LEMMA ShiftMeans == ASSUME ParserInv, MeaningInv, Shift PROVE MeaningInv'
<1>1. /\ Working /\ Working' /\ yyresult' = yyresult /\ UNCHANGED effectvars /\ read' = read
      /\ HasEntry /\ Elem(yytable, TableEntry) # 2
      /\ yyss' = Append(yyss, Elem(yytable, TableEntry)) /\ yyvs' = Append(yyvs, yylval)
      /\ yychar' = IF yychar # YYEOF THEN YYEMPTY ELSE yychar
  BY DEF Shift, Jump, Working, YYFINAL
<1>2. Top \in Asking /\ yychar # YYEMPTY /\ yychar \in Entries(Top) /\ Elem(yytable, TableEntry) = Pushed(Top, yychar)
  BY <1>1, Decides
<1>3. Setting(yyss, yyvs, yychar, read, Outcome) /\ Top = yyss[Len(yyss)]
  BY <1>1, SettingNow
<1>4. yychar # "eof"
  BY <1>1, <1>2 DEF Pushed
<1>5. yychar \in {"INTEGER", "VARIABLE"} => yylval = read[Len(read)].val
  BY <1>1 DEF MeaningInv, LookInv
<1>6. Parses(yyss, yyvs, yychar, read, Outcome)
  BY <1>1, WorkingNow
<1>7. Outcome' = Outcome
  BY <1>1, SameOutcome
<1>. HIDE DEF Outcome
<1>8. yyss' = Append(yyss, Pushed(yyss[Len(yyss)], yychar))
  BY <1>1, <1>2, <1>3
<1>9. Parses(yyss', yyvs', YYEMPTY, read, Outcome)
  BY <1>1, <1>2, <1>3, <1>4, <1>5, <1>6, <1>8, Shifts
<1>10. yychar' = YYEMPTY
  BY <1>1, <1>4 DEF YYEOF
<1>11. LookInv'
  BY <1>10 DEF LookInv, YYEMPTY
<1>12. Parses(yyss', yyvs', yychar', read', Outcome')
  BY <1>1, <1>7, <1>9, <1>10
<1>. QED  BY <1>1, <1>11, <1>12, WorksOn

\* A rule is reduced.
LEMMA ReduceMeans == ASSUME ParserInv, MeaningInv, Reduce PROVE MeaningInv'
<1>1. /\ Working /\ Working' /\ yyresult' = yyresult /\ read' = read
      /\ yychar' = yychar /\ yylval' = yylval /\ Elem(yydefact, Top) # 0
  BY DEF Reduce, Reducible, Working, tokenvars
<1>2. Top \in States \ {2}
  BY <1>1, SettingNow
<1>3. Top \in {3, 4, 9, 17, 18, 19, 20, 21} \/ Top \in {0, 7, 11, 16}
  BY <1>1, <1>2, DefactTable DEF States
<1>4. Parses(yyss', yyvs', yychar, read, Outcome')
  BY <1>3, ReduceExpr, ReduceLine DEF MeaningInv
<1>. HIDE DEF Outcome
<1>5. LookInv'
  BY <1>1, SameLook DEF MeaningInv
<1>. QED  BY <1>1, <1>4, <1>5, WorksOn

\* A division traps: it was written.
LEMMA TrapMeans == ASSUME ParserInv, MeaningInv, Trap PROVE MeaningInv'
<1>1. /\ Working /\ label' = "killed" /\ yyresult' = yyresult /\ read' = read /\ sym' = sym
      /\ Elem(yydefact, Top) = 11 /\ Traps("/", Arg(3, 1), Arg(3, 3))
  BY DEF Trap, TrapsNow, Working, tokenvars, effectvars
<1>2. /\ Setting(yyss, yyvs, yychar, read, Outcome) /\ Top = yyss[Len(yyss)] /\ (Len(yyss) = 1 <=> Top = 0)
      /\ Top \in States \ {2} /\ Outcome.sym = sym
  BY <1>1, SettingNow
<1>3. Top = 21
  <2>1. \/ Top \in {0, 3, 4, 7, 9, 11, 16, 17, 18, 19, 20} \/ Top = 21
        \/ Top \in {1, 5, 6, 8, 10, 12, 13, 14, 15}
    BY <1>2 DEF States
  <2>2. Top \in {0, 3, 4, 7, 9, 11, 16, 17, 18, 19, 20} => Elem(yydefact, Top) # 11
    BY DefactTable
  <2>3. Top \in {1, 5, 6, 8, 10, 12, 13, 14, 15} => Elem(yydefact, Top) # 11
    BY DefactTable
  <2>. QED  BY <1>1, <2>1, <2>2, <2>3
<1>4. Parses(yyss, yyvs, yychar, read, Outcome) /\ yyresult = -1
  BY <1>1, WorkingNow
<1>5. Len(yyss) # 1 /\ yyss[Len(yyss)] = 21 /\ Traps("/", yyvs[Len(yyss) - 2], yyvs[Len(yyss)])
  BY <1>1, <1>2, <1>3, ArgIs
<1>. HIDE DEF Outcome
<1>6. PICK st : st = Outcome
  OBVIOUS
<1>7. \E i \in 1 .. Len(read), j \in 1 .. Len(read) :
         IsExpr[SubSeq(read, i, j)] /\ Value(st.sym)[SubSeq(read, i, j)] = {}
  BY <1>2, <1>4, <1>5, <1>6, TrapFine
<1>8. st.sym = sym
  BY <1>2, <1>6
<1>9. KillInv'
  BY <1>1, <1>7, <1>8 DEF KillInv
<1>10. WorkInv' /\ LookInv'
  BY <1>1 DEF WorkInv, LookInv, Working
<1>11. RestInv'
  BY <1>1, <1>4 DEF RestInv
<1>12. label' \in Labels /\ yyresult' \in {-1, 0, 1, 2}
  BY <1>1, <1>4 DEF Labels
<1>. QED  BY <1>9, <1>10, <1>11, <1>12 DEF MeaningInv

\* An error is reported: no program begins with what was read.
LEMMA ErrorMeans == ASSUME ParserInv, MeaningInv, SyntaxError PROVE MeaningInv'
<1>1. /\ Working /\ Decided /\ read' = read /\ UNCHANGED effectvars
      /\ IF HasEntry THEN Elem(yytable, TableEntry) = 0 ELSE Elem(yydefact, Top) = 0
      /\ \/ label' = "return" /\ yyresult' = 1
         \/ label' = "recover" /\ yyresult' = yyresult
  BY DEF SyntaxError, Working
<1>2. /\ Setting(yyss, yyvs, yychar, read, Outcome) /\ Top = yyss[Len(yyss)] /\ (Len(yyss) = 1 <=> Top = 0)
      /\ Top \in States \ {2}
  BY <1>1, SettingNow
<1>3. ~HasEntry
  <2>1. Pushed(Top, yychar) # 0
    BY DEF Pushed
  <2>. QED  BY <1>1, <2>1, Decides
<1>4. Top \in ErrorStates /\ Top \in Asking
  <2>1. Elem(yydefact, Top) = 0
    BY <1>1, <1>3
  <2>2. Top \in ErrorStates
    <3>1. Top \in {0, 3, 4, 7, 9, 11, 16, 17, 18, 19, 20, 21} => Elem(yydefact, Top) # 0
      BY DefactTable
    <3>2. Top \in {0, 3, 4, 7, 9, 11, 16, 17, 18, 19, 20, 21} \/ Top \in ErrorStates
      BY <1>2 DEF States, ErrorStates
    <3>. QED  BY <2>1, <3>1, <3>2
  <2>. QED  BY <2>2 DEF ErrorStates, Asking
<1>5. yychar # YYEMPTY /\ yychar \notin Entries(Top)
  BY <1>1, <1>3, <1>4, Decides DEF Decided
<1>6. Len(yyss) # 1
  BY <1>2, <1>4 DEF ErrorStates
<1>7. Parses(yyss, yyvs, yychar, read, Outcome) /\ yyresult = -1
  BY <1>1, WorkingNow
<1>8. Outcome' = Outcome
  BY <1>1, SameOutcome
<1>. HIDE DEF Outcome
<1>9. PICK b, c : Stands(yyss, yyvs, yychar, read, Outcome, b, c)
  BY <1>6, <1>7 DEF Parses
<1>10. ~Viable(read) /\ Outcome = Program[read]
  <2>1. CASE Top = 6
    BY <1>2, <1>5, <1>6, <1>9, <2>1, ErrorBehind
  <2>2. CASE Top # 6
    BY <1>2, <1>4, <1>5, <1>6, <1>9, <2>2, ErrorWithin
  <2>. QED  BY <2>1, <2>2
<1>. QED  BY <1>1, <1>7, <1>8, <1>10, ComesToRest

\* The stacks are unwound until the parse is given up.
LEMMA PopMeans == ASSUME ParserInv, MeaningInv, PopState PROVE MeaningInv'
<1>1. /\ label = "recover" /\ read' = read /\ UNCHANGED effectvars
      /\ \/ label' = "return" /\ yyresult' = 1
         \/ label' = "recover" /\ yyresult' = yyresult
  BY NoErrorEntry DEF PopState, tokenvars
<1>2. yyresult = -1
  BY <1>1 DEF MeaningInv, RestInv
<1>3. Outcome' = Outcome
  BY <1>1, SameOutcome
<1>. HIDE DEF Outcome
<1>4. Outcome = Program[read] /\ ~Viable(read)
  BY <1>1, <1>2 DEF MeaningInv, RestInv
<1>. QED  BY <1>1, <1>2, <1>3, <1>4, ComesToRest

\* yyparse() returns.
LEMMA ReturnMeans == ASSUME ParserInv, MeaningInv, Return PROVE MeaningInv'
<1>1. label = "return" /\ label' = "exit" /\ read' = read /\ UNCHANGED effectvars /\ yyresult' = yyresult
  BY DEF Return, Jump, tokenvars
<1>2. Outcome' = Outcome
  BY <1>1, SameOutcome
<1>. HIDE DEF Outcome
<1>3. yyresult \in {-1, 0, 1, 2}
  BY DEF MeaningInv
<1>4. CASE yyresult = 2
  <2>1. WorkInv' /\ LookInv'
    BY <1>1 DEF WorkInv, LookInv, Working
  <2>2. RestInv' /\ KillInv'
    BY <1>1, <1>4 DEF RestInv, KillInv
  <2>3. label' \in Labels /\ yyresult' \in {-1, 0, 1, 2}
    BY <1>1, <1>4 DEF Labels
  <2>. QED  BY <2>1, <2>2, <2>3 DEF MeaningInv
<1>5. CASE yyresult # 2
  <2>1. /\ Outcome = Program[read] /\ yyresult # -1
        /\ yyresult \in {-1, 1} => ~Viable(read)
        /\ yyresult = 0 => Viable(read) /\ read[Len(read)] = Plain(YYEOF)
    BY <1>1, <1>5 DEF MeaningInv, RestInv
  <2>2. \/ yyresult = 1 /\ ~Viable(read)
        \/ yyresult = 0 /\ Viable(read) /\ read[Len(read)] = Plain(YYEOF)
    BY <1>3, <1>5, <2>1
  <2>. QED  BY <1>1, <1>2, <2>1, <2>2, ComesToRest
<1>. QED  BY <1>4, <1>5

\* A step that changes nothing.
LEMMA StaysMeant == ASSUME MeaningInv, UNCHANGED parservars PROVE MeaningInv'
<1>1. Outcome' = Outcome /\ (Working' <=> Working)
  BY DEF parservars, effectvars, Outcome, Working
<1>2. /\ yyss' = yyss /\ yyvs' = yyvs /\ yychar' = yychar /\ yylval' = yylval
      /\ yyresult' = yyresult /\ label' = label /\ sym' = sym /\ read' = read
  BY DEF parservars, tokenvars, effectvars
<1>. HIDE DEF Outcome, Working
<1>. QED  BY <1>1, <1>2 DEF MeaningInv, WorkInv, LookInv, RestInv, KillInv

\* The invariant holds initially.
LEMMA MeaningStarts == ParserInit => MeaningInv
<1>. SUFFICES ASSUME ParserInit PROVE MeaningInv
  OBVIOUS
<1>1. /\ yyss = <<0>> /\ yychar = YYEMPTY /\ yyresult = -1 /\ label = "setstate"
      /\ sym = [v \in Vars |-> 0] /\ printed = <<>> /\ read = <<>>
  BY DEF ParserInit
<1>2. Program[<<>>] = Outcome
  <2>1. <<>> \in TokenSeqs
    BY DEF TokenSeqs
  <2>2. PICK e : e = <<>>
    OBVIOUS
  <2>3. Program[e] = ProgramBody(Program, e)
    BY <2>1, <2>2, ProgramUnrolls
  <2>. QED  BY <1>1, <2>2, <2>3 DEF ProgramBody, Start, Outcome
<1>3. Parses(yyss, yyvs, yychar, read, Outcome)
  <2>1. Len(yyss) = 1 /\ TakenOf(yychar, read) = 0
    BY <1>1 DEF TakenOf
  <2>. HIDE DEF Outcome
  <2>. QED  BY <1>1, <1>2, <2>1 DEF Parses
<1>. HIDE DEF Outcome
<1>4. WorkInv /\ LookInv
  BY <1>1, <1>3 DEF WorkInv, LookInv, YYEMPTY
<1>5. RestInv /\ KillInv /\ label \in Labels
  BY <1>1 DEF RestInv, KillInv, Labels
<1>. QED  BY <1>1, <1>4, <1>5 DEF MeaningInv

\* Every step keeps the two invariants.
LEMMA StepMeans ==
    ASSUME ParserInv, MeaningInv, [ParserNext]_parservars
    PROVE  ParserInv' /\ MeaningInv'
<1>1. ParserInv'
  BY StaysIn, EnterKeeps, ExtendKeeps, ExhaustedKeeps, YylexKeeps, AcceptKeeps,
     ShiftKeeps, ReduceKeeps, ErrorKeeps, PopKeeps, ReturnKeeps DEF ParserNext
<1>2. MeaningInv'
  BY StaysMeant, EnterMeans, ExtendMeans, ExhaustedMeans, YylexMeans, AcceptMeans,
     ShiftMeans, ReduceMeans, TrapMeans, ErrorMeans, PopMeans, ReturnMeans DEF ParserNext
<1>. QED  BY <1>1, <1>2

\* When the parser waits for a token.
LEMMA AskingNow ==
    ASSUME ParserInv, MeaningInv, Asks
    PROVE  /\ Viable(read) /\ Outcome = Program[read]
           /\ \A i \in DOMAIN read : read[i].kind # YYEOF
<1>1. Working /\ NeedsToken /\ yychar = YYEMPTY
  BY DEF Asks, Working
<1>2. /\ Setting(yyss, yyvs, yychar, read, Outcome) /\ Top = yyss[Len(yyss)] /\ (Len(yyss) = 1 <=> Top = 0)
      /\ Top \in Asking
  BY <1>1, SettingNow, Decides
<1>3. Len(yyss) # 1
  BY <1>2 DEF Asking
<1>4. Parses(yyss, yyvs, yychar, read, Outcome)
  BY <1>1, WorkingNow
<1>. HIDE DEF Outcome
<1>5. PICK b, c : Stands(yyss, yyvs, yychar, read, Outcome, b, c)
  BY <1>3, <1>4 DEF Parses
<1>6. Viable(read) /\ Outcome = Program[read]
  BY <1>1, <1>2, <1>3, <1>5, AskFine
<1>7. \A i \in 1 .. Len(read) : Kind(read, i) # "eof"
  BY <1>1, <1>4 DEF Parses, TakenOf
<1>8. DOMAIN read = 1 .. Len(read)
  BY DEF ParserInv, TokenInv
<1>. QED  BY <1>6, <1>7, <1>8 DEF Kind, YYEOF

\* The invariants imply what the run checks.
LEMMA MeaningRejects == ASSUME ParserInv, MeaningInv PROVE RejectsInTime
<1>1. yyresult \in {0, 1} => label \in {"return", "exit"}
  BY DEF MeaningInv, WorkInv, RestInv, Labels, Working
<1>2. yyresult \in {0, 1} => RestInv /\ yyresult # 2
  BY DEF MeaningInv
<1>3. yyresult = 0 => Viable(read) /\ read[Len(read)] = Plain(YYEOF)
  BY <1>1, <1>2 DEF RestInv
<1>4. yyresult = 1 => ~Viable(read)
  BY <1>1, <1>2 DEF RestInv
<1>. QED  BY <1>3, <1>4, AskingNow DEF RejectsInTime

\* The same for what is printed and stored.
LEMMA MeaningComputes == ASSUME ParserInv, MeaningInv PROVE Computes
<1>1. AtRest /\ yyresult # 2 => Outcome = Program[read]
  <2>1. label \in {"return", "exit"} /\ yyresult # 2 => Outcome = Program[read]
    BY DEF MeaningInv, RestInv
  <2>. QED  BY <2>1, AskingNow DEF AtRest
<1>2. Outcome = Program[read] => printed = Meaning.printed /\ sym = Meaning.sym /\ ~Meaning.trapped
  <2>1. Outcome.printed = printed /\ Outcome.sym = sym /\ Outcome.trapped = FALSE
    BY DEF Outcome
  <2>. HIDE DEF Outcome
  <2>. QED  BY <2>1 DEF Meaning
<1>3. label = "killed" =>
          \E i \in 1 .. Len(read), j \in 1 .. Len(read) :
              IsExpr[SubSeq(read, i, j)] /\ Value(sym)[SubSeq(read, i, j)] = {}
  BY DEF MeaningInv, KillInv
<1>. HIDE DEF Outcome
<1>. QED  BY <1>1, <1>2, <1>3 DEF Computes

\* For every input and every size of the stacks: yyparse() asks for another token only
\* while what it has read is the beginning of a program of calc.y, returns 0 only at the
\* end of one, and 1 only when the last token read cannot be there.
THEOREM RejectsAlwaysInTime == ParserSpec => []RejectsInTime
<1>1. ParserInv /\ MeaningInv /\ [ParserNext]_parservars => ParserInv' /\ MeaningInv'
  BY StepMeans
<1>2. ParserInv /\ MeaningInv => RejectsInTime
  BY MeaningRejects
<1>. QED  BY <1>1, <1>2, InvStarts, MeaningStarts, PTL DEF ParserSpec

\* For every input, every width of an int and every size of the stacks: whenever yyparse()
\* waits for a token or has ended, what was printed and stored is what the lines of calc.y
\* mean, with %left's precedences, and the program is killed only by a division in it.
THEOREM AlwaysComputes == ParserSpec => []Computes
<1>1. ParserInv /\ MeaningInv /\ [ParserNext]_parservars => ParserInv' /\ MeaningInv'
  BY StepMeans
<1>2. ParserInv /\ MeaningInv => Computes
  BY MeaningComputes
<1>. QED  BY <1>1, <1>2, InvStarts, MeaningStarts, PTL DEF ParserSpec

=============================================================================
