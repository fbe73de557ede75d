----------------------------- MODULE TokenStream -----------------------------
(***************************************************************************)
(* What the rules of calc.l promise of yylex(): the text is cut from left  *)
(* to right into the longest tokens, blanks are dropped, every other       *)
(* character is reported and dropped, and the end of the text is reported  *)
(* as often as it is asked for.                                            *)
(***************************************************************************)
EXTENDS Integers, Sequences

VARIABLES text,     \* the characters of the input
          pos,      \* how many of them have been dealt with
          tok,      \* the last token returned, with its characters
          reported, \* how many characters were reported as invalid
          failed    \* reading the input failed

vars == <<text, pos, tok, reported, failed>>

Digit == {"1"}
Letter == {"a"}
Operator == {"nl", "+"}
Blank == {"sp"}

NoToken == [kind |-> "none", chars |-> <<>>]
EndToken == [kind |-> "eof", chars |-> <<>>]

Init == pos = 0 /\ tok = NoToken /\ reported = 0 /\ failed = FALSE

Char == text[pos + 1]
Take(n, kind) ==
    /\ tok' = [kind |-> kind, chars |-> SubSeq(text, pos + 1, pos + n)]
    /\ pos' = pos + n
    /\ UNCHANGED <<text, reported, failed>>

\* [0-9]+, as long as it goes.
Integer ==
    \E n \in 1 .. Len(text) - pos :
        /\ \A i \in 1 .. n : text[pos + i] \in Digit
        /\ pos + n < Len(text) => text[pos + n + 1] \notin Digit
        /\ Take(n, "INTEGER")
Variable == pos < Len(text) /\ Char \in Letter /\ Take(1, "VARIABLE")
Single == pos < Len(text) /\ Char \in Operator /\ Take(1, Char)

Skip == pos < Len(text) /\ Char \in Blank /\ pos' = pos + 1
        /\ UNCHANGED <<text, tok, reported, failed>>

Invalid ==
    /\ pos < Len(text) /\ Char \notin Digit \cup Letter \cup Operator \cup Blank
    /\ pos' = pos + 1 /\ reported' = reported + 1
    /\ UNCHANGED <<text, tok, failed>>

End == pos = Len(text) /\ tok' = EndToken /\ UNCHANGED <<text, pos, reported, failed>>

Scan == ~failed /\ (Integer \/ Variable \/ Single \/ Skip \/ Invalid \/ End)

\* Reading fails; the program ends.
Fail == failed' = TRUE /\ UNCHANGED <<text, pos, tok, reported>>

Next == Scan \/ Fail

Spec == Init /\ [][Next]_vars /\ WF_vars(Scan)

=============================================================================
