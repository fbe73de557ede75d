------------------------------ MODULE MCScanner ------------------------------
(* Every text of at most MaxLen characters over one character of each class:   *)
(* a NUL, an invalid one, a blank, a newline, a digit and a letter; with an     *)
(* operator among them it is one character shorter.                             *)
EXTENDS Scanner

CONSTANT MaxLen

Alphabet == {"NUL", "?", "sp", "nl", "1", "a"}
TextsOver(chars, max) == UNION {[1 .. n -> chars] : n \in 0 .. max}
AllTexts == TextsOver(Alphabet, MaxLen) \union TextsOver(Alphabet \union {"+"}, MaxLen - 1)

=============================================================================
