----------------------------- MODULE CalcGrammar -----------------------------
(***************************************************************************)
(* What calc.y says a calculation is, independently of the parser that     *)
(* bison made of it: which sequences of tokens are expressions and         *)
(* statements, what they are worth, and what a sequence of lines does.     *)
(* The grammar is taken as it stands, ambiguous; %left gives the values.   *)
(***************************************************************************)
EXTENDS Integers, Sequences, FiniteSets

CONSTANTS Vars,     \* the variables, indices into sym
          Half      \* ints range over -Half .. Half - 1

ASSUME HalfAssumption == Half \in Nat \ {0}

\* A token, with the value yylval has for INTEGER and VARIABLE.
Tok(k, v) == [kind |-> k, val |-> v]
Plain(k) == Tok(k, 0)
Additive == {"+", "-"}
Multiplicative == {"*", "/"}
Operators == Additive \cup Multiplicative

Words ==
    [kind : {"INTEGER"}, val : Int] \cup [kind : {"VARIABLE"}, val : Vars]
    \cup [kind : Operators \cup {"=", "(", ")", "nl", "eof"}, val : {0}]
TokenSeqs == Seq(Words)
Memories == [Vars -> Int]
Outcomes == [printed : Seq(Int), sym : Memories, trapped : BOOLEAN]

\* The int a signed 2-complement result is cut to, and C's division, which
\* rounds towards zero.
IntWrap(x) == ((x + Half) % (2 * Half)) - Half
Magnitude(x) == IF x < 0 THEN -x ELSE x
Quotient(a, b) ==
    LET q == Magnitude(a) \div Magnitude(b) IN IF (a < 0) = (b < 0) THEN q ELSE -q

\* The processor's division traps for 0 and for INT_MIN / -1: no result.
Traps(op, a, b) == op = "/" /\ (b = 0 \/ (a = -Half /\ b = -1))
Compute(op, a, b) ==
    CASE op = "+" -> IntWrap(a + b)
      [] op = "-" -> IntWrap(a - b)
      [] op = "*" -> IntWrap(a * b)
      [] op = "/" -> Quotient(a, b)

From(s, i) == SubSeq(s, i, Len(s))
Upto(s, i) == SubSeq(s, 1, i)
Inner(s) == SubSeq(s, 2, Len(s) - 1)
Kind(s, i) == s[i].kind

\* expr
IsExpr[s \in TokenSeqs] ==
    \/ Len(s) = 1 /\ Kind(s, 1) \in {"INTEGER", "VARIABLE"}
    \/ Len(s) >= 3 /\ Kind(s, 1) = "(" /\ Kind(s, Len(s)) = ")" /\ IsExpr[Inner(s)]
    \/ \E i \in 2 .. Len(s) - 1 :
          Kind(s, i) \in Operators /\ IsExpr[Upto(s, i - 1)] /\ IsExpr[From(s, i + 1)]

\* statement
IsAssignment(s) ==
    Len(s) >= 3 /\ Kind(s, 1) = "VARIABLE" /\ Kind(s, 2) = "=" /\ IsExpr[From(s, 3)]
IsStatement(s) == IsExpr[s] \/ IsAssignment(s)

\* Where an expression is taken apart last: at the last operator of the lowest
\* precedence that is outside parentheses.
Count(s, i, k) == Cardinality({j \in 1 .. i : Kind(s, j) = k})
Depth(s, i) == Count(s, i, "(") - Count(s, i, ")")
Outside(s, K) == {i \in 2 .. Len(s) - 1 : Kind(s, i) \in K /\ Depth(s, i) = 0}
Root(s) ==
    LET R == IF Outside(s, Additive) # {} THEN Outside(s, Additive)
             ELSE Outside(s, Multiplicative)
    IN {i \in R : \A j \in R : j <= i}

\* The value of an expression: a set of one int, or {} if a division traps.
Results(op, L, R) ==
    {Compute(op, p[1], p[2]) : p \in {q \in L \X R : ~Traps(op, q[1], q[2])}}

Value(mem) ==
    LET V[s \in TokenSeqs] ==
            IF Root(s) # {}
            THEN LET i == CHOOSE i \in Root(s) : TRUE
                 IN Results(Kind(s, i), V[Upto(s, i - 1)], V[From(s, i + 1)])
            ELSE IF s = <<>> THEN {}
            ELSE IF Kind(s, 1) = "INTEGER" THEN {s[1].val}
            ELSE IF Kind(s, 1) = "VARIABLE" THEN {mem[s[1].val]}
            ELSE V[Inner(s)]
    IN V

\* What one line does: a complete statement is executed as soon as the token
\* behind it does not continue it, whether that token is the newline or not.
Executable(line) ==
    {k \in 1 .. Len(line) - 1 :
        /\ IsStatement(Upto(line, k))
        /\ Kind(line, k + 1) \notin Operators
        /\ ~(k = 1 /\ Kind(line, 1) = "VARIABLE" /\ Kind(line, 2) = "=")}

Do(line, st) ==
    IF Executable(line) = {} THEN st
    ELSE LET s == Upto(line, CHOOSE k \in Executable(line) : TRUE)
             v == Value(st.sym)[IF IsExpr[s] THEN s ELSE From(s, 3)]
         IN IF v = {} THEN [st EXCEPT !.trapped = TRUE]
            ELSE IF IsExpr[s] THEN [st EXCEPT !.printed = Append(@, CHOOSE x \in v : TRUE)]
            ELSE [st EXCEPT !.sym[s[1].val] = CHOOSE x \in v : TRUE]

\* The last newline among the first n tokens, 0 if there is none.
LastBreak(s, n) ==
    CHOOSE i \in 0 .. n :
        /\ i = 0 \/ Kind(s, i) = "nl"
        /\ \A j \in i + 1 .. n : Kind(s, j) # "nl"

\* program: what the lines of s do, one after the other.
Program[s \in TokenSeqs] ==
    IF s = <<>> THEN [printed |-> <<>>, sym |-> [v \in Vars |-> 0], trapped |-> FALSE]
    ELSE LET b == LastBreak(s, Len(s) - 1)
             st == Program[Upto(s, b)]
         IN IF st.trapped THEN st ELSE Do(From(s, b + 1), st)

\* s is the beginning of some program: its lines are statements, and an operand
\* and closing parentheses can make one of the rest.
Closing(d) == [i \in 1 .. d |-> Plain(")")]
CanBegin(line) ==
    \E d \in 0 .. Len(line), o \in {<<>>, <<Plain("INTEGER")>>} :
        IsStatement(line \o o \o Closing(d))

Viable(s) ==
    LET rest == From(s, LastBreak(s, Len(s)) + 1)
    IN /\ \A n \in 1 .. Len(s) :
             Kind(s, n) = "nl" => IsStatement(SubSeq(s, LastBreak(s, n - 1) + 1, n - 1))
       /\ rest \in {<<>>, <<Plain("eof")>>} \/ CanBegin(rest)

=============================================================================
