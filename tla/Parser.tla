------------------------------- MODULE Parser -------------------------------
(***************************************************************************)
(* yyparse(), the table-driven parser bison made of calc.y, with its       *)
(* actions, its growing stacks, its treatment of errors and main().        *)
(*                                                                         *)
(* yylex() is what Scanner shows the scanner to be: a source of tokens     *)
(* that ends with YYEOF.  The tokens are chosen one by one, so that every  *)
(* input of at most MaxTokens tokens occurs, and an input is only followed *)
(* as far as the parser reads it.                                          *)
(***************************************************************************)
EXTENDS CalcGrammar

CONSTANTS Numbers,      \* the values INTEGER tokens have
          YYINITDEPTH, YYMAXDEPTH,
          MaxTokens     \* bound on the tokens of an input

\* yylval is an int, what atoi() makes of the digits.
ASSUME NumbersAssumption == Numbers \subseteq -Half .. Half - 1

ASSUME DepthAssumption ==
    /\ YYINITDEPTH \in Nat /\ YYINITDEPTH > 1
    /\ YYMAXDEPTH \in Nat /\ YYINITDEPTH <= YYMAXDEPTH

VARIABLES
    yyss, yyvs,     \* the two stacks, top last; yyvs[1] is never initialised
    yystacksize,
    yychar, yylval, \* the look-ahead token's kind, or YYEMPTY, and the value
    yyerrstatus, yynerrs,
    yyresult,
    label,          \* the label yyparse() is at
    sym, printed,   \* the variables and the numbers printed
    read            \* history: the tokens yylex() returned

tokenvars == <<yychar, yylval, read>>
errvars == <<yyerrstatus, yynerrs>>
effectvars == <<sym, printed>>
parservars == <<yyss, yyvs, yystacksize, tokenvars, errvars, yyresult, label, effectvars>>

-----------------------------------------------------------------------------
(* The tables, with C's indices from 0. *)

Elem(table, i) == table[i + 1]

YYEMPTY == "empty"
YYEOF == "eof"
YYFINAL == 2
YYLAST == 31
YYNTOKENS == 13
YYTERROR == 1
YYPACT_NINF == -7

\* The kinds of tokens, and their columns in the table.
Kinds == {"eof", "INTEGER", "VARIABLE", "+", "-", "*", "/", "nl", "=", "(", ")"}
yytranslate ==
    [k \in Kinds |->
        CASE k = "eof" -> 0 [] k = "INTEGER" -> 3 [] k = "VARIABLE" -> 4 [] k = "+" -> 5
          [] k = "-" -> 6 [] k = "*" -> 7 [] k = "/" -> 8 [] k = "nl" -> 9 [] k = "=" -> 10
          [] k = "(" -> 11 [] k = ")" -> 12]

yyr1 == <<0, 13, 14, 14, 15, 15, 16, 16, 16, 16, 16, 16, 16>>
yyr2 == <<0, 2, 3, 0, 1, 3, 1, 1, 3, 3, 3, 3, 3>>

yydefact == <<3, 0, 1, 6, 7, 0, 0, 4, 0, 7, 0, 2, 0, 0, 0, 0, 5, 12, 8, 9, 10, 11>>
yydefgoto == <<-1, 1, 6, 7>>

\* Mutation of yypact: expr '+' expr is reduced whatever follows.
yypactFlat ==
    <<-7, 0, -7, -7, -5, 14, -2, 23, 14, -7, 15, -7, 14, 14, 14, 14, 23, -7, -7, -7, -7, -7>>

yypact ==
    <<-7, 0, -7, -7, -5, 14, -2, 23, 14, -7, 15, -7, 14, 14, 14, 14, 23, -7, -6, -6, -7, -7>>
yypgoto == <<-7, -7, -7, 1>>

yytable ==
    <<2, 14, 15, 3, 4, 8, 10, 11, 0, 16, 0, 5, 0, 18, 19, 20, 21, 3, 9, 0,
      12, 13, 14, 15, 0, 5, 0, 17, 12, 13, 14, 15>>
yycheck ==
    <<0, 7, 8, 3, 4, 10, 5, 9, -1, 8, -1, 11, -1, 12, 13, 14, 15, 3, 4, -1,
      5, 6, 7, 8, -1, 11, -1, 12, 5, 6, 7, 8>>

\* yytable has an entry for symbol y at index i.
Hit(i, y) == i \in 0 .. YYLAST /\ Elem(yycheck, i) = y

-----------------------------------------------------------------------------
Top == yyss[Len(yyss)]
Pop(s, n) == SubSeq(s, 1, Len(s) - n)
Arg(len, i) == yyvs[Len(yyvs) - len + i]    \* yyvsp[(i) - (len)]

Jump(from, to) == label = from /\ label' = to

ParserInit ==
    /\ yyss = <<0>> /\ yyvs = <<"undefined">> /\ yystacksize = YYINITDEPTH
    /\ yychar = YYEMPTY /\ yylval = 0
    /\ yyerrstatus = 0 /\ yynerrs = 0 /\ yyresult = -1
    /\ label = "setstate"
    /\ sym = [v \in Vars |-> 0] /\ printed = <<>> /\ read = <<>>

(* yysetstate: the stacks are extended when they have just become full. *)

\* Mutation of Full: the stacks are taken for full only when they are beyond it.
FullLate(size) == size < Len(yyss)

Full(size) == size <= Len(yyss)
Larger == IF 2 * yystacksize > YYMAXDEPTH THEN YYMAXDEPTH ELSE 2 * yystacksize

Enter ==
    /\ ~Full(yystacksize)
    /\ Jump("setstate", "backup")
    /\ UNCHANGED <<yyss, yyvs, yystacksize, tokenvars, errvars, yyresult, effectvars>>

Extend ==
    /\ Full(yystacksize) /\ yystacksize < YYMAXDEPTH
    /\ yystacksize' = Larger
    /\ label = "setstate"
    /\ IF Full(Larger) THEN label' = "return" /\ yyresult' = 1
       ELSE label' = "backup" /\ UNCHANGED yyresult
    /\ UNCHANGED <<yyss, yyvs, tokenvars, errvars, effectvars>>

\* yyexhaustedlab: the stacks have their largest size, or malloc() fails after
\* the new size has been computed.
Exhausted ==
    /\ Full(yystacksize)
    /\ yystacksize' = IF yystacksize < YYMAXDEPTH THEN Larger ELSE yystacksize
    /\ Jump("setstate", "return")
    /\ yyresult' = 2
    /\ UNCHANGED <<yyss, yyvs, tokenvars, errvars, effectvars>>

(* yybackup *)

NeedsToken == Elem(yypact, Top) # YYPACT_NINF
Asks == label = "backup" /\ NeedsToken /\ yychar = YYEMPTY

\* YYLEX, called when there is no look-ahead token.
Tokens ==
    {Tok("INTEGER", n) : n \in Numbers} \cup {Tok("VARIABLE", v) : v \in Vars}
    \cup {Plain(k) : k \in Operators \cup {"=", "(", ")", "nl"}}

Yylex ==
    /\ Asks
    /\ \E t \in Tokens \cup {Plain(YYEOF)} :
          /\ t.kind = YYEOF \/ Len(read) < MaxTokens
          /\ yychar' = t.kind
          /\ yylval' = IF t.kind \in {"INTEGER", "VARIABLE"} THEN t.val ELSE yylval
          /\ read' = Append(read, t)
    /\ UNCHANGED <<yyss, yyvs, yystacksize, errvars, yyresult, label, effectvars>>

\* The state's entry for the look-ahead token.
yytoken == yytranslate[yychar]
TableEntry == Elem(yypact, Top) + yytoken
HasEntry == NeedsToken /\ yychar # YYEMPTY /\ Hit(TableEntry, yytoken)
Decided == NeedsToken => yychar # YYEMPTY

\* Mutation of Accept: the end of the input is accepted in every state.
AcceptAnywhere ==
    /\ NeedsToken /\ yychar = YYEOF
    /\ Jump("backup", "return")
    /\ yyresult' = 0
    /\ UNCHANGED <<yyss, yyvs, yystacksize, tokenvars, errvars, effectvars>>

Accept ==
    /\ HasEntry /\ Elem(yytable, TableEntry) = YYFINAL
    /\ Jump("backup", "return")
    /\ yyresult' = 0
    /\ UNCHANGED <<yyss, yyvs, yystacksize, tokenvars, errvars, effectvars>>

Shift ==
    /\ HasEntry /\ Elem(yytable, TableEntry) \notin {0, YYFINAL}
    /\ Jump("backup", "setstate")
    /\ yyss' = Append(yyss, Elem(yytable, TableEntry))
    /\ yyvs' = Append(yyvs, yylval)
    /\ yychar' = IF yychar # YYEOF THEN YYEMPTY ELSE yychar
    /\ yyerrstatus' = IF yyerrstatus > 0 THEN yyerrstatus - 1 ELSE 0
    /\ UNCHANGED <<yystacksize, yylval, read, yynerrs, yyresult, effectvars>>

(* yydefault, yyreduce *)

\* The state behind a reduction to nonterminal y in state s.
GotoState(s, y) ==
    LET i == Elem(yypgoto, y - YYNTOKENS) + s
    IN IF Hit(i, s) THEN Elem(yytable, i) ELSE Elem(yydefgoto, y - YYNTOKENS)

\* $$ of each rule; $1 by default, and nothing in particular for an empty rule.
Op(r) == <<"+", "-", "*", "/">>[r - 7]
Yyval(r) ==
    CASE r = 7       -> sym[Arg(1, 1)]
      [] r \in 8 .. 11 -> Compute(Op(r), Arg(3, 1), Arg(3, 3))
      [] r = 12      -> Arg(3, 2)
      [] r = 3       -> "undefined"
      [] OTHER       -> Arg(Elem(yyr2, r), 1)

Reducible == Decided /\ ~HasEntry /\ Elem(yydefact, Top) # 0
TrapsNow(r) == r = 11 /\ Traps("/", Arg(3, 1), Arg(3, 3))

Reduce ==
    /\ label = "backup" /\ Reducible
    /\ LET r == Elem(yydefact, Top)
           below == Pop(yyss, Elem(yyr2, r))
       IN /\ ~TrapsNow(r)
          /\ yyss' = Append(below, GotoState(below[Len(below)], Elem(yyr1, r)))
          /\ yyvs' = Append(Pop(yyvs, Elem(yyr2, r)), Yyval(r))
          /\ printed' = IF r = 4 THEN Append(printed, Arg(1, 1)) ELSE printed
          /\ sym' = IF r = 5 THEN [sym EXCEPT ![Arg(3, 1)] = Arg(3, 3)] ELSE sym
    /\ label' = "setstate"
    /\ UNCHANGED <<yystacksize, tokenvars, errvars, yyresult>>

\* The division ends the program.
Trap ==
    /\ label = "backup" /\ Reducible /\ TrapsNow(Elem(yydefact, Top))
    /\ label' = "killed"
    /\ UNCHANGED <<yyss, yyvs, yystacksize, tokenvars, errvars, yyresult, effectvars>>

(* yyerrlab, yyerrlab1 *)

\* yyerror("syntax error"); a token that failed right behind an error would be
\* discarded, or end the parse if it is the end of the input.
SyntaxError ==
    /\ label = "backup" /\ Decided
    /\ IF HasEntry THEN Elem(yytable, TableEntry) = 0 ELSE Elem(yydefact, Top) = 0
    /\ yynerrs' = IF yyerrstatus = 0 THEN yynerrs + 1 ELSE yynerrs
    /\ IF yyerrstatus = 3 /\ yychar = YYEOF
       THEN label' = "return" /\ yyresult' = 1 /\ UNCHANGED <<yychar, yyerrstatus>>
       ELSE /\ label' = "recover" /\ yyerrstatus' = 3
            /\ yychar' = IF yyerrstatus = 3 THEN YYEMPTY ELSE yychar
            /\ UNCHANGED yyresult
    /\ UNCHANGED <<yyss, yyvs, yystacksize, yylval, read, effectvars>>

\* States are popped until one has an entry for the error token, which is
\* shifted; without one the parse is given up.
ErrorEntry == Elem(yypact, Top) + YYTERROR
HandlesError ==
    NeedsToken /\ Hit(ErrorEntry, YYTERROR) /\ Elem(yytable, ErrorEntry) > 0

PopState ==
    /\ label = "recover"
    /\ IF HandlesError
       THEN /\ yyss' = Append(yyss, Elem(yytable, ErrorEntry))
            /\ yyvs' = Append(yyvs, yylval)
            /\ label' = "setstate" /\ UNCHANGED yyresult
       ELSE IF Len(yyss) = 1
       THEN label' = "return" /\ yyresult' = 1 /\ UNCHANGED <<yyss, yyvs>>
       ELSE yyss' = Pop(yyss, 1) /\ yyvs' = Pop(yyvs, 1) /\ UNCHANGED <<label, yyresult>>
    /\ UNCHANGED <<yystacksize, tokenvars, errvars, effectvars>>

\* yyreturn, and main(), which returns 0 whatever the result is.
Return ==
    /\ Jump("return", "exit")
    /\ yyss' = <<0>> /\ yyvs' = Pop(yyvs, Len(yyvs) - 1)
    /\ UNCHANGED <<yystacksize, tokenvars, errvars, yyresult, effectvars>>

ParserNext ==
    \/ Enter \/ Extend \/ Exhausted \/ Yylex \/ Accept \/ Shift \/ Reduce \/ Trap
    \/ SyntaxError \/ PopState \/ Return

ParserSpec == ParserInit /\ [][ParserNext]_parservars

-----------------------------------------------------------------------------
(* Correctness. *)

AtRest == label \in {"return", "exit"} \/ Asks
Meaning == Program[read]

\* Whenever the parser waits for a token or has ended, exactly the statements
\* complete so far have been executed, with the values the grammar gives them:
\* precedence, associativity, wrap-around and division included; a division
\* kills the calculator only if one that traps was written.
Computes ==
    /\ AtRest /\ yyresult # 2 =>
          printed = Meaning.printed /\ sym = Meaning.sym /\ ~Meaning.trapped
    /\ label = "killed" =>
          \E i \in 1 .. Len(read), j \in 1 .. Len(read) :
              IsExpr[SubSeq(read, i, j)] /\ Value(sym)[SubSeq(read, i, j)] = {}

\* The first token that no program could have there is the last that is read,
\* and an error is reported only then.  Nor is anything read behind the end of
\* the input, which on a terminal would wait for more.
RejectsInTime ==
    /\ Asks => Viable(read) /\ \A i \in DOMAIN read : read[i].kind # YYEOF
    /\ yyresult = 0 => Viable(read) /\ read[Len(read)] = Plain(YYEOF)
    /\ yyresult = 1 => ~Viable(read)

\* The two stacks have the same height, below the size allocated, and the
\* height depends on the nesting of the current line only: neither long
\* expressions nor many lines use the stacks up.
Taken == IF yychar = YYEMPTY THEN Len(read) ELSE Len(read) - 1
Nesting == IF Taken > 0 /\ read[Taken].kind = ")" THEN Depth(read, Taken) + 1
           ELSE Depth(read, Taken)
StacksFit ==
    /\ Len(yyvs) = Len(yyss) /\ Len(yyss) <= yystacksize
    /\ label = "backup" => Len(yyss) < yystacksize
    /\ label \in {"setstate", "backup"} /\ (\A i \in DOMAIN read : read[i].kind # "=") =>
          Len(yyss) <= 7 + 5 * Nesting

=============================================================================
