\* Stacks that are extended twice, the second time to a size that is no
\* multiple of the first; 4-bit ints.
SPECIFICATION ParserSpec
CONSTANTS
    Vars = {0}
    Half = 8
    Numbers = {3}
    YYINITDEPTH = 3
    YYMAXDEPTH = 8
    MaxTokens = 7
INVARIANTS
    Computes
    RejectsInTime
    StacksFit
CHECK_DEADLOCK FALSE
