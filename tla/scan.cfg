CONSTANTS
    Texts <- AllTexts
    MaxLen = 5
    YY_BUF_SIZE = 2
    YY_READ_BUF_SIZE = 2
    SizeT = 64
SPECIFICATION Spec
INVARIANTS BufferFits PromptRead EofReadOnce
PROPERTY Streams
CHECK_DEADLOCK FALSE
