\* Any text without a slip, Control-C and Control-D at any time.
CONSTANTS
    SQL_MAXLEN <- MCMaxLen
    MaxDepth <- MCMaxDepth
    Careless = FALSE
SPECIFICATION Spec
INVARIANTS RInv StatementIsOneWord
PROPERTIES EndsWhereWritten
