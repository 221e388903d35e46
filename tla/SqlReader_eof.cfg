\* Control-D in a statement.
CONSTANTS
    SQL_MAXLEN <- MCMaxLen
    MaxDepth <- MCMaxDepth
    Careless = FALSE
SPECIFICATION Spec
INVARIANTS AbandonedIsNotRun
