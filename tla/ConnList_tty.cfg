\* A terminal: SIGINT at any time, an internal name used as a connect name,
\* version queries that fail.
CONSTANTS
    Names <- MCAliasNames
    Versions <- MCVersions
    MaxConn = 3
    Interactive = TRUE
    Fallible = TRUE
SPECIFICATION Spec
INVARIANTS IInv
PROPERTIES ImplementsConnSteps WalkShrinks
\* Nothing is said of a list that a Control-C has torn.
CHECK_DEADLOCK FALSE
