\* A terminal: Control-C at any step, a connection named def, OIDs that are
\* no ints, tables without columns, integers as host variables.
CONSTANTS
    Conn <- MCConn
    Name <- MCPrefixName
    Prefixes <- MCPrefixes
    Interactive = TRUE
    BigOids = TRUE
    NoColumns = TRUE
    IntegerHosts = TRUE
SPECIFICATION Spec
INVARIANTS SInv RunsWhereTold HandlerIsRemoved
PROPERTIES SwitchIsUndone FailureHasCode CancelReachesQuery StepsOfConnections
\* exit(2) after a lost connection stops the shell.
CHECK_DEADLOCK FALSE
