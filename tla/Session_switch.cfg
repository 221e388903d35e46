\* Control-C while -d has switched.
CONSTANTS
    Conn <- MCConn
    Name <- MCName
    Prefixes <- MCNoPrefixes
    Interactive = TRUE
    BigOids = FALSE
    NoColumns = FALSE
    IntegerHosts = FALSE
SPECIFICATION Spec
PROPERTIES SwitchIsTemporary
\* exit(2) after a lost connection stops the shell.
CHECK_DEADLOCK FALSE
