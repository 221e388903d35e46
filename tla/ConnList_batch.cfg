\* A shell script: no tty, no SIGINT handler, every server answers.
CONSTANTS
    Names <- MCNames
    Versions <- MCVersions
    MaxConn = 4
    Interactive = FALSE
    Fallible = FALSE
SPECIFICATION Spec
INVARIANTS TypeOK ListOK NoDangling DistinctNames CurrentExists VersionOfCurrent
PROPERTIES SuccessMeansDone StatementEnds ImplementsConnSpec
