\* exist_des after a rollback.
CONSTANTS
    Oids <- MCSmall
    IntMax <- MCIntMax
    UserTransactions = TRUE
    Interactive = FALSE
SPECIFICATION Spec
PROPERTIES TableAfterImport
