\* Control-C at any step, transactions of the user, an OID above the ints.
CONSTANTS
    Oids <- MCBig
    IntMax <- MCIntMax
    UserTransactions = TRUE
    Interactive = TRUE
SPECIFICATION Spec
INVARIANTS LInv RowsHaveObjects
PROPERTIES   ImplementsRoutines
