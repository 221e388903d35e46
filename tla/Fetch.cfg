\* SELECT INTO and FETCH INTO, one statement after the other, until a freed
\* list is read: the shell may stop there
CONSTANTS
  Var <- MCVar
  MaxList = 2
  MaxFields = 2
SPECIFICATION Spec
INVARIANTS
  FInv
  RightFields
  LengthIsTold
  ListIsAlive
  ReadsAsDocumented
CHECK_DEADLOCK FALSE
