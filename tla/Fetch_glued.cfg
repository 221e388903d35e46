\* an indicator glued to its variable, as the guide has it
CONSTANTS
  Var <- MCVar
  MaxList = 2
  MaxFields = 2
SPECIFICATION Spec
INVARIANT GluedIsRead
