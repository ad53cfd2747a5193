SPECIFICATION Spec
CONSTANTS
  Passwords = {"secret"}
  Mandates = {TRUE, FALSE}
  MaxRequests = 3
  MaxFailures = 1
INVARIANTS
  TypeOK
  StoresAgree
  
PROPERTIES
  SavingEnds
CHECK_DEADLOCK FALSE
