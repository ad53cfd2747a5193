SPECIFICATION Spec
CONSTANTS
  Passwords = {"secret"}
  Mandates = {TRUE, FALSE}
  MaxRequests = 3
  MaxFailures = 0
INVARIANTS
  CreatesWhenNone
CHECK_DEADLOCK FALSE
