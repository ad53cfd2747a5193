SPECIFICATION Spec
CONSTANTS
  Job = {"clean"}
  Schedules <- Mixed
  FiveMinutes = 1
  MaxEvents = 2
  MaxTime = 8
INVARIANTS
  TypeOK
  
  RepeatRespected
PROPERTIES
  Spaced
CHECK_DEADLOCK FALSE
