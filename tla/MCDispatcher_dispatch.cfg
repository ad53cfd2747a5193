SPECIFICATION Spec
CONSTANTS
  clean = clean
  r1 = r1
  r2 = r2
  r3 = r3
  Job <- OneJob
  Root <- Roots
  Child <- Children
  MaxConcurrency <- Concurrency
  DefaultMaximumWorkers = 1
  AutoStart = {}
  Known <- OneJob
  Puts <- Once
  Deletes <- OneJob
  Triggers <- Once
  MaxDispatchers = 3
INVARIANTS
  TypeOK
  OneRunnablePerWorker
  RegisterHasRoom
  ActiveIsRunning
PROPERTIES
  
  Completes
  ListenerGoesOn
CHECK_DEADLOCK FALSE
