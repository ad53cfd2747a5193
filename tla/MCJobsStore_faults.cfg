SPECIFICATION Spec
CONSTANTS
  clean = clean
  t1 = t1
  t2 = t2
  NoTask = NoTask
  Job = {clean}
  Task <- TwoTasks
  JobOf <- OfClean
  Updates <- Both
  StartTime <- Starts
  AutoClean = {clean}
  Removable = {clean}
  Erasable = {t1}
  BuffMax = 1
  PruneLimit = 1
  Operations = {"stuck", "prune", "clean"}
  MaxFailures = 1
  MaxRestarts = 1
  MaxDeletions = 1
INVARIANTS
  TypeOK
PROPERTIES
  CallsReturn
  RunningEnds
  PrunedAreOlder
CHECK_DEADLOCK FALSE
