SPECIFICATION Spec
CONSTANTS
  clean = clean
  t1 = t1
  t2 = t2
  NoTask = NoTask
  Job = {clean}
  Task <- TwoTasks
  JobOf <- OfClean
  Updates <- Reruns
  StartTime <- Starts
  AutoClean = {}
  Removable = {}
  Erasable = {}
  BuffMax = 3
  PruneLimit = 1
  Operations = {}
  MaxFailures = 0
  MaxRestarts = 0
  MaxDeletions = 0
INVARIANTS
  BufferedIsStored
PROPERTIES
  
  LastIsStored
CHECK_DEADLOCK FALSE
