SPECIFICATION Spec
CONSTANTS
  walk = walk
  resize = resize
  notify = notify
  other = other
  ignored = ignored
  Action <- Jobs
  Ignored = ignored
  RootActions <- ChainRoots
  Chained <- ChainChained
  OnFail <- BranchOnFail
  Selector <- BranchSelector
  Filters <- BranchFilters
  Outcomes <- Faulty
  Registered <- AllButNotify
  Delegated = {other}
  BreakAfter = {resize}
  MaxSelect = 1
  Manual = FALSE
INVARIANTS
  SettledStatus
PROPERTIES
  Returns
