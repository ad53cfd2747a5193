SPECIFICATION Spec
CONSTANTS
  walk = walk
  resize = resize
  notify = notify
  other = other
  ignored = ignored
  Action <- Jobs
  Ignored = ignored
  RootActions <- ChainRoots
  Chained <- ChainChained
  OnFail <- NoOnFail
  Selector <- FanSelector
  Filters <- PassAll
  Outcomes <- AllOk
  Registered <- Jobs
  Delegated = {}
  BreakAfter = {}
  MaxSelect = 2
  Manual = TRUE
INVARIANTS
  TypeOK
  RCCountsLive
  FinishedMeansIdle
  SettledStatus
  ManualRunReports
PROPERTIES
  Returns
  StoreCatchesUp
