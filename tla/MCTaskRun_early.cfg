SPECIFICATION Spec
CONSTANTS
  walk = walk
  resize = resize
  notify = notify
  other = other
  ignored = ignored
  Action <- Jobs
  Ignored = ignored
  RootActions <- ChainRoots
  Chained <- ChainChained
  OnFail <- NoOnFail
  Selector <- PlainSelector
  Filters <- PassAll
  Outcomes <- AllOk
  Registered <- Jobs
  Delegated = {}
  BreakAfter = {}
  MaxSelect = 2
  Manual = TRUE
PROPERTIES
  FinishedIsLast
