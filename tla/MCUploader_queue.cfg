SPECIFICATION Spec
CONSTANTS
  photos = photos
  report = report
  video = video
  notes = notes
  Session <- Two
  File = {video, report, notes}
  Folder = {photos}
  Place <- InOrder
  SessionOf <- Dropped
  Within <- In
  Existing = {photos}
  Big = {video}
  Refused = {}
  Policy = "alert"
  Answers = {"rename", "overwrite"}
  AutoStart = TRUE
  Slots = 1
  MaxRetries = 2
  Pausable = TRUE
  Abortable = {video}
  Retriable = {report}
  Removable = {photos}
  Clears = {"all"}
  MaxProcess = 2
  MaxFaults = 1
INVARIANTS
  TypeOK
  CountsTransfers
PROPERTIES
  
  Drains
  ImplementsQueue
CHECK_DEADLOCK FALSE
