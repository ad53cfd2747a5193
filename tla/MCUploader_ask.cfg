SPECIFICATION Spec
CONSTANTS
  photos = photos
  report = report
  video = video
  notes = notes
  Session <- Two
  File = {video, report}
  Folder = {photos}
  Place <- InOrder
  SessionOf <- Dropped
  Within <- In
  Existing = {photos}
  Big = {video}
  Refused = {}
  Policy = "alert"
  Answers = {"rename"}
  AutoStart = TRUE
  Slots = 1
  MaxRetries = 2
  Pausable = TRUE
  Abortable = {video}
  Retriable = {}
  Removable = {}
  Clears = {}
  MaxProcess = 2
  MaxFaults = 1
INVARIANTS
  AskedBeforeSent
CHECK_DEADLOCK FALSE
