SPECIFICATION Spec
CONSTANTS
  panel = panel
  icon = icon
  cell = cell
  Component = {panel, icon}
  Panel = {panel}
  Room = {cell}
  RoomOf <- Joins
  Created = {cell}
  Retries = 1
  MaxMounts = 2
  MaxEvents = 1
INVARIANTS
  TypeOK
  RoomsAreSubscribed
PROPERTIES
  SessionFollows
  UserIsListed
CHECK_DEADLOCK FALSE
