CONSTANTS
  gate = gate
  stairs = stairs
  track = track
  hall = hall
  platform = platform
  None = None
  Stops = {gate, stairs, track}
  LevelOf <- MCLevelOf
  First = hall
  MaxPlace = 1
  Reach = 1
  At <- MCAt
  MaxEvents = 3
  MaxOthers = 1
SPECIFICATION Spec
INVARIANTS NothingLeftMoved SearchedPointIsCentered
PROPERTIES DropsAreRedrawn DropsKeepOthers
CHECK_DEADLOCK FALSE
