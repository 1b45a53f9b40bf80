CONSTANTS
  curb = curb
  bay = bay
  new = new
  None = None
  Stops = {curb, bay, new}
  At <- MCAt
  Kind <- MCKind
  Lines <- MCLines
  MaxPlace = 1
  MaxEvents = 3
SPECIFICATION Spec
INVARIANTS ScreenIsCurrent PanelListsTheView PinIsThePlacement
PROPERTY SavesKeepOtherPanels
CHECK_DEADLOCK FALSE
