SPECIFICATION Spec
CONSTANTS
  None = None
  Trips <- MCTrips
  Stops <- MCStops
  Clearable <- MCClearable
  Start <- MCStart
  Typed <- MCTyped
  MaxEvents = 3
  MaxOthers = 2
INVARIANTS RovingCursor ReadingIsOfTheText OwnWritesShow
PROPERTY UndoKeepsOthers
CHECK_DEADLOCK FALSE
