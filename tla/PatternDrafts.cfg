CONSTANTS
  a = a
  b = b
  Sections = 2
  Points = {a, b}
  MaxPoints = 2
  Saved <- MCSaved
  Shared <- MCShared
  Routed <- MCRouted
  Legs <- MCLegs
  Imported <- MCImported
  MaxEvents = 3
  MaxClicks = 2
  MaxDrops = 1
SPECIFICATION Spec
INVARIANTS GuardKnowsDrafts SaveWillSettle UndoWalksBack
CHECK_DEADLOCK FALSE
