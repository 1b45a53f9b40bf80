SPECIFICATION Spec
CONSTANTS
  None = None
  Payload <- MCPayload
  Nearby <- MCNearby
  Inactive <- MCInactive
  Typed <- MCTyped
  Theirs <- MCTheirs
  MaxEvents = 3
  MaxOthers = 2
  MaxDrops = 1
CONSTRAINT DropOrSecondSave
INVARIANTS FormIsTheDraft BlockedUntilAnswered MapIsCurrent ContextIsCurrent
PROPERTIES LeavingAsks SavesKeepOthers
CHECK_DEADLOCK FALSE
