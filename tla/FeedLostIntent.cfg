CONSTANTS
  w1 = w1
  w2 = w2
  NoWorker = NoWorker
  Workers = {w1, w2}
  Kind = "static"
  MaxSeq = 2
  MaxRefresh = 0
  MaxRevision = 2
  MaxFaults = 1
  MaxCrashes = 0
  MaxOutside = 0
  Collects = FALSE
  AlertsChannels = 0
  RealtimeCapacity = 2
SPECIFICATION Spec
INVARIANT NewestIntentStaysActive
CHECK_DEADLOCK FALSE
