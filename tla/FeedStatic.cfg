CONSTANTS
  w1 = w1
  w2 = w2
  NoWorker = NoWorker
  Workers = {w1, w2}
  Kind = "static"
  MaxSeq = 3
  MaxRefresh = 0
  MaxRevision = 2
  MaxFaults = 2
  MaxCrashes = 1
  MaxOutside = 1
  Collects = TRUE
  AlertsChannels = 0
  RealtimeCapacity = 2
SPECIFICATION Spec
INVARIANTS ReceiptsWereServed ServedIsComplete
PROPERTIES ServedNeverGoesBack OnlyTheHolderDecides
SYMMETRY Symmetry
CHECK_DEADLOCK FALSE
