CONSTANTS
  w1 = w1
  w2 = w2
  NoWorker = NoWorker
  Workers = {w1, w2}
  Kind = "alerts"
  MaxSeq = 6
  MaxRefresh = 1
  MaxRevision = 1
  MaxFaults = 1
  MaxCrashes = 0
  MaxOutside = 0
  Collects = FALSE
  AlertsChannels = 2
  RealtimeCapacity = 2
SPECIFICATION FairSpec
PROPERTY AcceptedAlertsAreServed
CHECK_DEADLOCK FALSE
