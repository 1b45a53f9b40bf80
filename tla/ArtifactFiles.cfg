CONSTANTS
  d1 = d1
  d2 = d2
  p1 = p1
  p2 = p2
  NoOne = NoOne
  Downloaders = {d1, d2}
  Pinners = {p1, p2}
  Renewers = {p1, p2}
  OwnerOf <- MCOwnerOf
  Slots = {"main"}
  Ttl = 2
  ClaimTicks = 1
  PinTicks = 1
  MaxWait = 1
  MaxDamage = 1
  MaxRemovalCrashes = 1
SPECIFICATION ArtifactSpec
INVARIANT OneDownloadAtATime
PROPERTIES DownloadsOutliveExpiry LivePinEndsWithItsOwner
CHECK_DEADLOCK FALSE
SYMMETRY Symmetry
