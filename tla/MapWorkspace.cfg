CONSTANTS
  platform = platform
  mezzanine = mezzanine
  here = here
  there = there
  NoPlace = NoPlace
  Levels = {platform, mezzanine}
  Places = {here, there}
  First = platform
  Saved <- MCSaved
  Station = there
  Anchored <- MCAnchored
  Inferred <- MCInferred
  MaxEvents = 3
  MaxOthers = 1
SPECIFICATION Spec
INVARIANT MeasuringWillEnd
PROPERTIES WritesComeFromTheirLevel RestoreNeverClobbers
CHECK_DEADLOCK FALSE
